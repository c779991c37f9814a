---------------------------- MODULE DivisionProofs ----------------------------
(***************************************************************************)
(* What the travel network and the division of the work, into clusters and *)
(* among crews, guarantee for every set of rows.                           *)
(***************************************************************************)
EXTENDS TimeExpanded, FiniteSetTheorems, SequenceTheorems, WellFoundedInduction, TLAPS

-----------------------------------------------------------------------------
(* Induction over sets of numbers and over finite sets *)

\* A non-empty set of naturals has a least element.
LEMMA LeastNumber ==
    ASSUME NEW T \in SUBSET Nat, T # {}
    PROVE  \E x \in T : \A y \in T : x <= y
<1> DEFINE R == {ss \in Nat \X Nat : ss[1] < ss[2]}
<1>1. IsWellFoundedOn(R, Nat)
  BY NatLessThanWellFounded, Zenon DEF OpToRel
<1>2. \E x \in T : \A y \in T : ~ (<<y, x>> \in R)
  <2> HIDE DEF R
  <2> QED BY <1>1, WFMin, Zenon
<1>3. PICK x \in T : \A y \in T : ~ (<<y, x>> \in R)
  BY <1>2
<1>4. ASSUME NEW y \in T PROVE x <= y
  <2>1. <<y, x>> \notin R
    BY <1>3
  <2> QED BY <2>1
<1> QED BY <1>4

\* Of the subsets of a finite set for which something fails, one has no such
\* smaller subset.
LEMMA SmallestSubset ==
    ASSUME NEW T, IsFiniteSet(T), NEW Bad \in SUBSET SUBSET T, Bad # {}
    PROVE  \E s \in Bad : IsFiniteSet(s) /\ \A x \in s : s \ {x} \notin Bad
<1>1. \A s \in SUBSET T : IsFiniteSet(s) /\ Cardinality(s) \in Nat
  BY FS_Subset, FS_CardinalityType
<1> DEFINE N == {Cardinality(s) : s \in Bad}
<1>2. PICK n \in N : \A m \in N : n <= m
  <2>1. N \in SUBSET Nat /\ N # {}
    BY <1>1
  <2> HIDE DEF N
  <2> QED BY <2>1, LeastNumber
<1>3. PICK s \in Bad : n = Cardinality(s)
  OBVIOUS
<1>4. ASSUME NEW x \in s, s \ {x} \in Bad PROVE FALSE
  <2>1. Cardinality(s \ {x}) = Cardinality(s) - 1 /\ Cardinality(s) \in Nat
    BY <1>1, FS_RemoveElement
  <2>2. Cardinality(s) <= Cardinality(s \ {x})
    BY <1>2, <1>3, <1>4
  <2> QED BY <2>1, <2>2
<1> QED BY <1>1, <1>4

\* A finite set that is not empty has a least element in any total order R.
First(R, s, x) == x \in s /\ \A y \in s : y = x \/ <<x, y>> \in R
LEMMA FirstExists ==
    ASSUME NEW T, IsFiniteSet(T), T # {}, NEW R,
           \A x, y \in T : x = y \/ <<x, y>> \in R \/ <<y, x>> \in R,
           \A x, y, z \in T : <<x, y>> \in R /\ <<y, z>> \in R => <<x, z>> \in R
    PROVE  \E x : First(R, T, x)
<1> DEFINE Bad == {s \in SUBSET T : s # {} /\ \A x : ~First(R, s, x)}
<1> SUFFICES ASSUME Bad # {} PROVE FALSE
  OBVIOUS
<1>1. PICK s \in Bad : \A x \in s : s \ {x} \notin Bad
  <2>1. Bad \in SUBSET SUBSET T
    OBVIOUS
  <2> HIDE DEF Bad
  <2> QED BY <2>1, SmallestSubset
<1>2. PICK x \in s : TRUE
  OBVIOUS
<1>3. CASE s \ {x} = {}
  <2>1. First(R, s, x)
    BY <1>3 DEF First
  <2> QED BY <2>1
<1>4. CASE s \ {x} # {}
  <2>1. PICK y : First(R, s \ {x}, y)
    BY <1>1, <1>4
  <2>2. CASE <<y, x>> \in R
    <3>1. First(R, s, y)
      BY <2>1, <2>2 DEF First
    <3> QED BY <3>1
  <2>3. CASE <<y, x>> \notin R
    <3>1. <<x, y>> \in R /\ y \in s /\ s \in SUBSET T
      BY <2>1, <2>3 DEF First
    <3>2. First(R, s, x)
      BY <2>1, <3>1 DEF First
    <3> QED BY <3>2
  <2> QED BY <2>2, <2>3
<1> QED BY <1>3, <1>4

\* The greatest and the least of a finite set of integers.
LEMMA MaxIs ==
    ASSUME NEW S \in SUBSET Int, IsFiniteSet(S), S # {}
    PROVE  Max(S) \in S /\ Max(S) \in Int /\ \A y \in S : Max(S) >= y
<1> DEFINE R == {p \in Int \X Int : p[1] >= p[2]}
<1>1. \E x : First(R, S, x)
  <2>1. \A x, y \in S : x = y \/ <<x, y>> \in R \/ <<y, x>> \in R
    OBVIOUS
  <2>2. \A x, y, z \in S : <<x, y>> \in R /\ <<y, z>> \in R => <<x, z>> \in R
    OBVIOUS
  <2> HIDE DEF R
  <2> QED BY <2>1, <2>2, FirstExists
<1>2. PICK x : First(R, S, x)
  BY <1>1
<1>3. x \in S /\ \A y \in S : x >= y
  <2>1. x \in S /\ \A y \in S : y = x \/ <<x, y>> \in R
    BY <1>2 DEF First
  <2>2. \A y : <<x, y>> \in R => x >= y
    OBVIOUS
  <2>3. x \in Int
    BY <2>1
  <2> HIDE DEF R
  <2>4. ASSUME NEW y \in S PROVE x >= y
    <3>1. CASE y = x
      BY <2>3, <3>1
    <3>2. CASE y # x
      BY <2>1, <2>2, <3>2
    <3> QED BY <3>1, <3>2
  <2> QED BY <2>1, <2>4
<1> QED BY <1>3 DEF Max

LEMMA MinIs ==
    ASSUME NEW S \in SUBSET Int, IsFiniteSet(S), S # {}
    PROVE  Min(S) \in S /\ Min(S) \in Int /\ \A y \in S : Min(S) <= y
<1> DEFINE R == {p \in Int \X Int : p[1] <= p[2]}
<1>1. \E x : First(R, S, x)
  <2>1. \A x, y \in S : x = y \/ <<x, y>> \in R \/ <<y, x>> \in R
    OBVIOUS
  <2>2. \A x, y, z \in S : <<x, y>> \in R /\ <<y, z>> \in R => <<x, z>> \in R
    OBVIOUS
  <2> HIDE DEF R
  <2> QED BY <2>1, <2>2, FirstExists
<1>2. PICK x : First(R, S, x)
  BY <1>1
<1>3. x \in S /\ \A y \in S : x <= y
  <2>1. x \in S /\ \A y \in S : y = x \/ <<x, y>> \in R
    BY <1>2 DEF First
  <2>2. \A y : <<x, y>> \in R => x <= y
    OBVIOUS
  <2>3. x \in Int
    BY <2>1
  <2> HIDE DEF R
  <2>4. ASSUME NEW y \in S PROVE x <= y
    <3>1. CASE y = x
      BY <2>3, <3>1
    <3>2. CASE y # x
      BY <2>1, <2>2, <3>2
    <3> QED BY <3>1, <3>2
  <2> QED BY <2>1, <2>4
<1> QED BY <1>3 DEF Min

\* A finite set stays finite under a function.
LEMMA ImageFinite ==
    ASSUME NEW S, IsFiniteSet(S), NEW f, NEW T, T = {f[x] : x \in S}
    PROVE  IsFiniteSet(T)
<1> DEFINE g == [x \in S |-> f[x]]
<1>1. g \in [S -> T] /\ \A y \in T : \E x \in S : g[x] = y
  OBVIOUS
<1>2. g \in Surjection(S, T)
  BY <1>1 DEF Surjection
<1> QED BY <1>2, FS_Surjection

\* Induction up to a number.
LEMMA UpTo ==
    ASSUME NEW n \in Nat, NEW Good, 0 \in Good, \A i \in 0 .. n - 1 : i \in Good => i + 1 \in Good
    PROVE  \A i \in 0 .. n : i \in Good
<1> DEFINE Bad == {i \in 0 .. n : i \notin Good}
<1> SUFFICES ASSUME Bad # {} PROVE FALSE
  OBVIOUS
<1>1. PICK i \in Bad : \A j \in Bad : i <= j
  <2>1. Bad \in SUBSET Nat
    OBVIOUS
  <2> HIDE DEF Bad
  <2> QED BY <2>1, LeastNumber
<1>2. i \in 0 .. n /\ i \notin Good /\ i # 0
  OBVIOUS
<1>3. i - 1 \in 0 .. n - 1 /\ (i - 1) + 1 = i /\ ~(i <= i - 1)
  BY <1>2
<1>4. i - 1 \notin Bad
  BY <1>1, <1>3
<1>5. i - 1 \in Good
  BY <1>3, <1>4
<1> QED BY <1>2, <1>3, <1>5

\* Induction over the subsets of a finite set.
LEMMA EverySubset ==
    ASSUME NEW T, IsFiniteSet(T), NEW Good, {} \in Good,
           \A s \in SUBSET T : \A x \in T : s \in Good /\ x \notin s => s \cup {x} \in Good
    PROVE  \A s \in SUBSET T : s \in Good
<1> DEFINE Bad == {s \in SUBSET T : s \notin Good}
<1> SUFFICES ASSUME Bad # {} PROVE FALSE
  OBVIOUS
<1>1. PICK s \in Bad : \A x \in s : s \ {x} \notin Bad
  <2>1. Bad \in SUBSET SUBSET T
    OBVIOUS
  <2> HIDE DEF Bad
  <2> QED BY <2>1, SmallestSubset
<1>2. s \in SUBSET T /\ s \notin Good /\ s # {}
  OBVIOUS
<1>3. PICK x \in s : TRUE
  BY <1>2
<1> DEFINE r == s \ {x}
<1>4. r \in SUBSET T /\ r \notin Bad /\ x \notin r /\ r \cup {x} = s /\ x \in T
  BY <1>1, <1>2, <1>3
<1>5. r \in Good
  BY <1>4
<1> QED BY <1>2, <1>4, <1>5

-----------------------------------------------------------------------------
(* Folds over sequences *)

\* The recursion by which the library folds a sequence from the left.
FoldEq(g, F, base, seq) ==
    g = [s \in SUBSET DOMAIN seq |-> IF s = {} THEN base ELSE F[<<g[s \ {Max(s)}], seq[Max(s)]>>]]

LEMMA FoldExists ==
    ASSUME NEW seq, DOMAIN seq \in SUBSET Int, IsFiniteSet(DOMAIN seq), NEW F, NEW base
    PROVE  \E g : FoldEq(g, F, base, seq)
<1> DEFINE S == DOMAIN seq
           Step(h, s) == IF s = {} THEN base ELSE F[<<h[s \ {Max(s)}], seq[Max(s)]>>]
           Small(n) == {s \in SUBSET S : Cardinality(s) <= n}
           N == Cardinality(S)
           Good == {n \in 0 .. N : \E h : \A s \in Small(n) : h[s] = Step(h, s)}
<1>1. \A s \in SUBSET S : IsFiniteSet(s) /\ Cardinality(s) \in Nat /\ (Cardinality(s) = 0 <=> s = {}) /\ Cardinality(s) <= N
  BY FS_Subset, FS_CardinalityType, FS_EmptySet
<1>2. N \in Nat
  BY <1>1
<1>3. 0 \in Good
  <2>1. \A s \in Small(0) : s = {} /\ [r \in SUBSET S |-> base][s] = base
    BY <1>1
  <2> QED BY <1>2, <2>1
<1>4. ASSUME NEW n \in 0 .. N - 1, n \in Good PROVE n + 1 \in Good
  <2>1. PICK h : \A s \in Small(n) : h[s] = Step(h, s)
    BY <1>4
  <2> DEFINE g == [s \in SUBSET S |-> Step(h, s)]
  <2>2. ASSUME NEW s \in Small(n + 1) PROVE g[s] = Step(g, s)
    <3>1. CASE s = {}
      BY <3>1
    <3>2. CASE s # {}
      <4> DEFINE y == Max(s)
                 r == s \ {y}
      <4>1. y \in s
        BY <1>1, <3>2, MaxIs
      <4>2. Cardinality(r) = Cardinality(s) - 1 /\ r \in SUBSET S
        BY <1>1, <4>1, FS_RemoveElement
      <4>3. r \in Small(n)
        BY <1>1, <4>2
      <4>4. g[r] = h[r]
        BY <2>1, <4>3
      <4>5. s \in SUBSET S
        OBVIOUS
      <4>6. g[s] = F[<<h[r], seq[y]>>] /\ Step(g, s) = F[<<g[r], seq[y]>>]
        BY <3>2, <4>5
      <4> QED BY <4>4, <4>6
    <3> QED BY <3>1, <3>2
  <2>3. n + 1 \in 0 .. N
    BY <1>2
  <2> HIDE DEF g
  <2> QED BY <2>2, <2>3
<1>5. N \in Good
  <2> HIDE DEF Good, N
  <2>1. \A i \in 0 .. N - 1 : i \in Good => i + 1 \in Good
    BY <1>4
  <2>2. \A i \in 0 .. N : i \in Good
    BY <1>2, <1>3, <2>1, UpTo
  <2> QED BY <1>2, <2>2
<1>6. PICK h : \A s \in Small(N) : h[s] = Step(h, s)
  BY <1>5
<1>7. \A s \in SUBSET S : s \in Small(N) /\ s \ {Max(s)} \in SUBSET S
  BY <1>1
<1> DEFINE g == [s \in SUBSET S |-> h[s]]
<1>8. \A s \in SUBSET S : g[s] = Step(g, s)
  BY <1>6, <1>7
<1>9. g = [s \in SUBSET S |-> Step(g, s)]
  <2>1. g = [s \in SUBSET S |-> g[s]]
    OBVIOUS
  <2> HIDE DEF g
  <2> QED BY <1>8, <2>1
<1> QED BY <1>9, Zenon DEF FoldEq

\* The values of such a recursion stay in a set the step does not leave.
LEMMA FoldTyped ==
    ASSUME NEW seq, DOMAIN seq \in SUBSET Int, IsFiniteSet(DOMAIN seq), NEW F, NEW base, NEW D, NEW T, base \in D,
           \A i \in DOMAIN seq : seq[i] \in T, \A d \in D, x \in T : F[<<d, x>>] \in D,
           NEW g, FoldEq(g, F, base, seq)
    PROVE  \A s \in SUBSET DOMAIN seq : g[s] \in D
<1> DEFINE Bad == {s \in SUBSET DOMAIN seq : g[s] \notin D}
<1> SUFFICES ASSUME Bad # {} PROVE FALSE
  OBVIOUS
<1>1. PICK s \in Bad : IsFiniteSet(s) /\ \A x \in s : s \ {x} \notin Bad
  <2>1. Bad \in SUBSET SUBSET DOMAIN seq
    OBVIOUS
  <2> HIDE DEF Bad
  <2> QED BY <2>1, SmallestSubset
<1>2. s \in SUBSET DOMAIN seq /\ g[s] \notin D
  OBVIOUS
<1>3. g[s] = IF s = {} THEN base ELSE F[<<g[s \ {Max(s)}], seq[Max(s)]>>]
  BY <1>2, Zenon DEF FoldEq
<1>4. s # {}
  BY <1>2, <1>3
<1>5. Max(s) \in s
  BY <1>1, <1>2, <1>4, MaxIs
<1>6. g[s \ {Max(s)}] \in D
  BY <1>1, <1>2, <1>5
<1> QED BY <1>2, <1>3, <1>4, <1>5, <1>6

\* The elements of a sequence are taken one after the other.
LEMMA FirstOnes ==
    ASSUME NEW n \in Nat
    PROVE  /\ 1 .. 0 = {} /\ IsFiniteSet(1 .. n) /\ 1 .. n \in SUBSET Int
           /\ \A i \in 1 .. n : /\ Max(1 .. i) = i /\ 1 .. i \in SUBSET (1 .. n) /\ 1 .. i # {}
                              /\ (1 .. i) \ {i} = 1 .. i - 1
<1>1. ASSUME NEW i \in 1 .. n PROVE Max(1 .. i) = i
  <2>1. Max(1 .. i) \in 1 .. i /\ \A y \in 1 .. i : Max(1 .. i) >= y
    <3>1. IsFiniteSet(1 .. i) /\ 1 .. i \in SUBSET Int /\ i \in 1 .. i
      BY FS_Interval
    <3> QED BY <3>1, MaxIs, Zenon
  <2> QED BY <2>1
<1>2. IsFiniteSet(1 .. n)
  BY FS_Interval
<1> QED BY <1>1, <1>2

\* Keeping the elements that are in S.
FilterStep(S, kept, x) == IF x \in S THEN Append(kept, x) ELSE kept
\* The fold that filters a sequence, step by step.
LEMMA FilterFold ==
    ASSUME NEW S, NEW n \in Nat, NEW seq, DOMAIN seq = 1 .. n, NEW D, NEW T, <<>> \in D,
           \A i \in 1 .. n : seq[i] \in T, \A d \in D, x \in T : FilterStep(S, d, x) \in D
    PROVE  \E h \in [0 .. n -> D] :
               /\ h[0] = <<>> /\ \A i \in 1 .. n : h[i] = FilterStep(S, h[i - 1], seq[i])
               /\ h[n] = Filtered(seq, S)
<1> DEFINE F == [p \in D \X T |-> FilterStep(S, p[1], p[2])]
           Eq(g) == g = [s \in SUBSET DOMAIN seq |->
                            IF s = {} THEN <<>> ELSE FilterStep(S, g[s \ {Max(s)}], seq[Max(s)])]
           iter == CHOOSE g : Eq(g)
           h == [i \in 0 .. n |-> iter[1 .. i]]
<1>1. IsFiniteSet(DOMAIN seq) /\ DOMAIN seq \in SUBSET Int
  BY FirstOnes
<1>2. \A d \in D, x \in T : F[<<d, x>>] = FilterStep(S, d, x) /\ F[<<d, x>>] \in D
  OBVIOUS
<1>3. \E g : Eq(g)
  <2> HIDE DEF F
  <2>1. PICK g : FoldEq(g, F, <<>>, seq)
    BY <1>1, FoldExists
  <2>2. \A s \in SUBSET DOMAIN seq : g[s] \in D
    BY <1>1, <1>2, <2>1, FoldTyped
  <2>3. \A s \in SUBSET DOMAIN seq : s # {} => Max(s) \in s /\ s \ {Max(s)} \in SUBSET DOMAIN seq
    BY <1>1, FS_Subset, MaxIs
  <2>4. ASSUME NEW s \in SUBSET DOMAIN seq
        PROVE  (IF s = {} THEN <<>> ELSE F[<<g[s \ {Max(s)}], seq[Max(s)]>>])
               = (IF s = {} THEN <<>> ELSE FilterStep(S, g[s \ {Max(s)}], seq[Max(s)]))
    <3>1. CASE s # {}
      <4>1. g[s \ {Max(s)}] \in D /\ seq[Max(s)] \in T
        BY <2>2, <2>3, <3>1
      <4> QED BY <1>2, <3>1, <4>1
    <3> QED BY <3>1
  <2>5. g = [s \in SUBSET DOMAIN seq |-> IF s = {} THEN <<>> ELSE F[<<g[s \ {Max(s)}], seq[Max(s)]>>]]
    BY <2>1 DEF FoldEq
  <2> QED BY <2>4, <2>5, Zenon
<1>4. Eq(iter)
  BY <1>3, Zenon
<1>5. iter[DOMAIN seq] = Filtered(seq, S)
  BY Zenon DEF FoldLeft, MapThenFoldSet, Filtered, FilterStep
<1> HIDE DEF iter, F
<1>6. h[0] = <<>> /\ \A i \in 1 .. n : h[i] = FilterStep(S, h[i - 1], seq[i])
  <2>1. h[0] = <<>>
    BY <1>4, FirstOnes
  <2>2. ASSUME NEW i \in 1 .. n PROVE h[i] = FilterStep(S, h[i - 1], seq[i])
    <3>1. /\ Max(1 .. i) = i /\ 1 .. i \in SUBSET DOMAIN seq /\ 1 .. i # {} /\ (1 .. i) \ {i} = 1 .. i - 1
          /\ i \in 0 .. n /\ i - 1 \in 0 .. n
      BY FirstOnes
    <3>2. iter[1 .. i] = FilterStep(S, iter[1 .. i - 1], seq[i])
      BY <1>4, <3>1
    <3>3. h[i] = iter[1 .. i] /\ h[i - 1] = iter[1 .. i - 1]
      BY <3>1
    <3> QED BY <3>2, <3>3
  <2> QED BY <2>1, <2>2
<1>7. h[n] = iter[DOMAIN seq]
  OBVIOUS
<1> DEFINE Good == {i \in 0 .. n : h[i] \in D}
<1>8. \A i \in 0 .. n : i \in Good
  <2>1. 0 \in Good
    BY <1>6
  <2>2. ASSUME NEW i \in 0 .. n - 1, i \in Good PROVE i + 1 \in Good
    <3>1. i + 1 \in 1 .. n /\ (i + 1) - 1 = i /\ i + 1 \in 0 .. n
      OBVIOUS
    <3>2. h[i + 1] = FilterStep(S, h[i], seq[i + 1]) /\ seq[i + 1] \in T /\ h[i] \in D
      BY <1>6, <2>2, <3>1
    <3> QED BY <3>1, <3>2
  <2> HIDE DEF Good
  <2> QED BY <2>1, <2>2, UpTo
<1>9. h \in [0 .. n -> D]
  BY <1>8
<1> HIDE DEF h
<1> QED BY <1>5, <1>6, <1>7, <1>9

\* The elements of sequences that are put together.
LEMMA SetOfAppended ==
    ASSUME NEW T, NEW s \in Seq(T), NEW x \in T
    PROVE  /\ ToSet(s) \in SUBSET T /\ ToSet(<<>>) = {} /\ Append(s, x) \in Seq(T)
           /\ ToSet(Append(s, x)) = ToSet(s) \cup {x}
<1>1. /\ DOMAIN s = 1 .. Len(s) /\ DOMAIN Append(s, x) = 1 .. Len(s) + 1 /\ Len(s) \in Nat /\ Append(s, x) \in Seq(T)
      /\ \A i \in 1 .. Len(s) : Append(s, x)[i] = s[i] /\ s[i] \in T
      /\ Append(s, x)[Len(s) + 1] = x
  OBVIOUS
<1>2. 1 .. Len(s) + 1 = 1 .. Len(s) \cup {Len(s) + 1}
  BY <1>1
<1>3. ToSet(Append(s, x)) = ToSet(s) \cup {x}
  BY <1>1, <1>2 DEF ToSet
<1>4. ToSet(<<>>) = {}
  BY DEF ToSet
<1> QED BY <1>1, <1>3, <1>4 DEF ToSet

LEMMA SetOfJoined ==
    ASSUME NEW T, NEW s \in Seq(T), NEW t \in Seq(T)
    PROVE  /\ s \o t \in Seq(T) /\ Len(s \o t) = Len(s) + Len(t)
           /\ \A i \in 1 .. Len(s) : (s \o t)[i] = s[i]
           /\ \A i \in 1 .. Len(t) : (s \o t)[Len(s) + i] = t[i]
           /\ ToSet(s \o t) = ToSet(s) \cup ToSet(t)
<1>1. /\ s \o t \in Seq(T) /\ Len(s \o t) = Len(s) + Len(t) /\ Len(s) \in Nat /\ Len(t) \in Nat
      /\ DOMAIN s = 1 .. Len(s) /\ DOMAIN t = 1 .. Len(t) /\ DOMAIN (s \o t) = 1 .. Len(s) + Len(t)
      /\ \A i \in 1 .. Len(s) : (s \o t)[i] = s[i]
      /\ \A i \in 1 .. Len(t) : (s \o t)[Len(s) + i] = t[i]
  OBVIOUS
<1>2. \A i \in 1 .. Len(s) + Len(t) : i \in 1 .. Len(s) \/ (i - Len(s) \in 1 .. Len(t) /\ i = Len(s) + (i - Len(s)))
  BY <1>1
<1>3. \A i \in 1 .. Len(t) : Len(s) + i \in 1 .. Len(s) + Len(t)
  BY <1>1
<1>4. \A i \in 1 .. Len(s) : i \in 1 .. Len(s) + Len(t)
  BY <1>1
<1>5. ToSet(s \o t) \subseteq ToSet(s) \cup ToSet(t)
  BY <1>1, <1>2 DEF ToSet
<1>6. ToSet(s) \subseteq ToSet(s \o t)
  BY <1>1, <1>4 DEF ToSet
<1>7. ToSet(t) \subseteq ToSet(s \o t)
  BY <1>1, <1>3 DEF ToSet
<1> QED BY <1>1, <1>5, <1>6, <1>7

\* What is kept of a sequence: the elements that are in S, each as often as
\* before.
LEMMA FilteredFacts ==
    ASSUME NEW T, NEW seq \in Seq(T), NEW S
    PROVE  /\ Filtered(seq, S) \in Seq(T) /\ Filtered(seq, S) \in Seq(S)
           /\ ToSet(Filtered(seq, S)) = ToSet(seq) \cap S
           /\ IsInjective(seq) => IsInjective(Filtered(seq, S))
<1> DEFINE n == Len(seq)
           D == Seq(T \cap S)
<1>1. n \in Nat /\ DOMAIN seq = 1 .. n /\ \A i \in 1 .. n : seq[i] \in T
  OBVIOUS
<1>2. <<>> \in D /\ \A d \in D, x \in T : FilterStep(S, d, x) \in D
  BY DEF FilterStep
<1>3. PICK h \in [0 .. n -> D] :
         /\ h[0] = <<>> /\ \A i \in 1 .. n : h[i] = FilterStep(S, h[i - 1], seq[i])
         /\ h[n] = Filtered(seq, S)
  <2> HIDE DEF D, n
  <2> QED BY <1>1, <1>2, FilterFold
<1> DEFINE Upto(i) == {seq[j] : j \in 1 .. i}
           Good == {i \in 0 .. n : /\ ToSet(h[i]) = Upto(i) \cap S
                                   /\ IsInjective(seq) => IsInjective(h[i])}
<1>4. 0 \in Good
  <2>1. ToSet(h[0]) = {} /\ Upto(0) = {} /\ IsInjective(h[0])
    BY <1>3 DEF ToSet, IsInjective
  <2> QED BY <1>1, <2>1
<1>5. ASSUME NEW i \in 0 .. n - 1, i \in Good PROVE i + 1 \in Good
  <2> DEFINE x == seq[i + 1]
  <2>1. /\ i + 1 \in 1 .. n /\ (i + 1) - 1 = i /\ h[i] \in D /\ i + 1 \in 0 .. n /\ h[i + 1] = FilterStep(S, h[i], x)
        /\ x \in T
    BY <1>1, <1>3
  <2>2. Upto(i + 1) = Upto(i) \cup {x}
    <3>1. 1 .. i + 1 = 1 .. i \cup {i + 1}
      OBVIOUS
    <3> QED BY <3>1
  <2>3. ToSet(h[i]) = Upto(i) \cap S /\ (IsInjective(seq) => IsInjective(h[i]))
    BY <1>5
  <2>4. CASE x \in S
    <3>1. h[i + 1] = Append(h[i], x)
      BY <2>1, <2>4 DEF FilterStep
    <3>2. ToSet(h[i + 1]) = ToSet(h[i]) \cup {x}
      BY <2>1, <2>4, <3>1, SetOfAppended
    <3>3. ASSUME IsInjective(seq) PROVE IsInjective(h[i + 1])
      <4>1. x \notin Upto(i)
        BY <1>1, <2>1, <3>3 DEF IsInjective
      <4>2. x \notin ToSet(h[i])
        BY <2>3, <4>1
      <4>3. /\ DOMAIN h[i] = 1 .. Len(h[i]) /\ DOMAIN h[i + 1] = 1 .. Len(h[i]) + 1 /\ Len(h[i]) \in Nat
            /\ \A j \in 1 .. Len(h[i]) : h[i + 1][j] = h[i][j] /\ h[i + 1][Len(h[i]) + 1] = x
        BY <2>1, <3>1
      <4>4. \A j \in 1 .. Len(h[i]) : h[i][j] # x
        BY <4>2, <4>3 DEF ToSet
      <4>5. \A j, l \in 1 .. Len(h[i]) : h[i][j] = h[i][l] => j = l
        BY <2>3, <3>3, <4>3 DEF IsInjective
      <4>6. \A j \in 1 .. Len(h[i]) + 1 : j \in 1 .. Len(h[i]) \/ j = Len(h[i]) + 1
        BY <4>3
      <4>7. h[i + 1][Len(h[i]) + 1] = x
        BY <2>1, <3>1
      <4> HIDE DEF x, Upto, Good
      <4> QED BY <4>3, <4>4, <4>5, <4>6, <4>7, Zenon DEF IsInjective
    <3> QED BY <2>1, <2>2, <2>3, <2>4, <3>2, <3>3
  <2>5. CASE x \notin S
    <3>1. h[i + 1] = h[i]
      BY <2>1, <2>5 DEF FilterStep
    <3> QED BY <2>1, <2>2, <2>3, <2>5, <3>1
  <2> QED BY <2>4, <2>5
<1>6. n \in Good
  <2>1. n \in 0 .. n
    BY <1>1
  <2> HIDE DEF Good, n
  <2>2. \A i \in 0 .. n - 1 : i \in Good => i + 1 \in Good
    BY <1>5
  <2>3. \A i \in 0 .. n : i \in Good
    BY <1>1, <1>4, <2>2, UpTo
  <2> QED BY <2>1, <2>3
<1>7. Upto(n) = ToSet(seq)
  BY <1>1 DEF ToSet
<1>8. h[n] \in D
  BY <1>1, <1>3
<1> QED BY <1>3, <1>6, <1>7, <1>8

\* A sequence of sequences is flattened from the left.
LEMMA FlattenFold ==
    ASSUME NEW T, NEW s \in Seq(Seq(T))
    PROVE  \E h \in [0 .. Len(s) -> Seq(T)] :
               h[0] = <<>> /\ (\A i \in 1 .. Len(s) : h[i] = h[i - 1] \o s[i]) /\ h[Len(s)] = FlattenSeq(s)
<1> DEFINE n == Len(s)
           Eq(f) == f = [i \in 1 .. n |-> IF i = 1 THEN s[i] ELSE f[i - 1] \o s[i]]
           F == [p \in Seq(T) \X Seq(T) |-> p[1] \o p[2]]
           flatten == CHOOSE f : Eq(f)
<1>1. n \in Nat /\ DOMAIN s = 1 .. n /\ \A i \in 1 .. n : s[i] \in Seq(T)
  OBVIOUS
<1>2. IsFiniteSet(DOMAIN s) /\ DOMAIN s \in SUBSET Int
  BY <1>1, FirstOnes
<1>3. \A d, x \in Seq(T) : F[<<d, x>>] = d \o x /\ F[<<d, x>>] \in Seq(T)
  <2>1. \A d, x \in Seq(T) : F[<<d, x>>] = d \o x
    BY Zenon
  <2>2. \A d, x \in Seq(T) : d \o x \in Seq(T)
    BY SetOfJoined
  <2> QED BY <2>1, <2>2
<1>4. \E f : Eq(f) /\ f \in [1 .. n -> Seq(T)]
  <2> HIDE DEF F
  <2>1. PICK g : FoldEq(g, F, <<>>, s)
    BY <1>2, FoldExists
  <2>2. \A a \in SUBSET DOMAIN s : g[a] \in Seq(T)
    <3>1. <<>> \in Seq(T)
      OBVIOUS
    <3> QED BY <1>1, <1>2, <1>3, <2>1, <3>1, FoldTyped
  <2> DEFINE f == [i \in 1 .. n |-> g[1 .. i]]
  <2>3. \A i \in 1 .. n : f[i] = g[1 .. i] /\ g[1 .. i] \in Seq(T)
    BY <1>1, <2>2, FirstOnes
  <2>4. ASSUME NEW i \in 1 .. n PROVE f[i] = IF i = 1 THEN s[i] ELSE f[i - 1] \o s[i]
    <3>1. /\ Max(1 .. i) = i /\ 1 .. i \in SUBSET DOMAIN s /\ 1 .. i # {} /\ (1 .. i) \ {i} = 1 .. i - 1
          /\ 1 .. i - 1 \in SUBSET DOMAIN s /\ {} \in SUBSET DOMAIN s /\ 1 .. 0 = {}
      BY <1>1, FirstOnes
    <3>2. g[1 .. i] = F[<<g[1 .. i - 1], s[i]>>]
      BY <2>1, <3>1 DEF FoldEq
    <3>3. g[1 .. i] = g[1 .. i - 1] \o s[i]
      BY <1>1, <1>3, <2>2, <3>1, <3>2
    <3>4. CASE i = 1
      <4>1. g[1 .. i - 1] = <<>>
        BY <2>1, <3>1, <3>4 DEF FoldEq
      <4>2. <<>> \o s[i] = s[i]
        BY <1>1
      <4> HIDE DEF f
      <4> QED BY <2>3, <3>3, <3>4, <4>1, <4>2
    <3>5. CASE i # 1
      <4>1. i - 1 \in 1 .. n
        BY <1>1, <3>5
      <4>2. f[i - 1] = g[1 .. i - 1]
        BY <2>3, <4>1
      <4> QED BY <2>3, <3>3, <3>5, <4>2
    <3> QED BY <3>4, <3>5
  <2>5. f = [i \in 1 .. n |-> IF i = 1 THEN s[i] ELSE f[i - 1] \o s[i]]
    <3>1. f = [i \in 1 .. n |-> f[i]]
      OBVIOUS
    <3> HIDE DEF f
    <3> QED BY <2>4, <3>1
  <2>6. f \in [1 .. n -> Seq(T)]
    BY <2>3
  <2> HIDE DEF f
  <2> QED BY <2>5, <2>6
<1>5. Eq(flatten)
  BY <1>4, Zenon
<1>6. FlattenSeq(s) = IF n = 0 THEN s ELSE flatten[n]
  BY Zenon DEF FlattenSeq
<1> HIDE DEF flatten
<1> DEFINE h == [i \in 0 .. n |-> IF i = 0 THEN <<>> ELSE flatten[i]]
           Good == {i \in 0 .. n : h[i] \in Seq(T)}
<1>7. h[0] = <<>> /\ <<>> \in Seq(T)
  BY <1>1
<1>8. ASSUME NEW i \in 1 .. n, i - 1 \in Good PROVE h[i] = h[i - 1] \o s[i] /\ i \in Good
  <2>1. flatten[i] = IF i = 1 THEN s[i] ELSE flatten[i - 1] \o s[i]
    BY <1>5
  <2>2. i \in 0 .. n /\ i - 1 \in 0 .. n /\ h[i] = flatten[i] /\ h[i - 1] = IF i - 1 = 0 THEN <<>> ELSE flatten[i - 1]
    BY <1>1
  <2>3. h[i - 1] \in Seq(T) /\ s[i] \in Seq(T)
    BY <1>1, <1>8
  <2> HIDE DEF h
  <2>4. h[i] = h[i - 1] \o s[i]
    <3>1. CASE i = 1
      <4>1. h[i - 1] = <<>> /\ h[i] = s[i]
        BY <2>1, <2>2, <3>1
      <4> QED BY <2>3, <4>1
    <3>2. CASE i # 1
      <4>1. i - 1 # 0
        BY <1>1, <3>2
      <4>2. h[i - 1] = flatten[i - 1] /\ flatten[i] = flatten[i - 1] \o s[i]
        BY <2>1, <2>2, <3>2, <4>1
      <4> QED BY <2>2, <4>2
    <3> QED BY <3>1, <3>2
  <2>5. h[i - 1] \o s[i] \in Seq(T)
    BY <2>3, SetOfJoined
  <2> QED BY <2>2, <2>4, <2>5
<1>9. \A i \in 0 .. n : i \in Good
  <2>1. 0 \in Good
    BY <1>1, <1>7
  <2>2. \A i \in 0 .. n - 1 : i + 1 \in 1 .. n /\ (i + 1) - 1 = i
    BY <1>1
  <2> HIDE DEF Good, h
  <2>3. \A i \in 0 .. n - 1 : i \in Good => i + 1 \in Good
    BY <1>8, <2>2
  <2> QED BY <1>1, <2>1, <2>3, UpTo
<1>10. \A i \in 1 .. n : h[i] = h[i - 1] \o s[i]
  <2>1. \A i \in 1 .. n : i - 1 \in 0 .. n
    BY <1>1
  <2> HIDE DEF Good, h
  <2> QED BY <1>8, <1>9, <2>1
<1>11. h[n] = FlattenSeq(s)
  <2>1. CASE n = 0
    <3>1. s = <<>>
      BY <1>1, <2>1
    <3> QED BY <1>6, <2>1, <3>1
  <2>2. CASE n # 0
    BY <1>1, <1>6, <2>2
  <2> QED BY <2>1, <2>2
<1>12. h \in [0 .. n -> Seq(T)]
  BY <1>9
<1> HIDE DEF h
<1> QED BY <1>7, <1>10, <1>11, <1>12

\* The elements of a flattened sequence.
LEMMA FlattenFacts ==
    ASSUME NEW T, NEW s \in Seq(Seq(T))
    PROVE  /\ FlattenSeq(s) \in Seq(T)
           /\ ToSet(FlattenSeq(s)) = UNION {ToSet(s[i]) : i \in DOMAIN s}
<1> DEFINE n == Len(s)
           Upto(i) == UNION {ToSet(s[j]) : j \in 1 .. i}
<1>1. n \in Nat /\ DOMAIN s = 1 .. n /\ n \in 0 .. n /\ \A i \in 1 .. n : s[i] \in Seq(T)
  OBVIOUS
<1>2. PICK h \in [0 .. n -> Seq(T)] :
          h[0] = <<>> /\ (\A i \in 1 .. n : h[i] = h[i - 1] \o s[i]) /\ h[n] = FlattenSeq(s)
  BY FlattenFold
<1> DEFINE Good == {i \in 0 .. n : ToSet(h[i]) = Upto(i)}
<1>3. 0 \in Good
  <2>1. ToSet(h[0]) = {} /\ Upto(0) = {}
    BY <1>2 DEF ToSet
  <2> QED BY <1>1, <2>1
<1>4. ASSUME NEW i \in 0 .. n - 1, i \in Good PROVE i + 1 \in Good
  <2>1. i + 1 \in 1 .. n /\ (i + 1) - 1 = i /\ i + 1 \in 0 .. n
    BY <1>1
  <2>2. h[i + 1] = h[i] \o s[i + 1] /\ h[i] \in Seq(T) /\ s[i + 1] \in Seq(T)
    <3> HIDE DEF n
    <3>1. h[i + 1] = h[(i + 1) - 1] \o s[i + 1] /\ s[i + 1] \in Seq(T)
      BY <1>1, <1>2, <2>1 DEF n
    <3>2. i \in 0 .. Len(s) /\ h[(i + 1) - 1] = h[i]
      BY <1>1, <2>1 DEF n
    <3>3. h[i] \in Seq(T)
      <4>1. h \in [0 .. n -> Seq(T)] /\ i \in 0 .. n
        BY <1>2, <3>2 DEF n
      <4> QED BY <4>1
    <3> QED BY <3>1, <3>2, <3>3
  <2>3. ToSet(h[i + 1]) = ToSet(h[i]) \cup ToSet(s[i + 1])
    BY <2>2, SetOfJoined
  <2>4. Upto(i + 1) = Upto(i) \cup ToSet(s[i + 1])
    <3>1. 1 .. i + 1 = 1 .. i \cup {i + 1}
      OBVIOUS
    <3> QED BY <3>1
  <2> QED BY <1>4, <2>1, <2>3, <2>4
<1>5. n \in Good
  <2> HIDE DEF Good, n
  <2>1. \A i \in 0 .. n - 1 : i \in Good => i + 1 \in Good
    BY <1>4
  <2>2. \A i \in 0 .. n : i \in Good
    BY <1>1, <1>3, <2>1, UpTo
  <2> QED BY <1>1, <2>2
<1>6. ToSet(h[n]) = UNION {ToSet(s[i]) : i \in DOMAIN s}
  BY <1>1, <1>5
<1> QED BY <1>1, <1>2, <1>6

-----------------------------------------------------------------------------
(* Sorting *)

\* R orders S totally and strictly.
Orders(R, S) ==
    /\ \A x \in S : <<x, x>> \notin R
    /\ \A x, y \in S : x = y \/ <<x, y>> \in R \/ <<y, x>> \in R
    /\ \A x, y, z \in S : <<x, y>> \in R /\ <<y, z>> \in R => <<x, z>> \in R
Before(R, S, x) == {y \in S : <<y, x>> \in R}
Ranking(R, S) == [r \in 1 .. Cardinality(S) |-> CHOOSE x \in S : Cardinality(Before(R, S, x)) = r - 1]

\* Each element has a rank of its own, and every rank is taken.
LEMMA RanksExist ==
    ASSUME NEW S, IsFiniteSet(S), NEW R, Orders(R, S)
    PROVE  /\ \A x \in S : Cardinality(Before(R, S, x)) \in 0 .. Cardinality(S) - 1
           /\ \A x, z \in S : <<x, z>> \in R => Cardinality(Before(R, S, x)) < Cardinality(Before(R, S, z))
           /\ \A x, z \in S : Cardinality(Before(R, S, x)) = Cardinality(Before(R, S, z)) => x = z
           /\ \A r \in 1 .. Cardinality(S) : \E x \in S : Cardinality(Before(R, S, x)) = r - 1
<1> DEFINE n == Cardinality(S)
           rank(x) == Cardinality(Before(R, S, x))
<1>1. n \in Nat /\ \A s \in SUBSET S : IsFiniteSet(s) /\ Cardinality(s) \in Nat /\ Cardinality(s) <= n
  BY FS_Subset, FS_CardinalityType
<1>2. \A x \in S : /\ Before(R, S, x) \in SUBSET (S \ {x}) /\ Before(R, S, x) \in SUBSET S
                   /\ IsFiniteSet(S \ {x}) /\ Cardinality(S \ {x}) = n - 1
  BY <1>1, FS_RemoveElement DEF Before, Orders
<1>3. \A x \in S : rank(x) \in 0 .. n - 1
  <2> SUFFICES ASSUME NEW x \in S PROVE rank(x) \in 0 .. n - 1
    OBVIOUS
  <2>1. rank(x) <= Cardinality(S \ {x}) /\ rank(x) \in Nat
    BY <1>1, <1>2, FS_Subset
  <2> HIDE DEF rank, n
  <2> QED BY <1>1, <1>2, <2>1
<1>4. ASSUME NEW x \in S, NEW z \in S, <<x, z>> \in R PROVE rank(x) < rank(z)
  <2>1. Before(R, S, x) \in SUBSET (Before(R, S, z) \ {x}) /\ x \in Before(R, S, z)
    BY <1>4 DEF Before, Orders
  <2>2. Cardinality(Before(R, S, z) \ {x}) = rank(z) - 1 /\ IsFiniteSet(Before(R, S, z) \ {x}) /\ rank(z) \in Nat
    BY ZenonT(60), <1>1, <1>2, <2>1, FS_RemoveElement
  <2>3. rank(x) <= Cardinality(Before(R, S, z) \ {x}) /\ rank(x) \in Nat
    BY <1>1, <1>2, <2>1, <2>2, FS_Subset
  <2> HIDE DEF rank
  <2> QED BY <2>2, <2>3
<1>5. \A x, z \in S : rank(x) = rank(z) => x = z
  <2> SUFFICES ASSUME NEW x \in S, NEW z \in S, rank(x) = rank(z), x # z PROVE FALSE
    OBVIOUS
  <2>1. <<x, z>> \in R \/ <<z, x>> \in R
    BY DEF Orders
  <2>2. rank(x) < rank(z) \/ rank(z) < rank(x)
    BY <1>4, <2>1
  <2>3. rank(x) \in Nat /\ rank(z) \in Nat
    BY <1>1, <1>2
  <2> HIDE DEF rank
  <2> QED BY <2>2, <2>3
<1>6. ASSUME NEW r \in 1 .. n PROVE \E x \in S : rank(x) = r - 1
  <2> SUFFICES ASSUME \A x \in S : rank(x) # r - 1 PROVE FALSE
    OBVIOUS
  <2> DEFINE f == [x \in S |-> rank(x) + 1]
             rest == (1 .. n) \ {r}
  <2>1. f \in [S -> rest]
    <3> HIDE DEF rank, n
    <3>1. \A x \in S : rank(x) + 1 \in 1 .. n /\ rank(x) + 1 # r
      BY <1>1, <1>3
    <3> QED BY <3>1
  <2>2. \A x, z \in S : f[x] = f[z] => x = z
    <3>1. \A x, z \in S : f[x] = f[z] => rank(x) = rank(z)
      <4> HIDE DEF rank, n
      <4> QED BY <1>3
    <3> QED BY <1>5, <3>1
  <2>3. f \in Injection(S, rest)
    <3> HIDE DEF f, rest
    <3> QED BY <2>1, <2>2 DEF Injection, IsInjective
  <2>4. IsFiniteSet(rest) /\ Cardinality(rest) = n - 1
    <3>1. IsFiniteSet(1 .. n) /\ Cardinality(1 .. n) = n
      BY <1>1, FS_Interval
    <3> HIDE DEF n
    <3> QED BY <3>1, FS_RemoveElement
  <2>5. n <= n - 1
    <3> HIDE DEF f, rest
    <3> QED BY <2>3, <2>4, FS_Injection
  <2> QED BY <1>1, <2>5
<1> QED BY <1>3, <1>4, <1>5, <1>6

\* A set that is sorted is there completely, without repetition, in its order.
LEMMA RankingFacts ==
    ASSUME NEW S, IsFiniteSet(S), NEW R, Orders(R, S)
    PROVE  /\ Ranking(R, S) \in Seq(S) /\ Len(Ranking(R, S)) = Cardinality(S) /\ Cardinality(S) \in Nat
           /\ ToSet(Ranking(R, S)) = S
           /\ \A i, j \in 1 .. Cardinality(S) : Ranking(R, S)[i] = Ranking(R, S)[j] => i = j
<1> DEFINE n == Cardinality(S)
           rank(x) == Cardinality(Before(R, S, x))
           seq == Ranking(R, S)
<1>1. n \in Nat
  BY FS_CardinalityType
<1>2. /\ \A x \in S : rank(x) \in 0 .. n - 1
      /\ \A x, z \in S : rank(x) = rank(z) => x = z
      /\ \A r \in 1 .. n : \E x \in S : rank(x) = r - 1
  BY RanksExist
<1>3. \A r \in 1 .. n : seq[r] \in S /\ rank(seq[r]) = r - 1
  <2>1. \A r \in 1 .. n : seq[r] = CHOOSE x \in S : rank(x) = r - 1
    BY DEF Ranking
  <2> HIDE DEF rank, seq, n
  <2> QED BY <1>2, <2>1
<1>4. seq \in [1 .. n -> S]
  <2>1. seq = [r \in 1 .. n |-> seq[r]]
    BY DEF Ranking
  <2> HIDE DEF rank, seq, n
  <2> QED BY <1>3, <2>1
<1>5. seq \in Seq(S) /\ Len(seq) = n /\ DOMAIN seq = 1 .. n
  <2> HIDE DEF seq, n
  <2> QED BY <1>1, <1>4
<1>6. \A i, j \in 1 .. n : seq[i] = seq[j] => i = j
  <2>1. \A i, j \in 1 .. n : i - 1 = j - 1 => i = j
    BY <1>1
  <2> HIDE DEF rank, seq, n
  <2> QED BY <1>3, <2>1
<1>7. ASSUME NEW x \in S PROVE \E i \in 1 .. n : seq[i] = x
  <2>1. rank(x) + 1 \in 1 .. n /\ (rank(x) + 1) - 1 = rank(x)
    <3>1. rank(x) \in 0 .. n - 1
      BY <1>2
    <3> HIDE DEF rank, seq, n
    <3> QED BY <1>1, <3>1
  <2>2. seq[rank(x) + 1] \in S /\ rank(seq[rank(x) + 1]) = rank(x)
    <3>1. seq[rank(x) + 1] \in S /\ rank(seq[rank(x) + 1]) = (rank(x) + 1) - 1
      <4> HIDE DEF rank, seq, n
      <4> QED BY <1>3, <2>1
    <3> QED BY <2>1, <3>1
  <2>3. seq[rank(x) + 1] = x
    <3> DEFINE y == seq[rank(x) + 1]
    <3>1. y \in S /\ rank(y) = rank(x)
      BY <2>2
    <3>2. \A u, z \in S : rank(u) = rank(z) => u = z
      BY <1>2
    <3> HIDE DEF y, seq, rank
    <3>3. y = x
      BY <3>1, <3>2
    <3> QED BY <3>3 DEF y
  <2> HIDE DEF rank, seq, n
  <2> QED BY <2>1, <2>3
<1>8. ToSet(seq) = S
  <2> HIDE DEF seq, n
  <2> QED BY <1>4, <1>5, <1>7 DEF ToSet
<1> QED BY <1>1, <1>5, <1>6, <1>8

-----------------------------------------------------------------------------
(* Roots *)

\* The tasks that are listed, each once.
Listed(in) ==
    /\ in.order \in Seq(DOMAIN in.task) /\ IsInjective(in.order)
    /\ None \notin DOMAIN in.task
Ids(in) == ToSet(in.order)

LEMMA ListedFacts ==
    ASSUME NEW in, Listed(in)
    PROVE  /\ in.order \in Seq(Ids(in)) /\ Ids(in) \in SUBSET DOMAIN in.task /\ None \notin Ids(in)
           /\ Len(in.order) \in Nat /\ DOMAIN in.order = 1 .. Len(in.order)
           /\ IsFiniteSet(Ids(in)) /\ Cardinality(Ids(in)) = Len(in.order)
<1>1. /\ in.order \in Seq(DOMAIN in.task) /\ Len(in.order) \in Nat /\ DOMAIN in.order = 1 .. Len(in.order)
      /\ in.order \in [1 .. Len(in.order) -> DOMAIN in.task]
  BY DEF Listed
<1>2. Ids(in) = {in.order[i] : i \in 1 .. Len(in.order)}
  BY <1>1 DEF Ids, ToSet
<1>3. in.order \in [1 .. Len(in.order) -> Ids(in)]
  BY <1>1, <1>2
<1>4. in.order \in Seq(Ids(in))
  BY <1>1, <1>3
<1>5. in.order \in Bijection(1 .. Len(in.order), Ids(in))
  <2>1. in.order \in Injection(1 .. Len(in.order), Ids(in))
    BY <1>1, <1>3 DEF Injection, IsInjective, Listed
  <2>2. in.order \in Surjection(1 .. Len(in.order), Ids(in))
    BY <1>2, <1>3 DEF Surjection
  <2> QED BY <2>1, <2>2 DEF Bijection
<1>6. IsFiniteSet(Ids(in)) /\ Cardinality(Ids(in)) = Len(in.order)
  <2>1. IsFiniteSet(1 .. Len(in.order)) /\ Cardinality(1 .. Len(in.order)) = Len(in.order)
    BY <1>1, FS_Interval
  <2>2. ExistsBijection(1 .. Len(in.order), Ids(in))
    BY <1>5, Zenon DEF ExistsBijection
  <2> QED BY <2>1, <2>2, FS_Bijection
<1>7. Ids(in) \in SUBSET DOMAIN in.task /\ None \notin Ids(in)
  BY <1>1, <1>2 DEF Listed
<1> QED BY <1>1, <1>4, <1>6, <1>7

\* One step up the chain, as long as there is one.
Up(in, u) == IF Parent(in, u) = None THEN u ELSE Parent(in, u)

LEMMA UpTyped ==
    ASSUME NEW in, Listed(in), NEW u \in Ids(in)
    PROVE  Up(in, u) \in Ids(in) /\ Parent(in, u) \in Ids(in) \cup {None}
BY DEF Up, Parent, Ids

\* The ancestors of a task, one for each step.
Ancestors(in, t, h) ==
    /\ h \in [0 .. Len(in.order) -> Ids(in)] /\ h[0] = t
    /\ \A i \in 1 .. Len(in.order) : h[i] = Up(in, h[i - 1])
LEMMA AncestorsExist ==
    ASSUME NEW in, Listed(in), NEW t \in Ids(in)
    PROVE  \E h : /\ Ancestors(in, t, h)
                  /\ Root(in, t) = IF Parent(in, h[Len(in.order)]) = None THEN h[Len(in.order)] ELSE t
<1> DEFINE N == Len(in.order)
           Eq(up) == up = [n \in 0 .. N |-> IF n = 0 \/ Parent(in, IF n = 0 THEN t ELSE up[n - 1]) = None
                                           THEN (IF n = 0 THEN t ELSE up[n - 1])
                                           ELSE Parent(in, IF n = 0 THEN t ELSE up[n - 1])]
           h == CHOOSE up : Eq(up)
           seq == [i \in 1 .. N |-> 0]
           Zero == {0}
           F == [p \in Ids(in) \X Zero |-> Up(in, p[1])]
<1>1. N \in Nat /\ DOMAIN seq = 1 .. N /\ IsFiniteSet(DOMAIN seq) /\ DOMAIN seq \in SUBSET Int
  BY ListedFacts, FirstOnes
<1>2. \A d \in Ids(in), x \in Zero : F[<<d, x>>] = Up(in, d) /\ F[<<d, x>>] \in Ids(in)
  BY UpTyped
<1>3. \E up : Eq(up) /\ up \in [0 .. N -> Ids(in)]
  <2> HIDE DEF F, N
  <2>1. PICK g : FoldEq(g, F, t, seq)
    BY <1>1, FoldExists
  <2>2. \A i \in DOMAIN seq : seq[i] \in Zero
    OBVIOUS
  <2>3. \A s \in SUBSET DOMAIN seq : g[s] \in Ids(in)
    <3> HIDE DEF seq, Zero
    <3> QED BY <1>1, <1>2, <2>1, <2>2, FoldTyped
  <2> DEFINE up == [i \in 0 .. N |-> g[1 .. i]]
  <2>4. \A i \in 0 .. N : 1 .. i \in SUBSET DOMAIN seq
    BY <1>1
  <2>5. \A i \in 0 .. N : up[i] \in Ids(in) /\ up[i] = g[1 .. i]
    BY <2>3, <2>4
  <2>6. up[0] = t
    <3>1. 1 .. 0 = {} /\ 0 \in 0 .. N /\ {} \in SUBSET DOMAIN seq
      BY <1>1
    <3>2. g[{}] = t
      BY <2>1, <3>1 DEF FoldEq
    <3> QED BY <2>5, <3>1, <3>2
  <2>7. ASSUME NEW i \in 1 .. N PROVE up[i] = Up(in, up[i - 1])
    <3>1. /\ Max(1 .. i) = i /\ 1 .. i \in SUBSET DOMAIN seq /\ 1 .. i # {} /\ (1 .. i) \ {i} = 1 .. i - 1
          /\ i \in 0 .. N /\ i - 1 \in 0 .. N /\ seq[i] = 0
      BY <1>1, FirstOnes
    <3>2. g[1 .. i] = F[<<g[1 .. i - 1], 0>>]
      BY ZenonT(60), <2>1, <3>1 DEF FoldEq
    <3>3. g[1 .. i - 1] \in Ids(in) /\ up[i] = g[1 .. i] /\ up[i - 1] = g[1 .. i - 1]
      BY <2>5, <3>1
    <3>4. 0 \in Zero
      OBVIOUS
    <3> HIDE DEF up
    <3> QED BY <1>2, <3>2, <3>3, <3>4
  <2>8. \A n \in 0 .. N : n # 0 => n \in 1 .. N
    BY <1>1
  <2>9. up = [n \in 0 .. N |-> up[n]]
    OBVIOUS
  <2> HIDE DEF up
  <2>10. ASSUME NEW n \in 0 .. N
         PROVE  up[n] = IF n = 0 \/ Parent(in, IF n = 0 THEN t ELSE up[n - 1]) = None
                        THEN (IF n = 0 THEN t ELSE up[n - 1])
                        ELSE Parent(in, IF n = 0 THEN t ELSE up[n - 1])
    <3>1. CASE n = 0
      BY <2>6, <3>1
    <3>2. CASE n # 0
      BY <2>7, <2>8, <3>2 DEF Up
    <3> QED BY <3>1, <3>2
  <2>11. Eq(up)
    BY <2>9, <2>10
  <2>12. up \in [0 .. N -> Ids(in)]
    BY <2>5, <2>9
  <2> QED BY <2>11, <2>12
<1>4. Eq(h)
  BY <1>3, Zenon
<1>5. Root(in, t) = IF Parent(in, h[N]) = None THEN h[N] ELSE t
  BY Zenon DEF Root
<1> HIDE DEF h, N
<1>6. h[0] = t
  <2>1. 0 \in 0 .. N
    BY <1>1
  <2> QED BY <1>4, <2>1
<1>7. ASSUME NEW i \in 1 .. N PROVE h[i] = Up(in, h[i - 1])
  <2>1. i \in 0 .. N /\ i # 0
    BY <1>1
  <2> QED BY <1>4, <2>1 DEF Up
<1> DEFINE Good == {i \in 0 .. N : h[i] \in Ids(in)}
<1>8. \A i \in 0 .. N : i \in Good
  <2>1. 0 \in Good
    BY <1>1, <1>6
  <2>2. ASSUME NEW i \in 0 .. N - 1, i \in Good PROVE i + 1 \in Good
    <3>1. i + 1 \in 1 .. N /\ (i + 1) - 1 = i /\ i + 1 \in 0 .. N
      BY <1>1
    <3>2. h[i + 1] = Up(in, h[i])
      BY <1>7, <3>1
    <3> QED BY <2>2, <3>1, <3>2, UpTyped
  <2> HIDE DEF Good
  <2> QED BY <1>1, <2>1, <2>2, UpTo
<1>9. h \in [0 .. N -> Ids(in)]
  <2>1. h = [n \in 0 .. N |-> h[n]]
    BY <1>4
  <2> QED BY <1>8, <2>1
<1>10. Ancestors(in, t, h)
  BY <1>6, <1>7, <1>9 DEF Ancestors, N
<1> QED BY <1>5, <1>10 DEF N

-----------------------------------------------------------------------------
(* Units *)

Unit(in) == [key : Ids(in), tasks : Seq(Ids(in))]

\* Units part the tasks: each has its own key, and every task is in one of them.
UnitsOk(in, U) ==
    /\ U \in SUBSET Unit(in)
    /\ \A u \in U : IsInjective(u.tasks) /\ ToSet(u.tasks) # {}
    /\ \A u, v \in U : u # v => u.key # v.key /\ ToSet(u.tasks) \cap ToSet(v.tasks) = {}
    /\ \A t \in Ids(in) : \E u \in U : t \in ToSet(u.tasks)

\* No unit parts two tasks that R relates.
Whole(in, U, R) ==
    \A u \in U : \A x \in ToSet(u.tasks), y \in Ids(in) : <<x, y>> \in R => y \in ToSet(u.tasks)

LEMMA InjectiveJoined ==
    ASSUME NEW T, NEW s \in Seq(T), NEW t \in Seq(T), IsInjective(s), IsInjective(t), ToSet(s) \cap ToSet(t) = {}
    PROVE  IsInjective(s \o t)
<1>1. /\ Len(s) \in Nat /\ Len(t) \in Nat /\ DOMAIN s = 1 .. Len(s) /\ DOMAIN t = 1 .. Len(t)
      /\ DOMAIN (s \o t) = 1 .. Len(s) + Len(t)
      /\ \A i \in 1 .. Len(s) : (s \o t)[i] = s[i] /\ s[i] \in ToSet(s)
      /\ \A i \in 1 .. Len(t) : (s \o t)[Len(s) + i] = t[i] /\ t[i] \in ToSet(t)
  BY DEF ToSet
<1>2. \A i \in 1 .. Len(s) + Len(t) : i \in 1 .. Len(s) \/ (i - Len(s) \in 1 .. Len(t) /\ i = Len(s) + (i - Len(s)))
  BY <1>1
<1> SUFFICES ASSUME NEW i \in 1 .. Len(s) + Len(t), NEW j \in 1 .. Len(s) + Len(t), (s \o t)[i] = (s \o t)[j]
             PROVE  i = j
  BY <1>1 DEF IsInjective
<1>3. CASE i \in 1 .. Len(s) /\ j \in 1 .. Len(s)
  <2>1. s[i] = s[j]
    BY <1>1, <1>3
  <2> QED BY <1>1, <1>3, <2>1 DEF IsInjective
<1>4. CASE i - Len(s) \in 1 .. Len(t) /\ j - Len(s) \in 1 .. Len(t)
  <2>1. (s \o t)[i] = t[i - Len(s)] /\ (s \o t)[j] = t[j - Len(s)]
    <3>1. i = Len(s) + (i - Len(s)) /\ j = Len(s) + (j - Len(s))
      BY <1>1
    <3> QED BY <1>1, <1>4, <3>1
  <2>2. i - Len(s) = j - Len(s)
    BY <1>1, <1>4, <2>1 DEF IsInjective
  <2> QED BY <1>1, <2>2
<1>5. CASE i \in 1 .. Len(s) /\ j - Len(s) \in 1 .. Len(t)
  <2>1. (s \o t)[i] \in ToSet(s)
    BY <1>1, <1>5
  <2>2. (s \o t)[j] \in ToSet(t)
    <3>1. j = Len(s) + (j - Len(s))
      BY <1>1
    <3> QED BY <1>1, <1>5, <3>1
  <2> QED BY <2>1, <2>2
<1>6. CASE j \in 1 .. Len(s) /\ i - Len(s) \in 1 .. Len(t)
  <2>1. (s \o t)[j] \in ToSet(s)
    BY <1>1, <1>6
  <2>2. (s \o t)[i] \in ToSet(t)
    <3>1. i = Len(s) + (i - Len(s))
      BY <1>1
    <3> QED BY <1>1, <1>6, <3>1
  <2> QED BY <2>1, <2>2
<1> QED BY <1>2, <1>3, <1>4, <1>5, <1>6

\* The units the chains make: no root is parted from what leads to it.
SameRoot(in) == {p \in Ids(in) \X Ids(in) : Root(in, p[1]) = Root(in, p[2])}
LEMMA ChainUnitsOk ==
    ASSUME NEW in, Listed(in)
    PROVE  UnitsOk(in, ChainUnits(in)) /\ Whole(in, ChainUnits(in), SameRoot(in))
<1> DEFINE of(r) == {t \in Ids(in) : Root(in, t) = r}
           unit(r) == [key |-> r, tasks |-> Filtered(in.order, of(r))]
           roots == {Root(in, t) : t \in Ids(in)}
<1>1. ChainUnits(in) = {unit(r) : r \in roots}
  BY Zenon DEF ChainUnits, Ids
<1>2. \A t \in Ids(in) : Root(in, t) \in Ids(in)
  <2> SUFFICES ASSUME NEW t \in Ids(in) PROVE Root(in, t) \in Ids(in)
    OBVIOUS
  <2>1. PICK h : /\ Ancestors(in, t, h)
                 /\ Root(in, t) = IF Parent(in, h[Len(in.order)]) = None THEN h[Len(in.order)] ELSE t
    BY AncestorsExist
  <2>2. h[Len(in.order)] \in Ids(in)
    <3>1. Len(in.order) \in 0 .. Len(in.order)
      BY ListedFacts
    <3> QED BY <2>1, <3>1 DEF Ancestors
  <2> QED BY <2>1, <2>2
<1>3. \A r \in roots : /\ Filtered(in.order, of(r)) \in Seq(Ids(in)) /\ IsInjective(Filtered(in.order, of(r)))
                       /\ ToSet(Filtered(in.order, of(r))) = of(r) /\ of(r) # {} /\ r \in Ids(in)
  <2> SUFFICES ASSUME NEW r \in roots
               PROVE  /\ Filtered(in.order, of(r)) \in Seq(Ids(in)) /\ IsInjective(Filtered(in.order, of(r)))
                      /\ ToSet(Filtered(in.order, of(r))) = of(r) /\ of(r) # {} /\ r \in Ids(in)
    OBVIOUS
  <2>1. in.order \in Seq(Ids(in)) /\ IsInjective(in.order) /\ ToSet(in.order) = Ids(in)
    BY ListedFacts DEF Listed, Ids
  <2>2. of(r) # {} /\ of(r) \in SUBSET Ids(in) /\ r \in Ids(in)
    BY <1>2
  <2>3. Ids(in) \cap of(r) = of(r)
    OBVIOUS
  <2> DEFINE S == of(r)
  <2>4. S # {} /\ r \in Ids(in) /\ Ids(in) \cap S = S
    BY <2>2, <2>3
  <2> HIDE DEF S
  <2>5. /\ Filtered(in.order, S) \in Seq(Ids(in)) /\ IsInjective(Filtered(in.order, S))
        /\ ToSet(Filtered(in.order, S)) = Ids(in) \cap S
    BY <2>1, FilteredFacts
  <2> QED BY <2>4, <2>5 DEF S
<1>4. \A r \in roots : /\ unit(r) \in Unit(in) /\ unit(r).key = r /\ ToSet(unit(r).tasks) = of(r) /\ of(r) # {}
                       /\ IsInjective(unit(r).tasks)
  <2> HIDE DEF of
  <2> QED BY <1>3 DEF Unit
<1>5. \A r, q \in roots : r # q => of(r) \cap of(q) = {}
  OBVIOUS
<1>6. \A t \in Ids(in) : Root(in, t) \in roots /\ t \in of(Root(in, t))
  OBVIOUS
<1>7. \A r \in roots : \A x \in of(r), y \in Ids(in) : <<x, y>> \in SameRoot(in) => y \in of(r)
  BY DEF SameRoot
<1> HIDE DEF unit, of, roots
<1>8. UnitsOk(in, ChainUnits(in))
  <2>1. \A u \in ChainUnits(in) : \E r \in roots : u = unit(r)
    BY <1>1
  <2>2. ChainUnits(in) \in SUBSET Unit(in) /\ \A u \in ChainUnits(in) : IsInjective(u.tasks) /\ ToSet(u.tasks) # {}
    BY <1>4, <2>1
  <2>3. \A u, v \in ChainUnits(in) : u # v => u.key # v.key /\ ToSet(u.tasks) \cap ToSet(v.tasks) = {}
    BY <1>4, <1>5, <2>1
  <2>4. \A t \in Ids(in) : \E u \in ChainUnits(in) : t \in ToSet(u.tasks)
    BY <1>1, <1>4, <1>6
  <2> QED BY <2>2, <2>3, <2>4 DEF UnitsOk
<1>9. Whole(in, ChainUnits(in), SameRoot(in))
  BY <1>1, <1>4, <1>7 DEF Whole
<1> QED BY <1>8, <1>9

LEMMA UnitOfIs ==
    ASSUME NEW in, NEW U, UnitsOk(in, U), NEW t \in Ids(in)
    PROVE  UnitOf(U, t) \in U /\ t \in ToSet(UnitOf(U, t).tasks)
BY Zenon DEF UnitsOk, UnitOf

\* A unit under way to a merged one: units of U that have been put together.
Gathered(in, U, u) ==
    /\ u \in Unit(in) /\ IsInjective(u.tasks)
    /\ \A v \in U : ToSet(v.tasks) \subseteq ToSet(u.tasks) \/ ToSet(v.tasks) \cap ToSet(u.tasks) = {}
    /\ \E v \in U : v.key = u.key /\ ToSet(v.tasks) \subseteq ToSet(u.tasks)
JoinStep(U, u, t) ==
    LET v == UnitOf(U, t)
    IN IF ~(ToSet(v.tasks) \subseteq ToSet(u.tasks)) THEN [u EXCEPT !.tasks = @ \o v.tasks] ELSE u
LEMMA JoinFacts ==
    ASSUME NEW in, NEW U, UnitsOk(in, U), NEW u, Gathered(in, U, u), NEW t \in Ids(in)
    PROVE  /\ Gathered(in, U, JoinStep(U, u, t))
           /\ ToSet(u.tasks) \subseteq ToSet(JoinStep(U, u, t).tasks) /\ t \in ToSet(JoinStep(U, u, t).tasks)
<1> DEFINE v == UnitOf(U, t)
           w == JoinStep(U, u, t)
<1>1. v \in U /\ v \in Unit(in) /\ t \in ToSet(v.tasks) /\ IsInjective(v.tasks)
  BY UnitOfIs DEF UnitsOk
<1>2. CASE ToSet(v.tasks) \subseteq ToSet(u.tasks)
  <2>1. w = u
    BY <1>2 DEF JoinStep
  <2> QED BY <1>1, <1>2, <2>1
<1>3. CASE ~(ToSet(v.tasks) \subseteq ToSet(u.tasks))
  <2>1. w = [u EXCEPT !.tasks = @ \o v.tasks] /\ ToSet(v.tasks) \cap ToSet(u.tasks) = {}
    BY <1>1, <1>3 DEF JoinStep, Gathered
  <2>2. u.tasks \in Seq(Ids(in)) /\ v.tasks \in Seq(Ids(in)) /\ u.key \in Ids(in) /\ u \in Unit(in)
    BY <1>1 DEF Gathered, Unit
  <2>3. w.key = u.key /\ w.tasks = u.tasks \o v.tasks
    BY <2>1, <2>2 DEF Unit
  <2>4. w.tasks \in Seq(Ids(in)) /\ ToSet(w.tasks) = ToSet(u.tasks) \cup ToSet(v.tasks)
    BY <2>2, <2>3, SetOfJoined
  <2>5. IsInjective(w.tasks)
    BY <1>1, <2>1, <2>2, <2>3, InjectiveJoined DEF Gathered
  <2>6. w \in Unit(in)
    BY <2>1, <2>2, <2>3, <2>4 DEF Unit
  <2> HIDE DEF v, w
  <2>7. \A x \in U : ToSet(x.tasks) \subseteq ToSet(w.tasks) \/ ToSet(x.tasks) \cap ToSet(w.tasks) = {}
    <3> SUFFICES ASSUME NEW x \in U
                 PROVE  ToSet(x.tasks) \subseteq ToSet(w.tasks) \/ ToSet(x.tasks) \cap ToSet(w.tasks) = {}
      OBVIOUS
    <3>1. ToSet(x.tasks) \subseteq ToSet(u.tasks) \/ ToSet(x.tasks) \cap ToSet(u.tasks) = {}
      BY DEF Gathered
    <3>2. x = v \/ ToSet(x.tasks) \cap ToSet(v.tasks) = {}
      BY <1>1 DEF UnitsOk
    <3> QED BY <2>4, <3>1, <3>2
  <2>8. \E x \in U : x.key = w.key /\ ToSet(x.tasks) \subseteq ToSet(w.tasks)
    BY <2>3, <2>4 DEF Gathered
  <2>9. Gathered(in, U, w)
    BY <2>5, <2>6, <2>7, <2>8 DEF Gathered
  <2> QED BY <1>1, <2>4, <2>9 DEF w
<1> QED BY <1>2, <1>3

\* Units put together task by task.
Gathering(U, base, seq) == FoldLeft(LAMBDA u, t : JoinStep(U, u, t), base, seq)
JoinInput(U, base, n, seq, D, T) ==
    /\ n \in Nat /\ DOMAIN seq = 1 .. n /\ base \in D /\ \A i \in 1 .. n : seq[i] \in T
    /\ \A d \in D, x \in T : JoinStep(U, d, x) \in D
JoinRun(U, base, n, seq, D, h) ==
    /\ h \in [0 .. n -> D] /\ h[0] = base
    /\ \A i \in 1 .. n : h[i] = JoinStep(U, h[i - 1], seq[i])
    /\ h[n] = Gathering(U, base, seq)
LEMMA JoinFold ==
    ASSUME NEW U, NEW base, NEW n, NEW seq, NEW D, NEW T, JoinInput(U, base, n, seq, D, T)
    PROVE  \E h : JoinRun(U, base, n, seq, D, h)
<1> DEFINE F == [p \in D \X T |-> JoinStep(U, p[1], p[2])]
           Eq(g) == g = [s \in SUBSET DOMAIN seq |->
                            IF s = {} THEN base ELSE JoinStep(U, g[s \ {Max(s)}], seq[Max(s)])]
           iter == CHOOSE g : Eq(g)
           h == [i \in 0 .. n |-> iter[1 .. i]]
<1> USE DEF JoinInput
<1>1. IsFiniteSet(DOMAIN seq) /\ DOMAIN seq \in SUBSET Int
  BY FirstOnes
<1>2. \A d \in D, x \in T : F[<<d, x>>] = JoinStep(U, d, x) /\ F[<<d, x>>] \in D
  OBVIOUS
<1>3. \E g : Eq(g)
  <2> HIDE DEF F
  <2>1. PICK g : FoldEq(g, F, base, seq)
    BY <1>1, FoldExists
  <2>2. \A s \in SUBSET DOMAIN seq : g[s] \in D
    BY <1>1, <1>2, <2>1, FoldTyped
  <2>3. \A s \in SUBSET DOMAIN seq : s # {} => Max(s) \in s /\ s \ {Max(s)} \in SUBSET DOMAIN seq
    BY <1>1, FS_Subset, MaxIs
  <2>4. ASSUME NEW s \in SUBSET DOMAIN seq
        PROVE  (IF s = {} THEN base ELSE F[<<g[s \ {Max(s)}], seq[Max(s)]>>])
               = (IF s = {} THEN base ELSE JoinStep(U, g[s \ {Max(s)}], seq[Max(s)]))
    <3>1. CASE s # {}
      <4>1. g[s \ {Max(s)}] \in D /\ seq[Max(s)] \in T
        BY <2>2, <2>3, <3>1
      <4> QED BY <1>2, <3>1, <4>1
    <3> QED BY <3>1
  <2>5. g = [s \in SUBSET DOMAIN seq |-> IF s = {} THEN base ELSE F[<<g[s \ {Max(s)}], seq[Max(s)]>>]]
    BY <2>1 DEF FoldEq
  <2> QED BY <2>4, <2>5, Zenon
<1>4. Eq(iter)
  BY <1>3, Zenon
<1>5. iter[DOMAIN seq] = Gathering(U, base, seq)
  BY Zenon DEF FoldLeft, MapThenFoldSet, Gathering, JoinStep
<1> HIDE DEF iter, F
<1>6. h[0] = base /\ \A i \in 1 .. n : h[i] = JoinStep(U, h[i - 1], seq[i])
  <2>1. h[0] = base
    BY <1>4, FirstOnes
  <2>2. ASSUME NEW i \in 1 .. n PROVE h[i] = JoinStep(U, h[i - 1], seq[i])
    <3>1. /\ Max(1 .. i) = i /\ 1 .. i \in SUBSET DOMAIN seq /\ 1 .. i # {} /\ (1 .. i) \ {i} = 1 .. i - 1
          /\ i \in 0 .. n /\ i - 1 \in 0 .. n
      BY FirstOnes
    <3>2. iter[1 .. i] = JoinStep(U, iter[1 .. i - 1], seq[i])
      BY <1>4, <3>1
    <3>3. h[i] = iter[1 .. i] /\ h[i - 1] = iter[1 .. i - 1]
      BY <3>1
    <3> QED BY <3>2, <3>3
  <2> QED BY <2>1, <2>2
<1>7. h[n] = iter[DOMAIN seq]
  OBVIOUS
<1> DEFINE Good == {i \in 0 .. n : h[i] \in D}
<1>8. \A i \in 0 .. n : i \in Good
  <2>1. 0 \in Good
    BY <1>6
  <2>2. ASSUME NEW i \in 0 .. n - 1, i \in Good PROVE i + 1 \in Good
    <3>1. i + 1 \in 1 .. n /\ (i + 1) - 1 = i /\ i + 1 \in 0 .. n
      OBVIOUS
    <3>2. h[i + 1] = JoinStep(U, h[i], seq[i + 1]) /\ seq[i + 1] \in T /\ h[i] \in D
      BY <1>6, <2>2, <3>1
    <3> QED BY <3>1, <3>2
  <2> HIDE DEF Good
  <2> QED BY <2>1, <2>2, UpTo
<1>9. h \in [0 .. n -> D]
  BY <1>8
<1> HIDE DEF h
<1>10. JoinRun(U, base, n, seq, D, h)
  BY <1>5, <1>6, <1>7, <1>9 DEF JoinRun
<1> QED BY <1>10

\* Two tasks of one group.
SameGroup(in, g) == {p \in Ids(in) \X Ids(in) : in.task[p[1]].group = g /\ in.task[p[2]].group = g}
Members(in, g) == Filtered(in.order, {t \in Ids(in) : in.task[t].group = g})
Joint(in, U, g) == Gathering(U, UnitOf(U, Members(in, g)[1]), Tail(Members(in, g)))

\* The unit of a group gathers the units of all its tasks.
LEMMA JointFacts ==
    ASSUME NEW in, Listed(in), NEW U, UnitsOk(in, U), NEW g, \E t \in Ids(in) : in.task[t].group = g
    PROVE  /\ Gathered(in, U, Joint(in, U, g))
           /\ \A t \in Ids(in) : in.task[t].group = g => t \in ToSet(Joint(in, U, g).tasks)
<1> DEFINE S == {t \in Ids(in) : in.task[t].group = g}
           seq == Members(in, g)
           base == UnitOf(U, seq[1])
           rest == Tail(seq)
           n == Len(rest)
           D == {u \in Unit(in) : Gathered(in, U, u)}
<1>1. seq \in Seq(Ids(in)) /\ ToSet(seq) = S /\ S # {}
  <2>1. in.order \in Seq(Ids(in)) /\ ToSet(in.order) = Ids(in) /\ Ids(in) \cap S = S
    BY ListedFacts DEF Ids
  <2>2. S # {}
    OBVIOUS
  <2>3. seq = Filtered(in.order, S)
    BY DEF Members
  <2> HIDE DEF S, seq
  <2>4. /\ Filtered(in.order, S) \in Seq(Ids(in))
        /\ ToSet(Filtered(in.order, S)) = ToSet(in.order) \cap S
    BY <2>1, FilteredFacts
  <2> QED BY <2>1, <2>2, <2>3, <2>4
<1> HIDE DEF seq, S
<1>2. /\ Len(seq) \in Nat \ {0} /\ seq[1] \in S /\ rest \in Seq(Ids(in)) /\ n = Len(seq) - 1 /\ n \in Nat
      /\ DOMAIN rest = 1 .. n /\ \A i \in 1 .. n : rest[i] \in Ids(in) /\ rest[i] = seq[i + 1]
  <2>1. Len(seq) \in Nat /\ DOMAIN seq = 1 .. Len(seq)
    BY <1>1
  <2>2. seq # <<>>
    BY <1>1 DEF ToSet
  <2>3. Len(seq) # 0
    BY <1>1, <2>2
  <2>4. seq[1] \in S
    BY <1>1, <2>1, <2>3 DEF ToSet
  <2> QED BY <1>1, <2>1, <2>3, <2>4
<1>3. base \in D /\ seq[1] \in ToSet(base.tasks)
  <2>1. seq[1] \in Ids(in)
    BY <1>2 DEF S
  <2>2. base \in U /\ seq[1] \in ToSet(base.tasks)
    BY <2>1, UnitOfIs
  <2>3. base \in Unit(in) /\ IsInjective(base.tasks)
    BY <2>2 DEF UnitsOk
  <2>4. \A v \in U : ToSet(v.tasks) \subseteq ToSet(base.tasks) \/ ToSet(v.tasks) \cap ToSet(base.tasks) = {}
    <3> HIDE DEF base
    <3> QED BY <2>2 DEF UnitsOk
  <2>5. Gathered(in, U, base)
    <3> HIDE DEF base
    <3> QED BY <2>2, <2>3, <2>4 DEF Gathered
  <2> QED BY <2>2, <2>3, <2>5
<1>4. \A u \in D, t \in Ids(in) : JoinStep(U, u, t) \in D
  <2>1. \A u : Gathered(in, U, u) => u \in Unit(in)
    BY DEF Gathered
  <2> QED BY <2>1, JoinFacts
<1>5. PICK h : /\ h \in [0 .. n -> D] /\ h[0] = base
               /\ \A i \in 1 .. n : h[i] = JoinStep(U, h[i - 1], rest[i])
               /\ h[n] = Gathering(U, base, rest)
  <2> HIDE DEF D, n, base, rest
  <2>1. JoinInput(U, base, n, rest, D, Ids(in))
    BY <1>2, <1>3, <1>4 DEF JoinInput
  <2>2. PICK h : JoinRun(U, base, n, rest, D, h)
    BY <2>1, JoinFold
  <2> QED BY <2>2 DEF JoinRun
<1>6. h[n] = Joint(in, U, g)
  BY <1>5, Zenon DEF Joint, seq
<1> DEFINE Good == {i \in 0 .. n : \A j \in 1 .. i + 1 : seq[j] \in ToSet(h[i].tasks)}
<1>7. 0 \in Good
  <2>1. \A j \in 1 .. 0 + 1 : j = 1
    OBVIOUS
  <2>2. 0 \in 0 .. n
    BY <1>2
  <2> QED BY <1>3, <1>5, <2>1, <2>2
<1>8. ASSUME NEW i \in 0 .. n - 1, i \in Good PROVE i + 1 \in Good
  <2>1. i + 1 \in 1 .. n /\ (i + 1) - 1 = i /\ i + 1 \in 0 .. n /\ i \in 0 .. n
    BY <1>2
  <2>2. h[i + 1] = JoinStep(U, h[i], rest[i + 1]) /\ h[i] \in D /\ rest[i + 1] \in Ids(in) /\ rest[i + 1] = seq[(i + 1) + 1]
    BY <1>2, <1>5, <2>1
  <2>3. ToSet(h[i].tasks) \subseteq ToSet(h[i + 1].tasks) /\ seq[(i + 1) + 1] \in ToSet(h[i + 1].tasks)
    BY <2>2, JoinFacts
  <2>4. \A j \in 1 .. (i + 1) + 1 : j \in 1 .. i + 1 \/ j = (i + 1) + 1
    BY <1>2
  <2>5. \A j \in 1 .. i + 1 : seq[j] \in ToSet(h[i].tasks)
    BY <1>8
  <2>6. \A j \in 1 .. (i + 1) + 1 : seq[j] \in ToSet(h[i + 1].tasks)
    BY <2>3, <2>4, <2>5
  <2> QED BY <2>1, <2>6
<1>9. n \in Good
  <2> HIDE DEF Good, n
  <2>1. \A i \in 0 .. n - 1 : i \in Good => i + 1 \in Good
    BY <1>8
  <2>2. \A i \in 0 .. n : i \in Good
    BY <1>2, <1>7, <2>1, UpTo
  <2>3. n \in 0 .. n
    BY <1>2
  <2> QED BY <2>2, <2>3
<1>10. Gathered(in, U, h[n])
  <2>1. n \in 0 .. n
    BY <1>2
  <2> HIDE DEF n
  <2> QED BY <1>5, <2>1
<1>11. \A t \in S : t \in ToSet(h[n].tasks)
  <2>1. \A t \in S : \E j \in 1 .. Len(seq) : seq[j] = t
    BY <1>1 DEF ToSet
  <2>2. n + 1 = Len(seq)
    BY <1>2
  <2> QED BY <1>9, <2>1, <2>2
<1> QED BY <1>6, <1>10, <1>11 DEF S

LEMMA MergeFacts ==
    ASSUME NEW in, Listed(in), NEW U, UnitsOk(in, U), NEW g, \E t \in Ids(in) : in.task[t].group = g
    PROVE  /\ UnitsOk(in, MergeGroup(in, U, g)) /\ Whole(in, MergeGroup(in, U, g), SameGroup(in, g))
           /\ \A R : Whole(in, U, R) => Whole(in, MergeGroup(in, U, g), R)
<1> DEFINE w == Joint(in, U, g)
           old == {u \in U : ToSet(u.tasks) \cap ToSet(w.tasks) = {}}
           M == MergeGroup(in, U, g)
<1>1. M = old \cup {w}
  BY Zenon DEF MergeGroup, Joint, Gathering, JoinStep, Members, Ids
<1>2. Gathered(in, U, w) /\ \A t \in Ids(in) : in.task[t].group = g => t \in ToSet(w.tasks)
  BY JointFacts
<1> HIDE DEF w, M
<1>3. PICK k \in U : k.key = w.key /\ ToSet(k.tasks) \subseteq ToSet(w.tasks)
  BY <1>2 DEF Gathered
<1>4. ToSet(k.tasks) # {}
  BY DEF UnitsOk
<1>5. M \in SUBSET Unit(in)
  BY <1>1, <1>2 DEF Gathered, UnitsOk
<1>6. \A u \in M : IsInjective(u.tasks) /\ ToSet(u.tasks) # {}
  BY <1>1, <1>2, <1>3, <1>4 DEF Gathered, UnitsOk
<1>7. \A u \in old : u.key # w.key /\ ToSet(u.tasks) \cap ToSet(w.tasks) = {}
  <2> SUFFICES ASSUME NEW u \in old, u.key = w.key PROVE FALSE
    OBVIOUS
  <2>1. u = k
    BY <1>3 DEF UnitsOk
  <2> QED BY <1>3, <1>4, <2>1
<1>8. \A u, v \in M : u # v => u.key # v.key /\ ToSet(u.tasks) \cap ToSet(v.tasks) = {}
  <2>1. \A u, v \in old : u # v => u.key # v.key /\ ToSet(u.tasks) \cap ToSet(v.tasks) = {}
    BY DEF UnitsOk
  <2> HIDE DEF old
  <2> QED BY <1>1, <1>7, <2>1
<1>9. \A t \in Ids(in) : \E u \in M : t \in ToSet(u.tasks)
  <2> SUFFICES ASSUME NEW t \in Ids(in) PROVE \E u \in M : t \in ToSet(u.tasks)
    OBVIOUS
  <2>1. PICK u \in U : t \in ToSet(u.tasks)
    BY DEF UnitsOk
  <2>2. ToSet(u.tasks) \subseteq ToSet(w.tasks) \/ ToSet(u.tasks) \cap ToSet(w.tasks) = {}
    BY <1>2 DEF Gathered
  <2>3. CASE ToSet(u.tasks) \subseteq ToSet(w.tasks)
    BY <1>1, <2>1, <2>3
  <2>4. CASE ToSet(u.tasks) \cap ToSet(w.tasks) = {}
    <3>1. u \in old
      BY <2>4
    <3> QED BY <1>1, <2>1, <3>1
  <2> QED BY <2>2, <2>3, <2>4
<1>10. UnitsOk(in, M)
  BY <1>5, <1>6, <1>8, <1>9 DEF UnitsOk
<1>11. ASSUME NEW R, Whole(in, U, R) PROVE Whole(in, M, R)
  <2> SUFFICES ASSUME NEW u \in M, NEW x \in ToSet(u.tasks), NEW y \in Ids(in), <<x, y>> \in R
               PROVE  y \in ToSet(u.tasks)
    BY DEF Whole
  <2>1. CASE u \in old
    BY <1>11, <2>1 DEF Whole
  <2>2. CASE u = w
    <3>1. x \in Ids(in)
      <4>1. u.tasks \in Seq(Ids(in))
        BY <1>5 DEF Unit
      <4> QED BY <4>1, SetOfJoined DEF ToSet
    <3>2. PICK v \in U : x \in ToSet(v.tasks)
      BY <3>1 DEF UnitsOk
    <3>3. ToSet(v.tasks) \subseteq ToSet(w.tasks)
      BY <1>2, <2>2, <3>2 DEF Gathered
    <3>4. y \in ToSet(v.tasks)
      BY <1>11, <3>2 DEF Whole
    <3> QED BY <2>2, <3>3, <3>4
  <2> QED BY <1>1, <2>1, <2>2
<1>12. Whole(in, M, SameGroup(in, g))
  <2> SUFFICES ASSUME NEW u \in M, NEW x \in ToSet(u.tasks), NEW y \in Ids(in), <<x, y>> \in SameGroup(in, g)
               PROVE  y \in ToSet(u.tasks)
    BY DEF Whole
  <2>1. x \in ToSet(w.tasks) /\ y \in ToSet(w.tasks)
    BY <1>2 DEF SameGroup
  <2>2. u = w
    <3>1. u \notin old
      BY <2>1
    <3> QED BY <1>1, <3>1
  <2> QED BY <2>1, <2>2
<1> QED BY <1>10, <1>11, <1>12 DEF M

GroupStep(in, gs, t) ==
    LET g == in.task[t].group IN IF g = None \/ g \in ToSet(gs) THEN gs ELSE Append(gs, g)
\* The groups, listed task by task.
Grouping(in, base, seq) == FoldLeft(LAMBDA gs, t : GroupStep(in, gs, t), base, seq)
GroupInput(in, base, n, seq, D, T) ==
    /\ n \in Nat /\ DOMAIN seq = 1 .. n /\ base \in D /\ \A i \in 1 .. n : seq[i] \in T
    /\ \A d \in D, x \in T : GroupStep(in, d, x) \in D
GroupRun(in, base, n, seq, D, h) ==
    /\ h \in [0 .. n -> D] /\ h[0] = base
    /\ \A i \in 1 .. n : h[i] = GroupStep(in, h[i - 1], seq[i])
    /\ h[n] = Grouping(in, base, seq)
LEMMA GroupFold ==
    ASSUME NEW in, NEW base, NEW n, NEW seq, NEW D, NEW T, GroupInput(in, base, n, seq, D, T)
    PROVE  \E h : GroupRun(in, base, n, seq, D, h)
<1> DEFINE F == [p \in D \X T |-> GroupStep(in, p[1], p[2])]
           Eq(g) == g = [s \in SUBSET DOMAIN seq |->
                            IF s = {} THEN base ELSE GroupStep(in, g[s \ {Max(s)}], seq[Max(s)])]
           iter == CHOOSE g : Eq(g)
           h == [i \in 0 .. n |-> iter[1 .. i]]
<1> USE DEF GroupInput
<1>1. IsFiniteSet(DOMAIN seq) /\ DOMAIN seq \in SUBSET Int
  BY FirstOnes
<1>2. \A d \in D, x \in T : F[<<d, x>>] = GroupStep(in, d, x) /\ F[<<d, x>>] \in D
  OBVIOUS
<1>3. \E g : Eq(g)
  <2> HIDE DEF F
  <2>1. PICK g : FoldEq(g, F, base, seq)
    BY <1>1, FoldExists
  <2>2. \A s \in SUBSET DOMAIN seq : g[s] \in D
    BY <1>1, <1>2, <2>1, FoldTyped
  <2>3. \A s \in SUBSET DOMAIN seq : s # {} => Max(s) \in s /\ s \ {Max(s)} \in SUBSET DOMAIN seq
    BY <1>1, FS_Subset, MaxIs
  <2>4. ASSUME NEW s \in SUBSET DOMAIN seq
        PROVE  (IF s = {} THEN base ELSE F[<<g[s \ {Max(s)}], seq[Max(s)]>>])
               = (IF s = {} THEN base ELSE GroupStep(in, g[s \ {Max(s)}], seq[Max(s)]))
    <3>1. CASE s # {}
      <4>1. g[s \ {Max(s)}] \in D /\ seq[Max(s)] \in T
        BY <2>2, <2>3, <3>1
      <4> QED BY <1>2, <3>1, <4>1
    <3> QED BY <3>1
  <2>5. g = [s \in SUBSET DOMAIN seq |-> IF s = {} THEN base ELSE F[<<g[s \ {Max(s)}], seq[Max(s)]>>]]
    BY <2>1 DEF FoldEq
  <2> QED BY <2>4, <2>5, Zenon
<1>4. Eq(iter)
  BY <1>3, Zenon
<1>5. iter[DOMAIN seq] = Grouping(in, base, seq)
  BY Zenon DEF FoldLeft, MapThenFoldSet, Grouping, GroupStep
<1> HIDE DEF iter, F
<1>6. h[0] = base /\ \A i \in 1 .. n : h[i] = GroupStep(in, h[i - 1], seq[i])
  <2>1. h[0] = base
    BY <1>4, FirstOnes
  <2>2. ASSUME NEW i \in 1 .. n PROVE h[i] = GroupStep(in, h[i - 1], seq[i])
    <3>1. /\ Max(1 .. i) = i /\ 1 .. i \in SUBSET DOMAIN seq /\ 1 .. i # {} /\ (1 .. i) \ {i} = 1 .. i - 1
          /\ i \in 0 .. n /\ i - 1 \in 0 .. n
      BY FirstOnes
    <3>2. iter[1 .. i] = GroupStep(in, iter[1 .. i - 1], seq[i])
      BY <1>4, <3>1
    <3>3. h[i] = iter[1 .. i] /\ h[i - 1] = iter[1 .. i - 1]
      BY <3>1
    <3> QED BY <3>2, <3>3
  <2> QED BY <2>1, <2>2
<1>7. h[n] = iter[DOMAIN seq]
  OBVIOUS
<1> DEFINE Good == {i \in 0 .. n : h[i] \in D}
<1>8. \A i \in 0 .. n : i \in Good
  <2>1. 0 \in Good
    BY <1>6
  <2>2. ASSUME NEW i \in 0 .. n - 1, i \in Good PROVE i + 1 \in Good
    <3>1. i + 1 \in 1 .. n /\ (i + 1) - 1 = i /\ i + 1 \in 0 .. n
      OBVIOUS
    <3>2. h[i + 1] = GroupStep(in, h[i], seq[i + 1]) /\ seq[i + 1] \in T /\ h[i] \in D
      BY <1>6, <2>2, <3>1
    <3> QED BY <3>1, <3>2
  <2> HIDE DEF Good
  <2> QED BY <2>1, <2>2, UpTo
<1>9. h \in [0 .. n -> D]
  BY <1>8
<1> HIDE DEF h
<1>10. GroupRun(in, base, n, seq, D, h)
  BY <1>5, <1>6, <1>7, <1>9 DEF GroupRun
<1> QED BY <1>10

\* The units, merged group by group.
Merging(in, base, seq) == FoldLeft(LAMBDA units, g : MergeGroup(in, units, g), base, seq)
UnitInput(in, base, n, seq, D, T) ==
    /\ n \in Nat /\ DOMAIN seq = 1 .. n /\ base \in D /\ \A i \in 1 .. n : seq[i] \in T
    /\ \A d \in D, x \in T : MergeGroup(in, d, x) \in D
UnitRun(in, base, n, seq, D, h) ==
    /\ h \in [0 .. n -> D] /\ h[0] = base
    /\ \A i \in 1 .. n : h[i] = MergeGroup(in, h[i - 1], seq[i])
    /\ h[n] = Merging(in, base, seq)
LEMMA UnitFold ==
    ASSUME NEW in, NEW base, NEW n, NEW seq, NEW D, NEW T, UnitInput(in, base, n, seq, D, T)
    PROVE  \E h : UnitRun(in, base, n, seq, D, h)
<1> DEFINE F == [p \in D \X T |-> MergeGroup(in, p[1], p[2])]
           Eq(g) == g = [s \in SUBSET DOMAIN seq |->
                            IF s = {} THEN base ELSE MergeGroup(in, g[s \ {Max(s)}], seq[Max(s)])]
           iter == CHOOSE g : Eq(g)
           h == [i \in 0 .. n |-> iter[1 .. i]]
<1> USE DEF UnitInput
<1>1. IsFiniteSet(DOMAIN seq) /\ DOMAIN seq \in SUBSET Int
  BY FirstOnes
<1>2. \A d \in D, x \in T : F[<<d, x>>] = MergeGroup(in, d, x) /\ F[<<d, x>>] \in D
  OBVIOUS
<1>3. \E g : Eq(g)
  <2> HIDE DEF F
  <2>1. PICK g : FoldEq(g, F, base, seq)
    BY <1>1, FoldExists
  <2>2. \A s \in SUBSET DOMAIN seq : g[s] \in D
    BY <1>1, <1>2, <2>1, FoldTyped
  <2>3. \A s \in SUBSET DOMAIN seq : s # {} => Max(s) \in s /\ s \ {Max(s)} \in SUBSET DOMAIN seq
    BY <1>1, FS_Subset, MaxIs
  <2>4. ASSUME NEW s \in SUBSET DOMAIN seq
        PROVE  (IF s = {} THEN base ELSE F[<<g[s \ {Max(s)}], seq[Max(s)]>>])
               = (IF s = {} THEN base ELSE MergeGroup(in, g[s \ {Max(s)}], seq[Max(s)]))
    <3>1. CASE s # {}
      <4>1. g[s \ {Max(s)}] \in D /\ seq[Max(s)] \in T
        BY <2>2, <2>3, <3>1
      <4> QED BY <1>2, <3>1, <4>1
    <3> QED BY <3>1
  <2>5. g = [s \in SUBSET DOMAIN seq |-> IF s = {} THEN base ELSE F[<<g[s \ {Max(s)}], seq[Max(s)]>>]]
    BY <2>1 DEF FoldEq
  <2> QED BY <2>4, <2>5, Zenon
<1>4. Eq(iter)
  BY <1>3, Zenon
<1>5. iter[DOMAIN seq] = Merging(in, base, seq)
  BY Zenon DEF FoldLeft, MapThenFoldSet, Merging
<1> HIDE DEF iter, F
<1>6. h[0] = base /\ \A i \in 1 .. n : h[i] = MergeGroup(in, h[i - 1], seq[i])
  <2>1. h[0] = base
    BY <1>4, FirstOnes
  <2>2. ASSUME NEW i \in 1 .. n PROVE h[i] = MergeGroup(in, h[i - 1], seq[i])
    <3>1. /\ Max(1 .. i) = i /\ 1 .. i \in SUBSET DOMAIN seq /\ 1 .. i # {} /\ (1 .. i) \ {i} = 1 .. i - 1
          /\ i \in 0 .. n /\ i - 1 \in 0 .. n
      BY FirstOnes
    <3>2. iter[1 .. i] = MergeGroup(in, iter[1 .. i - 1], seq[i])
      BY <1>4, <3>1
    <3>3. h[i] = iter[1 .. i] /\ h[i - 1] = iter[1 .. i - 1]
      BY <3>1
    <3> QED BY <3>2, <3>3
  <2> QED BY <2>1, <2>2
<1>7. h[n] = iter[DOMAIN seq]
  OBVIOUS
<1> DEFINE Good == {i \in 0 .. n : h[i] \in D}
<1>8. \A i \in 0 .. n : i \in Good
  <2>1. 0 \in Good
    BY <1>6
  <2>2. ASSUME NEW i \in 0 .. n - 1, i \in Good PROVE i + 1 \in Good
    <3>1. i + 1 \in 1 .. n /\ (i + 1) - 1 = i /\ i + 1 \in 0 .. n
      OBVIOUS
    <3>2. h[i + 1] = MergeGroup(in, h[i], seq[i + 1]) /\ seq[i + 1] \in T /\ h[i] \in D
      BY <1>6, <2>2, <3>1
    <3> QED BY <3>1, <3>2
  <2> HIDE DEF Good
  <2> QED BY <2>1, <2>2, UpTo
<1>9. h \in [0 .. n -> D]
  BY <1>8
<1> HIDE DEF h
<1>10. UnitRun(in, base, n, seq, D, h)
  BY <1>5, <1>6, <1>7, <1>9 DEF UnitRun
<1> QED BY <1>10

LEMMA GroupsFacts ==
    ASSUME NEW in, Listed(in)
    PROVE  /\ Groups(in) \in Seq({in.task[t].group : t \in Ids(in)})
           /\ \A t \in Ids(in) : in.task[t].group # None => in.task[t].group \in ToSet(Groups(in))
<1> DEFINE names == {in.task[t].group : t \in Ids(in)}
           D == Seq(names)
           seq == in.order
           n == Len(seq)
<1>1. n \in Nat /\ DOMAIN seq = 1 .. n /\ (\A i \in 1 .. n : seq[i] \in Ids(in)) /\ \A t \in Ids(in) : \E i \in 1 .. n : seq[i] = t
  BY ListedFacts DEF Ids, ToSet
<1>2. \A gs \in D, t \in Ids(in) :
         /\ GroupStep(in, gs, t) \in D /\ ToSet(gs) \subseteq ToSet(GroupStep(in, gs, t))
         /\ in.task[t].group # None => in.task[t].group \in ToSet(GroupStep(in, gs, t))
  <2> SUFFICES ASSUME NEW gs \in D, NEW t \in Ids(in)
               PROVE  /\ GroupStep(in, gs, t) \in D /\ ToSet(gs) \subseteq ToSet(GroupStep(in, gs, t))
                      /\ in.task[t].group # None => in.task[t].group \in ToSet(GroupStep(in, gs, t))
    OBVIOUS
  <2>1. in.task[t].group \in names
    OBVIOUS
  <2>2. CASE in.task[t].group = None \/ in.task[t].group \in ToSet(gs)
    BY <2>2 DEF GroupStep
  <2>3. CASE ~(in.task[t].group = None \/ in.task[t].group \in ToSet(gs))
    <3>1. GroupStep(in, gs, t) = Append(gs, in.task[t].group)
      BY <2>3 DEF GroupStep
    <3> HIDE DEF names
    <3> QED BY <2>1, <3>1, SetOfAppended
  <2> QED BY <2>2, <2>3
<1>3. PICK h : GroupRun(in, <<>>, n, seq, D, h)
  <2>1. <<>> \in D
    OBVIOUS
  <2> HIDE DEF D, n, seq
  <2>2. GroupInput(in, <<>>, n, seq, D, Ids(in))
    BY <1>1, <1>2, <2>1 DEF GroupInput
  <2> QED BY <2>2, GroupFold
<1>4. /\ h \in [0 .. n -> D] /\ h[0] = <<>>
      /\ \A i \in 1 .. n : h[i] = GroupStep(in, h[i - 1], seq[i])
      /\ h[n] = Groups(in)
  <2>1. Groups(in) = Grouping(in, <<>>, in.order)
    BY Zenon DEF Groups, Grouping, GroupStep
  <2> QED BY <1>3, <2>1 DEF GroupRun
<1> DEFINE Good == {i \in 0 .. n : \A j \in 1 .. i : in.task[seq[j]].group # None => in.task[seq[j]].group \in ToSet(h[i])}
<1>5. 0 \in Good
  BY <1>1
<1>6. ASSUME NEW i \in 0 .. n - 1, i \in Good PROVE i + 1 \in Good
  <2>1. i + 1 \in 1 .. n /\ (i + 1) - 1 = i /\ i + 1 \in 0 .. n /\ i \in 0 .. n
    BY <1>1
  <2>2. h[i + 1] = GroupStep(in, h[i], seq[i + 1]) /\ h[i] \in D /\ seq[i + 1] \in Ids(in)
    BY <1>1, <1>4, <2>1
  <2>3. /\ ToSet(h[i]) \subseteq ToSet(h[i + 1])
        /\ in.task[seq[i + 1]].group # None => in.task[seq[i + 1]].group \in ToSet(h[i + 1])
    BY <1>2, <2>2
  <2>4. \A j \in 1 .. i + 1 : j \in 1 .. i \/ j = i + 1
    BY <1>1
  <2>5. \A j \in 1 .. i : in.task[seq[j]].group # None => in.task[seq[j]].group \in ToSet(h[i])
    BY <1>6
  <2> HIDE DEF n, seq
  <2> QED BY <2>1, <2>3, <2>4, <2>5
<1>7. n \in Good
  <2> HIDE DEF Good, n
  <2>1. \A i \in 0 .. n - 1 : i \in Good => i + 1 \in Good
    BY <1>6
  <2>2. \A i \in 0 .. n : i \in Good
    BY <1>1, <1>5, <2>1, UpTo
  <2>3. n \in 0 .. n
    BY <1>1
  <2> QED BY <2>2, <2>3
<1>8. h[n] \in D
  <2>1. n \in 0 .. n
    BY <1>1
  <2> QED BY <1>4, <2>1
<1> QED BY <1>1, <1>4, <1>7, <1>8

\* The units of a solve: they part the tasks, and no chain or group.
LEMMA UnitsFacts ==
    ASSUME NEW in, Listed(in)
    PROVE  /\ UnitsOk(in, Units(in)) /\ Whole(in, Units(in), SameRoot(in))
           /\ \A t \in Ids(in) : in.task[t].group # None => Whole(in, Units(in), SameGroup(in, in.task[t].group))
<1> DEFINE names == {in.task[t].group : t \in Ids(in)}
           D == {U \in SUBSET Unit(in) : UnitsOk(in, U) /\ Whole(in, U, SameRoot(in))}
           seq == Groups(in)
           n == Len(seq)
           base == ChainUnits(in)
<1>1. /\ n \in Nat /\ DOMAIN seq = 1 .. n /\ \A i \in 1 .. n : seq[i] \in names
      /\ \A t \in Ids(in) : in.task[t].group # None => \E i \in 1 .. n : seq[i] = in.task[t].group
  <2>1. seq \in Seq(names) /\ \A t \in Ids(in) : in.task[t].group # None => in.task[t].group \in ToSet(seq)
    BY GroupsFacts
  <2> HIDE DEF seq, names
  <2> QED BY <2>1 DEF ToSet
<1>2. \A U \in D, g \in names : /\ MergeGroup(in, U, g) \in D
                                /\ Whole(in, MergeGroup(in, U, g), SameGroup(in, g))
                                /\ \A R : Whole(in, U, R) => Whole(in, MergeGroup(in, U, g), R)
  <2> SUFFICES ASSUME NEW U \in D, NEW g \in names
               PROVE  /\ MergeGroup(in, U, g) \in D
                      /\ Whole(in, MergeGroup(in, U, g), SameGroup(in, g))
                      /\ \A R : Whole(in, U, R) => Whole(in, MergeGroup(in, U, g), R)
    OBVIOUS
  <2>1. /\ UnitsOk(in, MergeGroup(in, U, g)) /\ Whole(in, MergeGroup(in, U, g), SameGroup(in, g))
        /\ \A R : Whole(in, U, R) => Whole(in, MergeGroup(in, U, g), R)
    BY MergeFacts
  <2>2. MergeGroup(in, U, g) \in SUBSET Unit(in)
    BY <2>1 DEF UnitsOk
  <2> QED BY <2>1, <2>2
<1>3. base \in D
  BY ChainUnitsOk DEF UnitsOk
<1>4. PICK h : UnitRun(in, base, n, seq, D, h)
  <2> HIDE DEF D, n, seq, base, names
  <2>1. UnitInput(in, base, n, seq, D, names)
    BY <1>1, <1>2, <1>3 DEF UnitInput
  <2> QED BY <2>1, UnitFold
<1>5. /\ h \in [0 .. n -> D] /\ h[0] = base
      /\ \A i \in 1 .. n : h[i] = MergeGroup(in, h[i - 1], seq[i])
      /\ h[n] = Units(in)
  <2>1. Units(in) = Merging(in, ChainUnits(in), Groups(in))
    BY Zenon DEF Units, Merging
  <2> QED BY <1>4, <2>1 DEF UnitRun
<1> DEFINE Good == {i \in 0 .. n : \A j \in 1 .. i : Whole(in, h[i], SameGroup(in, seq[j]))}
<1>6. 0 \in Good
  BY <1>1
<1>7. ASSUME NEW i \in 0 .. n - 1, i \in Good PROVE i + 1 \in Good
  <2>1. i + 1 \in 1 .. n /\ (i + 1) - 1 = i /\ i + 1 \in 0 .. n /\ i \in 0 .. n
    BY <1>1
  <2>2. h[i + 1] = MergeGroup(in, h[i], seq[i + 1]) /\ h[i] \in D /\ seq[i + 1] \in names
    <3> HIDE DEF D, names, seq, n
    <3> QED BY <1>1, <1>5, <2>1
  <2>3. /\ Whole(in, h[i + 1], SameGroup(in, seq[i + 1]))
        /\ \A R : Whole(in, h[i], R) => Whole(in, h[i + 1], R)
    <3> HIDE DEF D, names, seq, n
    <3> QED BY <1>2, <2>2
  <2>4. \A j \in 1 .. i + 1 : j \in 1 .. i \/ j = i + 1
    BY <1>1
  <2>5. \A j \in 1 .. i : Whole(in, h[i], SameGroup(in, seq[j]))
    BY <1>7
  <2> HIDE DEF n, seq
  <2> QED BY <2>1, <2>3, <2>4, <2>5
<1>8. n \in Good
  <2> HIDE DEF Good, n
  <2>1. \A i \in 0 .. n - 1 : i \in Good => i + 1 \in Good
    BY <1>7
  <2>2. \A i \in 0 .. n : i \in Good
    BY <1>1, <1>6, <2>1, UpTo
  <2>3. n \in 0 .. n
    BY <1>1
  <2> QED BY <2>2, <2>3
<1>9. h[n] \in D
  <2>1. n \in 0 .. n
    BY <1>1
  <2> HIDE DEF D, n
  <2> QED BY <1>5, <2>1
<1>10. \A j \in 1 .. n : Whole(in, h[n], SameGroup(in, seq[j]))
  BY <1>8
<1>11. \A t \in Ids(in) : in.task[t].group # None => Whole(in, Units(in), SameGroup(in, in.task[t].group))
  <2> HIDE DEF D, n, seq, names, base
  <2> QED BY <1>1, <1>5, <1>10
<1>12. UnitsOk(in, h[n]) /\ Whole(in, h[n], SameRoot(in))
  BY <1>9
<1> QED BY <1>5, <1>11, <1>12

-----------------------------------------------------------------------------
(* Places in sequences of sequences *)

LEMMA PairIs ==
    ASSUME NEW A, NEW B, NEW p \in A \X B
    PROVE  p = <<p[1], p[2]>> /\ p[1] \in A /\ p[2] \in B
OBVIOUS

\* f takes every place of t to one of the first i sequences of s, each once.
Spread(s, i, t, f) ==
    /\ f \in [1 .. Len(t) -> (1 .. i) \X Nat]
    /\ \A k \in 1 .. Len(t) : f[k][2] \in 1 .. Len(s[f[k][1]]) /\ t[k] = s[f[k][1]][f[k][2]]
    /\ \A k, l \in 1 .. Len(t) : f[k] = f[l] => k = l
    /\ \A c \in 1 .. i : \A j \in 1 .. Len(s[c]) : \E k \in 1 .. Len(t) : f[k] = <<c, j>>

LEMMA SpreadJoined ==
    ASSUME NEW T, NEW s \in Seq(Seq(T)), NEW i \in 0 .. Len(s) - 1, NEW t \in Seq(T), NEW f, Spread(s, i, t, f)
    PROVE  \E g : Spread(s, i + 1, t \o s[i + 1], g)
<1> DEFINE n == Len(t)
           u == s[i + 1]
           m == Len(u)
           w == t \o u
           g == [k \in 1 .. n + m |-> IF k <= n THEN f[k] ELSE <<i + 1, k - n>>]
<1>1. /\ i + 1 \in 1 .. Len(s) /\ u \in Seq(T) /\ n \in Nat /\ m \in Nat /\ Len(w) = n + m /\ i \in Nat
      /\ \A k \in 1 .. n : w[k] = t[k]
      /\ \A k \in 1 .. m : w[n + k] = u[k]
  OBVIOUS
<1>2. /\ \A k \in 1 .. n : /\ f[k] \in (1 .. i) \X Nat /\ f[k][2] \in 1 .. Len(s[f[k][1]])
                           /\ t[k] = s[f[k][1]][f[k][2]] /\ f[k][1] \in 1 .. i
      /\ \A k, l \in 1 .. n : f[k] = f[l] => k = l
      /\ \A c \in 1 .. i : \A j \in 1 .. Len(s[c]) : \E k \in 1 .. n : f[k] = <<c, j>>
  BY DEF Spread
<1>3. /\ \A k \in 1 .. n : k \in 1 .. n + m /\ g[k] = f[k]
      /\ \A a \in 1 .. m : n + a \in 1 .. n + m /\ g[n + a] = <<i + 1, a>>
      /\ g = [k \in 1 .. n + m |-> g[k]]
  BY <1>1
<1>4. /\ \A k \in 1 .. n + m : k \in 1 .. n \/ \E a \in 1 .. m : k = n + a
      /\ \A c \in 1 .. i + 1 : c \in 1 .. i \/ c = i + 1
      /\ (1 .. i) \X Nat \subseteq (1 .. i + 1) \X Nat
      /\ i + 1 \in 1 .. i + 1 /\ i + 1 \notin 1 .. i /\ \A a \in 1 .. m : a \in Nat
  <2>1. \A k \in 1 .. n + m : k \notin 1 .. n => k - n \in 1 .. m /\ k = n + (k - n)
    BY <1>1
  <2>2. \A k \in 1 .. n + m : k \in 1 .. n \/ \E a \in 1 .. m : k = n + a
    BY <2>1
  <2> QED BY <1>1, <2>2
<1>5. \A a \in 1 .. m : g[n + a][1] = i + 1 /\ g[n + a][2] = a
  BY <1>3
<1> HIDE DEF g, u, w, n, m
<1>6. g \in [1 .. Len(w) -> (1 .. i + 1) \X Nat]
  <2>1. \A k \in 1 .. n : g[k] \in (1 .. i + 1) \X Nat
    BY <1>2, <1>3, <1>4
  <2>2. \A a \in 1 .. m : g[n + a] \in (1 .. i + 1) \X Nat
    <3> SUFFICES ASSUME NEW a \in 1 .. m PROVE g[n + a] \in (1 .. i + 1) \X Nat
      OBVIOUS
    <3>1. g[n + a] = <<i + 1, a>> /\ a \in Nat /\ i + 1 \in 1 .. i + 1
      BY <1>3, <1>4
    <3>2. <<i + 1, a>> \in (1 .. i + 1) \X Nat
      BY <3>1
    <3> QED BY <3>1, <3>2, Zenon
  <2>3. \A k \in 1 .. n + m : g[k] \in (1 .. i + 1) \X Nat
    BY <1>4, <2>1, <2>2
  <2> QED BY <1>1, <1>3, <2>3
<1>7. \A k \in 1 .. Len(w) : g[k][2] \in 1 .. Len(s[g[k][1]]) /\ w[k] = s[g[k][1]][g[k][2]]
  <2>1. \A k \in 1 .. n : g[k][2] \in 1 .. Len(s[g[k][1]]) /\ w[k] = s[g[k][1]][g[k][2]]
    BY <1>1, <1>2, <1>3
  <2>2. \A a \in 1 .. m : g[n + a][2] \in 1 .. Len(s[g[n + a][1]]) /\ w[n + a] = s[g[n + a][1]][g[n + a][2]]
    BY <1>1, <1>5 DEF u, m
  <2>3. \A k \in 1 .. n + m : g[k][2] \in 1 .. Len(s[g[k][1]]) /\ w[k] = s[g[k][1]][g[k][2]]
    BY <1>4, <2>1, <2>2
  <2> QED BY <1>1, <2>3
<1>9. ASSUME NEW k \in 1 .. Len(w), NEW l \in 1 .. Len(w), g[k] = g[l] PROVE k = l
  <2>1. (k \in 1 .. n \/ \E a \in 1 .. m : k = n + a) /\ (l \in 1 .. n \/ \E a \in 1 .. m : l = n + a)
    BY <1>1, <1>4
  <2>2. CASE k \in 1 .. n /\ l \in 1 .. n
    BY <1>2, <1>3, <1>9, <2>2
  <2>3. ASSUME NEW a \in 1 .. m, NEW b \in 1 .. m, k = n + a, l = n + b PROVE k = l
    BY <1>5, <1>9, <2>3
  <2>4. ASSUME NEW a \in 1 .. m, k \in 1 .. n, l = n + a PROVE FALSE
    <3>1. g[k][1] \in 1 .. i
      BY <1>2, <1>3, <2>4
    <3>2. g[l][1] = i + 1
      BY <1>5, <2>4
    <3> QED BY <1>4, <1>9, <3>1, <3>2
  <2>5. ASSUME NEW a \in 1 .. m, l \in 1 .. n, k = n + a PROVE FALSE
    <3>1. g[l][1] \in 1 .. i
      BY <1>2, <1>3, <2>5
    <3>2. g[k][1] = i + 1
      BY <1>5, <2>5
    <3> QED BY <1>4, <1>9, <3>1, <3>2
  <2> QED BY <2>1, <2>2, <2>3, <2>4, <2>5
<1>10. ASSUME NEW c \in 1 .. i + 1, NEW j \in 1 .. Len(s[c]) PROVE \E k \in 1 .. Len(w) : g[k] = <<c, j>>
  <2>1. CASE c \in 1 .. i
    <3>1. PICK k \in 1 .. n : f[k] = <<c, j>>
      BY <1>2, <2>1
    <3> QED BY <1>1, <1>3, <3>1
  <2>2. CASE c = i + 1
    <3>1. j \in 1 .. m
      BY <2>2 DEF u, m
    <3> QED BY <1>1, <1>3, <2>2, <3>1
  <2> QED BY <1>4, <2>1, <2>2
<1>8. Spread(s, i + 1, w, g)
  BY <1>6, <1>7, <1>9, <1>10 DEF Spread
<1> QED BY <1>8 DEF w, u

\* The places of a flattened sequence are those of its sequences.
LEMMA FlattenPlaces ==
    ASSUME NEW T, NEW s \in Seq(Seq(T))
    PROVE  FlattenSeq(s) \in Seq(T) /\ \E f : Spread(s, Len(s), FlattenSeq(s), f)
<1> DEFINE n == Len(s)
<1>1. n \in Nat
  OBVIOUS
<1>2. PICK h \in [0 .. n -> Seq(T)] :
          h[0] = <<>> /\ (\A i \in 1 .. n : h[i] = h[i - 1] \o s[i]) /\ h[n] = FlattenSeq(s)
  BY FlattenFold
<1> DEFINE Good == {i \in 0 .. n : \E f : Spread(s, i, h[i], f)}
<1>3. 0 \in Good
  <2>1. Spread(s, 0, <<>>, <<>>)
    BY DEF Spread
  <2>2. 0 \in 0 .. n
    BY <1>1
  <2>3. \E f : Spread(s, 0, h[0], f)
    BY <1>2, <2>1
  <2> QED BY <2>2, <2>3
<1>4. ASSUME NEW i \in 0 .. n - 1, i \in Good PROVE i + 1 \in Good
  <2>1. i + 1 \in 1 .. n /\ (i + 1) - 1 = i /\ i + 1 \in 0 .. n /\ i \in 0 .. n
    BY <1>1
  <2>2. PICK f : Spread(s, i, h[i], f)
    BY <1>4
  <2> HIDE DEF Good
  <2>3. h[i + 1] = h[i] \o s[i + 1] /\ h[i] \in Seq(T)
    <3>1. h[i + 1] = h[(i + 1) - 1] \o s[i + 1]
      BY <1>2, <2>1
    <3> HIDE DEF n
    <3> QED BY <1>2, <2>1, <3>1
  <2>4. \E g : Spread(s, i + 1, h[i] \o s[i + 1], g)
    BY <2>2, <2>3, SpreadJoined
  <2>5. \E g : Spread(s, i + 1, h[i + 1], g)
    BY <2>3, <2>4
  <2> QED BY <2>1, <2>5 DEF Good
<1>5. n \in Good
  <2> HIDE DEF Good, n
  <2>1. \A i \in 0 .. n - 1 : i \in Good => i + 1 \in Good
    BY <1>4
  <2>2. \A i \in 0 .. n : i \in Good
    BY <1>1, <1>3, <2>1, UpTo
  <2>3. n \in 0 .. n
    BY <1>1
  <2> QED BY <2>2, <2>3
<1>6. h[n] \in Seq(T)
  <2>1. n \in 0 .. n
    BY <1>1
  <2> HIDE DEF n
  <2> QED BY <1>2, <2>1
<1> QED BY <1>2, <1>5, <1>6

\* Sequences of which no two places hold the same.
Parted(s) ==
    /\ \A c \in DOMAIN s : IsInjective(s[c])
    /\ \A c, d \in DOMAIN s : c # d => ToSet(s[c]) \cap ToSet(s[d]) = {}
Covered(s) == UNION {ToSet(s[c]) : c \in DOMAIN s}

LEMMA FlattenParted ==
    ASSUME NEW T, NEW s \in Seq(Seq(T)), Parted(s)
    PROVE  IsInjective(FlattenSeq(s)) /\ FlattenSeq(s) \in Seq(T) /\ ToSet(FlattenSeq(s)) = Covered(s)
<1> DEFINE t == FlattenSeq(s)
<1>1. t \in Seq(T)
  BY FlattenPlaces
<1>2. PICK f : Spread(s, Len(s), t, f)
  BY FlattenPlaces
<1>3. /\ Len(t) \in Nat /\ DOMAIN t = 1 .. Len(t) /\ DOMAIN s = 1 .. Len(s)
      /\ \A c \in 1 .. Len(s) : s[c] \in Seq(T) /\ DOMAIN s[c] = 1 .. Len(s[c])
  BY <1>1
<1>4. ToSet(t) = Covered(s)
  BY FlattenFacts DEF Covered
<1> HIDE DEF t
<1>5. ASSUME NEW k \in 1 .. Len(t), NEW l \in 1 .. Len(t), t[k] = t[l] PROVE k = l
  <2> DEFINE c == f[k][1]
             i == f[k][2]
             d == f[l][1]
             j == f[l][2]
  <2>1. /\ f[k] = <<c, i>> /\ f[l] = <<d, j>> /\ c \in 1 .. Len(s) /\ d \in 1 .. Len(s)
        /\ i \in 1 .. Len(s[c]) /\ j \in 1 .. Len(s[d]) /\ t[k] = s[c][i] /\ t[l] = s[d][j]
    <3>1. f[k] \in (1 .. Len(s)) \X Nat /\ f[l] \in (1 .. Len(s)) \X Nat
      BY <1>2 DEF Spread
    <3>2. f[k] = <<c, i>> /\ f[l] = <<d, j>> /\ c \in 1 .. Len(s) /\ d \in 1 .. Len(s)
      BY <3>1, PairIs
    <3> QED BY <1>2, <3>2 DEF Spread
  <2> HIDE DEF c, d, i, j
  <2>2. s[c][i] = s[d][j] /\ s[c][i] \in ToSet(s[c]) /\ s[d][j] \in ToSet(s[d])
    BY <1>3, <1>5, <2>1 DEF ToSet
  <2>3. c = d
    BY <1>3, <2>1, <2>2 DEF Parted
  <2>4. i = j
    BY <1>3, <2>1, <2>2, <2>3 DEF Parted, IsInjective
  <2>5. f[k] = f[l]
    BY <2>1, <2>3, <2>4
  <2> QED BY <1>2, <2>5 DEF Spread
<1>6. IsInjective(t)
  BY <1>3, <1>5 DEF IsInjective
<1> QED BY <1>1, <1>4, <1>6 DEF t

\* One more sequence that shares nothing with the others.
LEMMA AppendParted ==
    ASSUME NEW T, NEW s \in Seq(Seq(T)), NEW c \in Seq(T)
    PROVE  /\ Append(s, c) \in Seq(Seq(T)) /\ Covered(Append(s, c)) = Covered(s) \cup ToSet(c)
           /\ Parted(s) /\ IsInjective(c) /\ ToSet(c) \cap Covered(s) = {} => Parted(Append(s, c))
           /\ Parted(Append(s, c)) => Parted(s) /\ IsInjective(c) /\ ToSet(c) \cap Covered(s) = {}
<1> DEFINE w == Append(s, c)
           n == Len(s)
<1>1. /\ w \in Seq(Seq(T)) /\ n \in Nat /\ DOMAIN s = 1 .. n /\ DOMAIN w = 1 .. n + 1 /\ w[n + 1] = c
      /\ \A i \in 1 .. n : w[i] = s[i] /\ i \in 1 .. n + 1
      /\ \A i \in 1 .. n + 1 : i \in 1 .. n \/ i = n + 1
      /\ n + 1 \in 1 .. n + 1 /\ n + 1 \notin 1 .. n
  OBVIOUS
<1> HIDE DEF w, n
<1>2. Covered(w) = Covered(s) \cup ToSet(c)
  <2>1. Covered(w) \subseteq Covered(s) \cup ToSet(c)
    BY <1>1 DEF Covered
  <2>2. Covered(s) \subseteq Covered(w) /\ ToSet(c) \subseteq Covered(w)
    BY <1>1 DEF Covered
  <2> QED BY <2>1, <2>2
<1>3. ASSUME Parted(s), IsInjective(c), ToSet(c) \cap Covered(s) = {} PROVE Parted(w)
  <2>1. \A i \in 1 .. n : ToSet(s[i]) \cap ToSet(c) = {}
    BY <1>1, <1>3 DEF Covered
  <2> QED BY <1>1, <1>3, <2>1 DEF Parted
<1>4. ASSUME Parted(w) PROVE Parted(s) /\ IsInjective(c) /\ ToSet(c) \cap Covered(s) = {}
  <2>1. \A i \in 1 .. n : ToSet(s[i]) \cap ToSet(c) = {}
    BY <1>1, <1>4 DEF Parted
  <2>2. ToSet(c) \cap Covered(s) = {}
    BY <1>1, <2>1 DEF Covered
  <2> QED BY <1>1, <1>4, <2>2 DEF Parted
<1> QED BY <1>1, <1>2, <1>3, <1>4 DEF w

-----------------------------------------------------------------------------
(* Depots *)

Depots(in) == DOMAIN in.depotAt
Far(in, t, d) == TravelSeconds(in.opMode[in.task[t].op], in.depotAt[d].at, in.task[t].at)
\* Every task can be told its distance from every depot.
Located(in) ==
    /\ Listed(in) /\ in.depotAt \in Seq(ToSet(in.depotAt)) /\ in.depotAt # <<>>
    /\ \A t \in Ids(in), d \in Depots(in) : Far(in, t, d) \in Int
Sited(in) == {t \in Ids(in) : in.task[t].at \in in.sites}

LEMMA NearestDepotIs ==
    ASSUME NEW in, Located(in), NEW t \in Ids(in)
    PROVE  /\ t \in Sited(in) => NearestDepot(in, t) \in Depots(in)
           /\ t \notin Sited(in) => NearestDepot(in, t) = None
           /\ None \notin Depots(in) /\ Depots(in) = 1 .. Len(in.depotAt) /\ Len(in.depotAt) \in Nat
<1>1. /\ Depots(in) = 1 .. Len(in.depotAt) /\ Len(in.depotAt) \in Nat /\ Len(in.depotAt) # 0
      /\ Depots(in) \in SUBSET Int
  BY DEF Depots, Located
<1>2. None \notin Depots(in)
  BY <1>1, NoneAssumption
<1>3. CASE t \in Sited(in)
  <2> DEFINE R == {p \in Depots(in) \X Depots(in) : Far(in, t, p[1]) <= Far(in, t, p[2])}
             S == {d \in Depots(in) : \A e \in Depots(in) : Far(in, t, d) <= Far(in, t, e)}
  <2>1. IsFiniteSet(Depots(in)) /\ Depots(in) # {}
    BY <1>1, FirstOnes
  <2>2. \A d \in Depots(in) : Far(in, t, d) \in Int
    BY DEF Located
  <2>3. \A x, y \in Depots(in) : x = y \/ <<x, y>> \in R \/ <<y, x>> \in R
    BY <2>2
  <2>4. \A x, y, z \in Depots(in) : <<x, y>> \in R /\ <<y, z>> \in R => <<x, z>> \in R
    BY <2>2
  <2>5. PICK x : First(R, Depots(in), x)
    <3> HIDE DEF R
    <3> QED BY <2>1, <2>3, <2>4, FirstExists
  <2>6. x \in Depots(in) /\ \A y \in Depots(in) : y = x \/ Far(in, t, x) <= Far(in, t, y)
    BY <2>5 DEF First
  <2>7. x \in S
    BY <2>2, <2>6
  <2>8. S \in SUBSET Int /\ IsFiniteSet(S) /\ S # {}
    BY <1>1, <2>1, <2>7, FS_Subset
  <2>9. Min(S) \in S
    <3> HIDE DEF S
    <3> QED BY <2>8, MinIs
  <2>10. NearestDepot(in, t) = Min(S)
    BY <1>3, Zenon DEF NearestDepot, Sited, Depots, Far
  <2> QED BY <1>1, <1>2, <1>3, <2>9, <2>10
<1>4. CASE t \notin Sited(in)
  BY <1>1, <1>2, <1>4 DEF NearestDepot, Sited
<1> QED BY <1>3, <1>4

\* The tasks in the order in which the depots list them.
Toured(in) == FlattenSeq([d \in DOMAIN in.depotAt |-> AtDepot(in, d)])
LEMMA AtDepotFacts ==
    ASSUME NEW in, Located(in)
    PROVE  /\ \A d \in Depots(in) : /\ AtDepot(in, d) \in Seq(Ids(in)) /\ IsInjective(AtDepot(in, d))
                                    /\ ToSet(AtDepot(in, d)) = {t \in Ids(in) : NearestDepot(in, t) = d}
           /\ Toured(in) \in Seq(Ids(in)) /\ IsInjective(Toured(in)) /\ ToSet(Toured(in)) = Sited(in)
<1> DEFINE s == [d \in DOMAIN in.depotAt |-> AtDepot(in, d)]
<1>1. Listed(in) /\ Depots(in) = 1 .. Len(in.depotAt) /\ Len(in.depotAt) \in Nat /\ DOMAIN in.depotAt = Depots(in)
  BY DEF Depots, Located
<1>2. ASSUME NEW d \in Depots(in)
      PROVE  /\ AtDepot(in, d) \in Seq(Ids(in)) /\ IsInjective(AtDepot(in, d))
             /\ ToSet(AtDepot(in, d)) = {t \in Ids(in) : NearestDepot(in, t) = d}
  <2> DEFINE S == {t \in Ids(in) : NearestDepot(in, t) = d}
  <2>1. in.order \in Seq(Ids(in)) /\ IsInjective(in.order) /\ ToSet(in.order) = Ids(in) /\ Ids(in) \cap S = S
    BY <1>1, ListedFacts DEF Ids, Listed
  <2>2. AtDepot(in, d) = Filtered(in.order, S)
    BY DEF AtDepot, Ids
  <2> HIDE DEF S
  <2>3. /\ Filtered(in.order, S) \in Seq(Ids(in)) /\ IsInjective(Filtered(in.order, S))
        /\ ToSet(Filtered(in.order, S)) = ToSet(in.order) \cap S
    BY <2>1, FilteredFacts
  <2> QED BY <2>1, <2>2, <2>3 DEF S
<1>3. s \in Seq(Seq(Ids(in))) /\ DOMAIN s = Depots(in)
  BY <1>1, <1>2
<1>4. \A d \in Depots(in) : s[d] = AtDepot(in, d)
  BY <1>1
<1>5. Parted(s)
  <2> HIDE DEF s
  <2> QED BY <1>2, <1>3, <1>4 DEF Parted
<1>6. Covered(s) = Sited(in)
  <2>1. \A t \in Sited(in) : \E d \in Depots(in) : t \in ToSet(s[d])
    <3>1. \A t \in Sited(in) : t \in Ids(in) /\ NearestDepot(in, t) \in Depots(in)
      BY NearestDepotIs DEF Sited
    <3> HIDE DEF s
    <3> QED BY <1>2, <1>4, <3>1
  <2>2. ASSUME NEW d \in Depots(in), NEW t \in ToSet(s[d]) PROVE t \in Sited(in)
    <3>1. t \in Ids(in) /\ NearestDepot(in, t) = d
      BY <1>2, <1>4
    <3> QED BY <3>1, NearestDepotIs
  <2> HIDE DEF s
  <2> QED BY <1>3, <2>1, <2>2 DEF Covered
<1>7. Toured(in) = FlattenSeq(s)
  BY DEF Toured
<1> HIDE DEF s
<1>8. Toured(in) \in Seq(Ids(in)) /\ IsInjective(Toured(in)) /\ ToSet(Toured(in)) = Sited(in)
  BY <1>3, <1>5, <1>6, <1>7, FlattenParted
<1> QED BY <1>2, <1>8

-----------------------------------------------------------------------------
(* Regrouping *)

AllOf(at) == UNION {Covered(at[d]) : d \in DOMAIN at}
\* Every list at a depot holds chunks that are units, without the tasks nobody
\* can place, and no task is in two of them.
Chunked(in, U, at) ==
    /\ at \in [Depots(in) -> Seq(Seq(Ids(in)))]
    /\ \A d \in Depots(in) : Parted(at[d])
    /\ \A d, e \in Depots(in) : d # e => Covered(at[d]) \cap Covered(at[e]) = {}
    /\ \A d \in Depots(in) : \A k \in DOMAIN at[d] : \E u \in U : ToSet(at[d][k]) = ToSet(u.tasks) \cap Sited(in)

Added(at, x, c) == [at EXCEPT ![x] = Append(@, c)]
LEMMA ChunkAdded ==
    ASSUME NEW in, NEW U, NEW at, Chunked(in, U, at), NEW x \in Depots(in), NEW c \in Seq(Ids(in)), IsInjective(c),
           \E u \in U : ToSet(c) = ToSet(u.tasks) \cap Sited(in), ToSet(c) \cap AllOf(at) = {}
    PROVE  /\ Chunked(in, U, Added(at, x, c))
           /\ AllOf(Added(at, x, c)) = AllOf(at) \cup ToSet(c)
<1> DEFINE w == Added(at, x, c)
<1> USE DEF Added
<1>1. /\ at \in [Depots(in) -> Seq(Seq(Ids(in)))] /\ DOMAIN w = Depots(in) /\ DOMAIN at = Depots(in)
      /\ w[x] = Append(at[x], c) /\ at[x] \in Seq(Seq(Ids(in))) /\ \A d \in Depots(in) : d # x => w[d] = at[d]
  BY DEF Chunked
<1>2. ToSet(c) \cap Covered(at[x]) = {} /\ Parted(at[x]) /\ \A d \in Depots(in) : ToSet(c) \cap Covered(at[d]) = {}
  BY <1>1 DEF AllOf, Chunked
<1>3. /\ w[x] \in Seq(Seq(Ids(in))) /\ Covered(w[x]) = Covered(at[x]) \cup ToSet(c) /\ Parted(w[x])
  BY <1>1, <1>2, AppendParted
<1>4. \A d \in Depots(in) : \A k \in DOMAIN w[d] : \E u \in U : ToSet(w[d][k]) = ToSet(u.tasks) \cap Sited(in)
  <2> SUFFICES ASSUME NEW d \in Depots(in), NEW k \in DOMAIN w[d]
               PROVE  \E u \in U : ToSet(w[d][k]) = ToSet(u.tasks) \cap Sited(in)
    OBVIOUS
  <2>1. CASE d # x
    BY ZenonT(60), <1>1, <2>1 DEF Chunked
  <2>2. CASE d = x
    <3>1. k \in DOMAIN Append(at[x], c)
      BY <1>1, <2>2
    <3>2. /\ k \in DOMAIN at[x] /\ Append(at[x], c)[k] = at[x][k]
          \/ Append(at[x], c)[k] = c
      BY <1>1, <3>1
    <3>3. w[d][k] = Append(at[x], c)[k]
      BY <1>1, <2>2
    <3> HIDE DEF w
    <3> QED BY ZenonT(60), <3>2, <3>3 DEF Chunked
  <2> QED BY <2>1, <2>2
<1> HIDE DEF w
<1>5. w \in [Depots(in) -> Seq(Seq(Ids(in)))]
  BY <1>1, <1>3, Zenon DEF w
<1>6. \A d, e \in Depots(in) : d # e => Covered(w[d]) \cap Covered(w[e]) = {}
  <2>1. \A d, e \in Depots(in) : d # e => Covered(at[d]) \cap Covered(at[e]) = {}
    BY DEF Chunked
  <2>2. \A d \in Depots(in) : d # x => Covered(w[d]) = Covered(at[d])
    BY <1>1
  <2>3. \A d \in Depots(in) : d # x => Covered(w[d]) \cap Covered(w[x]) = {}
    BY <1>2, <1>3, <2>1, <2>2
  <2> QED BY <2>1, <2>2, <2>3
<1>7. AllOf(w) = AllOf(at) \cup ToSet(c)
  <2>1. AllOf(w) \subseteq AllOf(at) \cup ToSet(c)
    BY <1>1, <1>3 DEF AllOf
  <2>2. \A d \in Depots(in) : Covered(at[d]) \subseteq Covered(w[d])
    BY <1>1, <1>3
  <2>3. AllOf(at) \subseteq AllOf(w)
    BY <1>1, <2>2 DEF AllOf
  <2>4. ToSet(c) \subseteq AllOf(w)
    BY <1>1, <1>3 DEF AllOf
  <2> QED BY <2>1, <2>3, <2>4
<1>8. \A d \in Depots(in) : Parted(w[d])
  BY <1>1, <1>3 DEF Chunked
<1> QED BY <1>4, <1>5, <1>6, <1>7, <1>8 DEF Chunked, w

\* What holds while the tasks are gone through: seen are those that have been.
RegroupOk(in, U, w, seen) ==
    /\ w \in [at : [Depots(in) -> Seq(Seq(Ids(in)))], emitted : SUBSET Ids(in)] /\ Chunked(in, U, w.at)
    /\ \A u \in U : Len(u.tasks) = 1 => ToSet(u.tasks) \cap AllOf(w.at) \subseteq seen
    /\ \A u \in U : Len(u.tasks) # 1 =>
          IF u.key \in w.emitted THEN ToSet(u.tasks) \cap Sited(in) \subseteq AllOf(w.at)
          ELSE ToSet(u.tasks) \cap AllOf(w.at) = {}
    /\ \A u \in U : u.key \in w.emitted => Len(u.tasks) # 1
    /\ seen \subseteq AllOf(w.at)

LEMMA RegroupStep ==
    ASSUME NEW in, Located(in), NEW U, UnitsOk(in, U), NEW w, NEW seen, RegroupOk(in, U, w, seen),
           NEW t \in Sited(in) \ seen
    PROVE  RegroupOk(in, U, RegroupTask(in, U, w, t), seen \cup {t})
<1> DEFINE u == UnitOf(U, t)
           here == NearestDepot(in, t)
           home == IF NearestDepot(in, u.key) = None THEN here ELSE NearestDepot(in, u.key)
           S == {x \in ToSet(u.tasks) : NearestDepot(in, x) # None}
           placed == Filtered(u.tasks, S)
           z == RegroupTask(in, U, w, t)
<1>1. t \in Ids(in) /\ u \in U /\ t \in ToSet(u.tasks) /\ u \in Unit(in) /\ IsInjective(u.tasks)
  BY UnitOfIs DEF Sited, UnitsOk
<1>2. here \in Depots(in) /\ home \in Depots(in)
  <2>1. u.key \in Ids(in)
    BY <1>1 DEF Unit
  <2> QED BY <1>1, <2>1, NearestDepotIs
<1>3. z = IF u.key \in w.emitted THEN w
          ELSE IF Len(u.tasks) = 1 THEN [w EXCEPT !.at[here] = Append(@, <<t>>)]
          ELSE [at |-> [w.at EXCEPT ![home] = Append(@, placed)], emitted |-> w.emitted \cup {u.key}]
  BY Zenon DEF RegroupTask
<1>4. S = ToSet(u.tasks) \cap Sited(in) /\ u.tasks \in Seq(Ids(in)) /\ u.key \in Ids(in) /\ ToSet(u.tasks) \subseteq Ids(in)
  <2>1. u.tasks \in Seq(Ids(in)) /\ u.key \in Ids(in)
    BY <1>1 DEF Unit
  <2>2. ToSet(u.tasks) \subseteq Ids(in)
    BY <2>1 DEF ToSet
  <2>3. \A x \in Ids(in) : NearestDepot(in, x) # None <=> x \in Sited(in)
    BY NearestDepotIs
  <2> QED BY <2>1, <2>2, <2>3
<1>5. placed \in Seq(Ids(in)) /\ IsInjective(placed) /\ ToSet(placed) = S
  <2>1. placed \in Seq(Ids(in)) /\ IsInjective(placed) /\ ToSet(placed) = ToSet(u.tasks) \cap S
    <3> HIDE DEF S, u
    <3> QED BY <1>1, <1>4, FilteredFacts
  <2> QED BY <2>1
<1>6. \A v \in U : v # u => v.key # u.key /\ ToSet(v.tasks) \cap ToSet(u.tasks) = {}
  BY <1>1 DEF UnitsOk
<1>7. w.at \in [Depots(in) -> Seq(Seq(Ids(in)))] /\ w.emitted \in SUBSET Ids(in) /\ Chunked(in, U, w.at)
      /\ w = [at |-> w.at, emitted |-> w.emitted]
  BY DEF RegroupOk
<1> HIDE DEF u, here, home, placed, S, z
<1>8. CASE u.key \in w.emitted
  <2>1. z = w /\ t \in AllOf(w.at)
    BY <1>1, <1>3, <1>8 DEF RegroupOk
  <2>2. \A v \in U : Len(v.tasks) = 1 => ToSet(v.tasks) \cap AllOf(w.at) \subseteq seen \cup {t}
    BY DEF RegroupOk
  <2>3. seen \cup {t} \subseteq AllOf(w.at)
    BY <2>1 DEF RegroupOk
  <2> QED BY <2>1, <2>2, <2>3 DEF RegroupOk, z
<1>9. CASE u.key \notin w.emitted /\ Len(u.tasks) = 1
  <2> DEFINE at == [w.at EXCEPT ![here] = Append(@, <<t>>)]
  <2>1. z = [w EXCEPT !.at[here] = Append(@, <<t>>)]
    BY <1>3, <1>9
  <2>2. z = [at |-> at, emitted |-> w.emitted]
    BY <1>2, <1>7, <2>1
  <2>3. ToSet(u.tasks) = {t} /\ ToSet(<<t>>) = {t} /\ <<t>> \in Seq(Ids(in)) /\ IsInjective(<<t>>)
    <3>1. u.tasks = <<u.tasks[1]>>
      BY <1>4, <1>9
    <3>2. ToSet(<<u.tasks[1]>>) = {u.tasks[1]} /\ ToSet(<<t>>) = {t} /\ IsInjective(<<t>>)
      BY DEF ToSet, IsInjective
    <3> QED BY <1>1, <3>1, <3>2
  <2>4. t \notin AllOf(w.at)
    BY <1>1, <1>9, <2>3 DEF RegroupOk
  <2>5. ToSet(<<t>>) = ToSet(u.tasks) \cap Sited(in) /\ ToSet(<<t>>) \cap AllOf(w.at) = {}
    BY <2>3, <2>4
  <2>6. Chunked(in, U, at) /\ AllOf(at) = AllOf(w.at) \cup {t}
    <3>1. \E v \in U : ToSet(<<t>>) = ToSet(v.tasks) \cap Sited(in)
      BY <1>1, <2>5
    <3> DEFINE c == <<t>>
    <3>2. c \in Seq(Ids(in)) /\ IsInjective(c) /\ ToSet(c) = {t}
      BY <2>3
    <3>3. \E v \in U : ToSet(c) = ToSet(v.tasks) \cap Sited(in)
      BY <3>1
    <3>4. ToSet(c) \cap AllOf(w.at) = {}
      BY <2>5
    <3> HIDE DEF c
    <3>5. Chunked(in, U, Added(w.at, here, c)) /\ AllOf(Added(w.at, here, c)) = AllOf(w.at) \cup ToSet(c)
      <4>1. here \in Depots(in) /\ Chunked(in, U, w.at)
        BY <1>2, <1>7
      <4> QED BY <3>2, <3>3, <3>4, <4>1, ChunkAdded
    <3> QED BY <3>2, <3>5 DEF c, Added
  <2> HIDE DEF at
  <2>7. z \in [at : [Depots(in) -> Seq(Seq(Ids(in)))], emitted : SUBSET Ids(in)] /\ z.at = at /\ z.emitted = w.emitted
    BY <1>7, <2>2, <2>6 DEF Chunked
  <2>8. \A v \in U : Len(v.tasks) = 1 => ToSet(v.tasks) \cap AllOf(at) \subseteq seen \cup {t}
    BY <2>6 DEF RegroupOk
  <2>9. \A v \in U : Len(v.tasks) # 1 =>
          IF v.key \in w.emitted THEN ToSet(v.tasks) \cap Sited(in) \subseteq AllOf(at)
          ELSE ToSet(v.tasks) \cap AllOf(at) = {}
    BY <1>1, <1>6, <1>9, <2>6 DEF RegroupOk
  <2>10. seen \cup {t} \subseteq AllOf(at)
    BY <2>6 DEF RegroupOk
  <2>11. \A v \in U : v.key \in w.emitted => Len(v.tasks) # 1
    BY DEF RegroupOk
  <2>12. RegroupOk(in, U, z, seen \cup {t})
    BY <2>6, <2>7, <2>8, <2>9, <2>10, <2>11 DEF RegroupOk
  <2> QED BY <2>12 DEF z
<1>10. CASE u.key \notin w.emitted /\ Len(u.tasks) # 1
  <2> DEFINE at == [w.at EXCEPT ![home] = Append(@, placed)]
  <2>1. z = [at |-> at, emitted |-> w.emitted \cup {u.key}]
    BY <1>3, <1>10
  <2>2. ToSet(u.tasks) \cap AllOf(w.at) = {}
    BY <1>1, <1>10 DEF RegroupOk
  <2>3. ToSet(placed) = ToSet(u.tasks) \cap Sited(in) /\ ToSet(placed) \cap AllOf(w.at) = {}
    BY <1>4, <1>5, <2>2
  <2>4. Chunked(in, U, at) /\ AllOf(at) = AllOf(w.at) \cup ToSet(placed)
    <3>1. \E v \in U : ToSet(placed) = ToSet(v.tasks) \cap Sited(in)
      BY <1>1, <2>3
    <3>2. Chunked(in, U, Added(w.at, home, placed)) /\ AllOf(Added(w.at, home, placed)) = AllOf(w.at) \cup ToSet(placed)
      <4>1. home \in Depots(in) /\ Chunked(in, U, w.at) /\ ToSet(placed) \cap AllOf(w.at) = {}
        BY <1>2, <1>7, <2>3
      <4> QED BY <1>5, <3>1, <4>1, ChunkAdded
    <3> QED BY <3>2 DEF Added
  <2> HIDE DEF at
  <2>5. /\ z \in [at : [Depots(in) -> Seq(Seq(Ids(in)))], emitted : SUBSET Ids(in)]
        /\ z.at = at /\ z.emitted = w.emitted \cup {u.key}
    BY <1>4, <1>7, <2>1, <2>4 DEF Chunked
  <2>6. \A v \in U : Len(v.tasks) = 1 => ToSet(v.tasks) \cap AllOf(at) \subseteq seen \cup {t}
    BY <1>6, <1>10, <2>3, <2>4 DEF RegroupOk
  <2>7. \A v \in U : Len(v.tasks) # 1 =>
          IF v.key \in z.emitted THEN ToSet(v.tasks) \cap Sited(in) \subseteq AllOf(at)
          ELSE ToSet(v.tasks) \cap AllOf(at) = {}
    <3> SUFFICES ASSUME NEW v \in U, Len(v.tasks) # 1
                 PROVE  IF v.key \in z.emitted THEN ToSet(v.tasks) \cap Sited(in) \subseteq AllOf(at)
                        ELSE ToSet(v.tasks) \cap AllOf(at) = {}
      OBVIOUS
    <3>1. CASE v = u
      BY <2>3, <2>4, <2>5, <3>1
    <3>2. CASE v # u
      <4>1. v.key # u.key /\ ToSet(v.tasks) \cap ToSet(u.tasks) = {}
        BY <1>6, <3>2
      <4>2. IF v.key \in w.emitted THEN ToSet(v.tasks) \cap Sited(in) \subseteq AllOf(w.at)
            ELSE ToSet(v.tasks) \cap AllOf(w.at) = {}
        BY DEF RegroupOk
      <4> QED BY <2>3, <2>4, <2>5, <4>1, <4>2
    <3> QED BY <3>1, <3>2
  <2>8. seen \cup {t} \subseteq AllOf(at)
    BY <1>1, <2>3, <2>4 DEF RegroupOk
  <2>9. \A v \in U : v.key \in z.emitted => Len(v.tasks) # 1
    BY <1>6, <1>10, <2>5 DEF RegroupOk
  <2>10. RegroupOk(in, U, z, seen \cup {t})
    BY <2>4, <2>5, <2>6, <2>7, <2>8, <2>9 DEF RegroupOk
  <2> QED BY <2>10 DEF z
<1> QED BY <1>8, <1>9, <1>10
\* The regrouping, task by task.
Regrouping(in, U, base, seq) == FoldLeft(LAMBDA w, t : RegroupTask(in, U, w, t), base, seq)
RegroupInput(in, U, base, n, seq, D, T) ==
    /\ n \in Nat /\ DOMAIN seq = 1 .. n /\ base \in D /\ \A i \in 1 .. n : seq[i] \in T
    /\ \A d \in D, x \in T : RegroupTask(in, U, d, x) \in D
RegroupRun(in, U, base, n, seq, D, h) ==
    /\ h \in [0 .. n -> D] /\ h[0] = base
    /\ \A i \in 1 .. n : h[i] = RegroupTask(in, U, h[i - 1], seq[i])
    /\ h[n] = Regrouping(in, U, base, seq)
LEMMA RegroupFold ==
    ASSUME NEW in, NEW U, NEW base, NEW n, NEW seq, NEW D, NEW T, RegroupInput(in, U, base, n, seq, D, T)
    PROVE  \E h : RegroupRun(in, U, base, n, seq, D, h)
<1> DEFINE F == [p \in D \X T |-> RegroupTask(in, U, p[1], p[2])]
           Eq(g) == g = [s \in SUBSET DOMAIN seq |->
                            IF s = {} THEN base ELSE RegroupTask(in, U, g[s \ {Max(s)}], seq[Max(s)])]
           iter == CHOOSE g : Eq(g)
           h == [i \in 0 .. n |-> iter[1 .. i]]
<1> USE DEF RegroupInput
<1>1. IsFiniteSet(DOMAIN seq) /\ DOMAIN seq \in SUBSET Int
  BY FirstOnes
<1>2. \A d \in D, x \in T : F[<<d, x>>] = RegroupTask(in, U, d, x) /\ F[<<d, x>>] \in D
  OBVIOUS
<1>3. \E g : Eq(g)
  <2> HIDE DEF F
  <2>1. PICK g : FoldEq(g, F, base, seq)
    BY <1>1, FoldExists
  <2>2. \A s \in SUBSET DOMAIN seq : g[s] \in D
    BY <1>1, <1>2, <2>1, FoldTyped
  <2>3. \A s \in SUBSET DOMAIN seq : s # {} => Max(s) \in s /\ s \ {Max(s)} \in SUBSET DOMAIN seq
    BY <1>1, FS_Subset, MaxIs
  <2>4. ASSUME NEW s \in SUBSET DOMAIN seq
        PROVE  (IF s = {} THEN base ELSE F[<<g[s \ {Max(s)}], seq[Max(s)]>>])
               = (IF s = {} THEN base ELSE RegroupTask(in, U, g[s \ {Max(s)}], seq[Max(s)]))
    <3>1. CASE s # {}
      <4>1. g[s \ {Max(s)}] \in D /\ seq[Max(s)] \in T
        BY <2>2, <2>3, <3>1
      <4> QED BY <1>2, <3>1, <4>1
    <3> QED BY <3>1
  <2>5. g = [s \in SUBSET DOMAIN seq |-> IF s = {} THEN base ELSE F[<<g[s \ {Max(s)}], seq[Max(s)]>>]]
    BY <2>1 DEF FoldEq
  <2> QED BY <2>4, <2>5, Zenon
<1>4. Eq(iter)
  BY <1>3, Zenon
<1>5. iter[DOMAIN seq] = Regrouping(in, U, base, seq)
  BY Zenon DEF FoldLeft, MapThenFoldSet, Regrouping
<1> HIDE DEF iter, F
<1>6. h[0] = base /\ \A i \in 1 .. n : h[i] = RegroupTask(in, U, h[i - 1], seq[i])
  <2>1. h[0] = base
    BY <1>4, FirstOnes
  <2>2. ASSUME NEW i \in 1 .. n PROVE h[i] = RegroupTask(in, U, h[i - 1], seq[i])
    <3>1. /\ Max(1 .. i) = i /\ 1 .. i \in SUBSET DOMAIN seq /\ 1 .. i # {} /\ (1 .. i) \ {i} = 1 .. i - 1
          /\ i \in 0 .. n /\ i - 1 \in 0 .. n
      BY FirstOnes
    <3>2. iter[1 .. i] = RegroupTask(in, U, iter[1 .. i - 1], seq[i])
      BY <1>4, <3>1
    <3>3. h[i] = iter[1 .. i] /\ h[i - 1] = iter[1 .. i - 1]
      BY <3>1
    <3> QED BY <3>2, <3>3
  <2> QED BY <2>1, <2>2
<1>7. h[n] = iter[DOMAIN seq]
  OBVIOUS
<1> DEFINE Good == {i \in 0 .. n : h[i] \in D}
<1>8. \A i \in 0 .. n : i \in Good
  <2>1. 0 \in Good
    BY <1>6
  <2>2. ASSUME NEW i \in 0 .. n - 1, i \in Good PROVE i + 1 \in Good
    <3>1. i + 1 \in 1 .. n /\ (i + 1) - 1 = i /\ i + 1 \in 0 .. n
      OBVIOUS
    <3>2. h[i + 1] = RegroupTask(in, U, h[i], seq[i + 1]) /\ seq[i + 1] \in T /\ h[i] \in D
      BY <1>6, <2>2, <3>1
    <3> QED BY <3>1, <3>2
  <2> HIDE DEF Good
  <2> QED BY <2>1, <2>2, UpTo
<1>9. h \in [0 .. n -> D]
  BY <1>8
<1> HIDE DEF h
<1>10. RegroupRun(in, U, base, n, seq, D, h)
  BY <1>5, <1>6, <1>7, <1>9 DEF RegroupRun
<1> QED BY <1>10

LEMMA RegroupedFacts ==
    ASSUME NEW in, Located(in), NEW U, UnitsOk(in, U)
    PROVE  Chunked(in, U, Regrouped(in, U)) /\ AllOf(Regrouped(in, U)) = Sited(in)
<1> DEFINE D == [at : [Depots(in) -> Seq(Seq(Ids(in)))], emitted : SUBSET Ids(in)]
           base == [at |-> [d \in Depots(in) |-> <<>>], emitted |-> {}]
           seq == Toured(in)
           n == Len(seq)
           seen(i) == {seq[j] : j \in 1 .. i}
<1>1. /\ n \in Nat /\ DOMAIN seq = 1 .. n /\ (\A i \in 1 .. n : seq[i] \in Sited(in))
      /\ (\A i, j \in 1 .. n : seq[i] = seq[j] => i = j) /\ Sited(in) = seen(n)
  <2>1. seq \in Seq(Ids(in)) /\ IsInjective(seq) /\ ToSet(seq) = Sited(in)
    BY AtDepotFacts
  <2> HIDE DEF seq
  <2> QED BY <2>1 DEF ToSet, IsInjective
<1>2. base \in D
  BY DEF Depots
<1>3. ASSUME NEW w \in D, NEW t \in Sited(in) PROVE RegroupTask(in, U, w, t) \in D
  <2> DEFINE u == UnitOf(U, t)
             here == NearestDepot(in, t)
             home == IF NearestDepot(in, u.key) = None THEN here ELSE NearestDepot(in, u.key)
             placed == Filtered(u.tasks, {x \in ToSet(u.tasks) : NearestDepot(in, x) # None})
  <2>1. RegroupTask(in, U, w, t) =
            IF u.key \in w.emitted THEN w
            ELSE IF Len(u.tasks) = 1 THEN [w EXCEPT !.at[here] = Append(@, <<t>>)]
            ELSE [at |-> [w.at EXCEPT ![home] = Append(@, placed)], emitted |-> w.emitted \cup {u.key}]
    BY Zenon DEF RegroupTask
  <2>2. t \in Ids(in) /\ u \in Unit(in) /\ u.key \in Ids(in) /\ u.tasks \in Seq(Ids(in))
    <3>1. t \in Ids(in)
      BY DEF Sited
    <3>2. u \in U
      BY <3>1, UnitOfIs
    <3> HIDE DEF u
    <3> QED BY <3>1, <3>2 DEF UnitsOk, Unit
  <2>3. here \in Depots(in) /\ home \in Depots(in)
    BY <2>2, NearestDepotIs
  <2>4. placed \in Seq(Ids(in)) /\ <<t>> \in Seq(Ids(in))
    <3> HIDE DEF u
    <3> QED BY <2>2, FilteredFacts
  <2>5. w.at[here] \in Seq(Seq(Ids(in))) /\ w.at[home] \in Seq(Seq(Ids(in)))
    BY <2>3
  <2>6. Append(w.at[here], <<t>>) \in Seq(Seq(Ids(in))) /\ Append(w.at[home], placed) \in Seq(Seq(Ids(in)))
    <3> HIDE DEF here, home, placed
    <3> QED BY <2>4, <2>5
  <2> HIDE DEF u, here, home, placed
  <2>7. [w EXCEPT !.at[here] = Append(@, <<t>>)] \in D
    BY <2>3, <2>6
  <2>8. [at |-> [w.at EXCEPT ![home] = Append(@, placed)], emitted |-> w.emitted \cup {u.key}] \in D
    BY <2>2, <2>3, <2>6
  <2> HIDE DEF D
  <2> QED BY <1>3, <2>1, <2>7, <2>8
<1>4. PICK h : RegroupRun(in, U, base, n, seq, D, h)
  <2> HIDE DEF D, n, seq, base
  <2>1. RegroupInput(in, U, base, n, seq, D, Sited(in))
    BY <1>1, <1>2, <1>3 DEF RegroupInput
  <2> QED BY <2>1, RegroupFold
<1>5. /\ h \in [0 .. n -> D] /\ h[0] = base
      /\ \A i \in 1 .. n : h[i] = RegroupTask(in, U, h[i - 1], seq[i])
      /\ h[n].at = Regrouped(in, U)
  <2>1. Regrouped(in, U) = Regrouping(in, U, base, seq).at
    BY Zenon DEF Regrouped, Regrouping, Toured, Depots
  <2> HIDE DEF base, seq, D, n
  <2> QED BY <1>4, <2>1 DEF RegroupRun
<1> DEFINE Good == {i \in 0 .. n : RegroupOk(in, U, h[i], seen(i))}
<1>6. 0 \in Good
  <2>1. seen(0) = {} /\ 0 \in 0 .. n
    BY <1>1
  <2>2. \A d \in Depots(in) : base.at[d] = <<>> /\ Parted(<<>>) /\ Covered(<<>>) = {} /\ <<>> \in Seq(Seq(Ids(in)))
    BY DEF Parted, Covered
  <2>3. Chunked(in, U, base.at)
    <3>1. base.at \in [Depots(in) -> Seq(Seq(Ids(in)))]
      OBVIOUS
    <3>2. \A d \in Depots(in) : DOMAIN base.at[d] = {}
      BY <2>2
    <3> HIDE DEF base
    <3> QED BY <2>2, <3>1, <3>2 DEF Chunked
  <2>4. AllOf(base.at) = {}
    <3>1. DOMAIN base.at = Depots(in)
      OBVIOUS
    <3> HIDE DEF base
    <3> QED BY <2>2, <3>1 DEF AllOf
  <2>5. base.emitted = {}
    OBVIOUS
  <2> HIDE DEF base, seen
  <2>6. RegroupOk(in, U, base, seen(0))
    BY <1>2, <2>1, <2>3, <2>4, <2>5 DEF RegroupOk
  <2> QED BY <1>5, <2>1, <2>6
<1>7. ASSUME NEW i \in 0 .. n - 1, i \in Good PROVE i + 1 \in Good
  <2>1. i + 1 \in 1 .. n /\ (i + 1) - 1 = i /\ i + 1 \in 0 .. n /\ i \in 0 .. n
    BY <1>1
  <2>2. h[i + 1] = RegroupTask(in, U, h[i], seq[i + 1])
    <3> HIDE DEF seq, n
    <3> QED BY <1>5, <2>1
  <2>3. seq[i + 1] \in Sited(in) /\ seq[i + 1] \notin seen(i)
    <3>1. \A j \in 1 .. i : j \in 1 .. n /\ j # i + 1
      BY <1>1
    <3> HIDE DEF seq, n
    <3> QED BY <1>1, <2>1, <3>1
  <2>4. seen(i + 1) = seen(i) \cup {seq[i + 1]}
    <3>1. 1 .. i + 1 = 1 .. i \cup {i + 1}
      OBVIOUS
    <3> HIDE DEF seq
    <3> QED BY <3>1
  <2>5. RegroupOk(in, U, h[i], seen(i))
    BY <1>7
  <2> HIDE DEF seen, seq, n, Good
  <2>6. RegroupOk(in, U, h[i + 1], seen(i + 1))
    BY <2>2, <2>3, <2>4, <2>5, RegroupStep
  <2> QED BY <2>1, <2>6 DEF Good
<1>8. n \in Good
  <2> HIDE DEF Good, n
  <2>1. \A i \in 0 .. n - 1 : i \in Good => i + 1 \in Good
    BY <1>7
  <2>2. \A i \in 0 .. n : i \in Good
    BY <1>1, <1>6, <2>1, UpTo
  <2>3. n \in 0 .. n
    BY <1>1
  <2> QED BY <2>2, <2>3
<1>9. RegroupOk(in, U, h[n], Sited(in))
  <2> HIDE DEF n, seen
  <2> QED BY <1>1, <1>8
<1>10. Chunked(in, U, Regrouped(in, U)) /\ Sited(in) \subseteq AllOf(Regrouped(in, U))
  BY <1>5, <1>9 DEF RegroupOk
<1>11. AllOf(Regrouped(in, U)) \subseteq Sited(in)
  BY SMTT(60), <1>10 DEF AllOf, Covered, Chunked
<1> QED BY <1>10, <1>11

-----------------------------------------------------------------------------
(* Packing *)

LEMMA FrontLast ==
    ASSUME NEW T, NEW s \in Seq(T), s # <<>>
    PROVE  /\ Front(s) \in Seq(T) /\ Last(s) \in T /\ s = Append(Front(s), Last(s)) /\ Len(s) \in Nat \ {0}
           /\ Len(Front(s)) = Len(s) - 1 /\ (\A i \in 1 .. Len(s) - 1 : Front(s)[i] = s[i]) /\ Last(s) = s[Len(s)]
<1>1. Len(s) \in Nat \ {0} /\ DOMAIN s = 1 .. Len(s) /\ \A i \in 1 .. Len(s) : s[i] \in T
  OBVIOUS
<1>2. Front(s) = [i \in 1 .. Len(s) - 1 |-> s[i]]
  BY <1>1 DEF Front
<1>3. Last(s) = s[Len(s)]
  BY DEF Last
<1>4. Front(s) \in Seq(T) /\ Len(Front(s)) = Len(s) - 1 /\ \A i \in 1 .. Len(s) - 1 : Front(s)[i] = s[i]
  BY <1>1, <1>2
<1> DEFINE n == Len(s)
           f == Front(s)
           l == Last(s)
<1>5. f \in Seq(T) /\ l \in T /\ n \in Nat \ {0} /\ Len(f) = n - 1 /\ l = s[n]
  BY <1>1, <1>3, <1>4
<1>6. Append(f, l) \in Seq(T) /\ Len(Append(f, l)) = (n - 1) + 1 /\ Append(f, l)[(n - 1) + 1] = l
      /\ \A i \in 1 .. n - 1 : Append(f, l)[i] = f[i]
  <2> HIDE DEF n, f, l
  <2> QED BY <1>5
<1>7. \A i \in 1 .. n : Append(f, l)[i] = s[i]
  <2>1. \A i \in 1 .. n - 1 : f[i] = s[i]
    BY <1>4
  <2> HIDE DEF n, f, l
  <2>2. \A i \in 1 .. n : i \in 1 .. n - 1 \/ i = n
    BY <1>5
  <2>3. (n - 1) + 1 = n
    BY <1>5
  <2> QED BY <1>5, <1>6, <2>1, <2>2, <2>3
<1>8. s = Append(f, l)
  <2>1. Len(Append(f, l)) = n
    <3> HIDE DEF n, f, l
    <3> QED BY <1>5, <1>6
  <2>2. Len(s) = n
    OBVIOUS
  <2> HIDE DEF n, f, l
  <2> QED BY <1>6, <1>7, <2>1, <2>2, SeqEqual
<1> QED BY <1>1, <1>3, <1>4, <1>5, <1>8

PackStep(size, chunks, u) ==
    IF chunks = <<>> \/ Len(Last(chunks)) + Len(u) > size THEN Append(chunks, u)
    ELSE Append(Front(chunks), Last(chunks) \o u)
\* The chunks made of the first i units.
PackOk(T, us, size, i, chunks) ==
    /\ chunks \in Seq(Seq(T)) /\ Parted(chunks)
    /\ Covered(chunks) = UNION {ToSet(us[j]) : j \in 1 .. i}
    /\ \A j \in 1 .. i : \E c \in DOMAIN chunks : ToSet(us[j]) \subseteq ToSet(chunks[c])
    /\ \A c \in DOMAIN chunks : Len(chunks[c]) <= size \/ \E j \in 1 .. i : chunks[c] = us[j]
    /\ \A c \in DOMAIN chunks : \E j \in 1 .. i : ToSet(us[j]) \subseteq ToSet(chunks[c])

LEMMA PackStepOk ==
    ASSUME NEW T, NEW us \in Seq(Seq(T)), Parted(us), NEW size \in Nat, NEW i \in 0 .. Len(us) - 1, NEW chunks,
           PackOk(T, us, size, i, chunks)
    PROVE  PackOk(T, us, size, i + 1, PackStep(size, chunks, us[i + 1]))
<1> DEFINE u == us[i + 1]
           w == PackStep(size, chunks, u)
           up(k) == UNION {ToSet(us[j]) : j \in 1 .. k}
<1>1. /\ i \in Nat /\ i + 1 \in 1 .. Len(us) /\ u \in Seq(T) /\ DOMAIN us = 1 .. Len(us)
      /\ (\A j \in 1 .. i : j \in 1 .. Len(us) /\ j # i + 1 /\ j \in 1 .. i + 1)
      /\ (\A j \in 1 .. i + 1 : j \in 1 .. i \/ j = i + 1) /\ i + 1 \in 1 .. i + 1
  OBVIOUS
<1>2. up(i + 1) = up(i) \cup ToSet(u)
  <2>1. 1 .. i + 1 = 1 .. i \cup {i + 1}
    BY <1>1
  <2> QED BY <2>1
<1>3. IsInjective(u) /\ ToSet(u) \cap up(i) = {}
  <2>1. \A j \in 1 .. i : ToSet(us[j]) \cap ToSet(u) = {}
    BY <1>1 DEF Parted
  <2> QED BY <1>1, <2>1 DEF Parted
<1>4. /\ chunks \in Seq(Seq(T)) /\ Parted(chunks) /\ Covered(chunks) = up(i)
      /\ \A j \in 1 .. i : \E c \in DOMAIN chunks : ToSet(us[j]) \subseteq ToSet(chunks[c])
      /\ \A c \in DOMAIN chunks : Len(chunks[c]) <= size \/ \E j \in 1 .. i : chunks[c] = us[j]
      /\ \A c \in DOMAIN chunks : \E j \in 1 .. i : ToSet(us[j]) \subseteq ToSet(chunks[c])
  BY DEF PackOk
<1> HIDE DEF u, up, w
<1>5. CASE chunks = <<>> \/ Len(Last(chunks)) + Len(u) > size
  <2>1. w = Append(chunks, u)
    BY <1>5 DEF w, PackStep
  <2>2. w \in Seq(Seq(T)) /\ Parted(w) /\ Covered(w) = up(i + 1)
    <3>1. chunks \in Seq(Seq(T)) /\ Parted(chunks) /\ Covered(chunks) = up(i)
      BY <1>4
    <3>2. u \in Seq(T) /\ IsInjective(u) /\ ToSet(u) \cap Covered(chunks) = {}
      BY <1>1, <1>3, <3>1
    <3>3. w \in Seq(Seq(T)) /\ Parted(w) /\ Covered(w) = Covered(chunks) \cup ToSet(u)
      BY <2>1, <3>1, <3>2, AppendParted
    <3> QED BY <1>2, <3>1, <3>3
  <2>3. /\ DOMAIN w = 1 .. Len(chunks) + 1 /\ DOMAIN chunks = 1 .. Len(chunks) /\ Len(chunks) \in Nat
        /\ (\A c \in DOMAIN chunks : w[c] = chunks[c] /\ c \in DOMAIN w)
        /\ w[Len(chunks) + 1] = u /\ Len(chunks) + 1 \in DOMAIN w
        /\ \A c \in DOMAIN w : c \in DOMAIN chunks \/ c = Len(chunks) + 1
    <3>1. chunks \in Seq(Seq(T)) /\ u \in Seq(T)
      BY <1>1, <1>4
    <3> QED BY <2>1, <3>1
  <2>4. \A j \in 1 .. i + 1 : \E c \in DOMAIN w : ToSet(us[j]) \subseteq ToSet(w[c])
    <3>1. \A j \in 1 .. i : \E c \in DOMAIN w : ToSet(us[j]) \subseteq ToSet(w[c])
      BY <1>4, <2>3
    <3>2. \E c \in DOMAIN w : ToSet(us[i + 1]) \subseteq ToSet(w[c])
      BY <2>3 DEF u
    <3> QED BY <1>1, <3>1, <3>2
  <2>5. \A c \in DOMAIN w : Len(w[c]) <= size \/ \E j \in 1 .. i + 1 : w[c] = us[j]
    <3>1. \A c \in DOMAIN chunks : Len(w[c]) <= size \/ \E j \in 1 .. i + 1 : w[c] = us[j]
      BY <1>1, <1>4, <2>3
    <3>2. w[Len(chunks) + 1] = us[i + 1]
      BY <2>3 DEF u
    <3> QED BY <1>1, <2>3, <3>1, <3>2
  <2>6. \A c \in DOMAIN w : \E j \in 1 .. i + 1 : ToSet(us[j]) \subseteq ToSet(w[c])
    <3>1. \A c \in DOMAIN chunks : \E j \in 1 .. i + 1 : ToSet(us[j]) \subseteq ToSet(w[c])
      BY <1>1, <1>4, <2>3
    <3>2. ToSet(us[i + 1]) \subseteq ToSet(w[Len(chunks) + 1])
      BY <2>3 DEF u
    <3> QED BY <1>1, <2>3, <3>1, <3>2
  <2> QED BY <2>2, <2>4, <2>5, <2>6 DEF PackOk, up, u, w
<1>6. CASE ~(chunks = <<>> \/ Len(Last(chunks)) + Len(u) > size)
  <2> DEFINE F == Front(chunks)
             L == Last(chunks)
             J == L \o u
  <2>1. w = Append(F, J) /\ chunks # <<>> /\ ~(Len(L) + Len(u) > size)
    BY <1>6 DEF w, PackStep
  <2>2. /\ F \in Seq(Seq(T)) /\ L \in Seq(T) /\ chunks = Append(F, L) /\ Len(chunks) \in Nat \ {0}
        /\ Len(F) = Len(chunks) - 1 /\ L = chunks[Len(chunks)] /\ \A c \in 1 .. Len(chunks) - 1 : F[c] = chunks[c]
    BY <1>4, <2>1, FrontLast
  <2> HIDE DEF F, L
  <2>3. Parted(F) /\ IsInjective(L) /\ ToSet(L) \cap Covered(F) = {} /\ Covered(chunks) = Covered(F) \cup ToSet(L)
    BY <1>4, <2>2, AppendParted
  <2>4. J \in Seq(T) /\ Len(J) = Len(L) + Len(u) /\ ToSet(J) = ToSet(L) \cup ToSet(u)
    BY <1>1, <2>2, SetOfJoined
  <2>5. IsInjective(J) /\ ToSet(J) \cap Covered(F) = {}
    <3>1. ToSet(L) \cap ToSet(u) = {} /\ ToSet(u) \cap Covered(F) = {}
      BY <1>3, <1>4, <2>3
    <3>2. IsInjective(L \o u)
      BY <1>1, <1>3, <2>2, <2>3, <3>1, InjectiveJoined
    <3> QED BY <2>3, <2>4, <3>1, <3>2
  <2> HIDE DEF J
  <2>6. w \in Seq(Seq(T)) /\ Parted(w) /\ Covered(w) = up(i + 1)
    <3>1. w \in Seq(Seq(T)) /\ Parted(w) /\ Covered(w) = Covered(F) \cup ToSet(J)
      BY <2>1, <2>2, <2>3, <2>4, <2>5, AppendParted
    <3> QED BY <1>2, <1>4, <2>3, <2>4, <3>1
  <2> DEFINE n == Len(chunks)
  <2>7. /\ DOMAIN w = 1 .. n /\ DOMAIN chunks = 1 .. n /\ n \in Nat /\ w[n] = J /\ chunks[n] = L /\ n \in 1 .. n
        /\ (\A c \in 1 .. n - 1 : w[c] = chunks[c] /\ c \in 1 .. n)
        /\ \A c \in 1 .. n : c \in 1 .. n - 1 \/ c = n
    <3>1. w = Append(F, J) /\ F \in Seq(Seq(T)) /\ J \in Seq(T) /\ Len(F) = n - 1 /\ n \in Nat \ {0}
      BY <2>1, <2>2, <2>4
    <3>2. Len(w) = (n - 1) + 1 /\ w[(n - 1) + 1] = J /\ \A c \in 1 .. n - 1 : w[c] = F[c]
      BY <3>1
    <3>3. (n - 1) + 1 = n /\ n \in 1 .. n /\ n \in Nat
      BY <3>1
    <3>4. DOMAIN w = 1 .. n
      <4>1. DOMAIN w = 1 .. Len(w)
        BY <2>6
      <4> HIDE DEF n
      <4> QED BY <3>2, <3>3, <4>1
    <3>5. DOMAIN chunks = 1 .. n
      BY <1>4
    <3>6. \A c \in 1 .. n - 1 : F[c] = chunks[c]
      BY <2>2
    <3>7. chunks[n] = L
      BY <2>2
    <3> HIDE DEF n
    <3>8. \A c \in 1 .. n : c \in 1 .. n - 1 \/ c = n
      BY <3>3
    <3>9. \A c \in 1 .. n - 1 : c \in 1 .. n
      BY <3>3
    <3> QED BY <3>2, <3>3, <3>4, <3>5, <3>6, <3>7, <3>8, <3>9
  <2>8. \A c \in 1 .. n : ToSet(chunks[c]) \subseteq ToSet(w[c])
    <3> HIDE DEF n
    <3> QED BY <2>4, <2>7
  <2>9. \A j \in 1 .. i + 1 : \E c \in DOMAIN w : ToSet(us[j]) \subseteq ToSet(w[c])
    <3>1. \A j \in 1 .. i : \E c \in DOMAIN w : ToSet(us[j]) \subseteq ToSet(w[c])
      <4> SUFFICES ASSUME NEW j \in 1 .. i PROVE \E c \in DOMAIN w : ToSet(us[j]) \subseteq ToSet(w[c])
        OBVIOUS
      <4>1. PICK c \in DOMAIN chunks : ToSet(us[j]) \subseteq ToSet(chunks[c])
        BY <1>4
      <4> HIDE DEF n
      <4> QED BY <2>7, <2>8, <4>1
    <3>2. ToSet(us[i + 1]) \subseteq ToSet(w[n])
      <4> HIDE DEF n
      <4> QED BY <2>4, <2>7 DEF u
    <3> HIDE DEF n
    <3> QED BY <1>1, <2>7, <3>1, <3>2
  <2>10. \A c \in DOMAIN w : Len(w[c]) <= size \/ \E j \in 1 .. i + 1 : w[c] = us[j]
    <3>1. Len(J) <= size
      <4>1. Len(L) \in Nat /\ Len(u) \in Nat
        BY <1>1, <2>2
      <4> QED BY <2>1, <2>4, <4>1
    <3>2. \A c \in 1 .. n - 1 : Len(w[c]) <= size \/ \E j \in 1 .. i + 1 : w[c] = us[j]
      <4> HIDE DEF n
      <4>1. \A c \in 1 .. n - 1 : c \in DOMAIN chunks /\ w[c] = chunks[c]
        BY <2>7
      <4> QED BY <1>1, <1>4, <4>1
    <3> HIDE DEF n
    <3> QED BY <2>7, <3>1, <3>2
  <2>11. \A c \in DOMAIN w : \E j \in 1 .. i + 1 : ToSet(us[j]) \subseteq ToSet(w[c])
    <3> HIDE DEF n
    <3>1. \A c \in 1 .. n : \E j \in 1 .. i : ToSet(us[j]) \subseteq ToSet(chunks[c])
      BY <1>4, <2>7
    <3>2. \A c \in 1 .. n : \E j \in 1 .. i + 1 : ToSet(us[j]) \subseteq ToSet(w[c])
      BY <1>1, <2>8, <3>1
    <3> QED BY <2>7, <3>2
  <2> QED BY <2>6, <2>9, <2>10, <2>11 DEF PackOk, up, u, w
<1> QED BY <1>5, <1>6

\* The chunks, unit by unit.
Packing(size, base, seq) == FoldLeft(LAMBDA chunks, u : PackStep(size, chunks, u), base, seq)
PackInput(size, base, n, seq, D, T) ==
    /\ n \in Nat /\ DOMAIN seq = 1 .. n /\ base \in D /\ \A i \in 1 .. n : seq[i] \in T
    /\ \A d \in D, x \in T : PackStep(size, d, x) \in D
PackRun(size, base, n, seq, D, h) ==
    /\ h \in [0 .. n -> D] /\ h[0] = base
    /\ \A i \in 1 .. n : h[i] = PackStep(size, h[i - 1], seq[i])
    /\ h[n] = Packing(size, base, seq)
LEMMA PackFold ==
    ASSUME NEW size, NEW base, NEW n, NEW seq, NEW D, NEW T, PackInput(size, base, n, seq, D, T)
    PROVE  \E h : PackRun(size, base, n, seq, D, h)
<1> DEFINE F == [p \in D \X T |-> PackStep(size, p[1], p[2])]
           Eq(g) == g = [s \in SUBSET DOMAIN seq |->
                            IF s = {} THEN base ELSE PackStep(size, g[s \ {Max(s)}], seq[Max(s)])]
           iter == CHOOSE g : Eq(g)
           h == [i \in 0 .. n |-> iter[1 .. i]]
<1> USE DEF PackInput
<1>1. IsFiniteSet(DOMAIN seq) /\ DOMAIN seq \in SUBSET Int
  BY FirstOnes
<1>2. \A d \in D, x \in T : F[<<d, x>>] = PackStep(size, d, x) /\ F[<<d, x>>] \in D
  OBVIOUS
<1>3. \E g : Eq(g)
  <2> HIDE DEF F
  <2>1. PICK g : FoldEq(g, F, base, seq)
    BY <1>1, FoldExists
  <2>2. \A s \in SUBSET DOMAIN seq : g[s] \in D
    BY <1>1, <1>2, <2>1, FoldTyped
  <2>3. \A s \in SUBSET DOMAIN seq : s # {} => Max(s) \in s /\ s \ {Max(s)} \in SUBSET DOMAIN seq
    BY <1>1, FS_Subset, MaxIs
  <2>4. ASSUME NEW s \in SUBSET DOMAIN seq
        PROVE  (IF s = {} THEN base ELSE F[<<g[s \ {Max(s)}], seq[Max(s)]>>])
               = (IF s = {} THEN base ELSE PackStep(size, g[s \ {Max(s)}], seq[Max(s)]))
    <3>1. CASE s # {}
      <4>1. g[s \ {Max(s)}] \in D /\ seq[Max(s)] \in T
        BY <2>2, <2>3, <3>1
      <4> QED BY <1>2, <3>1, <4>1
    <3> QED BY <3>1
  <2>5. g = [s \in SUBSET DOMAIN seq |-> IF s = {} THEN base ELSE F[<<g[s \ {Max(s)}], seq[Max(s)]>>]]
    BY <2>1 DEF FoldEq
  <2> QED BY <2>4, <2>5, Zenon
<1>4. Eq(iter)
  BY <1>3, Zenon
<1>5. iter[DOMAIN seq] = Packing(size, base, seq)
  BY Zenon DEF FoldLeft, MapThenFoldSet, Packing, PackStep
<1> HIDE DEF iter, F
<1>6. h[0] = base /\ \A i \in 1 .. n : h[i] = PackStep(size, h[i - 1], seq[i])
  <2>1. h[0] = base
    BY <1>4, FirstOnes
  <2>2. ASSUME NEW i \in 1 .. n PROVE h[i] = PackStep(size, h[i - 1], seq[i])
    <3>1. /\ Max(1 .. i) = i /\ 1 .. i \in SUBSET DOMAIN seq /\ 1 .. i # {} /\ (1 .. i) \ {i} = 1 .. i - 1
          /\ i \in 0 .. n /\ i - 1 \in 0 .. n
      BY FirstOnes
    <3>2. iter[1 .. i] = PackStep(size, iter[1 .. i - 1], seq[i])
      BY <1>4, <3>1
    <3>3. h[i] = iter[1 .. i] /\ h[i - 1] = iter[1 .. i - 1]
      BY <3>1
    <3> QED BY <3>2, <3>3
  <2> QED BY <2>1, <2>2
<1>7. h[n] = iter[DOMAIN seq]
  OBVIOUS
<1> DEFINE Good == {i \in 0 .. n : h[i] \in D}
<1>8. \A i \in 0 .. n : i \in Good
  <2>1. 0 \in Good
    BY <1>6
  <2>2. ASSUME NEW i \in 0 .. n - 1, i \in Good PROVE i + 1 \in Good
    <3>1. i + 1 \in 1 .. n /\ (i + 1) - 1 = i /\ i + 1 \in 0 .. n
      OBVIOUS
    <3>2. h[i + 1] = PackStep(size, h[i], seq[i + 1]) /\ seq[i + 1] \in T /\ h[i] \in D
      BY <1>6, <2>2, <3>1
    <3> QED BY <3>1, <3>2
  <2> HIDE DEF Good
  <2> QED BY <2>1, <2>2, UpTo
<1>9. h \in [0 .. n -> D]
  BY <1>8
<1> HIDE DEF h
<1>10. PackRun(size, base, n, seq, D, h)
  BY <1>5, <1>6, <1>7, <1>9 DEF PackRun
<1> QED BY <1>10


\* Chunks lose no task and part no unit, and only a unit is longer than the size.
Packed(T, us, size, p) ==
    /\ p \in Seq(Seq(T)) /\ Parted(p) /\ Covered(p) = Covered(us)
    /\ \A j \in DOMAIN us : \E c \in DOMAIN p : ToSet(us[j]) \subseteq ToSet(p[c])
    /\ \A c \in DOMAIN p : Len(p[c]) <= size \/ \E j \in DOMAIN us : p[c] = us[j]
    /\ \A c \in DOMAIN p : \E j \in DOMAIN us : ToSet(us[j]) \subseteq ToSet(p[c])
LEMMA PackFacts ==
    ASSUME NEW T, NEW us \in Seq(Seq(T)), Parted(us), NEW size \in Nat
    PROVE  Packed(T, us, size, Pack(us, size))
<1> DEFINE n == Len(us)
           D == Seq(Seq(T))
<1>1. n \in Nat /\ DOMAIN us = 1 .. n /\ \A i \in 1 .. n : us[i] \in Seq(T)
  OBVIOUS
<1>2. ASSUME NEW d \in D, NEW u \in Seq(T) PROVE PackStep(size, d, u) \in D
  <2>1. CASE d = <<>> \/ Len(Last(d)) + Len(u) > size
    BY <2>1 DEF PackStep
  <2>2. CASE ~(d = <<>> \/ Len(Last(d)) + Len(u) > size)
    <3>1. Front(d) \in D /\ Last(d) \in Seq(T)
      BY <2>2, FrontLast
    <3>2. Last(d) \o u \in Seq(T)
      BY <3>1, SetOfJoined
    <3>3. PackStep(size, d, u) = Append(Front(d), Last(d) \o u)
      BY <2>2 DEF PackStep
    <3> QED BY <3>1, <3>2, <3>3
  <2> QED BY <2>1, <2>2
<1>3. PICK h : PackRun(size, <<>>, n, us, D, h)
  <2>1. <<>> \in D
    OBVIOUS
  <2> HIDE DEF D, n
  <2>2. PackInput(size, <<>>, n, us, D, Seq(T))
    BY <1>1, <1>2, <2>1 DEF PackInput
  <2> QED BY <2>2, PackFold
<1>4. /\ h \in [0 .. n -> D] /\ h[0] = <<>>
      /\ \A i \in 1 .. n : h[i] = PackStep(size, h[i - 1], us[i])
      /\ h[n] = Pack(us, size)
  <2>1. Pack(us, size) = Packing(size, <<>>, us)
    BY Zenon DEF Pack, Packing, PackStep
  <2> HIDE DEF D, n
  <2> QED BY <1>3, <2>1 DEF PackRun
<1> DEFINE Good == {i \in 0 .. n : PackOk(T, us, size, i, h[i])}
<1>5. 0 \in Good
  <2>1. 0 \in 0 .. n /\ 1 .. 0 = {}
    BY <1>1
  <2>2. Parted(<<>>) /\ Covered(<<>>) = {} /\ DOMAIN <<>> = {} /\ <<>> \in Seq(Seq(T))
    BY DEF Parted, Covered
  <2>3. PackOk(T, us, size, 0, <<>>)
    BY <2>1, <2>2 DEF PackOk
  <2> QED BY <1>4, <2>1, <2>3
<1>6. ASSUME NEW i \in 0 .. n - 1, i \in Good PROVE i + 1 \in Good
  <2>1. i + 1 \in 1 .. n /\ (i + 1) - 1 = i /\ i + 1 \in 0 .. n
    BY <1>1
  <2>2. h[i + 1] = PackStep(size, h[i], us[i + 1])
    <3> HIDE DEF n
    <3> QED BY <1>4, <2>1
  <2>3. PackOk(T, us, size, i, h[i])
    BY <1>6
  <2>4. PackOk(T, us, size, i + 1, h[i + 1])
    BY <2>2, <2>3, PackStepOk
  <2> QED BY <2>1, <2>4
<1>7. n \in Good
  <2> HIDE DEF Good, n
  <2>1. \A i \in 0 .. n - 1 : i \in Good => i + 1 \in Good
    BY <1>6
  <2>2. \A i \in 0 .. n : i \in Good
    BY <1>1, <1>5, <2>1, UpTo
  <2>3. n \in 0 .. n
    BY <1>1
  <2> QED BY <2>2, <2>3
<1>8. PackOk(T, us, size, n, Pack(us, size))
  BY <1>4, <1>7
<1> DEFINE p == Pack(us, size)
<1> HIDE DEF p, n
<1>9. PackOk(T, us, size, n, p)
  BY <1>8 DEF p
<1>10. Packed(T, us, size, p)
  BY <1>1, <1>9 DEF PackOk, Covered, Packed
<1> QED BY <1>10 DEF p

-----------------------------------------------------------------------------
(* Where the chunks come from *)

\* t lists elements of s, each place of s at most once.
Placed(s, i, t, f) ==
    /\ f \in [1 .. Len(t) -> 1 .. i]
    /\ \A k \in 1 .. Len(t) : t[k] = s[f[k]]
    /\ \A k, l \in 1 .. Len(t) : f[k] = f[l] => k = l

LEMMA PlacedStep ==
    ASSUME NEW T, NEW s \in Seq(T), NEW i \in 0 .. Len(s) - 1, NEW S, NEW t \in Seq(T), NEW f, Placed(s, i, t, f)
    PROVE  \E g : Placed(s, i + 1, FilterStep(S, t, s[i + 1]), g)
<1> DEFINE x == s[i + 1]
           n == Len(t)
           g == [k \in 1 .. n + 1 |-> IF k <= n THEN f[k] ELSE i + 1]
<1>1. /\ n \in Nat /\ DOMAIN t = 1 .. n /\ x \in T /\ i \in Nat
      /\ f \in [1 .. n -> 1 .. i] /\ (\A k \in 1 .. n : t[k] = s[f[k]])
      /\ \A k, l \in 1 .. n : f[k] = f[l] => k = l
  BY DEF Placed
<1>2. CASE x \notin S
  <2>1. FilterStep(S, t, x) = t
    BY <1>2 DEF FilterStep
  <2>2. f \in [1 .. n -> 1 .. i + 1]
    <3>1. \A j \in 1 .. i : j \in 1 .. i + 1
      BY <1>1
    <3> HIDE DEF n
    <3> QED BY <1>1, <3>1
  <2>3. Placed(s, i + 1, t, f)
    BY <1>1, <2>2 DEF Placed
  <2> QED BY <2>1, <2>3
<1>3. CASE x \in S
  <2>1. FilterStep(S, t, x) = Append(t, x)
    BY <1>3 DEF FilterStep
  <2>2. Len(Append(t, x)) = n + 1 /\ (\A k \in 1 .. n : Append(t, x)[k] = t[k]) /\ Append(t, x)[n + 1] = x
    BY <1>1
  <2>3. /\ \A k \in 1 .. n + 1 : k \in 1 .. n \/ k = n + 1
        /\ \A k \in 1 .. n : k \in 1 .. n + 1 /\ k <= n /\ k # n + 1
        /\ ~(n + 1 <= n) /\ n + 1 \in 1 .. n + 1 /\ i + 1 \in 1 .. i + 1
        /\ \A j \in 1 .. i : j \in 1 .. i + 1 /\ j # i + 1
    BY <1>1
  <2>4. (\A k \in 1 .. n : g[k] = f[k] /\ f[k] \in 1 .. i) /\ g[n + 1] = i + 1 /\ DOMAIN g = 1 .. n + 1
    BY <1>1, <2>3
  <2>5. g = [k \in 1 .. n + 1 |-> g[k]]
    OBVIOUS
  <2> HIDE DEF g, n, x
  <2>6. g \in [1 .. n + 1 -> 1 .. i + 1]
    <3>1. \A k \in 1 .. n + 1 : g[k] \in 1 .. i + 1
      BY <2>3, <2>4
    <3> QED BY <2>5, <3>1
  <2>7. \A k \in 1 .. n + 1 : Append(t, x)[k] = s[g[k]]
    <3>1. Append(t, x)[n + 1] = s[g[n + 1]]
      BY <2>2, <2>4 DEF x
    <3>2. \A k \in 1 .. n : Append(t, x)[k] = s[g[k]]
      BY <1>1, <2>2, <2>4
    <3> QED BY <2>3, <3>1, <3>2
  <2>8. \A k, l \in 1 .. n + 1 : g[k] = g[l] => k = l
    BY <1>1, <2>3, <2>4
  <2>9. Placed(s, i + 1, Append(t, x), g)
    BY <2>2, <2>6, <2>7, <2>8 DEF Placed
  <2> QED BY <2>1, <2>9 DEF x
<1> QED BY <1>2, <1>3

LEMMA FilteredPlaces ==
    ASSUME NEW T, NEW s \in Seq(T), NEW S
    PROVE  \E f : Placed(s, Len(s), Filtered(s, S), f)
<1> DEFINE n == Len(s)
           D == Seq(T)
<1>1. n \in Nat /\ DOMAIN s = 1 .. n /\ \A i \in 1 .. n : s[i] \in T
  OBVIOUS
<1>2. <<>> \in D /\ \A d \in D, x \in T : FilterStep(S, d, x) \in D
  BY DEF FilterStep
<1>3. PICK h \in [0 .. n -> D] :
         /\ h[0] = <<>> /\ \A i \in 1 .. n : h[i] = FilterStep(S, h[i - 1], s[i])
         /\ h[n] = Filtered(s, S)
  <2> HIDE DEF D, n
  <2> QED BY <1>1, <1>2, FilterFold
<1> DEFINE Good == {i \in 0 .. n : \E f : Placed(s, i, h[i], f)}
<1>4. 0 \in Good
  <2>1. Placed(s, 0, <<>>, <<>>)
    BY DEF Placed
  <2>2. 0 \in 0 .. n
    BY <1>1
  <2>3. \E f : Placed(s, 0, h[0], f)
    BY <1>3, <2>1
  <2> QED BY <2>2, <2>3
<1>5. ASSUME NEW i \in 0 .. n - 1, i \in Good PROVE i + 1 \in Good
  <2>1. i + 1 \in 1 .. n /\ (i + 1) - 1 = i /\ i + 1 \in 0 .. n /\ i \in 0 .. n
    BY <1>1
  <2>2. PICK f : Placed(s, i, h[i], f)
    BY <1>5
  <2> HIDE DEF Good
  <2>3. h[i + 1] = FilterStep(S, h[i], s[i + 1]) /\ h[i] \in Seq(T)
    <3>1. h[i + 1] = FilterStep(S, h[(i + 1) - 1], s[i + 1])
      BY <1>3, <2>1
    <3> HIDE DEF n
    <3> QED BY <1>3, <2>1, <3>1
  <2>4. \E g : Placed(s, i + 1, FilterStep(S, h[i], s[i + 1]), g)
    BY <2>2, <2>3, PlacedStep
  <2>5. \E g : Placed(s, i + 1, h[i + 1], g)
    BY <2>3, <2>4
  <2> QED BY <2>1, <2>5 DEF Good
<1>6. n \in Good
  <2> HIDE DEF Good, n
  <2>1. \A i \in 0 .. n - 1 : i \in Good => i + 1 \in Good
    BY <1>5
  <2>2. \A i \in 0 .. n : i \in Good
    BY <1>1, <1>4, <2>1, UpTo
  <2>3. n \in 0 .. n
    BY <1>1
  <2> QED BY <2>2, <2>3
<1> QED BY <1>3, <1>6

\* Whatever is kept of parted chunks is parted.
LEMMA FilteredParted ==
    ASSUME NEW T, NEW s \in Seq(Seq(T)), Parted(s), NEW S
    PROVE  /\ Filtered(s, S) \in Seq(Seq(T)) /\ Parted(Filtered(s, S))
           /\ Covered(Filtered(s, S)) = UNION {ToSet(s[c]) : c \in {c \in DOMAIN s : s[c] \in S}}
           /\ \A k \in DOMAIN Filtered(s, S) : Filtered(s, S)[k] \in S /\ \E c \in DOMAIN s : Filtered(s, S)[k] = s[c]
           /\ \A c \in DOMAIN s : s[c] \in S => \E k \in DOMAIN Filtered(s, S) : Filtered(s, S)[k] = s[c]
<1> DEFINE t == Filtered(s, S)
<1>1. t \in Seq(Seq(T)) /\ t \in Seq(S) /\ ToSet(t) = ToSet(s) \cap S
  BY FilteredFacts
<1>2. PICK f : Placed(s, Len(s), t, f)
  BY FilteredPlaces
<1>3. DOMAIN t = 1 .. Len(t) /\ DOMAIN s = 1 .. Len(s)
  BY <1>1
<1> HIDE DEF t
<1>4. \A k \in DOMAIN t : f[k] \in DOMAIN s /\ t[k] = s[f[k]]
  BY <1>2, <1>3 DEF Placed
<1>5. \A k, l \in DOMAIN t : k # l => f[k] # f[l]
  BY <1>2, <1>3 DEF Placed
<1>6. Parted(t)
  BY ZenonT(60), <1>4, <1>5 DEF Parted
<1>7. \A c \in DOMAIN s : s[c] \in S => \E k \in DOMAIN t : t[k] = s[c]
  BY <1>1 DEF ToSet
<1>8. \A k \in DOMAIN t : t[k] \in S
  BY <1>1
<1>9. Covered(t) = UNION {ToSet(s[c]) : c \in {c \in DOMAIN s : s[c] \in S}}
  BY <1>4, <1>7, <1>8 DEF Covered
<1> QED BY <1>1, <1>4, <1>6, <1>7, <1>8, <1>9 DEF t

LEMMA CoveredHas ==
    ASSUME NEW s, NEW c \in DOMAIN s
    PROVE  ToSet(s[c]) \subseteq Covered(s)
BY DEF Covered

\* Lists of chunks that share no task, one after the other.
LEMMA FlattenChunks ==
    ASSUME NEW T, NEW s \in Seq(Seq(Seq(T))), \A i \in DOMAIN s : Parted(s[i]),
           \A i, j \in DOMAIN s : i # j => Covered(s[i]) \cap Covered(s[j]) = {}
    PROVE  /\ FlattenSeq(s) \in Seq(Seq(T)) /\ Parted(FlattenSeq(s))
           /\ Covered(FlattenSeq(s)) = UNION {Covered(s[i]) : i \in DOMAIN s}
           /\ \A k \in DOMAIN FlattenSeq(s) : \E i \in DOMAIN s : \E c \in DOMAIN s[i] : FlattenSeq(s)[k] = s[i][c]
           /\ \A i \in DOMAIN s : \A c \in DOMAIN s[i] : \E k \in DOMAIN FlattenSeq(s) : FlattenSeq(s)[k] = s[i][c]
<1> DEFINE t == FlattenSeq(s)
<1>1. t \in Seq(Seq(T)) /\ \E f : Spread(s, Len(s), t, f)
  BY FlattenPlaces
<1>2. PICK f : Spread(s, Len(s), t, f)
  BY <1>1
<1>3. DOMAIN t = 1 .. Len(t) /\ DOMAIN s = 1 .. Len(s) /\ \A i \in DOMAIN s : DOMAIN s[i] = 1 .. Len(s[i])
  BY <1>1
<1> HIDE DEF t
<1>4. \A k \in DOMAIN t : /\ f[k][1] \in DOMAIN s /\ f[k][2] \in DOMAIN s[f[k][1]] /\ t[k] = s[f[k][1]][f[k][2]]
                          /\ f[k] = <<f[k][1], f[k][2]>>
  <2> SUFFICES ASSUME NEW k \in DOMAIN t
               PROVE  /\ f[k][1] \in DOMAIN s /\ f[k][2] \in DOMAIN s[f[k][1]] /\ t[k] = s[f[k][1]][f[k][2]]
                      /\ f[k] = <<f[k][1], f[k][2]>>
    OBVIOUS
  <2>1. f[k] \in (1 .. Len(s)) \X Nat
    BY <1>2, <1>3 DEF Spread
  <2>2. f[k][2] \in 1 .. Len(s[f[k][1]]) /\ t[k] = s[f[k][1]][f[k][2]]
    BY <1>2, <1>3 DEF Spread
  <2>3. f[k] = <<f[k][1], f[k][2]>> /\ f[k][1] \in 1 .. Len(s)
    BY <2>1, PairIs
  <2> QED BY <1>3, <2>2, <2>3
<1>5. \A k, l \in DOMAIN t : k # l => f[k] # f[l]
  BY <1>2, <1>3 DEF Spread
<1>6. \A i \in DOMAIN s : \A c \in DOMAIN s[i] : \E k \in DOMAIN t : f[k] = <<i, c>>
  BY <1>2, <1>3 DEF Spread
<1>7. Parted(t)
  <2>1. \A k \in DOMAIN t : IsInjective(t[k])
    BY <1>4 DEF Parted
  <2>2. ASSUME NEW k \in DOMAIN t, NEW l \in DOMAIN t, k # l PROVE ToSet(t[k]) \cap ToSet(t[l]) = {}
    <3>1. f[k][1] # f[l][1] \/ f[k][2] # f[l][2]
      <4>1. f[k] # f[l]
        BY <1>5, <2>2
      <4>2. f[k] = <<f[k][1], f[k][2]>> /\ f[l] = <<f[l][1], f[l][2]>>
        BY <1>4
      <4> QED BY <4>1, <4>2, Zenon
    <3>2. CASE f[k][1] # f[l][1]
      <4>1. ToSet(t[k]) \subseteq Covered(s[f[k][1]]) /\ ToSet(t[l]) \subseteq Covered(s[f[l][1]])
        <5>1. \A j \in DOMAIN t : ToSet(t[j]) \subseteq Covered(s[f[j][1]])
          <6> SUFFICES ASSUME NEW j \in DOMAIN t PROVE ToSet(t[j]) \subseteq Covered(s[f[j][1]])
            OBVIOUS
          <6>1. t[j] = s[f[j][1]][f[j][2]] /\ f[j][2] \in DOMAIN s[f[j][1]]
            BY <1>4
          <6> QED BY <6>1, CoveredHas
        <5> QED BY <5>1
      <4> QED BY <1>4, <3>2, <4>1
    <3>3. CASE f[k][1] = f[l][1] /\ f[k][2] # f[l][2]
      <4>1. Parted(s[f[k][1]])
        BY <1>4
      <4> QED BY <1>4, <3>3, <4>1 DEF Parted
    <3> QED BY <3>1, <3>2, <3>3
  <2> QED BY <2>1, <2>2 DEF Parted
<1>8. \A i \in DOMAIN s : \A c \in DOMAIN s[i] : \E k \in DOMAIN t : t[k] = s[i][c]
  <2> SUFFICES ASSUME NEW i \in DOMAIN s, NEW c \in DOMAIN s[i] PROVE \E k \in DOMAIN t : t[k] = s[i][c]
    OBVIOUS
  <2>1. PICK k \in DOMAIN t : f[k] = <<i, c>>
    BY <1>6
  <2>2. t[k] = s[i][c]
    BY <1>4, <2>1
  <2> QED BY <2>2
<1>9. \A k \in DOMAIN t : \E i \in DOMAIN s : \E c \in DOMAIN s[i] : t[k] = s[i][c]
  BY <1>4
<1>10. Covered(t) = UNION {Covered(s[i]) : i \in DOMAIN s}
  BY <1>8, <1>9 DEF Covered
<1> QED BY <1>1, <1>7, <1>8, <1>9, <1>10 DEF t

Chained(T, s, t, w) ==
    /\ w \in Seq(Seq(T)) /\ Parted(w) /\ Covered(w) = Covered(s) \cup Covered(t)
    /\ \A k \in DOMAIN w : (\E c \in DOMAIN s : w[k] = s[c]) \/ \E c \in DOMAIN t : w[k] = t[c]
    /\ \A c \in DOMAIN s : \E k \in DOMAIN w : w[k] = s[c]
    /\ \A c \in DOMAIN t : \E k \in DOMAIN w : w[k] = t[c]
LEMMA JoinChained ==
    ASSUME NEW T, NEW s \in Seq(Seq(T)), NEW t \in Seq(Seq(T)), Parted(s), Parted(t), Covered(s) \cap Covered(t) = {}
    PROVE  Chained(T, s, t, s \o t)
<1> DEFINE n == Len(s)
           m == Len(t)
           w == s \o t
<1>1. /\ n \in Nat /\ m \in Nat /\ DOMAIN s = 1 .. n /\ DOMAIN t = 1 .. m
  OBVIOUS
<1>2. /\ w \in Seq(Seq(T)) /\ Len(w) = n + m /\ (\A i \in 1 .. n : w[i] = s[i]) /\ (\A i \in 1 .. m : w[n + i] = t[i])
  BY SetOfJoined
<1>3. DOMAIN w = 1 .. n + m
  BY <1>2
<1> HIDE DEF n, m, w
<1>4. \A k \in 1 .. n + m : k \in 1 .. n \/ \E a \in 1 .. m : k = n + a
  <2> SUFFICES ASSUME NEW k \in 1 .. n + m, ~(k \in 1 .. n) PROVE \E a \in 1 .. m : k = n + a
    OBVIOUS
  <2>1. k - n \in 1 .. m /\ k = n + (k - n)
    BY <1>1
  <2> QED BY <2>1
<1>5. (\A k \in 1 .. n : k \in 1 .. n + m) /\ (\A a \in 1 .. m : n + a \in 1 .. n + m)
      /\ \A a, b \in 1 .. m : n + a # n + b => a # b
  BY <1>1
<1>6. Parted(w)
  <2>1. \A k \in 1 .. n + m : IsInjective(w[k])
    BY <1>1, <1>2, <1>4 DEF Parted
  <2>2. ASSUME NEW k \in 1 .. n + m, NEW l \in 1 .. n + m, k # l PROVE ToSet(w[k]) \cap ToSet(w[l]) = {}
    <3>1. (\A c \in 1 .. n : ToSet(s[c]) \subseteq Covered(s)) /\ \A c \in 1 .. m : ToSet(t[c]) \subseteq Covered(t)
      BY <1>1 DEF Covered
    <3>2. CASE k \in 1 .. n /\ l \in 1 .. n
      BY <1>1, <1>2, <2>2, <3>2 DEF Parted
    <3>3. CASE k \in 1 .. n /\ \E b \in 1 .. m : l = n + b
      BY <1>2, <3>1, <3>3
    <3>4. CASE l \in 1 .. n /\ \E a \in 1 .. m : k = n + a
      BY <1>2, <3>1, <3>4
    <3>5. CASE (\E a \in 1 .. m : k = n + a) /\ \E b \in 1 .. m : l = n + b
      <4>1. PICK a \in 1 .. m, b \in 1 .. m : k = n + a /\ l = n + b
        BY <3>5
      <4>2. a # b
        BY <2>2, <4>1
      <4> QED BY <1>1, <1>2, <4>1, <4>2 DEF Parted
    <3> QED BY <1>4, <3>2, <3>3, <3>4, <3>5
  <2> QED BY <1>3, <2>1, <2>2 DEF Parted
<1>7. \A c \in 1 .. n : \E k \in 1 .. n + m : w[k] = s[c]
  BY <1>2, <1>5
<1>8. \A c \in 1 .. m : \E k \in 1 .. n + m : w[k] = t[c]
  BY <1>2, <1>5
<1>9. \A k \in 1 .. n + m : (\E c \in 1 .. n : w[k] = s[c]) \/ \E c \in 1 .. m : w[k] = t[c]
  BY <1>2, <1>4
<1>10. Covered(w) = Covered(s) \cup Covered(t)
  <2>1. \A x \in Covered(w) : x \in Covered(s) \/ x \in Covered(t)
    <3> SUFFICES ASSUME NEW k \in 1 .. n + m PROVE ToSet(w[k]) \subseteq Covered(s) \/ ToSet(w[k]) \subseteq Covered(t)
      BY <1>3 DEF Covered
    <3> QED BY <1>1, <1>9, CoveredHas
  <2>2. \A c \in 1 .. n : ToSet(s[c]) \subseteq Covered(w)
    BY <1>3, <1>7, CoveredHas
  <2>3. \A c \in 1 .. m : ToSet(t[c]) \subseteq Covered(w)
    BY <1>3, <1>8, CoveredHas
  <2>4. Covered(s) \subseteq Covered(w)
    BY <1>1, <2>2 DEF Covered
  <2>5. Covered(t) \subseteq Covered(w)
    BY <1>1, <2>3 DEF Covered
  <2> QED BY <2>1, <2>4, <2>5
<1>11. Chained(T, s, t, w)
  BY <1>1, <1>2, <1>3, <1>6, <1>7, <1>8, <1>9, <1>10 DEF Chained
<1> QED BY <1>11 DEF w

-----------------------------------------------------------------------------
(* Splitting *)

LEMMA DivIs ==
    ASSUME NEW n \in Nat, NEW d \in Nat \ {0}
    PROVE  n \div d \in Nat /\ n % d \in Nat /\ n % d < d /\ n = d * (n \div d) + (n % d)
OBVIOUS

LEMMA MaxPair ==
    ASSUME NEW a \in Int, NEW b \in Int
    PROVE  Max({a, b}) \in {a, b} /\ Max({a, b}) >= a /\ Max({a, b}) >= b /\ Max({a, b}) \in Int
<1>1. {a, b} \in SUBSET Int /\ {a, b} # {} /\ {a, b} = {a} \cup {b}
  OBVIOUS
<1>2. IsFiniteSet({a, b})
  <2>1. IsFiniteSet({a})
    BY FS_Singleton
  <2>2. IsFiniteSet({a} \cup {b})
    BY <2>1, FS_AddElement
  <2> QED BY <1>1, <2>2
<1> QED BY <1>1, <1>2, MaxIs

LEMMA MinPair ==
    ASSUME NEW a \in Int, NEW b \in Int
    PROVE  Min({a, b}) \in {a, b} /\ Min({a, b}) <= a /\ Min({a, b}) <= b /\ Min({a, b}) \in Int
<1>1. {a, b} \in SUBSET Int /\ {a, b} # {} /\ {a, b} = {a} \cup {b}
  OBVIOUS
<1>2. IsFiniteSet({a, b})
  <2>1. IsFiniteSet({a})
    BY FS_Singleton
  <2>2. IsFiniteSet({a} \cup {b})
    BY <2>1, FS_AddElement
  <2> QED BY <1>1, <2>2
<1> QED BY <1>1, <1>2, MinIs

\* A product grows with its factor.
LEMMA Grows ==
    ASSUME NEW a \in Nat, NEW b \in Nat, NEW c \in Nat, a <= b
    PROVE  a * c <= b * c /\ a * c \in Nat /\ b * c \in Nat
<1>1. \A x, y \in Nat : x * y \in Nat
  OBVIOUS
<1>2. b - a \in Nat /\ b = a + (b - a)
  OBVIOUS
<1>3. (b - a) * c \in Nat
  BY <1>1, <1>2
<1>4. b * c = a * c + (b - a) * c
  OBVIOUS
<1> QED BY <1>1, <1>3, <1>4

\* A chunk is half as long again as the target at most.
LEMMA ChunkIs ==
    ASSUME NEW n \in Nat, NEW size \in Nat \ {0}
    PROVE  Chunk(n, size) \in Nat \ {0} /\ 2 * Chunk(n, size) <= 3 * size
<1> DEFINE q == n \div size
           r == n % size
           k == Max({1, RoundDiv(n, size)})
           c == n \div k
<1>1. q \in Nat /\ r \in Nat /\ r < size /\ n = size * q + r
  BY DivIs
<1>2. RoundDiv(n, size) \in {q, q + 1} /\ (RoundDiv(n, size) = q => 2 * r <= size)
  BY <1>1 DEF RoundDiv
<1>3. k \in Nat \ {0} /\ k >= RoundDiv(n, size) /\ k \in {1, RoundDiv(n, size)}
  <2>1. RoundDiv(n, size) \in Nat
    <3> HIDE DEF q, r
    <3> QED BY <1>1, <1>2
  <2> DEFINE x == RoundDiv(n, size)
  <2> HIDE DEF x
  <2>2. Max({1, x}) \in {1, x} /\ Max({1, x}) >= 1 /\ Max({1, x}) >= x /\ Max({1, x}) \in Int
    BY <2>1, MaxPair DEF x
  <2> QED BY <2>1, <2>2 DEF x
<1>4. c \in Nat /\ k * c <= n
  <2> HIDE DEF k
  <2>1. c \in Nat /\ n % k \in Nat /\ n = k * c + (n % k)
    BY <1>3, DivIs
  <2>2. k * c \in Nat
    BY <1>3, <2>1
  <2> HIDE DEF c
  <2> QED BY <2>1, <2>2
<1> HIDE DEF k, c, q, r
<1>5. 2 * c <= 3 * size
  <2>1. CASE q = 0
    <3>1. n < size
      BY <1>1, <2>1
    <3>2. 1 * c <= k * c
      BY <1>3, <1>4, Grows
    <3>3. 1 * c = c /\ k * c \in Nat
      BY <1>3, <1>4, Grows
    <3> QED BY <1>1, <1>4, <3>1, <3>2, <3>3
  <2>2. CASE q # 0 /\ RoundDiv(n, size) = q + 1
    <3>1. (q + 1) * c <= k * c /\ (q + 1) * c \in Nat /\ k * c \in Nat
      BY <1>1, <1>3, <1>4, <2>2, Grows
    <3>2. (q + 1) * c <= size * q + r /\ size * q + r < size * (q + 1)
      BY <1>1, <1>4, <3>1
    <3>3. c < size \/ size <= c
      BY <1>4
    <3>4. ~(size <= c)
      <4> SUFFICES ASSUME size <= c PROVE FALSE
        OBVIOUS
      <4>1. size * (q + 1) <= c * (q + 1)
        BY <1>1, <1>4, Grows
      <4>2. c * (q + 1) = (q + 1) * c
        BY <1>1, <1>4
      <4>3. size * (q + 1) \in Nat /\ size * q + r \in Nat /\ (q + 1) * c \in Nat
        BY <1>1, <1>4
      <4> QED BY <3>2, <4>1, <4>2, <4>3
    <3> QED BY <1>4, <3>3, <3>4
  <2>3. CASE q # 0 /\ RoundDiv(n, size) = q
    <3>1. q * c <= k * c /\ 2 * r <= size /\ q * c \in Nat /\ k * c \in Nat
      BY <1>1, <1>2, <1>3, <1>4, <2>3, Grows
    <3>2. q * c <= size * q + r
      BY <1>1, <1>4, <3>1
    <3>3. ~(3 * size < 2 * c)
      <4> SUFFICES ASSUME 3 * size + 1 <= 2 * c PROVE FALSE
        BY <1>4
      <4>1. (3 * size + 1) * q <= (2 * c) * q
        BY <1>1, <1>4, Grows
      <4>2. (3 * size + 1) * q = 3 * (size * q) + q /\ (2 * c) * q = 2 * (q * c) /\ size * q \in Nat
        BY <1>1, <1>4
      <4>3. size * 1 <= size * q
        <5>1. 1 * size <= q * size
          BY <1>1, <2>3, Grows
        <5> QED BY <1>1, <5>1
      <4> QED BY <1>1, <2>3, <3>1, <3>2, <4>1, <4>2, <4>3
    <3> QED BY <1>4, <3>3
  <2> QED BY <1>2, <2>1, <2>2, <2>3
<1>6. Chunk(n, size) = Max({1, c})
  BY DEF Chunk, c, k
<1>7. Max({1, c}) \in {1, c} /\ Max({1, c}) >= 1 /\ Max({1, c}) \in Int
  <2>1. c \in Int /\ 1 \in Int
    BY <1>4
  <2> QED BY <2>1, MaxPair
<1> QED BY <1>4, <1>5, <1>6, <1>7

LEMMA SplitFacts ==
    ASSUME NEW T, NEW tasks \in Seq(T), IsInjective(tasks), NEW size \in Nat \ {0}
    PROVE  /\ Split(tasks, size) \in Seq(Seq(T)) /\ Parted(Split(tasks, size))
           /\ Covered(Split(tasks, size)) = ToSet(tasks)
           /\ \A c \in DOMAIN Split(tasks, size) : 2 * Len(Split(tasks, size)[c]) <= 3 * size
<1> DEFINE n == Len(tasks)
           c == Chunk(n, size)
           m == (n + c - 1) \div c
           from(i) == (i - 1) * c
           to(i) == Min({i * c, n})
           w == Split(tasks, size)
<1>1. n \in Nat /\ DOMAIN tasks = 1 .. n /\ \A i \in 1 .. n : tasks[i] \in T
  OBVIOUS
<1>2. c \in Nat \ {0} /\ 2 * c <= 3 * size
  BY <1>1, ChunkIs
<1>3. w = [i \in 1 .. m |-> SubSeq(tasks, from(i) + 1, to(i))]
  BY DEF Split
<1> HIDE DEF n, c, w
<1>4. m \in Nat /\ n + c - 1 = c * m + ((n + c - 1) % c) /\ (n + c - 1) % c \in Nat /\ (n + c - 1) % c < c
  <2>1. n + c - 1 \in Nat
    BY <1>1, <1>2
  <2> QED BY <1>2, <2>1, DivIs
<1> HIDE DEF m
<1>5. ASSUME NEW i \in 1 .. m
      PROVE  /\ from(i) \in Nat /\ to(i) \in Nat /\ to(i) <= from(i) + c /\ to(i) <= n /\ i * c = from(i) + c
             /\ to(i) \in {from(i) + c, n} /\ from(i) <= n
  <2>1. i - 1 \in Nat /\ i \in Nat /\ i <= m
    BY <1>4
  <2>2. from(i) \in Nat /\ i * c \in Nat /\ i * c = from(i) + c
    BY <1>2, <2>1
  <2>3. i * c <= m * c /\ m * c \in Nat
    BY <1>2, <1>4, <2>1, Grows
  <2>4. m * c = c * m
    BY <1>2, <1>4
  <2>5. i * c <= n + c - 1
    BY <1>1, <1>2, <1>4, <2>2, <2>3, <2>4
  <2>6. to(i) \in {i * c, n} /\ to(i) <= i * c /\ to(i) <= n
    <3> DEFINE x == i * c
    <3>1. x \in Int
      BY <2>2
    <3> HIDE DEF x
    <3>2. Min({x, n}) \in {x, n} /\ Min({x, n}) <= x /\ Min({x, n}) <= n
      <4>1. n \in Int
        BY <1>1
      <4> QED BY <3>1, <4>1, MinPair
    <3> QED BY <3>2 DEF x
  <2> HIDE DEF from, to
  <2> QED BY <1>1, <1>2, <2>2, <2>5, <2>6
<1> HIDE DEF from, to
<1>6. ASSUME NEW i \in 1 .. m
      PROVE  /\ w[i] \in Seq(T) /\ Len(w[i]) = to(i) - from(i) /\ Len(w[i]) <= c /\ Len(w[i]) \in Nat
             /\ \A k \in 1 .. Len(w[i]) : w[i][k] = tasks[from(i) + k] /\ from(i) + k \in 1 .. n
  <2>1. from(i) \in Nat /\ to(i) \in Nat /\ to(i) <= from(i) + c /\ to(i) <= n /\ from(i) <= to(i)
    BY <1>1, <1>2, <1>5
  <2>2. w[i] = SubSeq(tasks, from(i) + 1, to(i))
    BY <1>3
  <2>3. SubSeq(tasks, from(i) + 1, to(i)) = [k \in 1 .. (1 + to(i) - (from(i) + 1)) |-> tasks[(from(i) + 1) + k - 1]]
    BY <1>1, <2>1 DEF n
  <2>4. 1 + to(i) - (from(i) + 1) = to(i) - from(i) /\ to(i) - from(i) \in Nat
    BY <2>1
  <2>5. \A k \in 1 .. to(i) - from(i) : (from(i) + 1) + k - 1 = from(i) + k /\ from(i) + k \in 1 .. n
    BY <1>1, <2>1
  <2>6. w[i] = [k \in 1 .. to(i) - from(i) |-> tasks[from(i) + k]]
    BY <2>2, <2>3, <2>4, <2>5
  <2>7. \A k \in 1 .. to(i) - from(i) : tasks[from(i) + k] \in T
    BY <1>1, <2>5
  <2>8. w[i] \in Seq(T) /\ Len(w[i]) = to(i) - from(i)
    BY <2>4, <2>6, <2>7
  <2>9. to(i) - from(i) <= c
    BY <1>2, <2>1
  <2> QED BY <2>4, <2>5, <2>6, <2>8, <2>9
<1>7. w \in Seq(Seq(T)) /\ DOMAIN w = 1 .. m
  <2>1. \A i \in 1 .. m : w[i] \in Seq(T)
    BY <1>6
  <2>2. w = [i \in 1 .. m |-> w[i]]
    BY <1>3
  <2> QED BY <1>4, <2>1, <2>2
\* Each place lies in the chunk its number is in.
<1>8. ASSUME NEW i \in 1 .. m, NEW j \in 1 .. m, NEW k \in 1 .. Len(w[i]), NEW l \in 1 .. Len(w[j]),
             from(i) + k = from(j) + l
      PROVE  i = j /\ k = l
  <2>1. \A a, b \in 1 .. m : a < b => from(a) + c <= from(b)
    <3> SUFFICES ASSUME NEW a \in 1 .. m, NEW b \in 1 .. m, a < b PROVE from(a) + c <= from(b)
      OBVIOUS
    <3>1. a \in Nat /\ b - 1 \in Nat /\ a <= b - 1
      BY <1>4
    <3>2. a * c <= (b - 1) * c
      BY <1>2, <3>1, Grows
    <3>3. a * c = from(a) + c
      BY <1>5
    <3> QED BY <3>2, <3>3 DEF from
  <2>2. k \in Nat /\ l \in Nat /\ k >= 1 /\ l >= 1 /\ k <= c /\ l <= c /\ from(i) \in Nat /\ from(j) \in Nat
    <3>1. Len(w[i]) <= c /\ Len(w[i]) \in Nat /\ from(i) \in Nat
      BY <1>5, <1>6
    <3>2. Len(w[j]) <= c /\ Len(w[j]) \in Nat /\ from(j) \in Nat
      BY <1>5, <1>6
    <3> QED BY <1>2, <3>1, <3>2
  <2>3. ~(i < j) /\ ~(j < i)
    BY <1>2, <1>8, <2>1, <2>2
  <2>4. i = j
    BY <1>4, <2>3
  <2> QED BY <1>8, <2>2, <2>4
<1>9. Parted(w)
  <2>1. \A i \in 1 .. m : IsInjective(w[i])
    <3> SUFFICES ASSUME NEW i \in 1 .. m, NEW k \in 1 .. Len(w[i]), NEW l \in 1 .. Len(w[i]), w[i][k] = w[i][l]
                 PROVE  k = l
      BY SMTT(60), <1>6 DEF IsInjective
    <3>1. from(i) + k = from(i) + l
      BY <1>1, <1>6 DEF IsInjective
    <3> QED BY <1>8, <3>1
  <2>2. \A i, j \in 1 .. m : i # j => ToSet(w[i]) \cap ToSet(w[j]) = {}
    <3> SUFFICES ASSUME NEW i \in 1 .. m, NEW j \in 1 .. m, i # j, NEW x \in ToSet(w[i]), x \in ToSet(w[j])
                 PROVE  FALSE
      OBVIOUS
    <3>2. w[i] \in Seq(T) /\ w[j] \in Seq(T)
      BY <1>6
    <3>3. DOMAIN w[i] = 1 .. Len(w[i]) /\ DOMAIN w[j] = 1 .. Len(w[j])
      BY <3>2
    <3>4. PICK k \in 1 .. Len(w[i]) : w[i][k] = x
      BY <3>3 DEF ToSet
    <3>5. PICK l \in 1 .. Len(w[j]) : w[j][l] = x
      BY <3>3 DEF ToSet
    <3>6. /\ w[i][k] = tasks[from(i) + k] /\ from(i) + k \in 1 .. n
          /\ w[j][l] = tasks[from(j) + l] /\ from(j) + l \in 1 .. n
      BY <1>6
    <3>1. from(i) + k = from(j) + l
      BY <1>1, <3>4, <3>5, <3>6 DEF IsInjective
    <3> QED BY <1>8, <3>1
  <2> QED BY <1>7, <2>1, <2>2 DEF Parted
<1>10. Covered(w) = ToSet(tasks)
  <2>1. \A i \in 1 .. m : ToSet(w[i]) \subseteq ToSet(tasks)
    BY <1>1, <1>6 DEF ToSet
  <2>2. Covered(w) \subseteq ToSet(tasks)
    BY <1>7, <2>1 DEF Covered
  <2>3. ASSUME NEW p \in 1 .. n PROVE \E i \in 1 .. m : tasks[p] \in ToSet(w[i])
    <3> DEFINE i == ((p - 1) \div c) + 1
               k == ((p - 1) % c) + 1
    <3>1. /\ p - 1 \in Nat /\ (p - 1) \div c \in Nat /\ (p - 1) % c \in Nat /\ (p - 1) % c < c
          /\ p - 1 = c * ((p - 1) \div c) + ((p - 1) % c)
      <4>1. p - 1 \in Nat
        BY <1>1
      <4> QED BY <1>2, <4>1, DivIs
    <3> DEFINE e == (p - 1) \div c
               f == (p - 1) % c
    <3>2. i = e + 1 /\ k = f + 1
      OBVIOUS
    <3> HIDE DEF e, f, i, k
    <3>3. e \in Nat /\ f \in Nat /\ f < c /\ p - 1 = c * e + f
      BY <3>1 DEF e, f
    <3>4. e + 1 <= m
      <4> SUFFICES ASSUME m <= e PROVE FALSE
        BY <1>4, <3>3
      <4>1. m * c <= e * c
        BY <1>2, <1>4, <3>3, Grows
      <4>2. m * c = c * m /\ e * c = c * e /\ c * m \in Nat /\ c * e \in Nat
        BY <1>2, <1>4, <3>3
      <4> QED BY <1>1, <1>2, <1>4, <3>3, <4>1, <4>2
    <3>5. i \in 1 .. m
      BY <1>4, <3>2, <3>3, <3>4
    <3>6. from(i) = c * e
      <4>1. i - 1 = e
        BY <3>2, <3>3
      <4>2. from(i) = e * c
        BY <4>1 DEF from
      <4> QED BY <1>2, <3>3, <4>2
    <3>7. p = from(i) + k
      <4>1. c * e \in Nat /\ p \in Int
        BY <1>1, <1>2, <3>3
      <4> QED BY <3>2, <3>3, <3>6, <4>1
    <3>8. k \in 1 .. Len(w[i])
      <4>1. Len(w[i]) = to(i) - from(i) /\ to(i) \in {from(i) + c, n} /\ from(i) \in Nat
        BY <1>5, <1>6, <3>5
      <4>2. k \in Nat /\ k >= 1 /\ k <= c /\ p <= n
        BY <1>1, <1>2, <3>2, <3>3
      <4> QED BY <1>1, <1>2, <3>7, <4>1, <4>2
    <3>9. tasks[p] = w[i][k]
      BY <1>6, <3>5, <3>7, <3>8
    <3>10. tasks[p] \in ToSet(w[i])
      BY <1>6, <3>5, <3>8, <3>9 DEF ToSet
    <3> QED BY <3>5, <3>10
  <2>4. ToSet(tasks) \subseteq Covered(w)
    BY SMTT(60), <1>1, <1>7, <2>3 DEF Covered, ToSet
  <2> QED BY <2>2, <2>4
<1>11. \A i \in DOMAIN w : 2 * Len(w[i]) <= 3 * size
  BY <1>2, <1>6, <1>7
<1> QED BY <1>7, <1>9, <1>10, <1>11 DEF w

-----------------------------------------------------------------------------
(* From the depots to the clusters *)

LEMMA SetToSeqFacts ==
    ASSUME NEW S, IsFiniteSet(S)
    PROVE  /\ SetToSeq(S) \in Seq(S) /\ IsInjective(SetToSeq(S)) /\ ToSet(SetToSeq(S)) = S
           /\ DOMAIN SetToSeq(S) = 1 .. Cardinality(S) /\ Cardinality(S) \in Nat
<1> DEFINE n == Cardinality(S)
           g == SetToSeq(S)
<1>1. n \in Nat /\ \E f : f \in Bijection(1 .. n, S)
  BY FS_CardinalityType DEF ExistsBijection
<1>2. \E f \in [1 .. n -> S] : IsInjective(f)
  BY <1>1 DEF Bijection, Injection
<1>3. g \in [1 .. n -> S] /\ IsInjective(g)
  BY <1>2 DEF SetToSeq
<1> HIDE DEF g, n
<1>4. IsFiniteSet(1 .. n) /\ Cardinality(1 .. n) = n
  <2>1. 1 \in Int /\ n \in Int
    BY <1>1
  <2>2. IsFiniteSet(1 .. n) /\ Cardinality(1 .. n) = IF 1 > n THEN 0 ELSE n - 1 + 1
    BY <2>1, FS_Interval
  <2> QED BY <1>1, <2>2
<1>5. g \in Injection(1 .. n, S)
  BY <1>3 DEF Injection
<1>6. g \in Surjection(1 .. n, S)
  BY <1>4, <1>5, FS_Injection DEF n
<1>7. ToSet(g) = S
  BY <1>3, <1>6 DEF Surjection, ToSet
<1>8. g \in Seq(S)
  BY <1>1, <1>3
<1> QED BY <1>1, <1>3, <1>7, <1>8 DEF g, n

OfOps(in, units, S) == Filtered(units, {u \in ToSet(units) : Ops(in, u) = S})
SomeOps(in, units) == {Ops(in, u) : u \in {u \in ToSet(units) : Cardinality(Ops(in, u)) = 1}}
ByOps(in, units, size) ==
    [i \in DOMAIN SetToSeq(SomeOps(in, units)) |-> Pack(OfOps(in, units, SetToSeq(SomeOps(in, units))[i]), size)]
Mixed(in, units) == Filtered(units, {u \in ToSet(units) : Cardinality(Ops(in, u)) > 1})

\* A chunk of units is one of them, or small; no unit with a task is parted.
Kept(us, chunks) ==
    \A j \in DOMAIN us : ToSet(us[j]) # {} => \E c \in DOMAIN chunks : ToSet(us[j]) \subseteq ToSet(chunks[c])
Small(in, us, size, special, chunks) ==
    \A c \in DOMAIN chunks :
        \/ \E j \in DOMAIN us : chunks[c] = us[j]
        \/ Len(chunks[c]) <= size /\ (special => Cardinality(Ops(in, chunks[c])) = 1)

\* The units of one operation, packed.
LEMMA OfOpsFacts ==
    ASSUME NEW in, NEW T, NEW units \in Seq(Seq(T)), Parted(units), NEW size \in Nat, NEW S, Cardinality(S) = 1, IsFiniteSet(S)
    PROVE  LET p == Pack(OfOps(in, units, S), size)
           IN /\ p \in Seq(Seq(T)) /\ Parted(p)
              /\ Covered(p) = UNION {ToSet(units[j]) : j \in {j \in DOMAIN units : Ops(in, units[j]) = S}}
              /\ \A j \in DOMAIN units : Ops(in, units[j]) = S => \E c \in DOMAIN p : ToSet(units[j]) \subseteq ToSet(p[c])
              /\ Small(in, units, size, TRUE, p)
<1> DEFINE us == OfOps(in, units, S)
           p == Pack(us, size)
           same == {u \in ToSet(units) : Ops(in, u) = S}
<1>1. /\ us \in Seq(Seq(T)) /\ Parted(us)
      /\ Covered(us) = UNION {ToSet(units[c]) : c \in {c \in DOMAIN units : units[c] \in same}}
      /\ \A k \in DOMAIN us : us[k] \in same /\ \E c \in DOMAIN units : us[k] = units[c]
      /\ \A c \in DOMAIN units : units[c] \in same => \E k \in DOMAIN us : us[k] = units[c]
  <2> HIDE DEF same
  <2>1. us = Filtered(units, same)
    BY DEF OfOps, same
  <2> HIDE DEF us
  <2> QED BY <2>1, FilteredParted
<1>2. \A c \in DOMAIN units : units[c] \in same <=> Ops(in, units[c]) = S
  BY DEF ToSet
<1>3. \A k \in DOMAIN us : Ops(in, us[k]) = S
  BY <1>1
<1> HIDE DEF us, same
<1>4. /\ p \in Seq(Seq(T)) /\ Parted(p) /\ Covered(p) = Covered(us)
      /\ \A j \in DOMAIN us : \E c \in DOMAIN p : ToSet(us[j]) \subseteq ToSet(p[c])
      /\ \A c \in DOMAIN p : Len(p[c]) <= size \/ \E j \in DOMAIN us : p[c] = us[j]
      /\ \A c \in DOMAIN p : \E j \in DOMAIN us : ToSet(us[j]) \subseteq ToSet(p[c])
  <2>1. us \in Seq(Seq(T)) /\ Parted(us)
    BY <1>1
  <2>2. Packed(T, us, size, p)
    BY <2>1, PackFacts
  <2> HIDE DEF p
  <2> QED BY <2>2 DEF Packed
<1> HIDE DEF p
<1>5. Covered(p) = UNION {ToSet(units[j]) : j \in {j \in DOMAIN units : Ops(in, units[j]) = S}}
  BY <1>1, <1>2, <1>4
<1>6. \A j \in DOMAIN units : Ops(in, units[j]) = S => \E c \in DOMAIN p : ToSet(units[j]) \subseteq ToSet(p[c])
  <2> SUFFICES ASSUME NEW j \in DOMAIN units, Ops(in, units[j]) = S
               PROVE  \E c \in DOMAIN p : ToSet(units[j]) \subseteq ToSet(p[c])
    OBVIOUS
  <2>1. PICK k \in DOMAIN us : us[k] = units[j]
    BY <1>1, <1>2
  <2> QED BY <1>4, <2>1
<1>7. \A c \in DOMAIN p : Ops(in, p[c]) = S
  <2> SUFFICES ASSUME NEW c \in DOMAIN p PROVE Ops(in, p[c]) = S
    OBVIOUS
  <2>1. \A t \in ToSet(p[c]) : in.task[t].op \in S
    <3> SUFFICES ASSUME NEW t \in ToSet(p[c]) PROVE in.task[t].op \in S
      OBVIOUS
    <3>1. t \in Covered(us)
      BY <1>4, CoveredHas
    <3>2. PICK k \in DOMAIN us : t \in ToSet(us[k])
      BY <3>1 DEF Covered
    <3> QED BY <1>3, <3>2 DEF Ops
  <2>2. PICK k \in DOMAIN us : ToSet(us[k]) \subseteq ToSet(p[c])
    BY <1>4
  <2>3. Ops(in, us[k]) \subseteq Ops(in, p[c]) /\ Ops(in, us[k]) = S
    BY <1>3, <2>2 DEF Ops
  <2>4. Ops(in, p[c]) \subseteq S
    BY <2>1 DEF Ops
  <2> QED BY <2>3, <2>4
<1>8. Small(in, units, size, TRUE, p)
  <2> SUFFICES ASSUME NEW c \in DOMAIN p
               PROVE  \/ \E j \in DOMAIN units : p[c] = units[j]
                      \/ Len(p[c]) <= size /\ Cardinality(Ops(in, p[c])) = 1
    BY DEF Small
  <2>1. Cardinality(Ops(in, p[c])) = 1
    BY <1>7
  <2>2. CASE Len(p[c]) <= size
    BY <2>1, <2>2
  <2>3. CASE \E k \in DOMAIN us : p[c] = us[k]
    BY <1>1, <2>3
  <2> QED BY <1>4, <2>2, <2>3
<1> QED BY <1>4, <1>5, <1>6, <1>8 DEF p, us

LEMMA PackByOperationFacts ==
    ASSUME NEW in, NEW T, IsFiniteSet(T), NEW units \in Seq(Seq(T)), Parted(units), NEW size \in Nat
    PROVE  LET p == PackByOperation(in, units, size)
           IN /\ p \in Seq(Seq(T)) /\ Parted(p) /\ Covered(p) = Covered(units)
              /\ Kept(units, p) /\ Small(in, units, size, TRUE, p)
<1> DEFINE some == SomeOps(in, units)
           ranked == SetToSeq(some)
           at(i) == Pack(OfOps(in, units, ranked[i]), size)
           s == [i \in DOMAIN ranked |-> at(i)]
           f == FlattenSeq(s)
           big == {u \in ToSet(units) : Cardinality(Ops(in, u)) > 1}
           m == Filtered(units, big)
           p == PackByOperation(in, units, size)
           of(S) == UNION {ToSet(units[j]) : j \in {j \in DOMAIN units : Ops(in, units[j]) = S}}
<1>1. p = f \o m
  BY Zenon DEF PackByOperation, OfOps, SomeOps
<1>2. DOMAIN units = 1 .. Len(units) /\ Len(units) \in Nat /\ \A j \in DOMAIN units : units[j] \in Seq(T)
  OBVIOUS
<1>3. \A j \in DOMAIN units : IsFiniteSet(Ops(in, units[j])) /\ Cardinality(Ops(in, units[j])) \in Nat
                             /\ (Ops(in, units[j]) = {} <=> ToSet(units[j]) = {})
                             /\ (Cardinality(Ops(in, units[j])) = 0 <=> Ops(in, units[j]) = {})
  <2> SUFFICES ASSUME NEW j \in DOMAIN units
               PROVE  IsFiniteSet(Ops(in, units[j])) /\ Cardinality(Ops(in, units[j])) \in Nat
                      /\ (Ops(in, units[j]) = {} <=> ToSet(units[j]) = {})
                      /\ (Cardinality(Ops(in, units[j])) = 0 <=> Ops(in, units[j]) = {})
    OBVIOUS
  <2> DEFINE g == [t \in T |-> in.task[t].op]
             X == ToSet(units[j])
  <2>1. X \in SUBSET T
    BY <1>2 DEF ToSet
  <2>2. IsFiniteSet(X)
    BY <2>1, FS_Subset
  <2>3. Ops(in, units[j]) = {g[t] : t \in X}
    BY <2>1 DEF Ops
  <2> DEFINE Y == Ops(in, units[j])
  <2> HIDE DEF g, X, Y
  <2>4. IsFiniteSet(Y)
    <3>1. Y = {g[t] : t \in X}
      BY <2>3 DEF Y
    <3> QED BY <2>2, <3>1, ImageFinite
  <2>5. Y = {} <=> X = {}
    BY <2>3 DEF Y
  <2>6. Cardinality(Y) \in Nat /\ (Cardinality(Y) = 0 <=> Y = {})
    BY <2>4, FS_CardinalityType, FS_EmptySet
  <2> QED BY <2>4, <2>5, <2>6 DEF X, Y
<1>4. IsFiniteSet(some) /\ \A S \in some : Cardinality(S) = 1 /\ IsFiniteSet(S)
  <2> DEFINE g == [j \in DOMAIN units |-> Ops(in, units[j])]
             I == {j \in DOMAIN units : Cardinality(Ops(in, units[j])) = 1}
  <2>1. IsFiniteSet(DOMAIN units)
    BY <1>2, FirstOnes
  <2>2. I \in SUBSET DOMAIN units
    OBVIOUS
  <2>3. IsFiniteSet(I)
    <3> HIDE DEF I
    <3> QED BY <2>1, <2>2, FS_Subset
  <2>4. some = {g[j] : j \in I}
    BY DEF SomeOps, ToSet
  <2>5. \A S \in some : \E j \in I : S = Ops(in, units[j])
    BY <2>4
  <2>6. \A j \in I : Cardinality(Ops(in, units[j])) = 1 /\ IsFiniteSet(Ops(in, units[j]))
    BY <1>3
  <2> HIDE DEF g, I, some
  <2>7. IsFiniteSet(some)
    BY <2>3, <2>4, ImageFinite
  <2> QED BY <2>5, <2>6, <2>7
<1>5. ranked \in Seq(some) /\ IsInjective(ranked) /\ ToSet(ranked) = some /\ DOMAIN ranked = 1 .. Cardinality(some)
      /\ Cardinality(some) \in Nat
  <2> HIDE DEF some
  <2> QED BY <1>4, SetToSeqFacts
<1>6. \A j \in DOMAIN units : Cardinality(Ops(in, units[j])) = 1 => Ops(in, units[j]) \in some
  BY DEF SomeOps, ToSet
<1> HIDE DEF some, ranked, at
<1>7. ASSUME NEW i \in DOMAIN ranked
      PROVE  /\ ranked[i] \in some
             /\ s[i] \in Seq(Seq(T)) /\ Parted(s[i]) /\ Covered(s[i]) = of(ranked[i])
             /\ \A j \in DOMAIN units :
                    Ops(in, units[j]) = ranked[i] => \E c \in DOMAIN s[i] : ToSet(units[j]) \subseteq ToSet(s[i][c])
             /\ Small(in, units, size, TRUE, s[i])
  <2>1. ranked[i] \in some
    BY <1>5
  <2>2. Cardinality(ranked[i]) = 1 /\ IsFiniteSet(ranked[i])
    BY <1>4, <2>1
  <2>3. s[i] = Pack(OfOps(in, units, ranked[i]), size)
    BY DEF at
  <2> DEFINE R == ranked[i]
             q == Pack(OfOps(in, units, R), size)
  <2> HIDE DEF s, R, of
  <2>4. /\ q \in Seq(Seq(T)) /\ Parted(q)
        /\ Covered(q) = UNION {ToSet(units[j]) : j \in {j \in DOMAIN units : Ops(in, units[j]) = R}}
        /\ \A j \in DOMAIN units : Ops(in, units[j]) = R => \E c \in DOMAIN q : ToSet(units[j]) \subseteq ToSet(q[c])
        /\ Small(in, units, size, TRUE, q)
    <3>1. Cardinality(R) = 1 /\ IsFiniteSet(R)
      BY <2>2 DEF R
    <3> QED BY <3>1, OfOpsFacts
  <2>5. Covered(q) = of(R)
    BY <2>4 DEF of
  <2>6. s[i] = q /\ R = ranked[i]
    BY <2>3 DEF R
  <2> HIDE DEF q
  <2> QED BY <2>1, <2>4, <2>5, <2>6
<1>8. /\ s \in Seq(Seq(Seq(T))) /\ DOMAIN s = DOMAIN ranked
  <2>1. \A i \in 1 .. Cardinality(some) : s[i] \in Seq(Seq(T))
    BY <1>5, <1>7
  <2>2. s = [i \in 1 .. Cardinality(some) |-> s[i]]
    BY <1>5
  <2> HIDE DEF s
  <2> QED BY SMTT(60), <1>5, <2>1, <2>2
<1> HIDE DEF s
\* Units that share a task are one, so their operations are the same.
<1>9. \A S, R : S # R => of(S) \cap of(R) = {}
  <2> SUFFICES ASSUME NEW S, NEW R, NEW j \in DOMAIN units, NEW k \in DOMAIN units,
                      Ops(in, units[j]) = S, Ops(in, units[k]) = R, S # R
               PROVE  ToSet(units[j]) \cap ToSet(units[k]) = {}
    OBVIOUS
  <2> QED BY DEF Parted
<1>10. /\ \A i \in DOMAIN s : Parted(s[i])
       /\ \A i, j \in DOMAIN s : i # j => Covered(s[i]) \cap Covered(s[j]) = {}
  <2>1. \A i, j \in DOMAIN ranked : i # j => ranked[i] # ranked[j]
    BY <1>5 DEF IsInjective
  <2> HIDE DEF of
  <2>2. \A i \in DOMAIN s : Parted(s[i]) /\ Covered(s[i]) = of(ranked[i])
    BY <1>7, <1>8
  <2> QED BY <1>8, <1>9, <2>1, <2>2
<1>11. /\ f \in Seq(Seq(T)) /\ Parted(f) /\ Covered(f) = UNION {Covered(s[i]) : i \in DOMAIN s}
       /\ \A k \in DOMAIN f : \E i \in DOMAIN s : \E c \in DOMAIN s[i] : f[k] = s[i][c]
       /\ \A i \in DOMAIN s : \A c \in DOMAIN s[i] : \E k \in DOMAIN f : f[k] = s[i][c]
  BY ZenonT(60), <1>8, <1>10, FlattenChunks
<1>12. /\ m \in Seq(Seq(T)) /\ Parted(m)
       /\ Covered(m) = UNION {ToSet(units[c]) : c \in {c \in DOMAIN units : units[c] \in big}}
       /\ \A k \in DOMAIN m : m[k] \in big /\ \E c \in DOMAIN units : m[k] = units[c]
       /\ \A c \in DOMAIN units : units[c] \in big => \E k \in DOMAIN m : m[k] = units[c]
  <2> HIDE DEF big
  <2> QED BY FilteredParted
<1>13. \A c \in DOMAIN units : units[c] \in big <=> Cardinality(Ops(in, units[c])) > 1
  BY DEF ToSet
<1> HIDE DEF f, big, m, p
<1>14. \A t \in Covered(f) : \E j \in DOMAIN units : t \in ToSet(units[j]) /\ Cardinality(Ops(in, units[j])) = 1
  <2> SUFFICES ASSUME NEW i \in DOMAIN s, NEW t \in Covered(s[i])
               PROVE  \E j \in DOMAIN units : t \in ToSet(units[j]) /\ Cardinality(Ops(in, units[j])) = 1
    BY <1>11
  <2>1. Covered(s[i]) = of(ranked[i]) /\ Cardinality(ranked[i]) = 1
    BY <1>4, <1>7, <1>8
  <2>2. PICK j \in DOMAIN units : Ops(in, units[j]) = ranked[i] /\ t \in ToSet(units[j])
    BY <2>1
  <2> QED BY <2>1, <2>2
<1>15. \A t \in Covered(m) : \E j \in DOMAIN units : t \in ToSet(units[j]) /\ Cardinality(Ops(in, units[j])) > 1
  BY <1>12, <1>13
<1>16. Covered(f) \cap Covered(m) = {}
  <2> SUFFICES ASSUME NEW t \in Covered(f), t \in Covered(m) PROVE FALSE
    OBVIOUS
  <2>1. PICK j \in DOMAIN units : t \in ToSet(units[j]) /\ Cardinality(Ops(in, units[j])) = 1
    BY <1>14
  <2>2. PICK k \in DOMAIN units : t \in ToSet(units[k]) /\ Cardinality(Ops(in, units[k])) > 1
    BY <1>15
  <2>3. j # k
    BY <2>1, <2>2
  <2> QED BY <2>1, <2>2, <2>3 DEF Parted
<1>17. /\ p \in Seq(Seq(T)) /\ Parted(p) /\ Covered(p) = Covered(f) \cup Covered(m)
       /\ \A k \in DOMAIN p : (\E c \in DOMAIN f : p[k] = f[c]) \/ \E c \in DOMAIN m : p[k] = m[c]
       /\ \A c \in DOMAIN f : \E k \in DOMAIN p : p[k] = f[c]
       /\ \A c \in DOMAIN m : \E k \in DOMAIN p : p[k] = m[c]
  <2>1. f \in Seq(Seq(T)) /\ Parted(f)
    BY <1>11
  <2>2. m \in Seq(Seq(T)) /\ Parted(m)
    BY <1>12
  <2> DEFINE w == f \o m
  <2>3. /\ w \in Seq(Seq(T)) /\ Parted(w) /\ Covered(w) = Covered(f) \cup Covered(m)
        /\ \A k \in DOMAIN w : (\E c \in DOMAIN f : w[k] = f[c]) \/ \E c \in DOMAIN m : w[k] = m[c]
        /\ \A c \in DOMAIN f : \E k \in DOMAIN w : w[k] = f[c]
        /\ \A c \in DOMAIN m : \E k \in DOMAIN w : w[k] = m[c]
    <3>1. Chained(T, f, m, w)
      BY <1>16, <2>1, <2>2, JoinChained
    <3> HIDE DEF w
    <3> QED BY <3>1 DEF Chained
  <2>4. p = w
    BY <1>1
  <2> HIDE DEF w
  <2> QED BY <2>3, <2>4
<1>18. Kept(units, p)
  <2> SUFFICES ASSUME NEW j \in DOMAIN units, ToSet(units[j]) # {}
               PROVE  \E k \in DOMAIN p : ToSet(units[j]) \subseteq ToSet(p[k])
    BY DEF Kept
  <2>1. Cardinality(Ops(in, units[j])) = 1 \/ Cardinality(Ops(in, units[j])) > 1
    <3>1. Cardinality(Ops(in, units[j])) \in Nat /\ Cardinality(Ops(in, units[j])) # 0
      BY <1>3
    <3> QED BY <3>1
  <2>2. CASE Cardinality(Ops(in, units[j])) = 1
    <3>1. PICK i \in DOMAIN ranked : ranked[i] = Ops(in, units[j])
      BY <1>5, <1>6, <2>2 DEF ToSet
    <3>2. PICK c \in DOMAIN s[i] : ToSet(units[j]) \subseteq ToSet(s[i][c])
      BY <1>7, <3>1
    <3>3. PICK k \in DOMAIN f : f[k] = s[i][c]
      BY <1>8, <1>11
    <3>4. PICK l \in DOMAIN p : p[l] = f[k]
      BY <1>17
    <3> QED BY <3>2, <3>3, <3>4
  <2>3. CASE Cardinality(Ops(in, units[j])) > 1
    <3>1. PICK k \in DOMAIN m : m[k] = units[j]
      BY <1>12, <1>13, <2>3
    <3>2. PICK l \in DOMAIN p : p[l] = m[k]
      BY <1>17
    <3> QED BY <3>1, <3>2
  <2> QED BY <2>1, <2>2, <2>3
<1>19. Small(in, units, size, TRUE, p)
  <2> SUFFICES ASSUME NEW k \in DOMAIN p
               PROVE  \/ \E j \in DOMAIN units : p[k] = units[j]
                      \/ Len(p[k]) <= size /\ Cardinality(Ops(in, p[k])) = 1
    BY DEF Small
  <2>1. CASE \E c \in DOMAIN f : p[k] = f[c]
    <3>1. PICK i \in DOMAIN s : \E c \in DOMAIN s[i] : p[k] = s[i][c]
      BY <1>11, <2>1
    <3>2. PICK c \in DOMAIN s[i] : p[k] = s[i][c]
      BY <3>1
    <3>3. Small(in, units, size, TRUE, s[i])
      BY <1>7, <1>8
    <3> QED BY <3>2, <3>3 DEF Small
  <2>2. CASE \E c \in DOMAIN m : p[k] = m[c]
    BY <1>12, <2>2
  <2> QED BY <1>17, <2>1, <2>2
<1>20. Covered(p) = Covered(units)
  <2>1. \A t \in Covered(p) : \E j \in DOMAIN units : t \in ToSet(units[j])
    BY <1>14, <1>15, <1>17
  <2>2. Covered(p) \subseteq Covered(units)
    BY <2>1 DEF Covered
  <2>3. \A j \in DOMAIN units : ToSet(units[j]) \subseteq Covered(p)
    <3> SUFFICES ASSUME NEW j \in DOMAIN units, ToSet(units[j]) # {} PROVE ToSet(units[j]) \subseteq Covered(p)
      OBVIOUS
    <3>1. PICK c \in DOMAIN p : ToSet(units[j]) \subseteq ToSet(p[c])
      BY <1>18 DEF Kept
    <3> QED BY <3>1, CoveredHas
  <2>4. Covered(units) \subseteq Covered(p)
    BY <2>3 DEF Covered
  <2> QED BY <2>2, <2>4
<1> QED BY <1>17, <1>18, <1>19, <1>20 DEF p

-----------------------------------------------------------------------------
(* Sums *)

\* The recursion by which the library sums f over the subsets of S.
Pick(s) == CHOOSE x \in s : TRUE

Sums(h, f, S) ==
    h = [s \in SUBSET S |-> IF s = {} THEN 0 ELSE f[Pick(s)] + h[s \ {Pick(s)}]]

LEMMA PickIn == \A s : s # {} => Pick(s) \in s
BY DEF Pick

LEMMA SumsExist ==
    ASSUME NEW S, IsFiniteSet(S), NEW f
    PROVE  \E h : Sums(h, f, S)
<1> DEFINE Step(h, s) == IF s = {} THEN 0 ELSE f[Pick(s)] + h[s \ {Pick(s)}]
           Upto(n) == {s \in SUBSET S : Cardinality(s) <= n}
           Built(n) == \E h : \A s \in Upto(n) : h[s] = Step(h, s)
           Missing == {n \in Nat : ~Built(n)}
<1>1. \A s \in SUBSET S : IsFiniteSet(s) /\ Cardinality(s) \in Nat /\ (Cardinality(s) = 0 <=> s = {})
  BY FS_Subset, FS_CardinalityType, FS_EmptySet
<1>2. Built(0)
  <2>1. \A s \in Upto(0) : s = {} /\ [r \in SUBSET S |-> 0][s] = 0
    BY <1>1
  <2> QED BY <2>1
<1>3. ASSUME NEW n \in Nat, Built(n) PROVE Built(n + 1)
  <2>1. PICK h : \A s \in Upto(n) : h[s] = Step(h, s)
    BY <1>3
  <2> DEFINE g == [s \in SUBSET S |-> Step(h, s)]
  <2>2. ASSUME NEW s \in Upto(n + 1) PROVE g[s] = Step(g, s)
    <3>1. CASE s = {}
      BY <3>1
    <3>2. CASE s # {}
      <4> DEFINE y == Pick(s)
                 r == s \ {y}
      <4>1. y \in s /\ Cardinality(r) = Cardinality(s) - 1 /\ r \in SUBSET S
        BY <1>1, <3>2, PickIn, FS_RemoveElement
      <4>2. r \in Upto(n)
        BY <1>1, <4>1
      <4>3. g[r] = h[r]
        BY <2>1, <4>2
      <4>4. s \in SUBSET S
        OBVIOUS
      <4>5. g[s] = f[y] + h[r] /\ Step(g, s) = f[y] + g[r]
        BY <3>2, <4>4
      <4> QED BY <4>3, <4>5
    <3> QED BY <3>1, <3>2
  <2> HIDE DEF g
  <2> QED BY <2>2
<1>4. Missing = {}
  <2> HIDE DEF Built
  <2> SUFFICES ASSUME Missing # {} PROVE FALSE
    OBVIOUS
  <2>1. PICK n \in Missing : \A m \in Missing : n <= m
    <3>1. Missing \in SUBSET Nat
      OBVIOUS
    <3> HIDE DEF Missing
    <3> QED BY <3>1, LeastNumber
  <2>2. n \in Nat /\ ~Built(n) /\ n # 0
    BY <1>2
  <2>3. n - 1 \in Nat /\ (n - 1) + 1 = n
    BY <2>2
  <2>4. Built(n - 1)
    <3>1. n - 1 \notin Missing
      <4>1. ~(n <= n - 1)
        BY <2>2
      <4> QED BY <2>1, <4>1, Zenon
    <3> QED BY <2>3, <3>1
  <2> QED BY <1>3, <2>2, <2>3, <2>4
<1>5. Built(Cardinality(S))
  <2>1. Cardinality(S) \in Nat
    BY <1>1
  <2> HIDE DEF Built
  <2> QED BY <1>4, <2>1
<1>6. PICK h : \A s \in Upto(Cardinality(S)) : h[s] = Step(h, s)
  BY <1>5
<1>7. \A s \in SUBSET S : s \in Upto(Cardinality(S)) /\ (s # {} => s \ {Pick(s)} \in SUBSET S)
  BY FS_Subset
<1> DEFINE g == [s \in SUBSET S |-> h[s]]
<1>8. \A s \in SUBSET S : g[s] = Step(g, s)
  BY <1>6, <1>7
<1>9. g = [s \in SUBSET S |-> Step(g, s)]
  <2>1. g = [s \in SUBSET S |-> g[s]]
    OBVIOUS
  <2> HIDE DEF g
  <2> QED BY <1>8, <2>1
<1> QED BY <1>9, Zenon DEF Sums

LEMMA SumsValue ==
    ASSUME NEW h, NEW f, NEW S, Sums(h, f, S)
    PROVE  /\ h[{}] = 0
           /\ \A s \in SUBSET S : s # {} => h[s] = f[Pick(s)] + h[s \ {Pick(s)}]
BY DEF Sums

LEMMA TotalTyped ==
    ASSUME NEW f, IsFiniteSet(DOMAIN f)
    PROVE  /\ (\A x \in DOMAIN f : f[x] \in Int) => Total(f) \in Int
           /\ (\A x \in DOMAIN f : f[x] \in Nat) => Total(f) \in Nat
<1> SUFFICES ASSUME NEW D, D = Int \/ D = Nat, \A x \in DOMAIN f : f[x] \in D
             PROVE  Total(f) \in D
  OBVIOUS
<1> DEFINE S == DOMAIN f
           h == CHOOSE k : Sums(k, f, S)
<1>1. Sums(h, f, S)
  BY SumsExist
<1>2. Total(f) = h[S]
  BY Zenon DEF Total, FoldFunction, FoldFunctionOnSet, MapThenFoldSet, Sums, Pick
<1> DEFINE Bad == {s \in SUBSET S : h[s] \notin D}
<1> HIDE DEF h
<1>3. Bad = {}
  <2> SUFFICES ASSUME Bad # {} PROVE FALSE
    OBVIOUS
  <2>1. Bad \in SUBSET SUBSET S
    OBVIOUS
  <2>2. PICK s \in Bad : \A x \in s : s \ {x} \notin Bad
    <3> HIDE DEF Bad
    <3> QED BY <2>1, SmallestSubset
  <2>3. s \in SUBSET S /\ h[s] \notin D
    OBVIOUS
  <2>4. s # {} /\ h[s] = f[Pick(s)] + h[s \ {Pick(s)}]
    <3>1. h[{}] = 0 /\ \A q \in SUBSET S : q # {} => h[q] = f[Pick(q)] + h[q \ {Pick(q)}]
      BY <1>1, SumsValue
    <3>2. 0 \in D
      OBVIOUS
    <3> QED BY <2>3, <3>1, <3>2
  <2>5. Pick(s) \in s /\ s \ {Pick(s)} \in SUBSET S
    BY <2>3, <2>4, PickIn
  <2>6. h[s \ {Pick(s)}] \in D
    BY <2>2, <2>5
  <2>7. f[Pick(s)] \in D
    BY <2>3, <2>5
  <2>8. \A x, y \in D : x + y \in D
    OBVIOUS
  <2> QED BY <2>3, <2>4, <2>6, <2>7, <2>8
<1> QED BY <1>2, <1>3

-----------------------------------------------------------------------------
(* The chunks of every depot *)

Divided(in, D) ==
    /\ D \in [Depots(in) -> Seq(Seq(Ids(in)))]
    /\ \A d \in Depots(in) : Parted(D[d])
    /\ \A d, e \in Depots(in) : d # e => Covered(D[d]) \cap Covered(D[e]) = {}
    /\ AllOf(D) = Sited(in)
\* No unit is cut.
Uncut(in, U, D) ==
    \A u \in U : \A x, y \in ToSet(u.tasks) \cap Sited(in) :
        \E d \in Depots(in) : \E c \in DOMAIN D[d] : x \in ToSet(D[d][c]) /\ y \in ToSet(D[d][c])
Fit(in, U, chunk) ==
    \/ \E u \in U : ToSet(chunk) \subseteq ToSet(u.tasks)
    \/ /\ 2 * Len(chunk) <= (IF Specialised(in) \/ HasChains(U) THEN 2 ELSE 3) * in.size
       /\ Specialised(in) => Cardinality(Ops(in, chunk)) = 1

LEMMA KeptDivided ==
    ASSUME NEW in, NEW U, UnitsOk(in, U), NEW at, Chunked(in, U, at), AllOf(at) = Sited(in), NEW D,
           D \in [Depots(in) -> Seq(Seq(Ids(in)))],
           \A d \in Depots(in) : Parted(D[d]) /\ Covered(D[d]) = Covered(at[d]) /\ Kept(at[d], D[d])
    PROVE  Divided(in, D) /\ Uncut(in, U, D)
<1>1. DOMAIN D = Depots(in) /\ DOMAIN at = Depots(in)
  BY DEF Chunked
<1>2. AllOf(D) = AllOf(at)
  BY <1>1 DEF AllOf
<1>3. Divided(in, D)
  BY <1>2 DEF Divided, Chunked
<1>4. Uncut(in, U, D)
  <2> SUFFICES ASSUME NEW u \in U, NEW x \in ToSet(u.tasks), x \in Sited(in), NEW y \in ToSet(u.tasks), y \in Sited(in)
               PROVE  \E d \in Depots(in) : \E c \in DOMAIN D[d] : x \in ToSet(D[d][c]) /\ y \in ToSet(D[d][c])
    BY DEF Uncut
  <2>1. PICK d \in Depots(in) : x \in Covered(at[d])
    BY <1>1 DEF AllOf
  <2>2. PICK k \in DOMAIN at[d] : x \in ToSet(at[d][k])
    BY <2>1 DEF Covered
  <2>3. PICK v \in U : ToSet(at[d][k]) = ToSet(v.tasks) \cap Sited(in)
    BY DEF Chunked
  <2>4. v = u
    BY <2>2, <2>3 DEF UnitsOk
  <2>5. y \in ToSet(at[d][k])
    BY <2>3, <2>4
  <2>6. PICK c \in DOMAIN D[d] : ToSet(at[d][k]) \subseteq ToSet(D[d][c])
    BY <2>2 DEF Kept
  <2> QED BY <2>2, <2>5, <2>6
<1> QED BY <1>3, <1>4

LEMMA SmallFit ==
    ASSUME NEW in, in.size \in Nat, NEW U, NEW at, Chunked(in, U, at), NEW d \in Depots(in), NEW chunks, NEW special,
           Small(in, at[d], in.size, special, chunks), chunks \in Seq(Seq(Ids(in))),
           Specialised(in) => special, Specialised(in) \/ HasChains(U)
    PROVE  \A c \in DOMAIN chunks : Fit(in, U, chunks[c])
<1> SUFFICES ASSUME NEW c \in DOMAIN chunks PROVE Fit(in, U, chunks[c])
  OBVIOUS
<1>1. CASE \E j \in DOMAIN at[d] : chunks[c] = at[d][j]
  <2>1. PICK j \in DOMAIN at[d] : chunks[c] = at[d][j]
    BY <1>1
  <2>2. \E u \in U : ToSet(chunks[c]) \subseteq ToSet(u.tasks)
    BY <2>1 DEF Chunked
  <2> QED BY <2>2 DEF Fit
<1>2. CASE Len(chunks[c]) <= in.size /\ (special => Cardinality(Ops(in, chunks[c])) = 1)
  <2>1. Len(chunks[c]) \in Nat
    OBVIOUS
  <2>2. 2 * Len(chunks[c]) <= 2 * in.size
    BY <1>2, <2>1
  <2> QED BY <1>2, <2>2 DEF Fit
<1> QED BY <1>1, <1>2 DEF Small

LEMMA DepotChunksFacts ==
    ASSUME NEW in, Located(in), in.size \in Nat \ {0}
    PROVE  /\ Divided(in, DepotChunks(in)) /\ Uncut(in, Units(in), DepotChunks(in))
           /\ \A d \in Depots(in) : \A c \in DOMAIN DepotChunks(in)[d] : Fit(in, Units(in), DepotChunks(in)[d][c])
<1> DEFINE U == Units(in)
           at == Regrouped(in, U)
           D == DepotChunks(in)
           X(d) == IF Specialised(in) THEN PackByOperation(in, at[d], in.size)
                   ELSE IF HasChains(U) THEN Pack(at[d], in.size)
                   ELSE Split(AtDepot(in, d), in.size)
<1>1. UnitsOk(in, U) /\ IsFiniteSet(Ids(in))
  BY UnitsFacts, ListedFacts DEF Located
<1>2. D = [d \in Depots(in) |-> X(d)]
  BY Zenon DEF DepotChunks, Depots
<1> HIDE DEF U
<1>3. Chunked(in, U, at) /\ AllOf(at) = Sited(in)
  BY <1>1, RegroupedFacts
<1> HIDE DEF at, D
<1>4. \A d \in Depots(in) : at[d] \in Seq(Seq(Ids(in))) /\ Parted(at[d])
  BY <1>3 DEF Chunked
<1>5. CASE Specialised(in)
  <2>1. ASSUME NEW d \in Depots(in)
        PROVE  /\ D[d] \in Seq(Seq(Ids(in))) /\ Parted(D[d]) /\ Covered(D[d]) = Covered(at[d])
               /\ Kept(at[d], D[d]) /\ Small(in, at[d], in.size, TRUE, D[d])
    <3> DEFINE us == at[d]
               p == PackByOperation(in, us, in.size)
    <3>1. D[d] = p
      BY <1>2, <1>5
    <3>2. us \in Seq(Seq(Ids(in))) /\ Parted(us) /\ in.size \in Nat
      BY <1>4
    <3> HIDE DEF us
    <3>3. p \in Seq(Seq(Ids(in))) /\ Parted(p) /\ Covered(p) = Covered(us) /\ Kept(us, p) /\ Small(in, us, in.size, TRUE, p)
      BY <1>1, <3>2, PackByOperationFacts
    <3> HIDE DEF p
    <3> QED BY <3>1, <3>3 DEF us
  <2>2. D \in [Depots(in) -> Seq(Seq(Ids(in)))]
    <3>1. D = [d \in Depots(in) |-> D[d]]
      BY <1>2
    <3> QED BY <2>1, <3>1
  <2>3. Divided(in, D) /\ Uncut(in, U, D)
    BY <1>1, <1>3, <2>1, <2>2, KeptDivided
  <2>4. ASSUME NEW d \in Depots(in) PROVE \A c \in DOMAIN D[d] : Fit(in, U, D[d][c])
    <3>1. in.size \in Nat /\ Small(in, at[d], in.size, TRUE, D[d]) /\ D[d] \in Seq(Seq(Ids(in)))
      BY <2>1
    <3> QED BY <1>3, <1>5, <3>1, SmallFit
  <2> QED BY <2>3, <2>4 DEF D, U
<1>6. CASE ~Specialised(in) /\ HasChains(U)
  <2>1. ASSUME NEW d \in Depots(in)
        PROVE  /\ D[d] \in Seq(Seq(Ids(in))) /\ Parted(D[d]) /\ Covered(D[d]) = Covered(at[d])
               /\ Kept(at[d], D[d]) /\ Small(in, at[d], in.size, FALSE, D[d])
    <3> DEFINE us == at[d]
               p == Pack(us, in.size)
    <3>1. D[d] = p
      BY <1>2, <1>6
    <3>2. us \in Seq(Seq(Ids(in))) /\ Parted(us) /\ in.size \in Nat
      BY <1>4
    <3> HIDE DEF us
    <3>3. /\ p \in Seq(Seq(Ids(in))) /\ Parted(p) /\ Covered(p) = Covered(us)
          /\ \A j \in DOMAIN us : \E c \in DOMAIN p : ToSet(us[j]) \subseteq ToSet(p[c])
          /\ \A c \in DOMAIN p : Len(p[c]) <= in.size \/ \E j \in DOMAIN us : p[c] = us[j]
      <4>1. Packed(Ids(in), us, in.size, p)
        BY <3>2, PackFacts
      <4> HIDE DEF p
      <4> QED BY <4>1 DEF Packed
    <3> HIDE DEF p
    <3>4. Kept(us, p) /\ Small(in, us, in.size, FALSE, p)
      BY <3>3 DEF Kept, Small
    <3> QED BY <3>1, <3>3, <3>4 DEF us
  <2>2. D \in [Depots(in) -> Seq(Seq(Ids(in)))]
    <3>1. D = [d \in Depots(in) |-> D[d]]
      BY <1>2
    <3> QED BY <2>1, <3>1
  <2>3. Divided(in, D) /\ Uncut(in, U, D)
    BY <1>1, <1>3, <2>1, <2>2, KeptDivided
  <2>4. ASSUME NEW d \in Depots(in) PROVE \A c \in DOMAIN D[d] : Fit(in, U, D[d][c])
    <3>1. in.size \in Nat /\ Small(in, at[d], in.size, FALSE, D[d]) /\ D[d] \in Seq(Seq(Ids(in)))
      BY <2>1
    <3> QED BY <1>3, <1>6, <3>1, SmallFit
  <2> QED BY <2>3, <2>4 DEF D, U
<1>7. CASE ~Specialised(in) /\ ~HasChains(U)
  <2>1. ASSUME NEW d \in Depots(in)
        PROVE  /\ D[d] \in Seq(Seq(Ids(in))) /\ Parted(D[d])
               /\ Covered(D[d]) = {t \in Ids(in) : NearestDepot(in, t) = d}
               /\ \A c \in DOMAIN D[d] : 2 * Len(D[d][c]) <= 3 * in.size
    <3> DEFINE s == AtDepot(in, d)
               p == Split(s, in.size)
    <3>1. D[d] = p
      BY <1>2, <1>7
    <3>2. s \in Seq(Ids(in)) /\ IsInjective(s) /\ ToSet(s) = {t \in Ids(in) : NearestDepot(in, t) = d}
      BY AtDepotFacts
    <3> HIDE DEF s
    <3>3. /\ p \in Seq(Seq(Ids(in))) /\ Parted(p) /\ Covered(p) = ToSet(s)
          /\ \A c \in DOMAIN p : 2 * Len(p[c]) <= 3 * in.size
      BY <3>2, SplitFacts
    <3> HIDE DEF p
    <3> QED BY <3>1, <3>2, <3>3
  <2>2. D \in [Depots(in) -> Seq(Seq(Ids(in)))] /\ DOMAIN D = Depots(in)
    <3>1. D = [d \in Depots(in) |-> D[d]]
      BY <1>2
    <3> QED BY <2>1, <3>1
  <2>3. \A t \in Ids(in) : t \in Sited(in) <=> NearestDepot(in, t) \in Depots(in)
    BY NearestDepotIs
  <2>4. AllOf(D) = Sited(in)
    <3>1. \A t : t \in AllOf(D) <=> t \in Ids(in) /\ NearestDepot(in, t) \in Depots(in)
      BY <2>1, <2>2 DEF AllOf
    <3> QED BY <2>3, <3>1 DEF Sited
  <2>5. Divided(in, D)
    BY <2>1, <2>2, <2>4 DEF Divided
  <2>6. Uncut(in, U, D)
    <3> SUFFICES ASSUME NEW u \in U, NEW x \in ToSet(u.tasks), x \in Sited(in), NEW y \in ToSet(u.tasks), y \in Sited(in)
                 PROVE  \E d \in Depots(in) : \E c \in DOMAIN D[d] : x \in ToSet(D[d][c]) /\ y \in ToSet(D[d][c])
      BY DEF Uncut
    <3>1. u.tasks \in Seq(Ids(in)) /\ ~(Len(u.tasks) > 1)
      BY <1>1, <1>7 DEF HasChains, UnitsOk, Unit
    <3>2. x = y
      <4>1. PICK i \in DOMAIN u.tasks : u.tasks[i] = x
        BY DEF ToSet
      <4>2. PICK j \in DOMAIN u.tasks : u.tasks[j] = y
        BY DEF ToSet
      <4>3. \A k \in DOMAIN u.tasks : k = 1
        BY <3>1
      <4> QED BY <4>1, <4>2, <4>3
    <3>3. PICK d \in Depots(in) : x \in Covered(D[d])
      BY <2>2, <2>4 DEF AllOf
    <3>4. PICK c \in DOMAIN D[d] : x \in ToSet(D[d][c])
      BY <3>3 DEF Covered
    <3> QED BY <3>2, <3>4
  <2>7. \A d \in Depots(in) : \A c \in DOMAIN D[d] : Fit(in, U, D[d][c])
    BY <1>7, <2>1 DEF Fit
  <2> QED BY <2>5, <2>6, <2>7 DEF D, U
<1> QED BY <1>5, <1>6, <1>7

-----------------------------------------------------------------------------
(* The order of the clusters *)

\* Whoever has r - 1 before it is the r-th.
LEMMA RankingIs ==
    ASSUME NEW S, IsFiniteSet(S), NEW R, Orders(R, S), NEW q, q = [r \in 1 .. Cardinality(S) |-> q[r]],
           \A r \in 1 .. Cardinality(S) : q[r] \in S /\ Cardinality(Before(R, S, q[r])) = r - 1
    PROVE  q = Ranking(R, S)
<1>1. \A x, z \in S : Cardinality(Before(R, S, x)) = Cardinality(Before(R, S, z)) => x = z
  BY RanksExist
<1>2. \A r \in 1 .. Cardinality(S) : \E x \in S : Cardinality(Before(R, S, x)) = r - 1
  BY RanksExist
<1>3. ASSUME NEW r \in 1 .. Cardinality(S) PROVE q[r] = CHOOSE x \in S : Cardinality(Before(R, S, x)) = r - 1
  <2> DEFINE z == CHOOSE x \in S : Cardinality(Before(R, S, x)) = r - 1
  <2>1. z \in S /\ Cardinality(Before(R, S, z)) = r - 1
    BY <1>2
  <2> HIDE DEF z
  <2>2. q[r] = z
    BY <1>1, <2>1
  <2> QED BY <2>2 DEF z
<1> QED BY <1>3, Zenon DEF Ranking

Spec(in) == [depot : {in.depotAt[d].id : d \in Depots(in)}, tasks : Seq(Ids(in))]
Penalised(in) == \A t \in Ids(in) : in.task[t].penalty \in Int
Penalty(in, s) == Total([t \in ToSet(s.tasks) |-> in.task[t].penalty])
Dearer(in, specs) ==
    {p \in (DOMAIN specs) \X (DOMAIN specs) :
        \/ Penalty(in, specs[p[1]]) > Penalty(in, specs[p[2]])
        \/ Penalty(in, specs[p[1]]) = Penalty(in, specs[p[2]]) /\ p[1] < p[2]}

LEMMA DearerOrders ==
    ASSUME NEW in, Listed(in), Penalised(in), NEW specs \in Seq(Spec(in))
    PROVE  Orders(Dearer(in, specs), DOMAIN specs) /\ IsFiniteSet(DOMAIN specs) /\ Cardinality(DOMAIN specs) = Len(specs)
<1> DEFINE S == DOMAIN specs
           w == [i \in S |-> Penalty(in, specs[i])]
           R == Dearer(in, specs)
<1>1. S = 1 .. Len(specs) /\ Len(specs) \in Nat
  OBVIOUS
<1>2. \A i \in S : w[i] \in Int
  <2> SUFFICES ASSUME NEW i \in S PROVE Penalty(in, specs[i]) \in Int
    OBVIOUS
  <2> DEFINE f == [t \in ToSet(specs[i].tasks) |-> in.task[t].penalty]
  <2>1. specs[i].tasks \in Seq(Ids(in))
    <3>1. specs[i] \in Spec(in)
      OBVIOUS
    <3> QED BY <3>1 DEF Spec
  <2>2. ToSet(specs[i].tasks) \in SUBSET Ids(in)
    BY <2>1 DEF ToSet
  <2>3. IsFiniteSet(ToSet(specs[i].tasks))
    BY <2>2, ListedFacts, FS_Subset
  <2>4. DOMAIN f = ToSet(specs[i].tasks) /\ \A t \in DOMAIN f : f[t] \in Int
    BY <2>2 DEF Penalised
  <2>5. Total(f) \in Int
    <3> HIDE DEF f
    <3> QED BY <2>3, <2>4, TotalTyped
  <2> QED BY <2>5 DEF Penalty
<1>3. \A i, j \in S : <<i, j>> \in R <=> w[i] > w[j] \/ (w[i] = w[j] /\ i < j)
  BY DEF Dearer
<1>4. \A i \in S : i \in Int
  BY <1>1
<1> HIDE DEF S, w, R
<1>5. Orders(R, S)
  BY <1>2, <1>3, <1>4 DEF Orders
<1>6. IsFiniteSet(S) /\ Cardinality(S) = Len(specs)
  <2>1. 1 \in Int /\ Len(specs) \in Int
    BY <1>1
  <2>2. IsFiniteSet(1 .. Len(specs)) /\ Cardinality(1 .. Len(specs)) = IF 1 > Len(specs) THEN 0 ELSE Len(specs) - 1 + 1
    BY <2>1, FS_Interval
  <2> QED BY <1>1, <2>2
<1> QED BY <1>5, <1>6 DEF R, S

\* t is s in another order.
Permuted(t, s) ==
    /\ Len(t) = Len(s)
    /\ \E p \in [1 .. Len(s) -> 1 .. Len(s)] :
          /\ \A i \in 1 .. Len(s) : t[i] = s[p[i]]
          /\ \A i, j \in 1 .. Len(s) : p[i] = p[j] => i = j
          /\ \A k \in 1 .. Len(s) : \E i \in 1 .. Len(s) : p[i] = k

\* The sorting loses and doubles none.
LEMMA ByPenaltyFacts ==
    ASSUME NEW in, Listed(in), Penalised(in), NEW specs \in Seq(Spec(in))
    PROVE  ByPenalty(in, specs) \in Seq(Spec(in)) /\ Permuted(ByPenalty(in, specs), specs)
<1> DEFINE n == Len(specs)
           S == DOMAIN specs
           R == Dearer(in, specs)
           Ahead(x) == {y \in S : \/ Penalty(in, specs[y]) > Penalty(in, specs[x])
                                  \/ Penalty(in, specs[y]) = Penalty(in, specs[x]) /\ y < x}
           q == [r \in 1 .. Cardinality(S) |-> CHOOSE x \in S : Cardinality(Ahead(x)) = r - 1]
           b == ByPenalty(in, specs)
<1>1. b = [i \in DOMAIN q |-> specs[q[i]]]
  BY Zenon DEF ByPenalty, Sorted, Penalty
<1>2. Orders(R, S) /\ IsFiniteSet(S) /\ Cardinality(S) = n /\ S = 1 .. n /\ n \in Nat
  BY DearerOrders
<1>3. \A x \in S : Ahead(x) = Before(R, S, x)
  BY DEF Before, Dearer
<1> HIDE DEF Ahead, R, S, n
<1>4. q = Ranking(R, S)
  <2>1. \A r \in 1 .. Cardinality(S) : \E x \in S : Cardinality(Before(R, S, x)) = r - 1
    <3>1. Orders(R, S) /\ IsFiniteSet(S)
      BY <1>2
    <3> QED BY <3>1, RanksExist
  <2>2. ASSUME NEW r \in 1 .. Cardinality(S) PROVE q[r] \in S /\ Cardinality(Ahead(q[r])) = r - 1
    <3>1. \E x \in S : Cardinality(Ahead(x)) = r - 1
      BY <1>3, <2>1
    <3> QED BY <3>1
  <2>3. q = [r \in 1 .. Cardinality(S) |-> q[r]]
    OBVIOUS
  <2> HIDE DEF q
  <2>4. \A r \in 1 .. Cardinality(S) : q[r] \in S /\ Cardinality(Before(R, S, q[r])) = r - 1
    BY <1>3, <2>2
  <2> QED BY <1>2, <2>3, <2>4, RankingIs
<1> HIDE DEF q, b
<1>5. /\ q \in Seq(S) /\ Len(q) = n /\ ToSet(q) = S
      /\ \A i, j \in 1 .. n : q[i] = q[j] => i = j
  <2>1. /\ Ranking(R, S) \in Seq(S) /\ Len(Ranking(R, S)) = Cardinality(S) /\ ToSet(Ranking(R, S)) = S
        /\ \A i, j \in 1 .. Cardinality(S) : Ranking(R, S)[i] = Ranking(R, S)[j] => i = j
    BY <1>2, RankingFacts
  <2> QED BY <1>2, <1>4, <2>1
<1>6. q \in [1 .. n -> 1 .. n] /\ DOMAIN q = 1 .. n
  BY <1>2, <1>5
<1>7. \A k \in 1 .. n : \E i \in 1 .. n : q[i] = k
  BY <1>2, <1>5, <1>6 DEF ToSet
<1>8. \A i \in 1 .. n : b[i] = specs[q[i]]
  BY <1>1, <1>6
<1>9. b \in Seq(Spec(in)) /\ Len(b) = n
  <2>1. \A i \in 1 .. n : specs[q[i]] \in Spec(in)
    <3>1. \A i \in 1 .. n : q[i] \in DOMAIN specs
      BY <1>2, <1>6 DEF S
    <3> QED BY <3>1
  <2>2. b = [i \in 1 .. n |-> specs[q[i]]]
    BY <1>1, <1>6
  <2> QED BY <1>2, <2>1, <2>2
<1> QED BY <1>5, <1>6, <1>7, <1>8, <1>9 DEF n, b, Permuted

-----------------------------------------------------------------------------
(* The clusters *)

\* Every cluster is a chunk of a depot, and every chunk is a cluster.
Chosen(in, D, cl, g) ==
    /\ cl \in Seq(Seq(Ids(in)))
    /\ \A c \in DOMAIN cl : g[c][1] \in Depots(in) /\ g[c][2] \in DOMAIN D[g[c][1]] /\ cl[c] = D[g[c][1]][g[c][2]]
    /\ \A c, e \in DOMAIN cl : c # e => g[c][1] # g[e][1] \/ g[c][2] # g[e][2]
    /\ \A d \in Depots(in) : \A i \in DOMAIN D[d] : \E c \in DOMAIN cl : g[c][1] = d /\ g[c][2] = i

TaskLists(specs) == [c \in DOMAIN specs |-> specs[c].tasks]

LEMMA SpecsChosen ==
    ASSUME NEW in, Located(in), Penalised(in), NEW D, D \in [Depots(in) -> Seq(Seq(Ids(in)))]
    PROVE  /\ ByPenalty(in, ChunkSpecs(in, D)) \in Seq(Spec(in))
           /\ \E g : Chosen(in, D, TaskLists(ByPenalty(in, ChunkSpecs(in, D))), g)
<1> DEFINE N == Len(in.depotAt)
           spec(d, i) == [depot |-> in.depotAt[d].id, tasks |-> D[d][i]]
           s == [d \in DOMAIN D |-> [i \in DOMAIN D[d] |-> spec(d, i)]]
           f == FlattenSeq(s)
           b == ByPenalty(in, f)
           cl == TaskLists(b)
<1>1. f = ChunkSpecs(in, D)
  BY Zenon DEF ChunkSpecs
<1>2. /\ Listed(in) /\ DOMAIN D = 1 .. N /\ Depots(in) = 1 .. N /\ N \in Nat
      /\ \A d \in 1 .. N : D[d] \in Seq(Seq(Ids(in))) /\ DOMAIN D[d] = 1 .. Len(D[d]) /\ Len(D[d]) \in Nat
  BY DEF Located, Depots
<1>3. ASSUME NEW d \in 1 .. N
      PROVE  s[d] \in Seq(Spec(in)) /\ Len(s[d]) = Len(D[d]) /\ \A i \in 1 .. Len(D[d]) : s[d][i].tasks = D[d][i]
  <2>1. \A i \in 1 .. Len(D[d]) : spec(d, i) \in Spec(in) /\ spec(d, i).tasks = D[d][i]
    BY <1>2 DEF Spec
  <2>2. s[d] = [i \in 1 .. Len(D[d]) |-> spec(d, i)]
    BY <1>2
  <2> HIDE DEF s, spec
  <2> QED BY <1>2, <2>1, <2>2
<1>4. s \in Seq(Seq(Spec(in))) /\ Len(s) = N
  <2>1. s = [d \in 1 .. N |-> s[d]]
    BY <1>2
  <2> DEFINE T == Seq(Spec(in))
  <2>2. \A d \in 1 .. N : s[d] \in T
    BY <1>3
  <2> HIDE DEF s, T, N
  <2>3. N \in Nat
    BY <1>2
  <2>4. s \in Seq(T) /\ Len(s) = N
    BY <2>1, <2>2, <2>3
  <2> QED BY <2>4 DEF T
<1> HIDE DEF s, N
<1>5. f \in Seq(Spec(in)) /\ \E h : Spread(s, Len(s), f, h)
  BY <1>4, FlattenPlaces
<1> HIDE DEF f
<1>6. PICK h : Spread(s, N, f, h)
  BY <1>4, <1>5
<1> DEFINE n == Len(f)
<1>70. f \in Seq(Spec(in))
  BY <1>5
<1>71. /\ h \in [1 .. Len(f) -> (1 .. N) \X Nat]
       /\ \A k \in 1 .. Len(f) : h[k][2] \in 1 .. Len(s[h[k][1]]) /\ f[k] = s[h[k][1]][h[k][2]]
       /\ \A k, l \in 1 .. Len(f) : h[k] = h[l] => k = l
       /\ \A d \in 1 .. N : \A i \in 1 .. Len(s[d]) : \E k \in 1 .. Len(f) : h[k] = <<d, i>>
  BY <1>6, Zenon DEF Spread
<1>7. /\ n \in Nat
      /\ \A k \in 1 .. n : h[k] \in (1 .. N) \X Nat /\ h[k][2] \in 1 .. Len(s[h[k][1]]) /\ f[k] = s[h[k][1]][h[k][2]]
      /\ \A k, l \in 1 .. n : h[k] = h[l] => k = l
      /\ \A d \in 1 .. N : \A i \in 1 .. Len(s[d]) : \E k \in 1 .. n : h[k] = <<d, i>>
  <2>1. Len(f) \in Nat
    BY <1>70
  <2>2. \A k \in 1 .. Len(f) : h[k] \in (1 .. N) \X Nat
    BY <1>71
  <2> QED BY <1>71, <2>1, <2>2, Zenon DEF n
<1>8. /\ b \in Seq(Spec(in)) /\ Len(b) = n
      /\ \E p \in [1 .. n -> 1 .. n] :
            /\ \A i \in 1 .. n : b[i] = f[p[i]]
            /\ \A i, j \in 1 .. n : p[i] = p[j] => i = j
            /\ \A k \in 1 .. n : \E i \in 1 .. n : p[i] = k
  <2>1. Listed(in)
    BY <1>2
  <2>2. /\ b \in Seq(Spec(in)) /\ Len(b) = Len(f)
        /\ \E p \in [1 .. Len(f) -> 1 .. Len(f)] :
              /\ \A i \in 1 .. Len(f) : b[i] = f[p[i]]
              /\ \A i, j \in 1 .. Len(f) : p[i] = p[j] => i = j
              /\ \A k \in 1 .. Len(f) : \E i \in 1 .. Len(f) : p[i] = k
    <3>1. b \in Seq(Spec(in)) /\ Permuted(b, f)
      BY <1>70, <2>1, ByPenaltyFacts
    <3> HIDE DEF b, f
    <3> QED BY <3>1, Zenon DEF Permuted
  <2> QED BY <2>2 DEF n
<1>9. PICK p \in [1 .. n -> 1 .. n] :
            /\ \A i \in 1 .. n : b[i] = f[p[i]]
            /\ \A i, j \in 1 .. n : p[i] = p[j] => i = j
            /\ \A k \in 1 .. n : \E i \in 1 .. n : p[i] = k
  BY <1>8
<1> HIDE DEF b, n
<1>10. DOMAIN b = 1 .. n /\ DOMAIN cl = 1 .. n /\ (\A c \in 1 .. n : cl[c] = b[c].tasks) /\ cl \in Seq(Seq(Ids(in)))
  <2>1. DOMAIN b = 1 .. n
    BY <1>7, <1>8
  <2>2. cl = [c \in 1 .. n |-> b[c].tasks]
    BY <2>1 DEF TaskLists
  <2>3. \A c \in 1 .. n : b[c].tasks \in Seq(Ids(in))
    <3> SUFFICES ASSUME NEW c \in 1 .. n PROVE b[c].tasks \in Seq(Ids(in))
      OBVIOUS
    <3> DEFINE S == Spec(in)
    <3>1. b \in Seq(S) /\ c \in DOMAIN b
      BY <1>8, <2>1
    <3> HIDE DEF S
    <3>2. b[c] \in S
      BY <3>1
    <3> QED BY <3>2 DEF S, Spec
  <2> HIDE DEF cl
  <2> QED BY <1>7, <2>1, <2>2, <2>3
<1> HIDE DEF cl
<1> DEFINE g == [c \in 1 .. n |-> h[p[c]]]
<1>11. \A c \in 1 .. n : /\ p[c] \in 1 .. n /\ g[c] = h[p[c]] /\ g[c][1] \in 1 .. N /\ g[c][2] \in 1 .. Len(D[g[c][1]])
                         /\ cl[c] = D[g[c][1]][g[c][2]] /\ g[c] = <<g[c][1], g[c][2]>>
  <2> SUFFICES ASSUME NEW c \in 1 .. n
               PROVE  /\ p[c] \in 1 .. n /\ g[c] = h[p[c]] /\ g[c][1] \in 1 .. N /\ g[c][2] \in 1 .. Len(D[g[c][1]])
                      /\ cl[c] = D[g[c][1]][g[c][2]] /\ g[c] = <<g[c][1], g[c][2]>>
    OBVIOUS
  <2> DEFINE k == p[c]
             d == h[k][1]
             i == h[k][2]
  <2>1. k \in 1 .. n
    BY <1>9
  <2>2. g[c] = h[k]
    OBVIOUS
  <2> HIDE DEF k, g
  <2>3. h[k] \in (1 .. N) \X Nat /\ i \in 1 .. Len(s[d]) /\ f[k] = s[d][i]
    BY <1>7, <2>1
  <2>4. h[k] = <<d, i>> /\ d \in 1 .. N
    BY <2>3, PairIs
  <2> HIDE DEF d, i
  <2>5. i \in 1 .. Len(D[d]) /\ f[k].tasks = D[d][i]
    BY <1>3, <2>3, <2>4
  <2>6. cl[c] = f[k].tasks
    BY <1>9, <1>10 DEF k
  <2> QED BY <2>1, <2>2, <2>4, <2>5, <2>6 DEF k, d, i
<1>12. \A c, e \in 1 .. n : c # e => g[c] # g[e]
  BY ZenonT(60), <1>7, <1>9, <1>11
<1>13. \A d \in 1 .. N : \A i \in 1 .. Len(D[d]) : \E c \in 1 .. n : g[c] = <<d, i>>
  <2> SUFFICES ASSUME NEW d \in 1 .. N, NEW i \in 1 .. Len(D[d]) PROVE \E c \in 1 .. n : g[c] = <<d, i>>
    OBVIOUS
  <2>1. PICK k \in 1 .. n : h[k] = <<d, i>>
    BY <1>3, <1>7
  <2>2. PICK c \in 1 .. n : p[c] = k
    BY <1>9
  <2> QED BY <1>11, <2>1, <2>2
<1> HIDE DEF g
<1>14. Chosen(in, D, cl, g)
  <2>1. \A c, e \in 1 .. n : c # e => g[c][1] # g[e][1] \/ g[c][2] # g[e][2]
    <3> SUFFICES ASSUME NEW c \in 1 .. n, NEW e \in 1 .. n, c # e PROVE g[c][1] # g[e][1] \/ g[c][2] # g[e][2]
      OBVIOUS
    <3>1. g[c] # g[e] /\ g[c] = <<g[c][1], g[c][2]>> /\ g[e] = <<g[e][1], g[e][2]>>
      BY <1>11, <1>12
    <3> QED BY <3>1, Zenon
  <2>2. \A d \in Depots(in) : \A i \in DOMAIN D[d] : \E c \in DOMAIN cl : g[c][1] = d /\ g[c][2] = i
    <3> SUFFICES ASSUME NEW d \in Depots(in), NEW i \in DOMAIN D[d] PROVE \E c \in DOMAIN cl : g[c][1] = d /\ g[c][2] = i
      OBVIOUS
    <3>1. d \in 1 .. N /\ i \in 1 .. Len(D[d])
      BY <1>2
    <3>2. PICK c \in 1 .. n : g[c] = <<d, i>>
      BY <1>13, <3>1
    <3>3. c \in DOMAIN cl
      BY <1>10
    <3> QED BY <3>2, <3>3
  <2>3. \A c \in DOMAIN cl : g[c][1] \in Depots(in) /\ g[c][2] \in DOMAIN D[g[c][1]] /\ cl[c] = D[g[c][1]][g[c][2]]
    BY <1>2, <1>10, <1>11
  <2> QED BY <1>10, <2>1, <2>2, <2>3 DEF Chosen
<1> QED BY <1>1, <1>8, <1>14 DEF cl, b

\* What the clusters take over from the chunks.
LEMMA ChosenFacts ==
    ASSUME NEW in, NEW D, Divided(in, D), NEW cl, NEW g, Chosen(in, D, cl, g), NEW U, Uncut(in, U, D),
           \A d \in Depots(in) : \A c \in DOMAIN D[d] : Fit(in, U, D[d][c])
    PROVE  /\ cl \in Seq(Seq(Ids(in))) /\ Parted(cl) /\ Covered(cl) = Sited(in)
           /\ \A u \in U : \A x, y \in ToSet(u.tasks) \cap Sited(in) :
                 \E c \in DOMAIN cl : x \in ToSet(cl[c]) /\ y \in ToSet(cl[c])
           /\ \A c \in DOMAIN cl : Fit(in, U, cl[c])
<1>1. \A d \in Depots(in) : \A i \in DOMAIN D[d] : \E c \in DOMAIN cl : cl[c] = D[d][i]
  <2> SUFFICES ASSUME NEW d \in Depots(in), NEW i \in DOMAIN D[d] PROVE \E c \in DOMAIN cl : cl[c] = D[d][i]
    OBVIOUS
  <2>1. PICK c \in DOMAIN cl : g[c][1] = d /\ g[c][2] = i
    BY DEF Chosen
  <2>2. cl[c] = D[g[c][1]][g[c][2]]
    BY DEF Chosen
  <2> QED BY <2>1, <2>2
<1>0. \A c \in DOMAIN cl : g[c][1] \in Depots(in) /\ g[c][2] \in DOMAIN D[g[c][1]] /\ cl[c] = D[g[c][1]][g[c][2]]
  BY Zenon DEF Chosen
<1>2. Parted(cl)
  <2>1. \A c \in DOMAIN cl : IsInjective(cl[c])
    <3> SUFFICES ASSUME NEW c \in DOMAIN cl PROVE IsInjective(cl[c])
      OBVIOUS
    <3> DEFINE d == g[c][1]
               i == g[c][2]
    <3>1. d \in Depots(in) /\ i \in DOMAIN D[d] /\ cl[c] = D[d][i]
      BY <1>0
    <3> HIDE DEF d, i
    <3>2. Parted(D[d])
      BY <3>1 DEF Divided
    <3>3. IsInjective(D[d][i])
      BY <3>1, <3>2, Zenon DEF Parted
    <3> QED BY <3>1, <3>3
  <2>2. ASSUME NEW c \in DOMAIN cl, NEW e \in DOMAIN cl, c # e PROVE ToSet(cl[c]) \cap ToSet(cl[e]) = {}
    <3> DEFINE d1 == g[c][1]
               i1 == g[c][2]
               d2 == g[e][1]
               i2 == g[e][2]
    <3>1. /\ d1 \in Depots(in) /\ i1 \in DOMAIN D[d1] /\ cl[c] = D[d1][i1]
          /\ d2 \in Depots(in) /\ i2 \in DOMAIN D[d2] /\ cl[e] = D[d2][i2]
          /\ d1 # d2 \/ i1 # i2
      BY <2>2 DEF Chosen
    <3> HIDE DEF d1, d2, i1, i2
    <3>2. CASE d1 # d2
      <4>1. ToSet(cl[c]) \subseteq Covered(D[d1]) /\ ToSet(cl[e]) \subseteq Covered(D[d2])
        BY <3>1, CoveredHas
      <4> QED BY <3>1, <3>2, <4>1 DEF Divided
    <3>3. CASE d1 = d2 /\ i1 # i2
      <4>1. Parted(D[d1])
        BY <3>1 DEF Divided
      <4> QED BY <3>1, <3>3, <4>1 DEF Parted
    <3> QED BY <3>1, <3>2, <3>3
  <2> QED BY <2>1, <2>2 DEF Parted
<1>3. Covered(cl) = Sited(in)
  <2>1. DOMAIN D = Depots(in) /\ AllOf(D) = Sited(in)
    BY DEF Divided
  <2>2. \A x \in Sited(in) : \E d \in Depots(in) : \E i \in DOMAIN D[d] : x \in ToSet(D[d][i])
    BY <2>1 DEF AllOf, Covered
  <2>3. Sited(in) \subseteq Covered(cl)
    BY <1>1, <2>2 DEF Covered
  <2>4. \A c \in DOMAIN cl : ToSet(cl[c]) \subseteq Sited(in)
    BY <2>1 DEF AllOf, Covered, Chosen
  <2>5. Covered(cl) \subseteq Sited(in)
    BY <2>4 DEF Covered
  <2> QED BY <2>3, <2>5
<1>4. ASSUME NEW u \in U, NEW x \in ToSet(u.tasks) \cap Sited(in), NEW y \in ToSet(u.tasks) \cap Sited(in)
      PROVE  \E c \in DOMAIN cl : x \in ToSet(cl[c]) /\ y \in ToSet(cl[c])
  <2>1. PICK d \in Depots(in) : \E i \in DOMAIN D[d] : x \in ToSet(D[d][i]) /\ y \in ToSet(D[d][i])
    BY DEF Uncut
  <2>2. PICK i \in DOMAIN D[d] : x \in ToSet(D[d][i]) /\ y \in ToSet(D[d][i])
    BY <2>1
  <2>3. PICK c \in DOMAIN cl : cl[c] = D[d][i]
    BY <1>1
  <2> QED BY <2>2, <2>3
<1>5. \A c \in DOMAIN cl : Fit(in, U, cl[c])
  <2> SUFFICES ASSUME NEW c \in DOMAIN cl PROVE Fit(in, U, cl[c])
    OBVIOUS
  <2> DEFINE d == g[c][1]
             i == g[c][2]
  <2>1. d \in Depots(in) /\ i \in DOMAIN D[d] /\ cl[c] = D[d][i]
    BY <1>0
  <2> HIDE DEF d, i
  <2>2. Fit(in, U, D[d][i])
    BY <2>1
  <2> QED BY <2>1, <2>2
<1> QED BY <1>2, <1>3, <1>4, <1>5 DEF Chosen

ClustersOf(in) == TaskLists(ClusterSpecs(in))
LEMMA ClustersFacts ==
    ASSUME NEW in, Located(in), Penalised(in), in.size \in Nat \ {0}
    PROVE  /\ ClusterSpecs(in) \in Seq(Spec(in)) /\ ClustersOf(in) \in Seq(Seq(Ids(in)))
           /\ Parted(ClustersOf(in)) /\ Covered(ClustersOf(in)) = Sited(in)
           /\ \A u \in Units(in) : \A x, y \in ToSet(u.tasks) \cap Sited(in) :
                 \E c \in DOMAIN ClustersOf(in) : x \in ToSet(ClustersOf(in)[c]) /\ y \in ToSet(ClustersOf(in)[c])
           /\ \A c \in DOMAIN ClustersOf(in) : Fit(in, Units(in), ClustersOf(in)[c])
<1> DEFINE D == DepotChunks(in)
           U == Units(in)
           b == ByPenalty(in, ChunkSpecs(in, D))
           cl == TaskLists(b)
<1>1. Divided(in, D) /\ Uncut(in, U, D) /\ \A d \in Depots(in) : \A c \in DOMAIN D[d] : Fit(in, U, D[d][c])
  BY DepotChunksFacts
<1>2. D \in [Depots(in) -> Seq(Seq(Ids(in)))]
  BY <1>1 DEF Divided
<1>3. b = ClusterSpecs(in) /\ cl = ClustersOf(in)
  BY DEF ClusterSpecs, ClustersOf
<1> HIDE DEF D, U
<1>4. b \in Seq(Spec(in)) /\ \E g : Chosen(in, D, cl, g)
  BY <1>2, SpecsChosen
<1> HIDE DEF b, cl
<1>5. PICK g : Chosen(in, D, cl, g)
  BY <1>4
<1>6. /\ cl \in Seq(Seq(Ids(in))) /\ Parted(cl) /\ Covered(cl) = Sited(in)
      /\ \A u \in U : \A x, y \in ToSet(u.tasks) \cap Sited(in) :
            \E c \in DOMAIN cl : x \in ToSet(cl[c]) /\ y \in ToSet(cl[c])
      /\ \A c \in DOMAIN cl : Fit(in, U, cl[c])
  BY <1>1, <1>5, ChosenFacts
<1> QED BY <1>3, <1>4, <1>6 DEF U

-----------------------------------------------------------------------------
(* What the clusters are held to *)

\* Lists that share and repeat no task hold every task at one place at most.
LEMMA PartitionIs ==
    ASSUME NEW in, NEW cl, cl \in Seq(Seq(Ids(in))), Parted(cl), Covered(cl) = Sited(in)
    PROVE  Partition(in, cl)
<1> DEFINE S == UNION {{c} \X (1 .. Len(cl[c])) : c \in 1 .. Len(cl)}
           places(t) == {p \in S : cl[p[1]][p[2]] = t}
<1>1. DOMAIN cl = 1 .. Len(cl) /\ \A c \in DOMAIN cl : cl[c] \in Seq(Ids(in)) /\ DOMAIN cl[c] = 1 .. Len(cl[c])
  OBVIOUS
<1>2. ASSUME NEW t \in Ids(in), t \in Sited(in) PROVE Cardinality(places(t)) = 1
  <2>1. PICK c \in DOMAIN cl : t \in ToSet(cl[c])
    BY <1>2 DEF Covered
  <2>2. PICK i \in DOMAIN cl[c] : cl[c][i] = t
    BY <2>1 DEF ToSet
  <2>3. <<c, i>> \in places(t)
    BY <1>1, <2>2
  <2>4. ASSUME NEW p \in places(t) PROVE p = <<c, i>>
    <3>1. PICK e \in DOMAIN cl : p \in {e} \X (1 .. Len(cl[e]))
      BY <1>1
    <3>2. p = <<e, p[2]>> /\ p[2] \in DOMAIN cl[e] /\ cl[e][p[2]] = t
      BY <1>1, <3>1, PairIs
    <3>3. e = c
      <4>1. t \in ToSet(cl[e])
        <5> HIDE DEF places
        <5> QED BY <3>2 DEF ToSet
      <4>2. t \in ToSet(cl[c]) \cap ToSet(cl[e])
        BY <2>1, <4>1
      <4>3. e # c => ToSet(cl[c]) \cap ToSet(cl[e]) = {}
        BY <3>1, Zenon DEF Parted
      <4> QED BY <4>2, <4>3
    <3>4. p[2] = i
      BY <2>2, <3>2, <3>3 DEF Parted, IsInjective
    <3> QED BY <3>2, <3>3, <3>4
  <2>5. places(t) = {<<c, i>>}
    BY <2>3, <2>4
  <2> HIDE DEF places
  <2> QED BY <2>5, FS_Singleton
<1>3. ASSUME NEW t \in Ids(in), t \notin Sited(in) PROVE Cardinality(places(t)) = 0
  <2>1. \A c \in DOMAIN cl : t \notin ToSet(cl[c])
    BY <1>3 DEF Covered
  <2>2. places(t) = {}
    BY <1>1, <2>1 DEF ToSet
  <2> HIDE DEF places
  <2> QED BY <2>2, FS_EmptySet
<1>4. \A t \in Ids(in) : Cardinality(places(t)) = IF in.task[t].at \in in.sites THEN 1 ELSE 0
  BY <1>2, <1>3 DEF Sited
<1> QED BY <1>4, Zenon DEF Partition, Ids

Cyclic(in, t) == \E S \in SUBSET Ids(in) : t \in S /\ \A x \in S : Parent(in, x) \in S

\* A walk up the predecessors that does not end has been somewhere twice.
LEMMA WalkEnds ==
    ASSUME NEW in, Listed(in), NEW t \in Ids(in), ~Cyclic(in, t), NEW h, Ancestors(in, t, h)
    PROVE  Parent(in, h[Len(in.order)]) = None
<1> DEFINE N == Len(in.order)
<1>1. /\ N \in Nat /\ IsFiniteSet(Ids(in)) /\ Cardinality(Ids(in)) = N
      /\ h \in [0 .. N -> Ids(in)] /\ h[0] = t /\ \A i \in 1 .. N : h[i] = Up(in, h[i - 1])
      /\ None \notin Ids(in)
  BY ListedFacts DEF Ancestors
<1> SUFFICES ASSUME Parent(in, h[N]) # None PROVE FALSE
  OBVIOUS
<1> HIDE DEF N
<1>2. \A i \in 0 .. N : Parent(in, h[i]) # None
  <2> DEFINE Good == {i \in 0 .. N : Parent(in, h[N - i]) # None}
  <2>1. 0 \in Good
    BY <1>1
  <2>2. ASSUME NEW i \in 0 .. N - 1, i \in Good PROVE i + 1 \in Good
    <3>1. N - i \in 1 .. N /\ (N - i) - 1 = N - (i + 1) /\ N - (i + 1) \in 0 .. N /\ i + 1 \in 0 .. N
      BY <1>1
    <3>2. h[N - i] = Up(in, h[N - (i + 1)])
      BY <1>1, <3>1
    <3>3. Parent(in, h[N - i]) # None
      BY <2>2
    <3>4. Parent(in, h[N - (i + 1)]) # None
      BY <3>2, <3>3 DEF Up
    <3> QED BY <3>1, <3>4
  <2> HIDE DEF Good
  <2>3. \A i \in 0 .. N : i \in Good
    BY <1>1, <2>1, <2>2, UpTo
  <2>4. ASSUME NEW i \in 0 .. N PROVE Parent(in, h[i]) # None
    <3>1. N - i \in 0 .. N /\ N - (N - i) = i
      BY <1>1
    <3>2. N - i \in Good
      BY <2>3, <3>1
    <3>3. Parent(in, h[N - (N - i)]) # None
      BY <3>2 DEF Good
    <3> QED BY <3>1, <3>3
  <2> QED BY <2>4
<1>3. \A i \in 0 .. N - 1 : h[i + 1] = Parent(in, h[i])
  <2> SUFFICES ASSUME NEW i \in 0 .. N - 1 PROVE h[i + 1] = Parent(in, h[i])
    OBVIOUS
  <2>1. i + 1 \in 1 .. N /\ (i + 1) - 1 = i /\ i \in 0 .. N
    BY <1>1
  <2>2. h[i + 1] = Up(in, h[i])
    BY <1>1, <2>1
  <2> QED BY <1>2, <2>1, <2>2 DEF Up
<1>4. PICK i \in 0 .. N, j \in 0 .. N : i # j /\ h[i] = h[j]
  <2>1. IsFiniteSet(0 .. N) /\ Cardinality(0 .. N) = N + 1
    BY <1>1, FS_Interval
  <2>2. Cardinality(0 .. N) > Cardinality(Ids(in))
    BY <1>1, <2>1
  <2> QED BY <1>1, <2>1, <2>2, FS_PigeonHole
<1>5. \E a, b \in 0 .. N : a < b /\ h[a] = h[b]
  BY <1>1, <1>4
<1>6. PICK a \in 0 .. N, b \in 0 .. N : a < b /\ h[a] = h[b]
  BY <1>5
<1> DEFINE S == {h[k] : k \in 0 .. b - 1}
<1>7. S \in SUBSET Ids(in) /\ t \in S
  BY <1>1, <1>6
<1>8. ASSUME NEW x \in S PROVE Parent(in, x) \in S
  <2>1. PICK k \in 0 .. b - 1 : x = h[k]
    OBVIOUS
  <2>2. k \in 0 .. N - 1 /\ Parent(in, x) = h[k + 1]
    BY <1>1, <1>3, <1>6, <2>1
  <2>3. CASE k + 1 <= b - 1
    BY <1>6, <2>1, <2>2, <2>3
  <2>4. CASE k + 1 = b
    <3>1. Parent(in, x) = h[a] /\ a \in 0 .. b - 1
      BY <1>6, <2>2, <2>4
    <3> QED BY <3>1
  <2> QED BY <1>6, <2>1, <2>3, <2>4
<1> HIDE DEF S
<1>9. Cyclic(in, t)
  BY <1>7, <1>8 DEF Cyclic
<1> QED BY <1>9

\* A task that does not lead into a cycle has the root of its predecessor.
LEMMA RootOfParent ==
    ASSUME NEW in, Listed(in), NEW t \in Ids(in), NEW u \in Ids(in), Parent(in, t) = u, ~Cyclic(in, t)
    PROVE  Root(in, t) = Root(in, u)
<1> DEFINE N == Len(in.order)
<1>1. N \in Nat /\ None \notin Ids(in)
  BY ListedFacts
<1>2. ~Cyclic(in, u)
  <2> SUFFICES ASSUME NEW S \in SUBSET Ids(in), u \in S, \A x \in S : Parent(in, x) \in S PROVE FALSE
    BY DEF Cyclic
  <2> DEFINE T == S \cup {t}
  <2>1. T \in SUBSET Ids(in) /\ t \in T /\ \A x \in T : Parent(in, x) \in T
    OBVIOUS
  <2> HIDE DEF T
  <2> QED BY <2>1 DEF Cyclic
<1>3. PICK g : Ancestors(in, t, g) /\ Root(in, t) = IF Parent(in, g[N]) = None THEN g[N] ELSE t
  BY AncestorsExist
<1>4. PICK h : Ancestors(in, u, h) /\ Root(in, u) = IF Parent(in, h[N]) = None THEN h[N] ELSE u
  BY AncestorsExist
<1>5. Parent(in, g[N]) = None /\ Root(in, t) = g[N]
  BY <1>3, WalkEnds
<1>6. Parent(in, h[N]) = None /\ Root(in, u) = h[N]
  BY <1>2, <1>4, WalkEnds
<1>7. /\ g \in [0 .. N -> Ids(in)] /\ g[0] = t /\ \A i \in 1 .. N : g[i] = Up(in, g[i - 1])
      /\ h \in [0 .. N -> Ids(in)] /\ h[0] = u /\ \A i \in 1 .. N : h[i] = Up(in, h[i - 1])
  BY <1>3, <1>4 DEF Ancestors
<1> HIDE DEF N
<1>8. \A i \in 0 .. N - 1 : g[i + 1] = h[i]
  <2> DEFINE Good == {i \in 0 .. N : i + 1 <= N => g[i + 1] = h[i]}
  <2>1. 0 \in Good
    <3> SUFFICES ASSUME 1 <= N PROVE g[1] = h[0]
      BY <1>1
    <3>1. 1 \in 1 .. N /\ g[1 - 1] = g[0]
      BY <1>1
    <3>2. g[1] = Up(in, g[0])
      BY <1>7, <3>1
    <3> QED BY <1>1, <1>7, <3>2 DEF Up
  <2>2. ASSUME NEW i \in 0 .. N - 1, i \in Good PROVE i + 1 \in Good
    <3> SUFFICES ASSUME (i + 1) + 1 <= N PROVE g[(i + 1) + 1] = h[i + 1]
      BY <1>1
    <3>1. /\ (i + 1) + 1 \in 1 .. N /\ ((i + 1) + 1) - 1 = i + 1 /\ i + 1 \in 1 .. N /\ (i + 1) - 1 = i /\ i + 1 <= N
      BY <1>1
    <3>2. g[(i + 1) + 1] = Up(in, g[i + 1]) /\ h[i + 1] = Up(in, h[i])
      BY <1>7, <3>1
    <3>3. g[i + 1] = h[i]
      BY <2>2, <3>1
    <3> QED BY <3>2, <3>3
  <2> HIDE DEF Good
  <2>3. \A i \in 0 .. N : i \in Good
    BY <1>1, <2>1, <2>2, UpTo
  <2>4. ASSUME NEW i \in 0 .. N - 1 PROVE g[i + 1] = h[i]
    <3>1. i \in Good /\ i + 1 <= N
      BY <1>1, <2>3
    <3> QED BY <3>1 DEF Good
  <2> QED BY <2>4
<1>9. N >= 1
  BY <1>1, ListedFacts, FS_EmptySet DEF N
<1>10. N \in 1 .. N /\ N - 1 \in 0 .. N - 1 /\ (N - 1) + 1 = N
  BY <1>1, <1>9
<1>11. g[N] = h[N - 1] /\ h[N] = Up(in, h[N - 1])
  <2>1. g[(N - 1) + 1] = h[N - 1]
    BY <1>8, <1>10
  <2> QED BY <1>7, <1>10, <2>1
<1>12. h[N] = g[N]
  BY <1>5, <1>11 DEF Up
<1> QED BY <1>5, <1>6, <1>12

\* Units that part neither groups nor chains are parted by no cluster.
LEMMA TogetherIs ==
    ASSUME NEW in, Listed(in), NEW cl,
           \A u \in Units(in) : \A x, y \in ToSet(u.tasks) \cap Sited(in) :
              \E c \in DOMAIN cl : x \in ToSet(cl[c]) /\ y \in ToSet(cl[c])
    PROVE  Together(in, cl)
<1> DEFINE U == Units(in)
           same(t, u) == \E c \in DOMAIN cl : {t, u} \subseteq ToSet(cl[c])
<1>1. /\ UnitsOk(in, U) /\ Whole(in, U, SameRoot(in))
      /\ \A t \in Ids(in) : in.task[t].group # None => Whole(in, U, SameGroup(in, in.task[t].group))
  BY UnitsFacts
<1>2. ASSUME NEW R, Whole(in, U, R), NEW t \in Sited(in), NEW u \in Sited(in), <<t, u>> \in R
      PROVE  same(t, u)
  <2>1. t \in Ids(in) /\ u \in Ids(in)
    BY DEF Sited
  <2>2. PICK v \in U : t \in ToSet(v.tasks)
    BY <1>1, <2>1 DEF UnitsOk
  <2>3. u \in ToSet(v.tasks)
    BY <1>2, <2>1, <2>2 DEF Whole
  <2>4. \E c \in DOMAIN cl : t \in ToSet(cl[c]) /\ u \in ToSet(cl[c])
    BY <2>2, <2>3
  <2> QED BY <2>4
<1> HIDE DEF U
<1>3. ASSUME NEW t \in Sited(in), NEW u \in Sited(in), in.task[t].group # None, in.task[t].group = in.task[u].group
      PROVE  same(t, u)
  <2>1. t \in Ids(in) /\ u \in Ids(in)
    BY DEF Sited
  <2>2. <<t, u>> \in SameGroup(in, in.task[t].group) /\ Whole(in, U, SameGroup(in, in.task[t].group))
    BY <1>1, <1>3, <2>1 DEF SameGroup
  <2> QED BY <1>2, <2>2
<1>4. ASSUME NEW t \in Sited(in), NEW u \in Sited(in), Parent(in, t) = u, ~Cyclic(in, t)
      PROVE  same(t, u)
  <2>1. t \in Ids(in) /\ u \in Ids(in)
    BY DEF Sited
  <2>2. Root(in, t) = Root(in, u)
    BY <1>4, <2>1, RootOfParent
  <2>3. <<t, u>> \in SameRoot(in)
    BY <2>1, <2>2 DEF SameRoot
  <2> QED BY <1>1, <1>2, <2>3
<1> HIDE DEF same
<1>5. \A t, u \in Sited(in) :
         \/ in.task[t].group # None /\ in.task[t].group = in.task[u].group
         \/ Parent(in, t) = u /\ ~Cyclic(in, t)
         => same(t, u)
  BY <1>3, <1>4
<1> QED BY <1>5, Zenon DEF Together, Sited, Ids, Cyclic, same

\* What a solve builds parts its tasks among the clusters as it should.
LEMMA ClustersSound ==
    ASSUME NEW in, Located(in), Penalised(in), in.size \in Nat \ {0}
    PROVE  /\ Partition(in, ClustersOf(in)) /\ Together(in, ClustersOf(in)) /\ Sized(in, ClustersOf(in))
           /\ ClusterSpecs(in) \in Seq(Spec(in)) /\ ClustersOf(in) \in Seq(Seq(Ids(in))) /\ Parted(ClustersOf(in))
<1>1. /\ ClusterSpecs(in) \in Seq(Spec(in)) /\ ClustersOf(in) \in Seq(Seq(Ids(in)))
      /\ Parted(ClustersOf(in)) /\ Covered(ClustersOf(in)) = Sited(in)
      /\ \A u \in Units(in) : \A x, y \in ToSet(u.tasks) \cap Sited(in) :
            \E c \in DOMAIN ClustersOf(in) : x \in ToSet(ClustersOf(in)[c]) /\ y \in ToSet(ClustersOf(in)[c])
      /\ \A c \in DOMAIN ClustersOf(in) : Fit(in, Units(in), ClustersOf(in)[c])
  BY ClustersFacts
<1> DEFINE cl == ClustersOf(in)
<1> HIDE DEF cl
<1>2. Partition(in, cl)
  BY <1>1, PartitionIs DEF cl
<1>3. Together(in, cl)
  BY <1>1, TogetherIs DEF cl, Located
<1>4. Sized(in, cl)
  <2>1. \A c \in DOMAIN cl : Fit(in, Units(in), cl[c])
    BY <1>1 DEF cl
  <2> QED BY <2>1, Zenon DEF Sized, Fit
<1> QED BY <1>1, <1>2, <1>3, <1>4 DEF cl

-----------------------------------------------------------------------------
(* The travel network *)

LinkRow(l) ==
    /\ l.from \in Int /\ l.to \in Int /\ l.s \in Int /\ l.km \in Int /\ l.line \in Seq(Int)
Times == [s : Nat \ {0}, line : Seq(Int)]

\* A table of positive times between locations.
TableOk(T) ==
    /\ T = [p \in DOMAIN T |-> T[p]] /\ DOMAIN T \in SUBSET (Int \X Int) /\ IsFiniteSet(DOMAIN T)
    /\ \A p \in DOMAIN T : T[p] \in Times

LEMMA NoTableOk == TableOk(NoTable)
<1>1. DOMAIN NoTable = {} /\ NoTable = [p \in DOMAIN NoTable |-> NoTable[p]]
  BY DEF NoTable
<1> QED BY <1>1, FS_EmptySet DEF TableOk

CoerceStep(acc, v) == IF acc # <<>> /\ Last(acc) = v THEN acc ELSE Append(acc, v)
\* A line without its repeated vertices.
Coercing(base, seq) == FoldLeft(LAMBDA acc, v : CoerceStep(acc, v), base, seq)
CoerceInput(base, n, seq, D, T) ==
    /\ n \in Nat /\ DOMAIN seq = 1 .. n /\ base \in D /\ \A i \in 1 .. n : seq[i] \in T
    /\ \A d \in D, x \in T : CoerceStep(d, x) \in D
CoerceRun(base, n, seq, D, h) ==
    /\ h \in [0 .. n -> D] /\ h[0] = base
    /\ \A i \in 1 .. n : h[i] = CoerceStep(h[i - 1], seq[i])
    /\ h[n] = Coercing(base, seq)
LEMMA CoerceFold ==
    ASSUME NEW base, NEW n, NEW seq, NEW D, NEW T, CoerceInput(base, n, seq, D, T)
    PROVE  \E h : CoerceRun(base, n, seq, D, h)
<1> DEFINE F == [p \in D \X T |-> CoerceStep(p[1], p[2])]
           Eq(g) == g = [s \in SUBSET DOMAIN seq |->
                            IF s = {} THEN base ELSE CoerceStep(g[s \ {Max(s)}], seq[Max(s)])]
           iter == CHOOSE g : Eq(g)
           h == [i \in 0 .. n |-> iter[1 .. i]]
<1> USE DEF CoerceInput
<1>1. IsFiniteSet(DOMAIN seq) /\ DOMAIN seq \in SUBSET Int
  BY FirstOnes
<1>2. \A d \in D, x \in T : F[<<d, x>>] = CoerceStep(d, x) /\ F[<<d, x>>] \in D
  OBVIOUS
<1>3. \E g : Eq(g)
  <2> HIDE DEF F
  <2>1. PICK g : FoldEq(g, F, base, seq)
    BY <1>1, FoldExists
  <2>2. \A s \in SUBSET DOMAIN seq : g[s] \in D
    BY <1>1, <1>2, <2>1, FoldTyped
  <2>3. \A s \in SUBSET DOMAIN seq : s # {} => Max(s) \in s /\ s \ {Max(s)} \in SUBSET DOMAIN seq
    BY <1>1, FS_Subset, MaxIs
  <2>4. ASSUME NEW s \in SUBSET DOMAIN seq
        PROVE  (IF s = {} THEN base ELSE F[<<g[s \ {Max(s)}], seq[Max(s)]>>])
               = (IF s = {} THEN base ELSE CoerceStep(g[s \ {Max(s)}], seq[Max(s)]))
    <3>1. CASE s # {}
      <4>1. g[s \ {Max(s)}] \in D /\ seq[Max(s)] \in T
        BY <2>2, <2>3, <3>1
      <4> QED BY <1>2, <3>1, <4>1
    <3> QED BY <3>1
  <2>5. g = [s \in SUBSET DOMAIN seq |-> IF s = {} THEN base ELSE F[<<g[s \ {Max(s)}], seq[Max(s)]>>]]
    BY <2>1 DEF FoldEq
  <2> QED BY <2>4, <2>5, Zenon
<1>4. Eq(iter)
  BY <1>3, Zenon
<1>5. iter[DOMAIN seq] = Coercing(base, seq)
  BY Zenon DEF FoldLeft, MapThenFoldSet, Coercing, CoerceStep
<1> HIDE DEF iter, F
<1>6. h[0] = base /\ \A i \in 1 .. n : h[i] = CoerceStep(h[i - 1], seq[i])
  <2>1. h[0] = base
    BY <1>4, FirstOnes
  <2>2. ASSUME NEW i \in 1 .. n PROVE h[i] = CoerceStep(h[i - 1], seq[i])
    <3>1. /\ Max(1 .. i) = i /\ 1 .. i \in SUBSET DOMAIN seq /\ 1 .. i # {} /\ (1 .. i) \ {i} = 1 .. i - 1
          /\ i \in 0 .. n /\ i - 1 \in 0 .. n
      BY FirstOnes
    <3>2. iter[1 .. i] = CoerceStep(iter[1 .. i - 1], seq[i])
      BY <1>4, <3>1
    <3>3. h[i] = iter[1 .. i] /\ h[i - 1] = iter[1 .. i - 1]
      BY <3>1
    <3> QED BY <3>2, <3>3
  <2> QED BY <2>1, <2>2
<1>7. h[n] = iter[DOMAIN seq]
  OBVIOUS
<1> DEFINE Good == {i \in 0 .. n : h[i] \in D}
<1>8. \A i \in 0 .. n : i \in Good
  <2>1. 0 \in Good
    BY <1>6
  <2>2. ASSUME NEW i \in 0 .. n - 1, i \in Good PROVE i + 1 \in Good
    <3>1. i + 1 \in 1 .. n /\ (i + 1) - 1 = i /\ i + 1 \in 0 .. n
      OBVIOUS
    <3>2. h[i + 1] = CoerceStep(h[i], seq[i + 1]) /\ seq[i + 1] \in T /\ h[i] \in D
      BY <1>6, <2>2, <3>1
    <3> QED BY <3>1, <3>2
  <2> HIDE DEF Good
  <2> QED BY <2>1, <2>2, UpTo
<1>9. h \in [0 .. n -> D]
  BY <1>8
<1> HIDE DEF h
<1>10. CoerceRun(base, n, seq, D, h)
  BY <1>5, <1>6, <1>7, <1>9 DEF CoerceRun
<1> QED BY <1>10

ModeStep(acc, l) == IF l.s <= 0 \/ l.mode \in ToSet(acc) THEN acc ELSE Append(acc, l.mode)
\* The modes as they appear.
Appearing(base, seq) == FoldLeft(LAMBDA acc, l : ModeStep(acc, l), base, seq)
ModeInput(base, n, seq, D, T) ==
    /\ n \in Nat /\ DOMAIN seq = 1 .. n /\ base \in D /\ \A i \in 1 .. n : seq[i] \in T
    /\ \A d \in D, x \in T : ModeStep(d, x) \in D
ModeRun(base, n, seq, D, h) ==
    /\ h \in [0 .. n -> D] /\ h[0] = base
    /\ \A i \in 1 .. n : h[i] = ModeStep(h[i - 1], seq[i])
    /\ h[n] = Appearing(base, seq)
LEMMA ModeFold ==
    ASSUME NEW base, NEW n, NEW seq, NEW D, NEW T, ModeInput(base, n, seq, D, T)
    PROVE  \E h : ModeRun(base, n, seq, D, h)
<1> DEFINE F == [p \in D \X T |-> ModeStep(p[1], p[2])]
           Eq(g) == g = [s \in SUBSET DOMAIN seq |->
                            IF s = {} THEN base ELSE ModeStep(g[s \ {Max(s)}], seq[Max(s)])]
           iter == CHOOSE g : Eq(g)
           h == [i \in 0 .. n |-> iter[1 .. i]]
<1> USE DEF ModeInput
<1>1. IsFiniteSet(DOMAIN seq) /\ DOMAIN seq \in SUBSET Int
  BY FirstOnes
<1>2. \A d \in D, x \in T : F[<<d, x>>] = ModeStep(d, x) /\ F[<<d, x>>] \in D
  OBVIOUS
<1>3. \E g : Eq(g)
  <2> HIDE DEF F
  <2>1. PICK g : FoldEq(g, F, base, seq)
    BY <1>1, FoldExists
  <2>2. \A s \in SUBSET DOMAIN seq : g[s] \in D
    BY <1>1, <1>2, <2>1, FoldTyped
  <2>3. \A s \in SUBSET DOMAIN seq : s # {} => Max(s) \in s /\ s \ {Max(s)} \in SUBSET DOMAIN seq
    BY <1>1, FS_Subset, MaxIs
  <2>4. ASSUME NEW s \in SUBSET DOMAIN seq
        PROVE  (IF s = {} THEN base ELSE F[<<g[s \ {Max(s)}], seq[Max(s)]>>])
               = (IF s = {} THEN base ELSE ModeStep(g[s \ {Max(s)}], seq[Max(s)]))
    <3>1. CASE s # {}
      <4>1. g[s \ {Max(s)}] \in D /\ seq[Max(s)] \in T
        BY <2>2, <2>3, <3>1
      <4> QED BY <1>2, <3>1, <4>1
    <3> QED BY <3>1
  <2>5. g = [s \in SUBSET DOMAIN seq |-> IF s = {} THEN base ELSE F[<<g[s \ {Max(s)}], seq[Max(s)]>>]]
    BY <2>1 DEF FoldEq
  <2> QED BY <2>4, <2>5, Zenon
<1>4. Eq(iter)
  BY <1>3, Zenon
<1>5. iter[DOMAIN seq] = Appearing(base, seq)
  BY Zenon DEF FoldLeft, MapThenFoldSet, Appearing, ModeStep
<1> HIDE DEF iter, F
<1>6. h[0] = base /\ \A i \in 1 .. n : h[i] = ModeStep(h[i - 1], seq[i])
  <2>1. h[0] = base
    BY <1>4, FirstOnes
  <2>2. ASSUME NEW i \in 1 .. n PROVE h[i] = ModeStep(h[i - 1], seq[i])
    <3>1. /\ Max(1 .. i) = i /\ 1 .. i \in SUBSET DOMAIN seq /\ 1 .. i # {} /\ (1 .. i) \ {i} = 1 .. i - 1
          /\ i \in 0 .. n /\ i - 1 \in 0 .. n
      BY FirstOnes
    <3>2. iter[1 .. i] = ModeStep(iter[1 .. i - 1], seq[i])
      BY <1>4, <3>1
    <3>3. h[i] = iter[1 .. i] /\ h[i - 1] = iter[1 .. i - 1]
      BY <3>1
    <3> QED BY <3>2, <3>3
  <2> QED BY <2>1, <2>2
<1>7. h[n] = iter[DOMAIN seq]
  OBVIOUS
<1> DEFINE Good == {i \in 0 .. n : h[i] \in D}
<1>8. \A i \in 0 .. n : i \in Good
  <2>1. 0 \in Good
    BY <1>6
  <2>2. ASSUME NEW i \in 0 .. n - 1, i \in Good PROVE i + 1 \in Good
    <3>1. i + 1 \in 1 .. n /\ (i + 1) - 1 = i /\ i + 1 \in 0 .. n
      OBVIOUS
    <3>2. h[i + 1] = ModeStep(h[i], seq[i + 1]) /\ seq[i + 1] \in T /\ h[i] \in D
      BY <1>6, <2>2, <3>1
    <3> QED BY <3>1, <3>2
  <2> HIDE DEF Good
  <2> QED BY <2>1, <2>2, UpTo
<1>9. h \in [0 .. n -> D]
  BY <1>8
<1> HIDE DEF h
<1>10. ModeRun(base, n, seq, D, h)
  BY <1>5, <1>6, <1>7, <1>9 DEF ModeRun
<1> QED BY <1>10

\* A declared polyline is a sequence of vertices.
LEMMA PolylineTyped ==
    ASSUME NEW l, LinkRow(l)
    PROVE  Polyline(l) \in Seq(Int)
<1> DEFINE D == Seq(Int)
           seq == l.line
           n == Len(seq)
<1>1. seq \in Seq(Int) /\ n \in Nat /\ DOMAIN seq = 1 .. n /\ <<>> \in D /\ \A i \in 1 .. n : seq[i] \in Int
  BY DEF LinkRow
<1>2. \A d \in D, v \in Int : CoerceStep(d, v) \in D
  BY DEF CoerceStep
<1>3. CoerceInput(<<>>, n, seq, D, Int)
  <2> HIDE DEF D, n, seq
  <2> QED BY <1>1, <1>2 DEF CoerceInput
<1>4. PICK h : CoerceRun(<<>>, n, seq, D, h)
  <2> HIDE DEF D, n, seq
  <2> QED BY <1>3, CoerceFold
<1>5. Coercing(<<>>, seq) \in D
  <2> HIDE DEF D, seq, n
  <2>1. n \in 0 .. n
    BY <1>1
  <2> QED BY <1>4, <2>1 DEF CoerceRun
<1>6. Coerced(seq) = IF Len(Coercing(<<>>, seq)) >= 2 THEN Coercing(<<>>, seq) ELSE <<>>
  BY Zenon DEF Coerced, Coercing, CoerceStep
<1>7. Coerced(seq) \in D
  BY <1>1, <1>5, <1>6
<1> QED BY <1>1, <1>7 DEF Polyline

\* The order of the networks names every mode but one it has met, and anyone's.
LEMMA NetworkOrderFacts ==
    ASSUME links \in Seq(ToSet(links))
    PROVE  /\ "any" \in ToSet(NetworkOrder)
           /\ NetworkOrder \in Seq({"any"} \cup {l.mode : l \in ToSet(links)})
<1> DEFINE M == {"any"} \cup {l.mode : l \in ToSet(links)}
           D == {o \in Seq(M) : "any" \in ToSet(o)}
           T == ToSet(links)
           n == Len(links)
<1>1. n \in Nat /\ DOMAIN links = 1 .. n /\ \A i \in 1 .. n : links[i] \in T
  BY DEF ToSet
<1>2. <<"any">> \in D
  BY DEF ToSet
<1>3. ASSUME NEW d \in D, NEW l \in T PROVE ModeStep(d, l) \in D
  <2>1. l.mode \in M
    OBVIOUS
  <2> HIDE DEF M
  <2>2. Append(d, l.mode) \in Seq(M) /\ ToSet(Append(d, l.mode)) = ToSet(d) \cup {l.mode}
    BY <2>1, SetOfAppended
  <2> QED BY <2>2 DEF ModeStep
<1> HIDE DEF D
<1>4. ModeInput(<<"any">>, n, links, D, T)
  <2> HIDE DEF n, T
  <2> QED BY <1>1, <1>2, <1>3 DEF ModeInput
<1>5. PICK h : ModeRun(<<"any">>, n, links, D, h)
  <2> HIDE DEF n, T
  <2> QED BY <1>4, ModeFold
<1>6. Appearing(<<"any">>, links) \in D
  <2> HIDE DEF n
  <2>1. n \in 0 .. n
    BY <1>1
  <2> QED BY <1>5, <2>1 DEF ModeRun
<1>7. NetworkOrder = Appearing(<<"any">>, links)
  BY Zenon DEF NetworkOrder, Appearing, ModeStep
<1> QED BY <1>6, <1>7 DEF D

\* h is f over g.
Laid(h, f, g) ==
    /\ DOMAIN h = DOMAIN f \cup DOMAIN g /\ h = [x \in DOMAIN h |-> h[x]]
    /\ \A x \in DOMAIN f : h[x] = f[x]
    /\ \A x \in DOMAIN g : x \notin DOMAIN f => h[x] = g[x]
LEMMA OverIs ==
    ASSUME NEW f, NEW g
    PROVE  Laid(Over(f, g), f, g)
BY DEF Over, Laid

LEMMA PutIs ==
    ASSUME NEW f, NEW k, NEW v
    PROVE  /\ DOMAIN Put(f, k, v) = DOMAIN f \cup {k}
           /\ Put(f, k, v) = [x \in DOMAIN Put(f, k, v) |-> Put(f, k, v)[x]]
           /\ Put(f, k, v)[k] = v
           /\ \A x \in DOMAIN f : x # k => Put(f, k, v)[x] = f[x]
BY DEF Put

\* A node that is reached is further from the source than the one before it,
\* and the heap holds no entry that is better than what is known.
Passes == [best : UNION {[B -> Nat] : B \in SUBSET Int}, pred : UNION {[B -> Int] : B \in SUBSET Int},
           heap : SUBSET (Nat \X Int)]
PassOk(graph, src, w) ==
    /\ w \in Passes
    /\ DOMAIN w.best \in SUBSET Int /\ IsFiniteSet(DOMAIN w.best)
    /\ \A n \in DOMAIN w.best : w.best[n] \in Nat
    /\ src \in DOMAIN w.best /\ w.best[src] = 0
    /\ \A n \in DOMAIN w.best \ {src} :
          /\ n \in DOMAIN w.pred /\ w.pred[n] \in DOMAIN w.best
          /\ <<w.pred[n], n>> \in DOMAIN graph /\ w.best[w.pred[n]] < w.best[n]
    /\ w.heap \in SUBSET (Nat \X Int) /\ IsFiniteSet(w.heap)
    /\ \A e \in w.heap : e[2] \in DOMAIN w.best /\ w.best[e[2]] <= e[1]

LEMMA SettleOk ==
    ASSUME NEW graph, TableOk(graph), NEW src, NEW w, PassOk(graph, src, w), NEW e \in w.heap
    PROVE  PassOk(graph, src, Settle(graph, w, e[1], e[2]))
<1> DEFINE dist == e[1]
           node == e[2]
           S == IF dist > w.best[node] THEN {} ELSE Better(graph, w.best, node, dist)
           reached(n) == dist + graph[<<node, n>>].s
           b == [n \in S |-> reached(n)]
           q == [n \in S |-> node]
           best == Over(b, w.best)
           pred == Over(q, w.pred)
           heap == (w.heap \ {<<dist, node>>}) \cup {<<reached(n), n>> : n \in S}
           v == [best |-> best, pred |-> pred, heap |-> heap]
<1>1. Settle(graph, w, e[1], e[2]) = v
  BY Zenon DEF Settle
<1>2. dist \in Nat /\ node \in Int /\ node \in DOMAIN w.best /\ w.best[node] \in Nat /\ w.best[node] <= dist
  BY DEF PassOk
<1>3. ASSUME NEW n \in S
      PROVE  /\ n \in Int /\ <<node, n>> \in DOMAIN graph /\ graph[<<node, n>>].s \in Nat \ {0}
             /\ reached(n) \in Nat /\ reached(n) > w.best[node] /\ dist = w.best[node]
             /\ n \in DOMAIN w.best => reached(n) < w.best[n]
  <2>1. ~(dist > w.best[node]) /\ n \in Better(graph, w.best, node, dist)
    BY <1>2
  <2>2. <<node, n>> \in DOMAIN graph /\ (n \in DOMAIN w.best => reached(n) < w.best[n])
    BY <2>1 DEF Better
  <2>3. n \in Int /\ graph[<<node, n>>] \in Times
    BY <2>2 DEF TableOk
  <2> QED BY <1>2, <2>1, <2>2, <2>3 DEF Times
<1>4. IsFiniteSet(S)
  <2> DEFINE R == {p[2] : p \in DOMAIN graph}
  <2>1. IsFiniteSet(DOMAIN graph)
    BY DEF TableOk
  <2>2. IsFiniteSet(R)
    <3> DEFINE f == [p \in DOMAIN graph |-> p[2]]
    <3>1. R = {f[p] : p \in DOMAIN graph}
      OBVIOUS
    <3> HIDE DEF f, R
    <3> QED BY <2>1, <3>1, ImageFinite
  <2>3. \A n \in S : n \in R
    <3> SUFFICES ASSUME NEW n \in S PROVE n \in R
      OBVIOUS
    <3> HIDE DEF S
    <3>1. <<node, n>> \in DOMAIN graph /\ <<node, n>>[2] = n
      BY <1>3
    <3> QED BY <3>1
  <2> HIDE DEF S, R
  <2> QED BY <2>2, <2>3, FS_Subset
<1> HIDE DEF S
<1>5. /\ DOMAIN b = S /\ DOMAIN q = S /\ (\A n \in S : b[n] = reached(n) /\ q[n] = node)
  OBVIOUS
<1> HIDE DEF b, q
<1>6. /\ DOMAIN best = S \cup DOMAIN w.best /\ DOMAIN pred = S \cup DOMAIN w.pred
      /\ \A n \in S : best[n] = reached(n) /\ pred[n] = node
      /\ \A n \in DOMAIN w.best : n \notin S => best[n] = w.best[n]
      /\ \A n \in DOMAIN w.pred : n \notin S => pred[n] = w.pred[n]
  <2>1. /\ DOMAIN best = DOMAIN b \cup DOMAIN w.best /\ DOMAIN pred = DOMAIN q \cup DOMAIN w.pred
        /\ \A n \in DOMAIN b : best[n] = b[n]
        /\ \A n \in DOMAIN q : pred[n] = q[n]
        /\ \A n \in DOMAIN w.best : n \notin DOMAIN b => best[n] = w.best[n]
        /\ \A n \in DOMAIN w.pred : n \notin DOMAIN q => pred[n] = w.pred[n]
    <3>1. Laid(best, b, w.best) /\ Laid(pred, q, w.pred)
      BY OverIs
    <3> HIDE DEF best, pred, b, q
    <3> QED BY <3>1 DEF Laid
  <2> HIDE DEF best, pred, reached
  <2> QED BY <1>5, <2>1
<1>60. best = [x \in DOMAIN best |-> best[x]] /\ pred = [x \in DOMAIN pred |-> pred[x]]
  <2>1. Laid(best, b, w.best) /\ Laid(pred, q, w.pred)
    BY OverIs
  <2> HIDE DEF best, pred
  <2> QED BY <2>1 DEF Laid
<1> HIDE DEF best, pred
<1>7. src \notin S /\ node \notin S
  <2>1. src \in DOMAIN w.best /\ w.best[src] = 0
    BY DEF PassOk
  <2>2. \A n \in S : n \in DOMAIN w.best => w.best[node] < w.best[n] /\ 0 < w.best[n]
    <3> SUFFICES ASSUME NEW n \in S, n \in DOMAIN w.best PROVE w.best[node] < w.best[n] /\ 0 < w.best[n]
      OBVIOUS
    <3>1. reached(n) \in Nat /\ reached(n) > w.best[node] /\ reached(n) < w.best[n] /\ w.best[n] \in Nat
      BY <1>3 DEF PassOk
    <3> HIDE DEF reached, node
    <3> QED BY <1>2, <3>1
  <2> QED BY <1>2, <2>1, <2>2
<1>8. \A n \in DOMAIN w.best : /\ n \in DOMAIN best /\ w.best[n] \in Nat /\ best[n] \in Nat /\ best[n] <= w.best[n]
  <2> SUFFICES ASSUME NEW n \in DOMAIN w.best
               PROVE  n \in DOMAIN best /\ w.best[n] \in Nat /\ best[n] \in Nat /\ best[n] <= w.best[n]
    OBVIOUS
  <2>1. w.best[n] \in Nat
    BY DEF PassOk
  <2>2. CASE n \in S
    <3>1. reached(n) \in Nat /\ reached(n) < w.best[n] /\ best[n] = reached(n)
      BY <1>3, <1>6, <2>2
    <3> HIDE DEF reached
    <3> QED BY <1>6, <2>1, <3>1
  <2>3. CASE n \notin S
    BY <1>6, <2>1, <2>3
  <2> QED BY <2>2, <2>3
<1>9. /\ DOMAIN best \in SUBSET Int /\ IsFiniteSet(DOMAIN best) /\ (\A n \in DOMAIN best : best[n] \in Nat)
      /\ src \in DOMAIN best /\ best[src] = 0
  <2>1. DOMAIN w.best \in SUBSET Int /\ IsFiniteSet(DOMAIN w.best) /\ src \in DOMAIN w.best /\ w.best[src] = 0
    BY DEF PassOk
  <2>2. \A n \in S : n \in Int /\ best[n] \in Nat
    BY <1>3, <1>6
  <2>3. IsFiniteSet(DOMAIN best)
    <3>1. IsFiniteSet(S \cup DOMAIN w.best)
      BY <1>4, <2>1, FS_Union
    <3> QED BY <1>6, <3>1
  <2> QED BY <1>6, <1>7, <1>8, <2>1, <2>2, <2>3
<1>10. ASSUME NEW n \in DOMAIN best \ {src}
       PROVE  /\ n \in DOMAIN pred /\ pred[n] \in DOMAIN best
              /\ <<pred[n], n>> \in DOMAIN graph /\ best[pred[n]] < best[n]
  <2>1. CASE n \in S
    <3>1. pred[n] = node /\ best[n] = reached(n) /\ best[node] = w.best[node] /\ node \in DOMAIN best
      BY <1>2, <1>6, <1>7, <2>1
    <3>2. <<node, n>> \in DOMAIN graph /\ reached(n) > w.best[node] /\ reached(n) \in Nat
      BY <1>3, <2>1
    <3> HIDE DEF reached, node
    <3> QED BY <1>2, <1>6, <2>1, <3>1, <3>2
  <2>2. CASE n \notin S
    <3>1. n \in DOMAIN w.best \ {src} /\ best[n] = w.best[n]
      BY <1>6, <2>2
    <3>2. /\ n \in DOMAIN w.pred /\ w.pred[n] \in DOMAIN w.best
          /\ <<w.pred[n], n>> \in DOMAIN graph /\ w.best[w.pred[n]] < w.best[n]
      BY <3>1 DEF PassOk
    <3>3. pred[n] = w.pred[n] /\ n \in DOMAIN pred
      BY <1>6, <2>2, <3>2
    <3> DEFINE m == w.pred[n]
    <3>4. m \in DOMAIN best /\ best[m] \in Nat /\ best[m] <= w.best[m] /\ w.best[m] \in Nat /\ w.best[n] \in Nat
      BY <1>8, <3>1, <3>2
    <3> HIDE DEF m
    <3> QED BY <3>1, <3>2, <3>3, <3>4 DEF m
  <2> QED BY <2>1, <2>2
<1>11. heap \in SUBSET (Nat \X Int) /\ IsFiniteSet(heap)
  <2> DEFINE P == {<<reached(n), n>> : n \in S}
  <2>1. w.heap \in SUBSET (Nat \X Int) /\ IsFiniteSet(w.heap)
    BY DEF PassOk
  <2>2. P \in SUBSET (Nat \X Int)
    <3>1. \A n \in S : reached(n) \in Nat /\ n \in Int
      BY <1>3
    <3> HIDE DEF reached
    <3> QED BY <3>1
  <2>3. IsFiniteSet(P)
    <3> DEFINE f == [n \in S |-> <<reached(n), n>>]
    <3>1. P = {f[n] : n \in S}
      OBVIOUS
    <3> HIDE DEF f, P
    <3> QED BY <1>4, <3>1, ImageFinite
  <2>4. IsFiniteSet(w.heap \ {<<dist, node>>})
    BY <2>1, FS_Subset
  <2> HIDE DEF P
  <2>5. IsFiniteSet((w.heap \ {<<dist, node>>}) \cup P)
    BY <2>3, <2>4, FS_Union
  <2> QED BY <2>1, <2>2, <2>5 DEF P
<1>12. ASSUME NEW x \in heap PROVE x[2] \in DOMAIN best /\ best[x[2]] <= x[1]
  <2>1. CASE x \in w.heap
    <3>1. x[2] \in DOMAIN w.best /\ w.best[x[2]] <= x[1] /\ x[1] \in Nat
      BY <2>1 DEF PassOk
    <3>2. x[2] \in DOMAIN best /\ best[x[2]] \in Nat /\ best[x[2]] <= w.best[x[2]] /\ w.best[x[2]] \in Nat
      BY <1>8, <3>1
    <3> HIDE DEF heap
    <3> QED BY <3>1, <3>2
  <2>2. CASE x \in {<<reached(n), n>> : n \in S}
    <3>1. PICK n \in S : x = <<reached(n), n>>
      BY <2>2
    <3>2. best[n] = reached(n) /\ n \in DOMAIN best /\ reached(n) \in Nat
      BY <1>3, <1>6
    <3> HIDE DEF heap, reached
    <3> QED BY <3>1, <3>2
  <2> QED BY <2>1, <2>2
<1> HIDE DEF heap
<1>13. v.best = best /\ v.pred = pred /\ v.heap = heap
  OBVIOUS
<1>130. v \in Passes
  <2>1. best \in [DOMAIN best -> Nat]
    BY <1>9, <1>60
  <2>2. pred \in UNION {[B -> Int] : B \in SUBSET Int}
    <3>1. w.pred \in UNION {[B -> Int] : B \in SUBSET Int}
      BY DEF PassOk, Passes
    <3>2. PICK B \in SUBSET Int : w.pred \in [B -> Int]
      BY <3>1
    <3>3. DOMAIN w.pred \in SUBSET Int /\ \A n \in DOMAIN w.pred : w.pred[n] \in Int
      BY <3>2
    <3>4. DOMAIN pred \in SUBSET Int /\ \A n \in DOMAIN pred : pred[n] \in Int
      <4>1. \A n \in S : n \in Int /\ pred[n] \in Int
        BY <1>2, <1>3, <1>6
      <4> QED BY <1>6, <3>3, <4>1
    <3>5. pred \in [DOMAIN pred -> Int]
      BY <1>60, <3>4
    <3> QED BY <3>4, <3>5
  <2>3. best \in UNION {[B -> Nat] : B \in SUBSET Int}
    BY <1>9, <2>1
  <2> HIDE DEF dist, node, reached
  <2> QED BY <1>11, <2>2, <2>3 DEF v, Passes
<1> HIDE DEF v
<1>14. PassOk(graph, src, v)
  BY <1>9, <1>10, <1>11, <1>12, <1>13, <1>130 DEF PassOk
<1> QED BY <1>1, <1>14

\* The heap has a least entry, by its time and then by its node.
LEMMA LeastEntry ==
    ASSUME NEW H, H \in SUBSET (Nat \X Int), IsFiniteSet(H), H # {}
    PROVE  \E e \in H : \A f \in H : e[1] < f[1] \/ (e[1] = f[1] /\ e[2] <= f[2])
<1> DEFINE R == {p \in H \X H : p[1][1] < p[2][1] \/ (p[1][1] = p[2][1] /\ p[1][2] <= p[2][2])}
<1>1. \A e \in H : e[1] \in Nat /\ e[2] \in Int /\ e = <<e[1], e[2]>>
  BY PairIs
<1>2. \A e, f \in H : <<e, f>> \in R <=> e[1] < f[1] \/ (e[1] = f[1] /\ e[2] <= f[2])
  OBVIOUS
<1> HIDE DEF R
<1>3. \A e, f \in H : e = f \/ <<e, f>> \in R \/ <<f, e>> \in R
  <2> SUFFICES ASSUME NEW e \in H, NEW f \in H PROVE e = f \/ <<e, f>> \in R \/ <<f, e>> \in R
    OBVIOUS
  <2>1. e[1] < f[1] \/ f[1] < e[1] \/ e[1] = f[1]
    BY <1>1
  <2>2. e[2] <= f[2] \/ f[2] <= e[2]
    BY <1>1
  <2> QED BY <1>2, <2>1, <2>2
<1>4. \A e, f, g \in H : <<e, f>> \in R /\ <<f, g>> \in R => <<e, g>> \in R
  BY <1>1, <1>2
<1>5. PICK e : First(R, H, e)
  BY <1>3, <1>4, FirstExists
<1>6. e \in H /\ \A f \in H : f = e \/ <<e, f>> \in R
  BY <1>5 DEF First
<1>7. \A f \in H : e[1] < f[1] \/ (e[1] = f[1] /\ e[2] <= f[2])
  <2> SUFFICES ASSUME NEW f \in H PROVE e[1] < f[1] \/ (e[1] = f[1] /\ e[2] <= f[2])
    OBVIOUS
  <2>1. CASE f = e
    BY <1>1, <2>1
  <2>2. CASE <<e, f>> \in R
    BY <1>2, <1>6, <2>2
  <2> QED BY <1>6, <2>1, <2>2
<1> QED BY <1>6, <1>7

LEMMA PopOk ==
    ASSUME NEW graph, TableOk(graph), NEW src, NEW w, PassOk(graph, src, w)
    PROVE  PassOk(graph, src, PopNode(graph, w))
<1>1. CASE w.heap = {}
  BY <1>1 DEF PopNode
<1>2. CASE w.heap # {}
  <2> DEFINE least == CHOOSE e \in w.heap : \A f \in w.heap : e[1] < f[1] \/ (e[1] = f[1] /\ e[2] <= f[2])
  <2>1. w.heap \in SUBSET (Nat \X Int) /\ IsFiniteSet(w.heap)
    BY DEF PassOk
  <2>2. \E e \in w.heap : \A f \in w.heap : e[1] < f[1] \/ (e[1] = f[1] /\ e[2] <= f[2])
    <3> DEFINE H == w.heap
    <3>1. H \in SUBSET (Nat \X Int) /\ IsFiniteSet(H) /\ H # {}
      BY <1>2, <2>1
    <3> HIDE DEF H
    <3>2. \E e \in H : \A f \in H : e[1] < f[1] \/ (e[1] = f[1] /\ e[2] <= f[2])
      BY <3>1, LeastEntry
    <3> QED BY <3>2 DEF H
  <2>3. least \in w.heap
    BY <2>2, Zenon
  <2>4. PopNode(graph, w) = Settle(graph, w, least[1], least[2])
    BY <1>2, Zenon DEF PopNode
  <2> HIDE DEF least
  <2> QED BY <2>3, <2>4, SettleOk
<1> QED BY <1>1, <1>2

PopStep(graph, w, i) == PopNode(graph, w)
\* The entries of the heap, one after the other.
Popping(graph, base, seq) == FoldLeft(LAMBDA w, i : PopNode(graph, w), base, seq)
PopInput(graph, base, n, seq, D, T) ==
    /\ n \in Nat /\ DOMAIN seq = 1 .. n /\ base \in D /\ \A i \in 1 .. n : seq[i] \in T
    /\ \A d \in D, x \in T : PopStep(graph, d, x) \in D
PopRun(graph, base, n, seq, D, h) ==
    /\ h \in [0 .. n -> D] /\ h[0] = base
    /\ \A i \in 1 .. n : h[i] = PopStep(graph, h[i - 1], seq[i])
    /\ h[n] = Popping(graph, base, seq)
LEMMA PopFold ==
    ASSUME NEW graph, NEW base, NEW n, NEW seq, NEW D, NEW T, PopInput(graph, base, n, seq, D, T)
    PROVE  \E h : PopRun(graph, base, n, seq, D, h)
<1> DEFINE F == [p \in D \X T |-> PopStep(graph, p[1], p[2])]
           Eq(g) == g = [s \in SUBSET DOMAIN seq |->
                            IF s = {} THEN base ELSE PopStep(graph, g[s \ {Max(s)}], seq[Max(s)])]
           iter == CHOOSE g : Eq(g)
           h == [i \in 0 .. n |-> iter[1 .. i]]
<1> USE DEF PopInput
<1>1. IsFiniteSet(DOMAIN seq) /\ DOMAIN seq \in SUBSET Int
  BY FirstOnes
<1>2. \A d \in D, x \in T : F[<<d, x>>] = PopStep(graph, d, x) /\ F[<<d, x>>] \in D
  OBVIOUS
<1>3. \E g : Eq(g)
  <2> HIDE DEF F
  <2>1. PICK g : FoldEq(g, F, base, seq)
    BY <1>1, FoldExists
  <2>2. \A s \in SUBSET DOMAIN seq : g[s] \in D
    BY <1>1, <1>2, <2>1, FoldTyped
  <2>3. \A s \in SUBSET DOMAIN seq : s # {} => Max(s) \in s /\ s \ {Max(s)} \in SUBSET DOMAIN seq
    BY <1>1, FS_Subset, MaxIs
  <2>4. ASSUME NEW s \in SUBSET DOMAIN seq
        PROVE  (IF s = {} THEN base ELSE F[<<g[s \ {Max(s)}], seq[Max(s)]>>])
               = (IF s = {} THEN base ELSE PopStep(graph, g[s \ {Max(s)}], seq[Max(s)]))
    <3>1. CASE s # {}
      <4>1. g[s \ {Max(s)}] \in D /\ seq[Max(s)] \in T
        BY <2>2, <2>3, <3>1
      <4> QED BY <1>2, <3>1, <4>1
    <3> QED BY <3>1
  <2>5. g = [s \in SUBSET DOMAIN seq |-> IF s = {} THEN base ELSE F[<<g[s \ {Max(s)}], seq[Max(s)]>>]]
    BY <2>1 DEF FoldEq
  <2> QED BY <2>4, <2>5, Zenon
<1>4. Eq(iter)
  BY <1>3, Zenon
<1>5. iter[DOMAIN seq] = Popping(graph, base, seq)
  BY Zenon DEF FoldLeft, MapThenFoldSet, Popping, PopStep
<1> HIDE DEF iter, F
<1>6. h[0] = base /\ \A i \in 1 .. n : h[i] = PopStep(graph, h[i - 1], seq[i])
  <2>1. h[0] = base
    BY <1>4, FirstOnes
  <2>2. ASSUME NEW i \in 1 .. n PROVE h[i] = PopStep(graph, h[i - 1], seq[i])
    <3>1. /\ Max(1 .. i) = i /\ 1 .. i \in SUBSET DOMAIN seq /\ 1 .. i # {} /\ (1 .. i) \ {i} = 1 .. i - 1
          /\ i \in 0 .. n /\ i - 1 \in 0 .. n
      BY FirstOnes
    <3>2. iter[1 .. i] = PopStep(graph, iter[1 .. i - 1], seq[i])
      BY <1>4, <3>1
    <3>3. h[i] = iter[1 .. i] /\ h[i - 1] = iter[1 .. i - 1]
      BY <3>1
    <3> QED BY <3>2, <3>3
  <2> QED BY <2>1, <2>2
<1>7. h[n] = iter[DOMAIN seq]
  OBVIOUS
<1> DEFINE Good == {i \in 0 .. n : h[i] \in D}
<1>8. \A i \in 0 .. n : i \in Good
  <2>1. 0 \in Good
    BY <1>6
  <2>2. ASSUME NEW i \in 0 .. n - 1, i \in Good PROVE i + 1 \in Good
    <3>1. i + 1 \in 1 .. n /\ (i + 1) - 1 = i /\ i + 1 \in 0 .. n
      OBVIOUS
    <3>2. h[i + 1] = PopStep(graph, h[i], seq[i + 1]) /\ seq[i + 1] \in T /\ h[i] \in D
      BY <1>6, <2>2, <3>1
    <3> QED BY <3>1, <3>2
  <2> HIDE DEF Good
  <2> QED BY <2>1, <2>2, UpTo
<1>9. h \in [0 .. n -> D]
  BY <1>8
<1> HIDE DEF h
<1>10. PopRun(graph, base, n, seq, D, h)
  BY <1>5, <1>6, <1>7, <1>9 DEF PopRun
<1> QED BY <1>10

LEMMA PassFacts ==
    ASSUME NEW graph, TableOk(graph), NEW src \in Int
    PROVE  PassOk(graph, src, Pass(graph, src))
<1> DEFINE base == [best |-> [x \in {src} |-> 0], pred |-> NoTable, heap |-> {<<0, src>>}]
           n == Cardinality(DOMAIN graph) + 1
           seq == [i \in 1 .. n |-> i]
           T == 1 .. n
           D == {w \in Passes : PassOk(graph, src, w)}
<1>1. PassOk(graph, src, base)
  <2> DEFINE b == [x \in {src} |-> 0]
  <2>1. b = [x \in {src} |-> 0]
    OBVIOUS
  <2> HIDE DEF b
  <2>2. DOMAIN b = {src} /\ b[src] = 0 /\ IsFiniteSet({src}) /\ IsFiniteSet({<<0, src>>})
    BY <2>1, FS_Singleton
  <2>3. base.best = b /\ base.heap = {<<0, src>>} /\ base = [best |-> b, pred |-> NoTable, heap |-> {<<0, src>>}]
    BY DEF b
  <2>4. NoTable \in [{} -> Int] /\ b \in [{src} -> Nat]
    BY <2>1 DEF NoTable
  <2>5. NoTable \in UNION {[B -> Int] : B \in SUBSET Int} /\ b \in UNION {[B -> Nat] : B \in SUBSET Int}
    BY <2>4
  <2> HIDE DEF base
  <2>6. base \in Passes
    BY <2>3, <2>5 DEF Passes
  <2> QED BY <2>2, <2>3, <2>6 DEF PassOk
<1>2. base \in D
  BY <1>1 DEF PassOk
<1>3. \A w \in D, i \in T : PopStep(graph, w, i) \in D
  BY PopOk DEF PopStep, PassOk
<1>4. n \in Nat /\ DOMAIN seq = 1 .. n /\ \A i \in 1 .. n : seq[i] \in T
  BY FS_CardinalityType DEF TableOk
<1> HIDE DEF D, T, base, n
<1>5. PopInput(graph, base, n, seq, D, T)
  <2> HIDE DEF seq
  <2> QED BY <1>2, <1>3, <1>4 DEF PopInput
<1>6. PICK h : PopRun(graph, base, n, seq, D, h)
  <2> HIDE DEF seq
  <2> QED BY <1>5, PopFold
<1>7. Popping(graph, base, seq) \in D
  <2> HIDE DEF seq
  <2>1. n \in 0 .. n
    BY <1>4
  <2> QED BY <1>6, <2>1 DEF PopRun
<1>8. Pass(graph, src) = Popping(graph, base, seq)
  BY Zenon DEF Pass, Popping, base, n, PopStep
<1> QED BY <1>7, <1>8 DEF D

\* A function can be applied over and over.
Iterates(N, D, t, F, h) == h \in [0 .. N -> D] /\ h[0] = t /\ \A i \in 1 .. N : h[i] = F[h[i - 1]]
LEMMA Iterated ==
    ASSUME NEW N \in Nat, NEW D, NEW t \in D, NEW F, \A x \in D : F[x] \in D
    PROVE  \E h : Iterates(N, D, t, F, h)
<1> DEFINE seq == [i \in 1 .. N |-> 0]
           Zero == {0}
           G == [p \in D \X Zero |-> F[p[1]]]
<1>1. DOMAIN seq = 1 .. N /\ IsFiniteSet(DOMAIN seq) /\ DOMAIN seq \in SUBSET Int
  BY FirstOnes
<1>2. \A d \in D, x \in Zero : G[<<d, x>>] = F[d] /\ G[<<d, x>>] \in D
  OBVIOUS
<1> HIDE DEF G
<1>3. PICK g : FoldEq(g, G, t, seq)
  BY <1>1, FoldExists
<1>4. \A i \in DOMAIN seq : seq[i] \in Zero
  OBVIOUS
<1>5. \A s \in SUBSET DOMAIN seq : g[s] \in D
  <2> HIDE DEF seq, Zero
  <2> QED BY <1>1, <1>2, <1>3, <1>4, FoldTyped
<1> DEFINE h == [i \in 0 .. N |-> g[1 .. i]]
<1>6. \A i \in 0 .. N : 1 .. i \in SUBSET DOMAIN seq
  BY <1>1
<1>7. \A i \in 0 .. N : h[i] \in D /\ h[i] = g[1 .. i]
  BY <1>5, <1>6
<1>8. h[0] = t
  <2>1. 1 .. 0 = {} /\ 0 \in 0 .. N /\ {} \in SUBSET DOMAIN seq
    BY <1>1
  <2>2. g[{}] = t
    BY <1>3, <2>1 DEF FoldEq
  <2> QED BY <1>7, <2>1, <2>2
<1>9. ASSUME NEW i \in 1 .. N PROVE h[i] = F[h[i - 1]]
  <2>1. /\ Max(1 .. i) = i /\ 1 .. i \in SUBSET DOMAIN seq /\ 1 .. i # {} /\ (1 .. i) \ {i} = 1 .. i - 1
        /\ i \in 0 .. N /\ i - 1 \in 0 .. N /\ seq[i] = 0
    BY <1>1, FirstOnes
  <2>2. g[1 .. i] = G[<<g[1 .. i - 1], 0>>]
    BY <1>3, <2>1 DEF FoldEq
  <2>3. g[1 .. i - 1] \in D /\ h[i] = g[1 .. i] /\ h[i - 1] = g[1 .. i - 1]
    BY <1>7, <2>1
  <2>4. 0 \in Zero
    OBVIOUS
  <2> HIDE DEF h
  <2> QED BY <1>2, <2>2, <2>3, <2>4
<1>10. h \in [0 .. N -> D]
  BY <1>7
<1> HIDE DEF h
<1> QED BY <1>8, <1>9, <1>10 DEF Iterates

\* A walk from a node that is reached goes back over links, to the source.
WayOk(graph, way) ==
    /\ way \in Seq(Int)
    /\ \A i \in 1 .. Len(way) - 1 : <<way[i], way[i + 1]>> \in DOMAIN graph

\* A way from the source to the target along the predecessors.
WaySound(w, src, target, way) ==
    /\ way \in Seq(Int) /\ Len(way) >= 1 /\ way[1] = src /\ way[Len(way)] = target
    /\ \A i \in 1 .. Len(way) : way[i] \in DOMAIN w.best
    /\ \A i \in 1 .. Len(way) - 1 : way[i + 1] # src /\ way[i] = w.pred[way[i + 1]]

LEMMA WayBack ==
    ASSUME NEW graph, NEW src, NEW w, PassOk(graph, src, w), NEW target \in DOMAIN w.best
    PROVE  WaySound(w, src, target, Way(w, src, target))
<1> DEFINE B == DOMAIN w.best
           N == Cardinality(B)
           F == [x \in B |-> IF x = src THEN src ELSE w.pred[x]]
           Eq(back) == back = [i \in 0 .. N |-> IF i = 0 THEN target
                                                ELSE IF back[i - 1] = src THEN src ELSE w.pred[back[i - 1]]]
           h == CHOOSE back : Eq(back)
<1>1. /\ B \in SUBSET Int /\ IsFiniteSet(B) /\ src \in B /\ (\A n \in B : w.best[n] \in Nat)
      /\ \A n \in B \ {src} : w.pred[n] \in B /\ <<w.pred[n], n>> \in DOMAIN graph /\ w.best[w.pred[n]] < w.best[n]
  BY DEF PassOk
<1>2. N \in Nat
  BY <1>1, FS_CardinalityType
<1>3. \A x \in B : F[x] \in B /\ F[x] = IF x = src THEN src ELSE w.pred[x]
  BY <1>1
<1>4. \E back : Eq(back)
  <2> HIDE DEF F, B, N
  <2>1. target \in B
    BY DEF B
  <2>20. PICK g : Iterates(N, B, target, F, g)
    <3>1. \A x \in B : F[x] \in B
      BY <1>3
    <3> QED BY <1>2, <2>1, <3>1, Iterated
  <2>2. g \in [0 .. N -> B] /\ g[0] = target /\ \A i \in 1 .. N : g[i] = F[g[i - 1]]
    BY <2>20 DEF Iterates
  <2>3. ASSUME NEW i \in 0 .. N
        PROVE  g[i] = IF i = 0 THEN target ELSE IF g[i - 1] = src THEN src ELSE w.pred[g[i - 1]]
    <3>1. CASE i = 0
      BY <2>2, <3>1
    <3>2. CASE i # 0
      <4>1. i \in 1 .. N /\ i - 1 \in 0 .. N
        BY <1>2, <3>2
      <4>2. g[i] = F[g[i - 1]] /\ g[i - 1] \in B
        BY <2>2, <4>1
      <4> QED BY <1>3, <3>2, <4>2
    <3> QED BY <3>1, <3>2
  <2>4. g = [i \in 0 .. N |-> g[i]]
    BY <2>2
  <2>5. Eq(g)
    BY <2>3, <2>4
  <2> QED BY <2>5
<1>5. Eq(h)
  BY <1>4, Zenon
<1> DEFINE hits == {i \in DOMAIN h : h[i] = src}
           hops == Min(hits)
           way == [i \in 1 .. hops + 1 |-> h[hops + 1 - i]]
<1>6. Way(w, src, target) = way
  BY Zenon DEF Way
<1> HIDE DEF h, F
<1>7. /\ DOMAIN h = 0 .. N /\ h[0] = target
      /\ \A i \in 1 .. N : h[i] = IF h[i - 1] = src THEN src ELSE w.pred[h[i - 1]]
  <2> HIDE DEF N
  <2>1. DOMAIN h = 0 .. N
    BY <1>5
  <2>2. 0 \in 0 .. N /\ \A i \in 1 .. N : i \in 0 .. N /\ i # 0
    BY <1>2
  <2>3. h[0] = target
    BY <1>5, <2>2
  <2>4. \A i \in 1 .. N : h[i] = IF h[i - 1] = src THEN src ELSE w.pred[h[i - 1]]
    BY <1>5, <2>2
  <2> QED BY <2>1, <2>3, <2>4
<1> HIDE DEF B, N, Eq
<1>8. \A i \in 0 .. N : h[i] \in B
  <2> DEFINE Good == {i \in 0 .. N : h[i] \in B}
  <2>1. 0 \in Good
    BY <1>2, <1>7 DEF B
  <2>2. ASSUME NEW i \in 0 .. N - 1, i \in Good PROVE i + 1 \in Good
    <3>1. i + 1 \in 1 .. N /\ (i + 1) - 1 = i /\ i + 1 \in 0 .. N
      BY <1>2
    <3>2. h[i] \in B /\ h[i + 1] = IF h[i] = src THEN src ELSE w.pred[h[i]]
      BY <1>7, <2>2, <3>1
    <3> QED BY <1>1, <3>1, <3>2
  <2> HIDE DEF Good
  <2>3. \A i \in 0 .. N : i \in Good
    BY <1>2, <2>1, <2>2, UpTo
  <2> QED BY <2>3 DEF Good
<1>9. hits # {}
  <2> SUFFICES ASSUME \A i \in 0 .. N : h[i] # src PROVE FALSE
    BY <1>7
  <2>1. ASSUME NEW i \in 1 .. N PROVE w.best[h[i]] < w.best[h[i - 1]]
    <3>1. i - 1 \in 0 .. N
      BY <1>2
    <3>2. h[i - 1] \in B \ {src} /\ h[i] = w.pred[h[i - 1]]
      BY <1>7, <1>8, <3>1
    <3> QED BY <1>1, <3>2
  <2>4. \A i, j \in 0 .. N : i < j => w.best[h[j]] < w.best[h[i]]
    <3> SUFFICES ASSUME NEW i \in 0 .. N PROVE \A j \in 0 .. N : i < j => w.best[h[j]] < w.best[h[i]]
      OBVIOUS
    <3> DEFINE Less == {j \in 0 .. N : i < j => w.best[h[j]] < w.best[h[i]]}
    <3>1. 0 \in Less
      BY <1>2
    <3>2. ASSUME NEW j \in 0 .. N - 1, j \in Less PROVE j + 1 \in Less
      <4>1. j + 1 \in 1 .. N /\ (j + 1) - 1 = j /\ j + 1 \in 0 .. N /\ j \in 0 .. N
        BY <1>2
      <4>2. w.best[h[j + 1]] < w.best[h[j]]
        BY <2>1, <4>1
      <4>3. w.best[h[j]] \in Nat /\ w.best[h[j + 1]] \in Nat /\ w.best[h[i]] \in Nat
        BY <1>1, <1>8, <4>1
      <4>4. i < j => w.best[h[j]] < w.best[h[i]]
        BY <3>2
      <4>5. i < j + 1 => i < j \/ i = j
        BY <4>1
      <4> QED BY <4>1, <4>2, <4>3, <4>4, <4>5
    <3> HIDE DEF Less
    <3>3. \A j \in 0 .. N : j \in Less
      BY <1>2, <3>1, <3>2, UpTo
    <3> QED BY <3>3 DEF Less
  <2>5. IsFiniteSet(0 .. N) /\ Cardinality(0 .. N) = N + 1
    BY <1>2, FS_Interval
  <2>6. h \in [0 .. N -> B]
    <3>1. h = [i \in 0 .. N |-> h[i]]
      BY <1>5 DEF Eq
    <3> QED BY <1>8, <3>1
  <2>7. Cardinality(0 .. N) > Cardinality(B)
    BY <1>2, <2>5 DEF N
  <2>8. PICK i \in 0 .. N, j \in 0 .. N : i # j /\ h[i] = h[j]
    BY <1>1, <2>5, <2>6, <2>7, FS_PigeonHole
  <2>9. i < j \/ j < i
    BY <1>2, <2>8
  <2>10. w.best[h[i]] \in Nat /\ w.best[h[j]] \in Nat
    BY <1>1, <1>8
  <2> QED BY <2>4, <2>8, <2>9, <2>10
<1>10. hops \in 0 .. N /\ h[hops] = src /\ \A i \in 0 .. N : i < hops => h[i] # src
  <2>1. hits \in SUBSET Int /\ IsFiniteSet(hits)
    <3>1. hits \in SUBSET (0 .. N)
      BY <1>7
    <3>2. IsFiniteSet(0 .. N) /\ 0 .. N \in SUBSET Int
      BY <1>2, FS_Interval
    <3> HIDE DEF hits
    <3> QED BY <3>1, <3>2, FS_Subset
  <2>2. hops \in hits /\ \A i \in hits : hops <= i
    <3> HIDE DEF hits
    <3> QED BY <1>9, <2>1, MinIs
  <2>3. \A i \in 0 .. N : h[i] = src => i \in hits
    BY <1>7
  <2> HIDE DEF hops
  <2>4. hops \in 0 .. N /\ h[hops] = src
    BY <1>7, <2>2
  <2> HIDE DEF hits
  <2> QED BY <1>2, <2>2, <2>3, <2>4
<1> HIDE DEF hops
<1>11. hops + 1 \in Nat /\ way \in Seq(Int) /\ Len(way) = hops + 1
  <2>1. hops \in Nat
    BY <1>10
  <2>2. \A i \in 1 .. hops + 1 : (hops + 1) - i \in 0 .. N
    BY <1>2, <1>10
  <2>3. \A i \in 1 .. hops + 1 : h[hops + 1 - i] \in Int
    <3> SUFFICES ASSUME NEW i \in 1 .. hops + 1 PROVE h[hops + 1 - i] \in Int
      OBVIOUS
    <3> DEFINE j == hops + 1 - i
    <3>1. j \in 0 .. N
      BY <2>1, <2>2
    <3> HIDE DEF j
    <3>2. h[j] \in Int
      BY <1>1, <1>8, <3>1
    <3> QED BY <3>2 DEF j
  <2> QED BY <2>1, <2>3
<1>12. ASSUME NEW i \in 1 .. hops PROVE way[i + 1] # src /\ way[i] = w.pred[way[i + 1]]
  <2> DEFINE j == hops - i
  <2>1. /\ i \in 1 .. hops + 1 /\ i + 1 \in 1 .. hops + 1 /\ (hops + 1) - i = j + 1 /\ (hops + 1) - (i + 1) = j
        /\ j \in 0 .. N /\ j + 1 \in 1 .. N /\ (j + 1) - 1 = j /\ j < hops
    BY <1>2, <1>10
  <2>2. way[i] = h[j + 1] /\ way[i + 1] = h[j]
    <3> HIDE DEF j
    <3>1. hops \in Int /\ i \in Int
      BY <1>10
    <3>2. hops + 1 - i = j + 1 /\ hops + 1 - (i + 1) = j
      BY <3>1 DEF j
    <3>3. way[i] = h[hops + 1 - i] /\ way[i + 1] = h[hops + 1 - (i + 1)]
      BY <2>1
    <3> HIDE DEF way
    <3> QED BY <3>2, <3>3
  <2> HIDE DEF j
  <2>3. h[j] # src /\ h[j + 1] = w.pred[h[j]]
    BY <1>7, <1>10, <2>1
  <2> QED BY <2>2, <2>3
<1>13. \A i \in 1 .. hops + 1 : way[i] \in B
  <2> SUFFICES ASSUME NEW i \in 1 .. hops + 1 PROVE way[i] \in B
    OBVIOUS
  <2> DEFINE j == hops + 1 - i
  <2>1. j \in 0 .. N /\ way[i] = h[j]
    BY <1>2, <1>10
  <2> HIDE DEF j, way
  <2> QED BY <1>8, <2>1
<1>14. way[1] = src /\ way[hops + 1] = target
  <2>1. hops \in Nat /\ hops + 1 - 1 = hops /\ hops + 1 - (hops + 1) = 0
    BY <1>10
  <2>2. 1 \in 1 .. hops + 1 /\ hops + 1 \in 1 .. hops + 1
    BY <2>1
  <2>3. way[1] = h[hops + 1 - 1] /\ way[hops + 1] = h[hops + 1 - (hops + 1)]
    BY <2>2
  <2> HIDE DEF way
  <2> QED BY <1>7, <1>10, <2>1, <2>3
<1> HIDE DEF way
<1>15. Len(way) - 1 = hops /\ Len(way) >= 1
  BY <1>10, <1>11
<1> QED BY <1>6, <1>11, <1>12, <1>13, <1>14, <1>15 DEF WaySound, B

LEMMA WayFacts ==
    ASSUME NEW graph, NEW src, NEW w, PassOk(graph, src, w), NEW target \in DOMAIN w.best
    PROVE  WayOk(graph, Way(w, src, target))
<1>1. WaySound(w, src, target, Way(w, src, target))
  BY WayBack
<1> DEFINE way == Way(w, src, target)
<1> HIDE DEF way
<1>2. ASSUME NEW i \in 1 .. Len(way) - 1 PROVE <<way[i], way[i + 1]>> \in DOMAIN graph
  <2>1. way[i + 1] \in DOMAIN w.best \ {src} /\ way[i] = w.pred[way[i + 1]]
    BY <1>1 DEF WaySound, way
  <2> QED BY <2>1 DEF PassOk
<1> QED BY <1>1, <1>2 DEF WaySound, WayOk, way

LineStep(table, way, acc, i) ==
    acc \o (IF acc = <<>> THEN table[<<way[i], way[i + 1]>>].line ELSE Tail(table[<<way[i], way[i + 1]>>].line))
\* The polylines of a way, end to end.
Lined(table, way, base, seq) == FoldLeft(LAMBDA acc, i : LineStep(table, way, acc, i), base, seq)
LineInput(table, way, base, n, seq, D, T) ==
    /\ n \in Nat /\ DOMAIN seq = 1 .. n /\ base \in D /\ \A i \in 1 .. n : seq[i] \in T
    /\ \A d \in D, x \in T : LineStep(table, way, d, x) \in D
LineRun(table, way, base, n, seq, D, h) ==
    /\ h \in [0 .. n -> D] /\ h[0] = base
    /\ \A i \in 1 .. n : h[i] = LineStep(table, way, h[i - 1], seq[i])
    /\ h[n] = Lined(table, way, base, seq)
LEMMA LineFold ==
    ASSUME NEW table, NEW way, NEW base, NEW n, NEW seq, NEW D, NEW T, LineInput(table, way, base, n, seq, D, T)
    PROVE  \E h : LineRun(table, way, base, n, seq, D, h)
<1> DEFINE F == [p \in D \X T |-> LineStep(table, way, p[1], p[2])]
           Eq(g) == g = [s \in SUBSET DOMAIN seq |->
                            IF s = {} THEN base ELSE LineStep(table, way, g[s \ {Max(s)}], seq[Max(s)])]
           iter == CHOOSE g : Eq(g)
           h == [i \in 0 .. n |-> iter[1 .. i]]
<1> USE DEF LineInput
<1>1. IsFiniteSet(DOMAIN seq) /\ DOMAIN seq \in SUBSET Int
  BY FirstOnes
<1>2. \A d \in D, x \in T : F[<<d, x>>] = LineStep(table, way, d, x) /\ F[<<d, x>>] \in D
  OBVIOUS
<1>3. \E g : Eq(g)
  <2> HIDE DEF F
  <2>1. PICK g : FoldEq(g, F, base, seq)
    BY <1>1, FoldExists
  <2>2. \A s \in SUBSET DOMAIN seq : g[s] \in D
    BY <1>1, <1>2, <2>1, FoldTyped
  <2>3. \A s \in SUBSET DOMAIN seq : s # {} => Max(s) \in s /\ s \ {Max(s)} \in SUBSET DOMAIN seq
    BY <1>1, FS_Subset, MaxIs
  <2>4. ASSUME NEW s \in SUBSET DOMAIN seq
        PROVE  (IF s = {} THEN base ELSE F[<<g[s \ {Max(s)}], seq[Max(s)]>>])
               = (IF s = {} THEN base ELSE LineStep(table, way, g[s \ {Max(s)}], seq[Max(s)]))
    <3>1. CASE s # {}
      <4>1. g[s \ {Max(s)}] \in D /\ seq[Max(s)] \in T
        BY <2>2, <2>3, <3>1
      <4> QED BY <1>2, <3>1, <4>1
    <3> QED BY <3>1
  <2>5. g = [s \in SUBSET DOMAIN seq |-> IF s = {} THEN base ELSE F[<<g[s \ {Max(s)}], seq[Max(s)]>>]]
    BY <2>1 DEF FoldEq
  <2> QED BY <2>4, <2>5, Zenon
<1>4. Eq(iter)
  BY <1>3, Zenon
<1>5. iter[DOMAIN seq] = Lined(table, way, base, seq)
  BY Zenon DEF FoldLeft, MapThenFoldSet, Lined, LineStep
<1> HIDE DEF iter, F
<1>6. h[0] = base /\ \A i \in 1 .. n : h[i] = LineStep(table, way, h[i - 1], seq[i])
  <2>1. h[0] = base
    BY <1>4, FirstOnes
  <2>2. ASSUME NEW i \in 1 .. n PROVE h[i] = LineStep(table, way, h[i - 1], seq[i])
    <3>1. /\ Max(1 .. i) = i /\ 1 .. i \in SUBSET DOMAIN seq /\ 1 .. i # {} /\ (1 .. i) \ {i} = 1 .. i - 1
          /\ i \in 0 .. n /\ i - 1 \in 0 .. n
      BY FirstOnes
    <3>2. iter[1 .. i] = LineStep(table, way, iter[1 .. i - 1], seq[i])
      BY <1>4, <3>1
    <3>3. h[i] = iter[1 .. i] /\ h[i - 1] = iter[1 .. i - 1]
      BY <3>1
    <3> QED BY <3>2, <3>3
  <2> QED BY <2>1, <2>2
<1>7. h[n] = iter[DOMAIN seq]
  OBVIOUS
<1> DEFINE Good == {i \in 0 .. n : h[i] \in D}
<1>8. \A i \in 0 .. n : i \in Good
  <2>1. 0 \in Good
    BY <1>6
  <2>2. ASSUME NEW i \in 0 .. n - 1, i \in Good PROVE i + 1 \in Good
    <3>1. i + 1 \in 1 .. n /\ (i + 1) - 1 = i /\ i + 1 \in 0 .. n
      OBVIOUS
    <3>2. h[i + 1] = LineStep(table, way, h[i], seq[i + 1]) /\ seq[i + 1] \in T /\ h[i] \in D
      BY <1>6, <2>2, <3>1
    <3> QED BY <3>1, <3>2
  <2> HIDE DEF Good
  <2> QED BY <2>1, <2>2, UpTo
<1>9. h \in [0 .. n -> D]
  BY <1>8
<1> HIDE DEF h
<1>10. LineRun(table, way, base, n, seq, D, h)
  BY <1>5, <1>6, <1>7, <1>9 DEF LineRun
<1> QED BY <1>10

LEMMA JoinedTyped ==
    ASSUME NEW table, TableOk(table), NEW way, WayOk(table, way)
    PROVE  Joined(table, way) \in Seq(Int)
<1> DEFINE n == Len(way) - 1
           seq == [i \in 1 .. n |-> i]
           D == Seq(Int)
           T == 1 .. n
           ln(i) == table[<<way[i], way[i + 1]>>].line
           J == IF \E i \in 1 .. n : ln(i) = <<>> THEN <<>> ELSE Lined(table, way, <<>>, seq)
<1>1. Joined(table, way) = J
  BY Zenon DEF Joined, Lined, LineStep
<1>2. \A i \in T : ln(i) \in Seq(Int)
  <2> SUFFICES ASSUME NEW i \in T PROVE ln(i) \in Seq(Int)
    OBVIOUS
  <2>1. <<way[i], way[i + 1]>> \in DOMAIN table
    BY DEF WayOk
  <2> DEFINE p == <<way[i], way[i + 1]>>
  <2> HIDE DEF p
  <2>2. table[p] \in Times
    BY <2>1 DEF TableOk, p
  <2>3. table[p].line \in Seq(Int)
    BY <2>2 DEF Times
  <2> QED BY <2>3 DEF p
<1>3. <<>> \in D
  OBVIOUS
<1>4. CASE n \in Nat /\ \A i \in 1 .. n : ln(i) # <<>>
  <2>1. ASSUME NEW d \in D, NEW i \in T PROVE LineStep(table, way, d, i) \in D
    <3> DEFINE l == ln(i)
    <3>1. l \in Seq(Int) /\ l # <<>> /\ LineStep(table, way, d, i) = d \o (IF d = <<>> THEN l ELSE Tail(l))
      BY <1>2, <1>4 DEF LineStep
    <3> HIDE DEF l
    <3>2. Tail(l) \in Seq(Int)
      BY <3>1
    <3> QED BY <3>1, <3>2
  <2>2. DOMAIN seq = 1 .. n /\ \A i \in 1 .. n : seq[i] \in T
    OBVIOUS
  <2> HIDE DEF D, T, n, ln
  <2>3. LineInput(table, way, <<>>, n, seq, D, T)
    <3> HIDE DEF seq
    <3> QED BY <1>3, <1>4, <2>1, <2>2 DEF LineInput
  <2>4. PICK h : LineRun(table, way, <<>>, n, seq, D, h)
    <3> HIDE DEF seq
    <3> QED BY <2>3, LineFold
  <2>5. Lined(table, way, <<>>, seq) \in D
    <3> HIDE DEF seq
    <3>1. n \in 0 .. n
      BY <1>4
    <3> QED BY <2>4, <3>1 DEF LineRun
  <2> QED BY <1>1, <1>3, <2>5 DEF D
<1>5. CASE \E i \in 1 .. n : ln(i) = <<>>
  <2>1. J = <<>>
    BY <1>5, Zenon
  <2> QED BY <1>1, <1>3, <2>1
<1>6. n \in Nat \/ n = 0 - 1
  BY DEF WayOk
<1>7. CASE n = 0 - 1
  <2>1. seq = <<>> /\ 1 .. n = {}
    BY <1>7
  <2>2. LineInput(table, way, <<>>, 0, <<>>, D, {})
    BY DEF LineInput
  <2> HIDE DEF D
  <2>3. PICK h : LineRun(table, way, <<>>, 0, <<>>, D, h)
    BY <2>2, LineFold
  <2>4. Lined(table, way, <<>>, <<>>) \in D
    BY <2>3 DEF LineRun
  <2> QED BY <1>1, <1>3, <2>1, <2>4 DEF D
<1> HIDE DEF n
<1> QED BY <1>4, <1>5, <1>6, <1>7

LEMMA ReachedOk ==
    ASSUME NEW graph, TableOk(graph), NEW src \in Int
    PROVE  TableOk(Reached(graph, src, Pass(graph, src)))
<1> DEFINE w == Pass(graph, src)
           P == {<<src, t>> : t \in DOMAIN w.best \ {src}}
           R == [p \in P |-> [s |-> w.best[p[2]], line |-> Joined(graph, Way(w, src, p[2]))]]
<1>1. Reached(graph, src, w) = R
  BY Zenon DEF Reached
<1>2. PassOk(graph, src, w)
  BY PassFacts
<1> HIDE DEF w
<1>3. /\ DOMAIN w.best \in SUBSET Int /\ IsFiniteSet(DOMAIN w.best)
      /\ \A n \in DOMAIN w.best : w.best[n] \in Nat
      /\ \A n \in DOMAIN w.best \ {src} : w.pred[n] \in DOMAIN w.best /\ w.best[w.pred[n]] < w.best[n]
  BY <1>2 DEF PassOk
<1>4. P \in SUBSET (Int \X Int)
  BY <1>3
<1>5. IsFiniteSet(P)
  <2> DEFINE S == DOMAIN w.best \ {src}
             f == [t \in S |-> <<src, t>>]
  <2>1. P = {f[t] : t \in S}
    OBVIOUS
  <2>2. IsFiniteSet(S)
    BY <1>3, FS_Subset
  <2> HIDE DEF f, P, S
  <2> QED BY <2>1, <2>2, ImageFinite
<1>6. ASSUME NEW p \in P PROVE R[p] \in Times
  <2>1. PICK t \in DOMAIN w.best \ {src} : p = <<src, t>>
    OBVIOUS
  <2>2. w.best[t] \in Nat \ {0}
    BY <1>3
  <2>3. WayOk(graph, Way(w, src, t))
    BY <1>2, WayFacts
  <2>4. Joined(graph, Way(w, src, t)) \in Seq(Int)
    BY <2>3, JoinedTyped
  <2>5. R[p] = [s |-> w.best[t], line |-> Joined(graph, Way(w, src, t))]
    BY <2>1
  <2> HIDE DEF R
  <2> QED BY <2>2, <2>4, <2>5 DEF Times
<1>7. DOMAIN R = P /\ R = [p \in P |-> R[p]]
  OBVIOUS
<1> HIDE DEF R, P
<1> QED BY <1>1, <1>4, <1>5, <1>6, <1>7 DEF TableOk, w

\* A table put together of two.
LEMMA MixedOk ==
    ASSUME NEW T, NEW U, TableOk(T), TableOk(U), NEW R,
           R = [p \in DOMAIN T \cup DOMAIN U |-> R[p]],
           \A p \in DOMAIN T \cup DOMAIN U : (p \in DOMAIN T /\ R[p] = T[p]) \/ (p \in DOMAIN U /\ R[p] = U[p])
    PROVE  TableOk(R) /\ DOMAIN R = DOMAIN T \cup DOMAIN U
<1> DEFINE D == DOMAIN T \cup DOMAIN U
<1>1. IsFiniteSet(D)
  BY FS_Union DEF TableOk
<1>2. D \in SUBSET (Int \X Int)
  BY DEF TableOk
<1>3. \A p \in D : R[p] \in Times
  BY DEF TableOk
<1>4. DOMAIN R = D
  OBVIOUS
<1> HIDE DEF D
<1> QED BY <1>1, <1>2, <1>3, <1>4 DEF TableOk, D

LEMMA FastestOk ==
    ASSUME NEW T, NEW U, TableOk(T), TableOk(U)
    PROVE  TableOk(Fastest(T, U))
<1> DEFINE R == Fastest(T, U)
<1>1. R = [p \in DOMAIN T \cup DOMAIN U |-> IF p \in DOMAIN U /\ Faster(T, p, U[p].s) THEN U[p] ELSE T[p]]
  BY DEF Fastest
<1> HIDE DEF R
<1>2. ASSUME NEW p \in DOMAIN T \cup DOMAIN U
      PROVE  (p \in DOMAIN T /\ R[p] = T[p]) \/ (p \in DOMAIN U /\ R[p] = U[p])
  BY <1>1 DEF Faster
<1>3. R = [p \in DOMAIN T \cup DOMAIN U |-> R[p]]
  BY <1>1
<1>4. TableOk(R)
  BY <1>2, <1>3, MixedOk
<1> QED BY <1>4 DEF R

LEMMA OverOk ==
    ASSUME NEW T, NEW U, TableOk(T), TableOk(U)
    PROVE  TableOk(Over(T, U))
<1> DEFINE R == Over(T, U)
<1>1. R = [p \in DOMAIN T \cup DOMAIN U |-> IF p \in DOMAIN T THEN T[p] ELSE U[p]]
  BY DEF Over
<1> HIDE DEF R
<1>2. ASSUME NEW p \in DOMAIN T \cup DOMAIN U
      PROVE  (p \in DOMAIN T /\ R[p] = T[p]) \/ (p \in DOMAIN U /\ R[p] = U[p])
  BY <1>1
<1>3. R = [p \in DOMAIN T \cup DOMAIN U |-> R[p]]
  BY <1>1
<1>4. TableOk(R)
  BY <1>2, <1>3, MixedOk
<1> QED BY <1>4 DEF R

LEMMA PutOk ==
    ASSUME NEW T, TableOk(T), NEW p \in Int \X Int, NEW v \in Times
    PROVE  TableOk(Put(T, p, v))
<1> DEFINE R == Put(T, p, v)
<1>1. R = [x \in DOMAIN T \cup {p} |-> IF x = p THEN v ELSE T[x]]
  BY DEF Put
<1> HIDE DEF R
<1>2. IsFiniteSet(DOMAIN T \cup {p})
  BY FS_AddElement DEF TableOk
<1>3. DOMAIN R = DOMAIN T \cup {p} /\ R = [x \in DOMAIN R |-> R[x]]
  BY <1>1
<1>4. \A x \in DOMAIN T : T[x] \in Times /\ x \in Int \X Int
  BY DEF TableOk
<1>5. \A x \in DOMAIN R : R[x] \in Times /\ x \in Int \X Int
  BY <1>1, <1>3, <1>4
<1>6. TableOk(R)
  BY <1>2, <1>3, <1>5 DEF TableOk
<1> QED BY <1>6 DEF R

\* Tables by mode.
TablesOk(F) == F = [m \in DOMAIN F |-> F[m]] /\ \A m \in DOMAIN F : TableOk(F[m])

LEMMA PutTables ==
    ASSUME NEW F, TablesOk(F), NEW m, NEW T, TableOk(T)
    PROVE  TablesOk(Put(F, m, T)) /\ DOMAIN Put(F, m, T) = DOMAIN F \cup {m}
<1> DEFINE R == Put(F, m, T)
<1>1. R = [x \in DOMAIN F \cup {m} |-> IF x = m THEN T ELSE F[x]]
  BY DEF Put
<1> HIDE DEF R
<1>2. DOMAIN R = DOMAIN F \cup {m} /\ R = [x \in DOMAIN R |-> R[x]]
  BY <1>1
<1>3. \A x \in DOMAIN F \cup {m} : TableOk(R[x])
  <2> SUFFICES ASSUME NEW x \in DOMAIN F \cup {m} PROVE TableOk(R[x])
    OBVIOUS
  <2>1. R[x] = T \/ (x \in DOMAIN F /\ R[x] = F[x])
    BY <1>1
  <2> QED BY <2>1 DEF TablesOk
<1> QED BY <1>2, <1>3 DEF TablesOk, R

LEMMA MergedOk ==
    ASSUME TablesOk(direct), NEW m
    PROVE  TableOk(Merged(m))
<1> DEFINE T == Table("any")
           U == Table(m)
           R == Merged(m)
<1>1. TableOk(T) /\ TableOk(U)
  BY NoTableOk DEF Table, TablesOk
<1>2. R = [p \in DOMAIN T \cup DOMAIN U |-> IF p \in DOMAIN U /\ Faster(T, p, U[p].s) THEN U[p] ELSE T[p]]
  BY DEF Merged
<1> HIDE DEF R, T, U
<1>3. ASSUME NEW p \in DOMAIN T \cup DOMAIN U
      PROVE  (p \in DOMAIN T /\ R[p] = T[p]) \/ (p \in DOMAIN U /\ R[p] = U[p])
  BY <1>2 DEF Faster
<1>4. R = [p \in DOMAIN T \cup DOMAIN U |-> R[p]]
  BY <1>2
<1>5. TableOk(R)
  BY <1>1, <1>3, <1>4, MixedOk
<1> QED BY <1>5 DEF R

LEMMA EndsFacts ==
    ASSUME NEW T, TableOk(T)
    PROVE  Ends(T) \in SUBSET Int /\ IsFiniteSet(Ends(T))
<1> DEFINE f == [p \in DOMAIN T |-> p[1]]
           g == [p \in DOMAIN T |-> p[2]]
           A == {f[p] : p \in DOMAIN T}
           B == {g[p] : p \in DOMAIN T}
<1>1. IsFiniteSet(DOMAIN T) /\ DOMAIN T \in SUBSET (Int \X Int)
  BY DEF TableOk
<1>2. IsFiniteSet(A) /\ IsFiniteSet(B)
  <2> HIDE DEF f, g
  <2> QED BY <1>1, ImageFinite
<1>3. Ends(T) \subseteq A \cup B
  BY DEF Ends
<1>4. IsFiniteSet(A \cup B)
  BY <1>2, FS_Union
<1>5. Ends(T) \in SUBSET Int
  BY <1>1 DEF Ends
<1> HIDE DEF A, B
<1> QED BY <1>3, <1>4, <1>5, FS_Subset

FastStep(T, acc, x) == Fastest(acc, T[x])
\* One network after the other.
Overlaid(tables, base, seq) == FoldLeft(LAMBDA acc, x : Fastest(acc, tables[x]), base, seq)
FastInput(tables, base, n, seq, D, T) ==
    /\ n \in Nat /\ DOMAIN seq = 1 .. n /\ base \in D /\ \A i \in 1 .. n : seq[i] \in T
    /\ \A d \in D, x \in T : FastStep(tables, d, x) \in D
FastRun(tables, base, n, seq, D, h) ==
    /\ h \in [0 .. n -> D] /\ h[0] = base
    /\ \A i \in 1 .. n : h[i] = FastStep(tables, h[i - 1], seq[i])
    /\ h[n] = Overlaid(tables, base, seq)
LEMMA FastFold ==
    ASSUME NEW tables, NEW base, NEW n, NEW seq, NEW D, NEW T, FastInput(tables, base, n, seq, D, T)
    PROVE  \E h : FastRun(tables, base, n, seq, D, h)
<1> DEFINE F == [p \in D \X T |-> FastStep(tables, p[1], p[2])]
           Eq(g) == g = [s \in SUBSET DOMAIN seq |->
                            IF s = {} THEN base ELSE FastStep(tables, g[s \ {Max(s)}], seq[Max(s)])]
           iter == CHOOSE g : Eq(g)
           h == [i \in 0 .. n |-> iter[1 .. i]]
<1> USE DEF FastInput
<1>1. IsFiniteSet(DOMAIN seq) /\ DOMAIN seq \in SUBSET Int
  BY FirstOnes
<1>2. \A d \in D, x \in T : F[<<d, x>>] = FastStep(tables, d, x) /\ F[<<d, x>>] \in D
  OBVIOUS
<1>3. \E g : Eq(g)
  <2> HIDE DEF F
  <2>1. PICK g : FoldEq(g, F, base, seq)
    BY <1>1, FoldExists
  <2>2. \A s \in SUBSET DOMAIN seq : g[s] \in D
    BY <1>1, <1>2, <2>1, FoldTyped
  <2>3. \A s \in SUBSET DOMAIN seq : s # {} => Max(s) \in s /\ s \ {Max(s)} \in SUBSET DOMAIN seq
    BY <1>1, FS_Subset, MaxIs
  <2>4. ASSUME NEW s \in SUBSET DOMAIN seq
        PROVE  (IF s = {} THEN base ELSE F[<<g[s \ {Max(s)}], seq[Max(s)]>>])
               = (IF s = {} THEN base ELSE FastStep(tables, g[s \ {Max(s)}], seq[Max(s)]))
    <3>1. CASE s # {}
      <4>1. g[s \ {Max(s)}] \in D /\ seq[Max(s)] \in T
        BY <2>2, <2>3, <3>1
      <4> QED BY <1>2, <3>1, <4>1
    <3> QED BY <3>1
  <2>5. g = [s \in SUBSET DOMAIN seq |-> IF s = {} THEN base ELSE F[<<g[s \ {Max(s)}], seq[Max(s)]>>]]
    BY <2>1 DEF FoldEq
  <2> QED BY <2>4, <2>5, Zenon
<1>4. Eq(iter)
  BY <1>3, Zenon
<1>5. iter[DOMAIN seq] = Overlaid(tables, base, seq)
  BY Zenon DEF FoldLeft, MapThenFoldSet, Overlaid, FastStep
<1> HIDE DEF iter, F
<1>6. h[0] = base /\ \A i \in 1 .. n : h[i] = FastStep(tables, h[i - 1], seq[i])
  <2>1. h[0] = base
    BY <1>4, FirstOnes
  <2>2. ASSUME NEW i \in 1 .. n PROVE h[i] = FastStep(tables, h[i - 1], seq[i])
    <3>1. /\ Max(1 .. i) = i /\ 1 .. i \in SUBSET DOMAIN seq /\ 1 .. i # {} /\ (1 .. i) \ {i} = 1 .. i - 1
          /\ i \in 0 .. n /\ i - 1 \in 0 .. n
      BY FirstOnes
    <3>2. iter[1 .. i] = FastStep(tables, iter[1 .. i - 1], seq[i])
      BY <1>4, <3>1
    <3>3. h[i] = iter[1 .. i] /\ h[i - 1] = iter[1 .. i - 1]
      BY <3>1
    <3> QED BY <3>2, <3>3
  <2> QED BY <2>1, <2>2
<1>7. h[n] = iter[DOMAIN seq]
  OBVIOUS
<1> DEFINE Good == {i \in 0 .. n : h[i] \in D}
<1>8. \A i \in 0 .. n : i \in Good
  <2>1. 0 \in Good
    BY <1>6
  <2>2. ASSUME NEW i \in 0 .. n - 1, i \in Good PROVE i + 1 \in Good
    <3>1. i + 1 \in 1 .. n /\ (i + 1) - 1 = i /\ i + 1 \in 0 .. n
      OBVIOUS
    <3>2. h[i + 1] = FastStep(tables, h[i], seq[i + 1]) /\ seq[i + 1] \in T /\ h[i] \in D
      BY <1>6, <2>2, <3>1
    <3> QED BY <3>1, <3>2
  <2> HIDE DEF Good
  <2> QED BY <2>1, <2>2, UpTo
<1>9. h \in [0 .. n -> D]
  BY <1>8
<1> HIDE DEF h
<1>10. FastRun(tables, base, n, seq, D, h)
  BY <1>5, <1>6, <1>7, <1>9 DEF FastRun
<1> QED BY <1>10

LEMMA OverlaidOk ==
    ASSUME NEW tables, NEW M, \A m \in M : TableOk(tables[m]), NEW order \in Seq(M)
    PROVE  TableOk(Overlaid(tables, NoTable, order))
<1> DEFINE D == {T \in UNION {[S -> Times] : S \in SUBSET (Int \X Int)} : TableOk(T)}
           n == Len(order)
<1>1. \A T : TableOk(T) => T \in D
  <2> SUFFICES ASSUME NEW T, TableOk(T) PROVE T \in UNION {[S -> Times] : S \in SUBSET (Int \X Int)}
    OBVIOUS
  <2>1. T \in [DOMAIN T -> Times] /\ DOMAIN T \in SUBSET (Int \X Int)
    BY DEF TableOk
  <2> QED BY <2>1
<1>2. NoTable \in D
  BY <1>1, NoTableOk
<1>3. \A T \in D, m \in M : FastStep(tables, T, m) \in D
  <2> SUFFICES ASSUME NEW T \in D, NEW m \in M PROVE FastStep(tables, T, m) \in D
    OBVIOUS
  <2>1. TableOk(Fastest(T, tables[m]))
    BY FastestOk
  <2> HIDE DEF D
  <2> QED BY <1>1, <2>1 DEF FastStep
<1>4. n \in Nat /\ DOMAIN order = 1 .. n /\ \A i \in 1 .. n : order[i] \in M
  OBVIOUS
<1> HIDE DEF D, n
<1>5. FastInput(tables, NoTable, n, order, D, M)
  BY <1>2, <1>3, <1>4 DEF FastInput
<1>6. PICK h : FastRun(tables, NoTable, n, order, D, h)
  BY <1>5, FastFold
<1>7. Overlaid(tables, NoTable, order) \in D
  <2>1. n \in 0 .. n
    BY <1>4
  <2> QED BY <1>6, <2>1 DEF FastRun
<1> QED BY <1>7 DEF D

-----------------------------------------------------------------------------
(* What is always true of the network *)

Rows(ls) == ls \in Seq(ToSet(ls)) /\ \A l \in ToSet(ls) : LinkRow(l)
Modes(ls) == Appearing(<<"any">>, ls)

NetInv ==
    /\ Rows(links) /\ row \in 0 .. Len(links)
    /\ TablesOk(direct) /\ TablesOk(nets) /\ TableOk(composed)
    /\ todo # None => /\ todo \in Seq(ToSet(Modes(links)))
                      /\ ToSet(Modes(links)) \subseteq ToSet(todo) \cup DOMAIN nets
    /\ sources # None => todo # None /\ todo # <<>> /\ sources \in SUBSET Int /\ IsFiniteSet(sources)
    /\ aggregate # None => TableOk(aggregate) /\ todo = <<>>

LEMMA ModesFacts ==
    ASSUME Rows(links)
    PROVE  NetworkOrder = Modes(links) /\ "any" \in ToSet(Modes(links)) /\ Modes(links) \in Seq(ToSet(Modes(links)))
<1>1. NetworkOrder = Modes(links)
  BY Zenon DEF NetworkOrder, Modes, Appearing, ModeStep
<1>2. links \in Seq(ToSet(links))
  BY DEF Rows
<1> DEFINE M == {"any"} \cup {l.mode : l \in ToSet(links)}
<1>3. "any" \in ToSet(NetworkOrder) /\ NetworkOrder \in Seq(M)
  BY <1>2, NetworkOrderFacts
<1> HIDE DEF M
<1>4. \A s : s \in Seq(M) => s \in Seq(ToSet(s))
  BY DEF ToSet
<1> QED BY <1>1, <1>3, <1>4

LEMMA PolylinesTyped ==
    ASSUME NEW l, LinkRow(l), l.s > 0
    PROVE  Leg(l) \in Times
BY PolylineTyped DEF Leg, Times, LinkRow

LEMMA NetInvInit ==
    ASSUME NetworkInit, Rows(links)
    PROVE  NetInv
<1>1. TablesOk(NoTable)
  BY DEF TablesOk, NoTable
<1>2. Len(links) \in Nat
  BY DEF Rows
<1> QED BY <1>1, <1>2, NoTableOk DEF NetInv, NetworkInit

LEMMA NoneLeft == ToSet(<<>>) = {}
BY DEF ToSet

LEMMA NetInvStep ==
    ASSUME NetInv, NetworkStep
    PROVE  NetInv'
<1> DEFINE M == ToSet(Modes(links))
<1>0. None # <<>> /\ None # {}
  BY NoneAssumption
<1>1. CASE ReadLink
  <2> DEFINE link == links[row + 1]
             pair == <<link.from, link.to>>
  <2>1. link \in ToSet(links) /\ row + 1 \in 0 .. Len(links)
    BY <1>1 DEF ReadLink, NetInv, Rows, ToSet
  <2>2. LinkRow(link)
    BY <2>1 DEF NetInv, Rows
  <2> HIDE DEF link
  <2>3. pair \in Int \X Int
    BY <2>2 DEF LinkRow
  <2>4. TableOk(Table(link.mode))
    BY NoTableOk DEF Table, NetInv, TablesOk
  <2>5. link.s > 0 => TablesOk(Put(direct, link.mode, Put(Table(link.mode), pair, Leg(link))))
    <3> SUFFICES ASSUME link.s > 0 PROVE TablesOk(Put(direct, link.mode, Put(Table(link.mode), pair, Leg(link))))
      OBVIOUS
    <3>1. Leg(link) \in Times
      BY <2>2, PolylinesTyped
    <3>2. TableOk(Put(Table(link.mode), pair, Leg(link)))
      BY <2>3, <2>4, <3>1, PutOk
    <3>3. TablesOk(direct)
      BY DEF NetInv
    <3> QED BY <3>2, <3>3, PutTables
  <2>6. direct' = IF link.s > 0 /\ Faster(Table(link.mode), pair, link.s)
                  THEN Put(direct, link.mode, Put(Table(link.mode), pair, Leg(link))) ELSE direct
    BY <1>1 DEF ReadLink, link
  <2>7. TablesOk(direct')
    BY <2>5, <2>6 DEF NetInv
  <2>8. row' \in 0 .. Len(links)
    BY <1>1, <2>1 DEF ReadLink
  <2> QED BY <1>1, <2>7, <2>8 DEF ReadLink, NetInv, work
<1>2. CASE EndRows
  <2>1. todo' = Modes(links) /\ todo' \in Seq(M) /\ M \subseteq ToSet(todo')
    BY <1>2, ModesFacts DEF EndRows, NetInv
  <2>2. sources = None /\ aggregate = None
    BY <1>0, <1>2 DEF EndRows, NetInv
  <2> HIDE DEF M
  <2>3. UNCHANGED <<links, row, direct, sources, composed, nets, aggregate>>
    BY <1>2 DEF EndRows, work
  <2> QED BY <2>1, <2>2, <2>3 DEF NetInv, M
<1>3. ASSUME NEW T, TableOk(T), Finished(T), Composing,
             UNCHANGED <<links, row, direct, aggregate>>, TableOk(composed'), sources' = None
      PROVE  NetInv'
  <2>1. todo \in Seq(M) /\ todo # <<>> /\ M \subseteq ToSet(todo) \cup DOMAIN nets /\ TablesOk(nets)
    BY <1>3 DEF Composing, NetInv
  <2>2. todo' = Tail(todo) /\ nets' = Put(nets, Head(todo), T)
    BY <1>3 DEF Finished
  <2>3. TablesOk(nets') /\ DOMAIN nets' = DOMAIN nets \cup {Head(todo)}
    BY <1>3, <2>1, <2>2, PutTables
  <2> HIDE DEF M
  <2>4. todo' \in Seq(M) /\ ToSet(todo) \subseteq ToSet(todo') \cup {Head(todo)}
    <3>1. todo' \in Seq(M)
      BY <2>1, <2>2
    <3>2. ASSUME NEW i \in DOMAIN todo PROVE todo[i] \in ToSet(todo') \cup {Head(todo)}
      <4>1. CASE i = 1
        BY <2>1, <4>1
      <4>2. CASE i # 1
        <5>1. i - 1 \in DOMAIN Tail(todo) /\ Tail(todo)[i - 1] = todo[i]
          BY <2>1, <4>2
        <5> QED BY <2>2, <5>1 DEF ToSet
      <4> QED BY <4>1, <4>2
    <3> QED BY <3>1, <3>2 DEF ToSet
  <2>5. aggregate' = None
    BY <1>3, <2>1 DEF NetInv
  <2>6. M \subseteq ToSet(todo') \cup DOMAIN nets'
    BY <2>1, <2>3, <2>4
  <2> QED BY <1>3, <2>3, <2>4, <2>5, <2>6 DEF NetInv, M
<1>4. TableOk(Graph)
  BY MergedOk DEF Graph, NetInv
<1>5. CASE TakeDirect
  <2>1. /\ Finished(Graph) /\ Composing /\ UNCHANGED <<links, row, direct, aggregate>>
        /\ composed' = composed /\ sources' = sources /\ sources = None
    BY <1>5 DEF TakeDirect, work
  <2>2. TableOk(composed') /\ sources' = None
    BY <2>1 DEF NetInv
  <2> QED BY <1>3, <1>4, <2>1, <2>2
<1>6. CASE Compose
  <2>1. /\ Composing /\ sources' = Ends(Graph) /\ composed' = NoTable
        /\ UNCHANGED <<links, row, direct, todo, nets, aggregate>>
    BY <1>6 DEF Compose
  <2>2. sources' \in SUBSET Int /\ IsFiniteSet(sources') /\ TableOk(composed')
    BY <1>4, <2>1, EndsFacts, NoTableOk
  <2> QED BY <2>1, <2>2 DEF NetInv, Composing
<1>7. CASE ExploreSource
  <2> DEFINE source == Min(sources)
  <2>1. /\ sources # None /\ sources # {} /\ sources \in SUBSET Int /\ IsFiniteSet(sources)
        /\ composed' = Over(Reached(Graph, source, Pass(Graph, source)), composed)
        /\ sources' = sources \ {source} /\ UNCHANGED <<links, row, direct, todo, nets, aggregate>>
        /\ TableOk(composed)
    BY <1>7 DEF ExploreSource, NetInv
  <2>2. source \in Int
    BY <2>1, MinIs
  <2> HIDE DEF source
  <2>3. TableOk(Reached(Graph, source, Pass(Graph, source)))
    BY <1>4, <2>2, ReachedOk
  <2>4. TableOk(composed')
    BY <2>1, <2>3, OverOk
  <2>5. sources' \in SUBSET Int /\ IsFiniteSet(sources')
    BY <2>1, FS_Subset
  <2> QED BY <2>1, <2>4, <2>5 DEF NetInv
<1>8. CASE CloseNetwork
  <2>1. /\ sources = {} /\ Finished(composed) /\ sources' = None /\ UNCHANGED <<links, row, direct, aggregate>>
        /\ composed' = composed
    BY <1>8 DEF CloseNetwork
  <2>2. Composing /\ TableOk(composed)
    BY <1>0, <2>1 DEF NetInv, Composing
  <2> QED BY <1>3, <2>1, <2>2
<1>9. CASE Aggregate
  <2>1. /\ todo = <<>> /\ UNCHANGED <<links, row, direct, todo, work, nets>>
        /\ aggregate' = FoldLeft(LAMBDA acc, m : Fastest(acc, nets[m]), NoTable, NetworkOrder)
    BY <1>9 DEF Aggregate
  <2>2. aggregate' = Overlaid(nets, NoTable, NetworkOrder)
    BY <2>1, Zenon DEF Overlaid, FastStep
  <2>3. Modes(links) \in Seq(M) /\ NetworkOrder = Modes(links)
    BY ModesFacts DEF NetInv
  <2>4. \A m \in M : TableOk(nets[m])
    <3>1. ToSet(todo) = {}
      BY <2>1, NoneLeft
    <3>2. M \subseteq DOMAIN nets
      BY <1>0, <2>1, <3>1 DEF NetInv
    <3> QED BY <3>2 DEF NetInv, TablesOk
  <2> HIDE DEF M
  <2>5. TableOk(Overlaid(nets, NoTable, Modes(links)))
    BY <2>3, <2>4, OverlaidOk
  <2>6. TableOk(aggregate') /\ todo' = <<>>
    BY <2>1, <2>2, <2>3, <2>5
  <2> QED BY <2>1, <2>6 DEF NetInv, work
<1> QED BY <1>1, <1>2, <1>5, <1>6, <1>7, <1>8, <1>9 DEF NetworkStep

LEMMA NetInvSame ==
    ASSUME NetInv, UNCHANGED networkVars
    PROVE  NetInv'
BY DEF NetInv, networkVars, work

-----------------------------------------------------------------------------
(* Asking the network *)

LEMMA RoutesTyped ==
    ASSUME NetInv, NetworkReady, NEW mode, NEW a, NEW b
    PROVE  \A r \in NetworkRoute(mode, a, b) : r \in Times
<1>1. TableOk(aggregate) /\ "any" \in DOMAIN nets /\ TablesOk(nets)
  <2>1. todo = <<>> /\ TableOk(aggregate)
    BY DEF NetInv, NetworkReady
  <2>2. ToSet(todo) = {} /\ todo # None
    BY <2>1, NoneAssumption, NoneLeft
  <2> QED BY <2>1, <2>2, ModesFacts DEF NetInv
<1>2. \A i \in DOMAIN Asked(mode) : TableOk(Asked(mode)[i]) /\ DOMAIN Asked(mode) \in SUBSET Int
      /\ IsFiniteSet(DOMAIN Asked(mode))
  <2> DEFINE A == IF mode \in DOMAIN nets THEN nets[mode] ELSE NoTable
  <2>1. TableOk(A) /\ TableOk(nets["any"])
    BY <1>1, NoTableOk DEF TablesOk
  <2> HIDE DEF A
  <2>2. CASE mode = "any"
    <3>1. DOMAIN Asked(mode) = 1 .. 1 /\ Asked(mode)[1] = aggregate
      BY <2>2 DEF Asked
    <3>2. IsFiniteSet(1 .. 1)
      BY FirstOnes
    <3> QED BY <1>1, <3>1, <3>2
  <2>3. CASE mode # "any"
    <3>1. DOMAIN Asked(mode) = 1 .. 2 /\ Asked(mode)[1] = A /\ Asked(mode)[2] = nets["any"]
      BY <2>3 DEF Asked, A
    <3>2. IsFiniteSet(1 .. 2)
      BY FirstOnes
    <3> QED BY <2>1, <3>1, <3>2
  <2> QED BY <2>2, <2>3
<1>3. ASSUME NEW p, NEW r \in Answers(mode, p) PROVE r \in Times
  <2> DEFINE asked == Asked(mode)
             known == {i \in DOMAIN asked : p \in DOMAIN asked[i]}
             drawn == {i \in known : asked[i][p].line # <<>>}
             v == [s |-> asked[Min(known)][p].s, line |-> IF drawn = {} THEN <<>> ELSE asked[Min(drawn)][p].line]
  <2>1. known # {} /\ r = v
    BY DEF Answers
  <2>2. \A S \in SUBSET known : S # {} => Min(S) \in S
    <3> SUFFICES ASSUME NEW S \in SUBSET known, S # {} PROVE Min(S) \in S
      OBVIOUS
    <3>1. DOMAIN asked \in SUBSET Int /\ IsFiniteSet(DOMAIN asked)
      BY <1>2, <2>1
    <3>2. S \in SUBSET Int /\ IsFiniteSet(S)
      BY <3>1, FS_Subset
    <3> QED BY <3>2, MinIs
  <2>3. \A i \in known : asked[i][p] \in Times
    BY <1>2 DEF TableOk
  <2>4. known \in SUBSET known /\ drawn \in SUBSET known
    OBVIOUS
  <2> HIDE DEF known, drawn, asked
  <2>5. asked[Min(known)][p] \in Times /\ (drawn # {} => asked[Min(drawn)][p] \in Times)
    BY <2>1, <2>2, <2>3, <2>4
  <2>6. v \in Times
    BY <2>5 DEF Times
  <2> QED BY <2>1, <2>6
<1>4. ASSUME NEW r \in Times PROVE [r EXCEPT !.line = Reverse(@)] \in Times
  <2> DEFINE l == r.line
             q == [i \in 1 .. Len(l) |-> l[(Len(l) - i) + 1]]
  <2>1. r = [s |-> r.s, line |-> l] /\ r.s \in Nat \ {0} /\ l \in Seq(Int)
    BY DEF Times
  <2>2. Reverse(l) = q
    BY DEF Reverse
  <2>3. \A i \in 1 .. Len(l) : l[(Len(l) - i) + 1] \in Int
    <3> HIDE DEF l
    <3> SUFFICES ASSUME NEW i \in 1 .. Len(l) PROVE l[(Len(l) - i) + 1] \in Int
      OBVIOUS
    <3>1. (Len(l) - i) + 1 \in 1 .. Len(l)
      BY <2>1
    <3> QED BY <2>1, <3>1
  <2>4. q \in Seq(Int)
    <3> HIDE DEF l
    <3> QED BY <2>1, <2>3
  <2> HIDE DEF q
  <2>5. [r EXCEPT !.line = Reverse(@)] = [s |-> r.s, line |-> q]
    BY <2>1, <2>2
  <2> QED BY <2>1, <2>4, <2>5 DEF Times
<1> QED BY <1>3, <1>4 DEF NetworkRoute

LEMMA TravelTyped ==
    ASSUME NetInv, NetworkReady, NEW mode, NEW a \in Int, NEW b \in Int
    PROVE  TravelSeconds(mode, a, b) \in Int
<1> DEFINE R == NetworkRoute(mode, a, b)
<1>1. \A r \in R : r \in Times
  BY RoutesTyped
<1>2. TravelSeconds(mode, a, b) = IF R = {} THEN Apart(a, b) ELSE (CHOOSE r \in R : TRUE).s
  BY DEF TravelSeconds
<1> HIDE DEF R
<1>3. R # {} => (CHOOSE r \in R : TRUE) \in R
  OBVIOUS
<1>4. R # {} => (CHOOSE r \in R : TRUE).s \in Int
  BY <1>1, <1>3 DEF Times
<1> QED BY <1>2, <1>4 DEF Apart

-----------------------------------------------------------------------------
(* The rows of a solve *)

\* Two solves that differ at most in what was derived from their rows.
SameRows(in, jn) ==
    /\ DOMAIN jn = DOMAIN in
    /\ jn.task = in.task /\ jn.order = in.order /\ jn.known = in.known /\ jn.sites = in.sites /\ jn.size = in.size
    /\ jn.vehicles = in.vehicles /\ jn.compat = in.compat /\ jn.depotAt = in.depotAt /\ jn.depots = in.depots
    /\ jn.score = in.score /\ jn.ops = in.ops /\ jn.capacity = in.capacity /\ jn.aggregate = in.aggregate
    /\ jn.held = in.held /\ jn.certified = in.certified /\ jn.base = in.base
    /\ jn.taskOperator = in.taskOperator /\ jn.polygons = in.polygons /\ jn.lns = in.lns /\ jn.expand = in.expand
    /\ jn.links = in.links /\ jn.mode = in.mode /\ jn.opMode = in.opMode

LEMMA RowsKept ==
    ASSUME NEW in, NEW jn, SameRows(in, jn), RowsOk(in)
    PROVE  RowsOk(jn) /\ ClusterRows(jn) = ClusterRows(in)
<1>1. ClusterRows(jn) = ClusterRows(in)
  BY DEF SameRows, ClusterRows
<1>2. Assets(jn) = Assets(in)
  BY DEF SameRows, Assets
<1>3. \A r : TaskRow(in, r) => TaskRow(jn, r)
  BY DEF SameRows, TaskRow
<1>4. RowsOk(jn)
  BY <1>2, <1>3 DEF SameRows, RowsOk
<1> QED BY <1>1, <1>4

LEMMA RowsLocated ==
    ASSUME NEW in, RowsOk(in), NetInv, NetworkReady
    PROVE  /\ Located(ClusterRows(in)) /\ Penalised(ClusterRows(in)) /\ ClusterRows(in).size \in Nat \ {0}
           /\ Ids(ClusterRows(in)) = Ids(in)
<1> DEFINE jn == ClusterRows(in)
<1>1. /\ jn.task = in.task /\ jn.order = in.order /\ jn.depotAt = in.depotAt /\ jn.size = in.size
  BY DEF ClusterRows
<1> HIDE DEF jn
<1>2. /\ in.order \in Seq(DOMAIN in.task) /\ IsInjective(in.order) /\ None \notin DOMAIN in.task
      /\ (\A t \in DOMAIN in.task : TaskRow(in, in.task[t]))
      /\ in.depotAt \in Seq(ToSet(in.depotAt)) /\ in.depotAt # <<>>
      /\ (\A d \in DOMAIN in.depotAt : in.depotAt[d].at \in Int)
      /\ in.size \in Nat \ {0}
  BY Zenon DEF RowsOk
<1>3. Listed(jn) /\ Ids(jn) = Ids(in)
  BY <1>1, <1>2 DEF Listed, Ids
<1>4. \A t \in Ids(jn) : TaskRow(in, jn.task[t])
  <2>1. Ids(jn) \in SUBSET DOMAIN jn.task
    BY <1>3, ListedFacts
  <2> QED BY <1>1, <1>2, <2>1
<1>5. \A t \in Ids(jn), d \in Depots(jn) : Far(jn, t, d) \in Int
  <2> SUFFICES ASSUME NEW t \in Ids(jn), NEW d \in Depots(jn) PROVE Far(jn, t, d) \in Int
    OBVIOUS
  <2>1. jn.task[t].at \in Int
    BY <1>4 DEF TaskRow
  <2>2. jn.depotAt[d].at \in Int
    BY <1>1, <1>2 DEF Depots
  <2> QED BY <2>1, <2>2, TravelTyped DEF Far
<1>6. Penalised(jn)
  BY <1>4 DEF Penalised, TaskRow
<1>7. Located(jn)
  BY <1>1, <1>2, <1>3, <1>5 DEF Located
<1> QED BY <1>1, <1>2, <1>3, <1>6, <1>7 DEF jn

\* What the rest of the solve is given.
Cut(in) ==
    /\ in.clusters \in Seq(Seq(Ids(in))) /\ Parted(in.clusters)
    /\ in.pairs = [t \in in.known |-> FeasiblePairs(in, t)]
ClustersOk == pc # "cluster" => Cut(inp)
RowsInv == NetInv /\ RowsOk(inp) /\ ClustersOk /\ ClustersWhole

LEMMA ClusteredRows ==
    ASSUME RowsOk(inp), NEW specs
    PROVE  /\ SameRows(inp, Clustered(specs)) /\ Clustered(specs).clusters = TaskLists(specs)
           /\ Clustered(specs).pairs = [t \in inp.known |-> FeasiblePairs(inp, t)]
<1> DEFINE a == [t \in inp.known |-> FeasiblePairs(inp, t)]
           b == [c \in DOMAIN specs |-> specs[c].tasks]
           d == [c \in DOMAIN specs |-> specs[c].depot]
           jn == [inp EXCEPT !.pairs = a, !.clusters = b, !.depot = d]
<1>1. Clustered(specs) = jn
  BY Zenon DEF Clustered
<1>2. "pairs" \in DOMAIN inp /\ "clusters" \in DOMAIN inp
  BY DEF RowsOk
<1> HIDE DEF a, b, d
<1>3. SameRows(inp, jn) /\ jn.clusters = b /\ jn.pairs = a
  BY <1>2 DEF SameRows
<1> HIDE DEF jn
<1> QED BY <1>1, <1>3 DEF TaskLists, a, b

LEMMA RowsInvBuild ==
    ASSUME RowsInv, NetworkReady, BuildClusters, UNCHANGED networkVars
    PROVE  RowsInv'
<1> DEFINE in == ClusterRows(inp)
           specs == ClusterSpecs(in)
<1>1. inp' = Clustered(specs) /\ pc' = "allocate"
  BY DEF BuildClusters
<1>2. RowsOk(inp) /\ NetInv
  BY DEF RowsInv
<1>3. /\ SameRows(inp, inp') /\ inp'.clusters = TaskLists(specs)
      /\ inp'.pairs = [t \in inp.known |-> FeasiblePairs(inp, t)]
  BY <1>1, <1>2, ClusteredRows
<1>4. RowsOk(inp') /\ ClusterRows(inp') = in
  BY <1>2, <1>3, RowsKept
<1>5. Located(in) /\ Penalised(in) /\ in.size \in Nat \ {0} /\ Ids(in) = Ids(inp)
  BY <1>2, RowsLocated
<1>6. inp'.clusters = ClustersOf(in)
  BY <1>3 DEF ClustersOf
<1> HIDE DEF in
<1>7. /\ Partition(in, inp'.clusters) /\ Together(in, inp'.clusters) /\ Sized(in, inp'.clusters)
      /\ inp'.clusters \in Seq(Seq(Ids(in))) /\ Parted(inp'.clusters)
  BY <1>5, <1>6, ClustersSound
<1>8. ClustersWhole'
  BY <1>4, <1>7 DEF ClustersWhole
<1>9. Cut(inp')
  <2>1. inp'.known = inp.known /\ \A t : FeasiblePairs(inp', t) = FeasiblePairs(inp, t)
    BY <1>3 DEF SameRows, FeasiblePairs
  <2>2. inp'.pairs = [t \in inp'.known |-> FeasiblePairs(inp', t)]
    BY <1>3, <2>1
  <2>3. Ids(inp') = Ids(in)
    BY <1>3, <1>5 DEF SameRows, Ids
  <2> QED BY <1>7, <2>2, <2>3 DEF Cut
<1>10. NetInv'
  BY <1>2, NetInvSame
<1> QED BY <1>4, <1>8, <1>9, <1>10 DEF RowsInv, ClustersOk

-----------------------------------------------------------------------------
(* The pairs of a cluster *)

\* The rows, and the clusters and pairs made of them.
Divisible(in) == RowsOk(in) /\ Cut(in)
Clusters(in) == 1 .. Len(in.clusters)

LEMMA KnownFacts ==
    ASSUME NEW in, Divisible(in)
    PROVE  /\ Len(in.clusters) \in Nat /\ in.known \in SUBSET Ids(in) /\ Ids(in) \in SUBSET DOMAIN in.task
           /\ IsFiniteSet(Ids(in)) /\ IsFiniteSet(in.known) /\ None \notin Ids(in)
           /\ \A c \in Clusters(in) : /\ Known(in, c) \in Seq(in.known) /\ IsInjective(Known(in, c))
                                      /\ ToSet(Known(in, c)) = ToSet(in.clusters[c]) \cap in.known
                                      /\ in.clusters[c] \in Seq(Ids(in)) /\ IsInjective(in.clusters[c])
           /\ \A t \in in.known : in.pairs[t] \in SUBSET in.compat
<1>1. /\ in.order \in Seq(DOMAIN in.task) /\ IsInjective(in.order) /\ None \notin DOMAIN in.task
      /\ in.known \subseteq ToSet(in.order)
  BY Zenon DEF Divisible, RowsOk
<1>2. Listed(in)
  BY <1>1 DEF Listed
<1>3. Ids(in) \in SUBSET DOMAIN in.task /\ IsFiniteSet(Ids(in)) /\ None \notin Ids(in)
  BY <1>2, ListedFacts
<1>4. in.known \in SUBSET Ids(in) /\ IsFiniteSet(in.known)
  BY <1>1, <1>3, FS_Subset DEF Ids
<1>5. in.clusters \in Seq(Seq(Ids(in))) /\ Parted(in.clusters) /\ in.pairs = [t \in in.known |-> FeasiblePairs(in, t)]
  BY DEF Divisible, Cut
<1>6. ASSUME NEW c \in Clusters(in)
      PROVE  /\ Known(in, c) \in Seq(in.known) /\ IsInjective(Known(in, c))
             /\ ToSet(Known(in, c)) = ToSet(in.clusters[c]) \cap in.known
             /\ in.clusters[c] \in Seq(Ids(in)) /\ IsInjective(in.clusters[c])
  <2>1. in.clusters[c] \in Seq(Ids(in)) /\ c \in DOMAIN in.clusters
    BY <1>5 DEF Clusters
  <2>2. IsInjective(in.clusters[c])
    BY <1>5, <2>1 DEF Parted
  <2>3. /\ Filtered(in.clusters[c], in.known) \in Seq(in.known)
        /\ ToSet(Filtered(in.clusters[c], in.known)) = ToSet(in.clusters[c]) \cap in.known
        /\ IsInjective(Filtered(in.clusters[c], in.known))
    BY <2>1, <2>2, FilteredFacts
  <2> QED BY <2>1, <2>2, <2>3 DEF Known
<1>7. \A t \in in.known : in.pairs[t] \in SUBSET in.compat
  BY <1>5 DEF FeasiblePairs
<1>8. Len(in.clusters) \in Nat
  BY <1>5
<1> QED BY <1>3, <1>4, <1>6, <1>7, <1>8

\* By a score, then by two numbers that tell the elements apart.
Scored(S, w, a, b) ==
    /\ \A x \in S : w[x] \in Int /\ a[x] \in Int /\ b[x] \in Int
    /\ \A x, y \in S : a[x] = a[y] /\ b[x] = b[y] => x = y
Ranks(R, S, w, a, b) ==
    \A x, y \in S : <<x, y>> \in R <=>
        (w[x] > w[y] \/ (w[x] = w[y] /\ (a[x] < a[y] \/ (a[x] = a[y] /\ b[x] < b[y]))))

LEMMA ScoreOrders ==
    ASSUME NEW S, NEW w, NEW a, NEW b, Scored(S, w, a, b), NEW R, Ranks(R, S, w, a, b)
    PROVE  Orders(R, S)
<1> USE DEF Scored, Ranks
<1>1. \A x \in S : <<x, x>> \notin R
  OBVIOUS
<1>2. ASSUME NEW x \in S, NEW y \in S PROVE x = y \/ <<x, y>> \in R \/ <<y, x>> \in R
  <2>1. w[x] \in Int /\ a[x] \in Int /\ b[x] \in Int /\ w[y] \in Int /\ a[y] \in Int /\ b[y] \in Int
    OBVIOUS
  <2>2. /\ <<x, y>> \in R <=> (w[x] > w[y] \/ (w[x] = w[y] /\ (a[x] < a[y] \/ (a[x] = a[y] /\ b[x] < b[y]))))
        /\ <<y, x>> \in R <=> (w[y] > w[x] \/ (w[y] = w[x] /\ (a[y] < a[x] \/ (a[y] = a[x] /\ b[y] < b[x]))))
    OBVIOUS
  <2>3. a[x] = a[y] /\ b[x] = b[y] => x = y
    OBVIOUS
  <2> QED BY ONLY <2>1, <2>2, <2>3
<1>3. \A x, y, z \in S : <<x, y>> \in R /\ <<y, z>> \in R => <<x, z>> \in R
  OBVIOUS
<1> QED BY <1>1, <1>2, <1>3 DEF Orders

LEMMA ScoreTyped ==
    ASSUME NEW in, Divisible(in), NEW c \in Clusters(in), NEW p \in in.compat
    PROVE  CandidateScore(in, c, p) \in Int
<1> DEFINE S == {t \in ToSet(Known(in, c)) : p \in in.pairs[t]}
           f == [t \in S |-> in.score[t][p]]
<1>1. S \in SUBSET in.known
  <2>1. ToSet(Known(in, c)) = ToSet(in.clusters[c]) \cap in.known
    BY KnownFacts
  <2> QED BY <2>1
<1>2. IsFiniteSet(S) /\ \A t \in S : t \in DOMAIN in.task
  BY <1>1, KnownFacts, FS_Subset
<1>3. \A t \in DOMAIN in.task : in.score[t][p] \in Int
  BY DEF Divisible, RowsOk
<1>4. DOMAIN f = S /\ \A t \in S : f[t] \in Int
  BY <1>2, <1>3
<1> HIDE DEF S
<1>5. Total(f) \in Int
  <2> HIDE DEF f
  <2> QED BY <1>2, <1>4, TotalTyped
<1> QED BY <1>5 DEF CandidateScore, S

BetterPair(in, c, S) ==
    {r \in S \X S : \/ CandidateScore(in, c, r[1]) > CandidateScore(in, c, r[2])
                    \/ CandidateScore(in, c, r[1]) = CandidateScore(in, c, r[2])
                       /\ (r[1][1] < r[2][1] \/ (r[1][1] = r[2][1] /\ r[1][2] < r[2][2]))}

LEMMA ByScoreFacts ==
    ASSUME NEW in, Divisible(in), NEW c \in Clusters(in), NEW S \in SUBSET in.compat
    PROVE  ByScore(in, c, S) \in Seq(S)
<1> DEFINE R == BetterPair(in, c, S)
           w == [p \in S |-> CandidateScore(in, c, p)]
           a == [p \in S |-> p[1]]
           b == [p \in S |-> p[2]]
           Ahead(x) == {y \in S : \/ CandidateScore(in, c, y) > CandidateScore(in, c, x)
                                  \/ CandidateScore(in, c, y) = CandidateScore(in, c, x)
                                     /\ (y[1] < x[1] \/ (y[1] = x[1] /\ y[2] < x[2]))}
           q == [r \in 1 .. Cardinality(S) |-> CHOOSE x \in S : Cardinality(Ahead(x)) = r - 1]
<1>1. q = ByScore(in, c, S)
  BY Zenon DEF ByScore, Sorted
<1>2. in.compat \in SUBSET (Int \X Int) /\ IsFiniteSet(in.compat)
  BY DEF Divisible, RowsOk, Spans
<1>3. IsFiniteSet(S) /\ \A p \in S : p = <<p[1], p[2]>> /\ p[1] \in Int /\ p[2] \in Int
  <2>1. \A p \in S : p \in Int \X Int
    BY <1>2
  <2> QED BY <1>2, <2>1, PairIs, FS_Subset
<1>4. \A p \in S : w[p] \in Int /\ a[p] \in Int /\ b[p] \in Int
  BY <1>3, ScoreTyped
<1>5. \A x, y \in S : a[x] = a[y] /\ b[x] = b[y] => x = y
  BY <1>3
<1>6. Ranks(R, S, w, a, b)
  BY DEF BetterPair, Ranks
<1>7. \A x \in S : Ahead(x) = Before(R, S, x)
  BY DEF Before, BetterPair
<1> HIDE DEF R, w, a, b, Ahead
<1>8. Orders(R, S)
  <2>1. Scored(S, w, a, b)
    BY <1>4, <1>5 DEF Scored
  <2> QED BY <1>6, <2>1, ScoreOrders
<1>9. q = Ranking(R, S)
  <2>1. \A r \in 1 .. Cardinality(S) : \E x \in S : Cardinality(Before(R, S, x)) = r - 1
    BY <1>3, <1>8, RanksExist
  <2>2. ASSUME NEW r \in 1 .. Cardinality(S) PROVE q[r] \in S /\ Cardinality(Ahead(q[r])) = r - 1
    <3>1. \E x \in S : Cardinality(Ahead(x)) = r - 1
      BY <1>7, <2>1
    <3> QED BY <3>1
  <2>3. q = [r \in 1 .. Cardinality(S) |-> q[r]]
    OBVIOUS
  <2> HIDE DEF q
  <2>4. \A r \in 1 .. Cardinality(S) : q[r] \in S /\ Cardinality(Before(R, S, q[r])) = r - 1
    BY <1>7, <2>2
  <2> QED BY <1>3, <1>8, <2>3, <2>4, RankingIs
<1> HIDE DEF q
<1> QED BY <1>1, <1>3, <1>8, <1>9, RankingFacts

-----------------------------------------------------------------------------
(* Which pairs a cluster reserves *)

TakeBest(in, c, S, p) ==
    IF \/ Cardinality(S) >= ResourceLimit(Len(Known(in, c)))
       \/ \E q \in S : q[1] = p[1] \/ q[2] = p[2]
    THEN S ELSE S \cup {p}

TakingBest(in, c, base, seq) == FoldLeft(LAMBDA S, p : TakeBest(in, c, S, p), base, seq)
BestInput(in, c, base, n, seq, D, T) ==
    /\ n \in Nat /\ DOMAIN seq = 1 .. n /\ base \in D /\ \A i \in 1 .. n : seq[i] \in T
    /\ \A d \in D, x \in T : TakeBest(in, c, d, x) \in D
BestRun(in, c, base, n, seq, D, h) ==
    /\ h \in [0 .. n -> D] /\ h[0] = base
    /\ \A i \in 1 .. n : h[i] = TakeBest(in, c, h[i - 1], seq[i])
    /\ h[n] = TakingBest(in, c, base, seq)
LEMMA BestFold ==
    ASSUME NEW in, NEW c, NEW base, NEW n, NEW seq, NEW D, NEW T, BestInput(in, c, base, n, seq, D, T)
    PROVE  \E h : BestRun(in, c, base, n, seq, D, h)
<1> DEFINE F == [p \in D \X T |-> TakeBest(in, c, p[1], p[2])]
           Eq(g) == g = [s \in SUBSET DOMAIN seq |->
                            IF s = {} THEN base ELSE TakeBest(in, c, g[s \ {Max(s)}], seq[Max(s)])]
           iter == CHOOSE g : Eq(g)
           h == [i \in 0 .. n |-> iter[1 .. i]]
<1> USE DEF BestInput
<1>1. IsFiniteSet(DOMAIN seq) /\ DOMAIN seq \in SUBSET Int
  BY FirstOnes
<1>2. \A d \in D, x \in T : F[<<d, x>>] = TakeBest(in, c, d, x) /\ F[<<d, x>>] \in D
  OBVIOUS
<1>3. \E g : Eq(g)
  <2> HIDE DEF F
  <2>1. PICK g : FoldEq(g, F, base, seq)
    BY <1>1, FoldExists
  <2>2. \A s \in SUBSET DOMAIN seq : g[s] \in D
    BY <1>1, <1>2, <2>1, FoldTyped
  <2>3. \A s \in SUBSET DOMAIN seq : s # {} => Max(s) \in s /\ s \ {Max(s)} \in SUBSET DOMAIN seq
    BY <1>1, FS_Subset, MaxIs
  <2>4. ASSUME NEW s \in SUBSET DOMAIN seq
        PROVE  (IF s = {} THEN base ELSE F[<<g[s \ {Max(s)}], seq[Max(s)]>>])
               = (IF s = {} THEN base ELSE TakeBest(in, c, g[s \ {Max(s)}], seq[Max(s)]))
    <3>1. CASE s # {}
      <4>1. g[s \ {Max(s)}] \in D /\ seq[Max(s)] \in T
        BY <2>2, <2>3, <3>1
      <4> QED BY <1>2, <3>1, <4>1
    <3> QED BY <3>1
  <2>5. g = [s \in SUBSET DOMAIN seq |-> IF s = {} THEN base ELSE F[<<g[s \ {Max(s)}], seq[Max(s)]>>]]
    BY <2>1 DEF FoldEq
  <2> QED BY <2>4, <2>5, Zenon
<1>4. Eq(iter)
  BY <1>3, Zenon
<1>5. iter[DOMAIN seq] = TakingBest(in, c, base, seq)
  BY Zenon DEF FoldLeft, MapThenFoldSet, TakingBest
<1> HIDE DEF iter, F
<1>6. h[0] = base /\ \A i \in 1 .. n : h[i] = TakeBest(in, c, h[i - 1], seq[i])
  <2>1. h[0] = base
    BY <1>4, FirstOnes
  <2>2. ASSUME NEW i \in 1 .. n PROVE h[i] = TakeBest(in, c, h[i - 1], seq[i])
    <3>1. /\ Max(1 .. i) = i /\ 1 .. i \in SUBSET DOMAIN seq /\ 1 .. i # {} /\ (1 .. i) \ {i} = 1 .. i - 1
          /\ i \in 0 .. n /\ i - 1 \in 0 .. n
      BY FirstOnes
    <3>2. iter[1 .. i] = TakeBest(in, c, iter[1 .. i - 1], seq[i])
      BY <1>4, <3>1
    <3>3. h[i] = iter[1 .. i] /\ h[i - 1] = iter[1 .. i - 1]
      BY <3>1
    <3> QED BY <3>2, <3>3
  <2> QED BY <2>1, <2>2
<1>7. h[n] = iter[DOMAIN seq]
  OBVIOUS
<1> DEFINE Good == {i \in 0 .. n : h[i] \in D}
<1>8. \A i \in 0 .. n : i \in Good
  <2>1. 0 \in Good
    BY <1>6
  <2>2. ASSUME NEW i \in 0 .. n - 1, i \in Good PROVE i + 1 \in Good
    <3>1. i + 1 \in 1 .. n /\ (i + 1) - 1 = i /\ i + 1 \in 0 .. n
      OBVIOUS
    <3>2. h[i + 1] = TakeBest(in, c, h[i], seq[i + 1]) /\ seq[i + 1] \in T /\ h[i] \in D
      BY <1>6, <2>2, <3>1
    <3> QED BY <3>1, <3>2
  <2> HIDE DEF Good
  <2> QED BY <2>1, <2>2, UpTo
<1>9. h \in [0 .. n -> D]
  BY <1>8
<1> HIDE DEF h
<1>10. BestRun(in, c, base, n, seq, D, h)
  BY <1>5, <1>6, <1>7, <1>9 DEF BestRun
<1> QED BY <1>10

\* One pair of any vehicle and of any implement.
Single(S) == \A p, q \in S : p[1] = q[1] \/ p[2] = q[2] => p = q

LEMMA ReserveBestFacts ==
    ASSUME NEW in, Divisible(in), NEW c \in Clusters(in), NEW S \in SUBSET in.compat
    PROVE  ReserveBest(in, c, S) \in SUBSET S /\ Single(ReserveBest(in, c, S))
<1> DEFINE D == {X \in SUBSET S : Single(X)}
           seq == ByScore(in, c, S)
           n == Len(seq)
<1>1. seq \in Seq(S)
  BY ByScoreFacts
<1>2. n \in Nat /\ DOMAIN seq = 1 .. n /\ \A i \in 1 .. n : seq[i] \in S
  <2> HIDE DEF seq
  <2> QED BY <1>1
<1>3. {} \in D
  BY DEF Single
<1>4. ASSUME NEW X \in D, NEW p \in S PROVE TakeBest(in, c, X, p) \in D
  <2>1. Single(X) /\ X \in SUBSET S
    OBVIOUS
  <2>2. CASE \E q \in X : q[1] = p[1] \/ q[2] = p[2]
    BY <2>1, <2>2 DEF TakeBest
  <2>3. CASE ~\E q \in X : q[1] = p[1] \/ q[2] = p[2]
    <3>1. Single(X \cup {p})
      BY <2>1, <2>3 DEF Single
    <3> QED BY <2>1, <3>1 DEF TakeBest
  <2> QED BY <2>2, <2>3
<1>5. ReserveBest(in, c, S) = TakingBest(in, c, {}, seq)
  BY Zenon DEF ReserveBest, TakingBest, TakeBest
<1> HIDE DEF D, seq, n
<1>6. BestInput(in, c, {}, n, seq, D, S)
  BY <1>2, <1>3, <1>4 DEF BestInput
<1>7. PICK h : BestRun(in, c, {}, n, seq, D, h)
  BY <1>6, BestFold
<1>8. TakingBest(in, c, {}, seq) \in D
  BY <1>2, <1>7 DEF BestRun
<1> QED BY <1>5, <1>8 DEF D

TakeDiverse(S, p) ==
    IF \/ Cardinality(S) >= TopPairs
       \/ \E i \in {1, 2} : Cardinality({q \in S : q[i] = p[i]}) >= PairsPerAsset
    THEN S ELSE S \cup {p}

TakingDiverse(base, seq) == FoldLeft(LAMBDA S, p : TakeDiverse(S, p), base, seq)
DiverseInput(base, n, seq, D, T) ==
    /\ n \in Nat /\ DOMAIN seq = 1 .. n /\ base \in D /\ \A i \in 1 .. n : seq[i] \in T
    /\ \A d \in D, x \in T : TakeDiverse(d, x) \in D
DiverseRun(base, n, seq, D, h) ==
    /\ h \in [0 .. n -> D] /\ h[0] = base
    /\ \A i \in 1 .. n : h[i] = TakeDiverse(h[i - 1], seq[i])
    /\ h[n] = TakingDiverse(base, seq)
LEMMA DiverseFold ==
    ASSUME NEW base, NEW n, NEW seq, NEW D, NEW T, DiverseInput(base, n, seq, D, T)
    PROVE  \E h : DiverseRun(base, n, seq, D, h)
<1> DEFINE F == [p \in D \X T |-> TakeDiverse(p[1], p[2])]
           Eq(g) == g = [s \in SUBSET DOMAIN seq |->
                            IF s = {} THEN base ELSE TakeDiverse(g[s \ {Max(s)}], seq[Max(s)])]
           iter == CHOOSE g : Eq(g)
           h == [i \in 0 .. n |-> iter[1 .. i]]
<1> USE DEF DiverseInput
<1>1. IsFiniteSet(DOMAIN seq) /\ DOMAIN seq \in SUBSET Int
  BY FirstOnes
<1>2. \A d \in D, x \in T : F[<<d, x>>] = TakeDiverse(d, x) /\ F[<<d, x>>] \in D
  OBVIOUS
<1>3. \E g : Eq(g)
  <2> HIDE DEF F
  <2>1. PICK g : FoldEq(g, F, base, seq)
    BY <1>1, FoldExists
  <2>2. \A s \in SUBSET DOMAIN seq : g[s] \in D
    BY <1>1, <1>2, <2>1, FoldTyped
  <2>3. \A s \in SUBSET DOMAIN seq : s # {} => Max(s) \in s /\ s \ {Max(s)} \in SUBSET DOMAIN seq
    BY <1>1, FS_Subset, MaxIs
  <2>4. ASSUME NEW s \in SUBSET DOMAIN seq
        PROVE  (IF s = {} THEN base ELSE F[<<g[s \ {Max(s)}], seq[Max(s)]>>])
               = (IF s = {} THEN base ELSE TakeDiverse(g[s \ {Max(s)}], seq[Max(s)]))
    <3>1. CASE s # {}
      <4>1. g[s \ {Max(s)}] \in D /\ seq[Max(s)] \in T
        BY <2>2, <2>3, <3>1
      <4> QED BY <1>2, <3>1, <4>1
    <3> QED BY <3>1
  <2>5. g = [s \in SUBSET DOMAIN seq |-> IF s = {} THEN base ELSE F[<<g[s \ {Max(s)}], seq[Max(s)]>>]]
    BY <2>1 DEF FoldEq
  <2> QED BY <2>4, <2>5, Zenon
<1>4. Eq(iter)
  BY <1>3, Zenon
<1>5. iter[DOMAIN seq] = TakingDiverse(base, seq)
  BY Zenon DEF FoldLeft, MapThenFoldSet, TakingDiverse, TakeDiverse
<1> HIDE DEF iter, F
<1>6. h[0] = base /\ \A i \in 1 .. n : h[i] = TakeDiverse(h[i - 1], seq[i])
  <2>1. h[0] = base
    BY <1>4, FirstOnes
  <2>2. ASSUME NEW i \in 1 .. n PROVE h[i] = TakeDiverse(h[i - 1], seq[i])
    <3>1. /\ Max(1 .. i) = i /\ 1 .. i \in SUBSET DOMAIN seq /\ 1 .. i # {} /\ (1 .. i) \ {i} = 1 .. i - 1
          /\ i \in 0 .. n /\ i - 1 \in 0 .. n
      BY FirstOnes
    <3>2. iter[1 .. i] = TakeDiverse(iter[1 .. i - 1], seq[i])
      BY <1>4, <3>1
    <3>3. h[i] = iter[1 .. i] /\ h[i - 1] = iter[1 .. i - 1]
      BY <3>1
    <3> QED BY <3>2, <3>3
  <2> QED BY <2>1, <2>2
<1>7. h[n] = iter[DOMAIN seq]
  OBVIOUS
<1> DEFINE Good == {i \in 0 .. n : h[i] \in D}
<1>8. \A i \in 0 .. n : i \in Good
  <2>1. 0 \in Good
    BY <1>6
  <2>2. ASSUME NEW i \in 0 .. n - 1, i \in Good PROVE i + 1 \in Good
    <3>1. i + 1 \in 1 .. n /\ (i + 1) - 1 = i /\ i + 1 \in 0 .. n
      OBVIOUS
    <3>2. h[i + 1] = TakeDiverse(h[i], seq[i + 1]) /\ seq[i + 1] \in T /\ h[i] \in D
      BY <1>6, <2>2, <3>1
    <3> QED BY <3>1, <3>2
  <2> HIDE DEF Good
  <2> QED BY <2>1, <2>2, UpTo
<1>9. h \in [0 .. n -> D]
  BY <1>8
<1> HIDE DEF h
<1>10. DiverseRun(base, n, seq, D, h)
  BY <1>5, <1>6, <1>7, <1>9 DEF DiverseRun
<1> QED BY <1>10

LEMMA CandidatesFacts ==
    ASSUME NEW in, Divisible(in), NEW c \in Clusters(in), NEW free
    PROVE  Candidates(in, c, free) \in SUBSET in.compat /\ Candidates(in, c, free) \in SUBSET free
<1>1. ToSet(Known(in, c)) = ToSet(in.clusters[c]) \cap in.known /\ \A t \in in.known : in.pairs[t] \in SUBSET in.compat
  BY KnownFacts
<1>2. \A t \in ToSet(Known(in, c)) : in.pairs[t] \in SUBSET in.compat
  BY <1>1
<1> QED BY <1>2 DEF Candidates

LEMMA OfferedFacts ==
    ASSUME NEW in, Divisible(in), NEW c \in Clusters(in)
    PROVE  Offered(in, c) \in SUBSET in.compat
<1> DEFINE free == UNION {in.pairs[t] : t \in in.known}
           cands == Candidates(in, c, free)
           seq == ByScore(in, c, cands)
           n == Len(seq)
           D == SUBSET cands
<1>1. cands \in SUBSET in.compat
  BY CandidatesFacts
<1> HIDE DEF cands
<1>2. seq \in Seq(cands)
  BY <1>1, ByScoreFacts
<1>3. n \in Nat /\ DOMAIN seq = 1 .. n /\ \A i \in 1 .. n : seq[i] \in cands
  <2> HIDE DEF seq
  <2> QED BY <1>2
<1>4. {} \in D /\ \A X \in D, p \in cands : TakeDiverse(X, p) \in D
  BY DEF TakeDiverse
<1>5. Truncate(in, c, cands) = TakingDiverse({}, seq)
  BY Zenon DEF Truncate, TakingDiverse, TakeDiverse
<1>6. Offered(in, c) = Truncate(in, c, cands)
  BY Zenon DEF Offered, cands
<1> HIDE DEF D, seq, n
<1>7. DiverseInput({}, n, seq, D, cands)
  BY <1>3, <1>4 DEF DiverseInput
<1>8. PICK h : DiverseRun({}, n, seq, D, h)
  BY <1>7, DiverseFold
<1>9. TakingDiverse({}, seq) \in D
  BY <1>3, <1>8 DEF DiverseRun
<1> QED BY <1>1, <1>5, <1>6, <1>9 DEF D

-----------------------------------------------------------------------------
(* Nothing is given to two clusters *)

\* The pairs of each cluster, no implement twice and no vehicle too often.
Claims(in, A) ==
    /\ A \in [Clusters(in) -> SUBSET in.compat]
    /\ \A c \in Clusters(in) : Single(A[c])
    /\ \A c, d \in Clusters(in) : \A p \in A[c], q \in A[d] : p[2] = q[2] => c = d
    /\ \A c \in Clusters(in) : \A p \in A[c] : Uses(A, p[1]) <= MaxVehicleUses

UsedBy(A, v) == {c \in DOMAIN A : \E p \in A[c] : p[1] = v}

LEMMA ClustersFinite ==
    ASSUME NEW in, Divisible(in), NEW S \in SUBSET Clusters(in)
    PROVE  IsFiniteSet(S) /\ Cardinality(S) \in Nat
<1>1. IsFiniteSet(Clusters(in))
  BY KnownFacts, FirstOnes DEF Clusters
<1> QED BY <1>1, FS_Subset, FS_CardinalityType

\* A cluster is given what idle implements and vehicles there are.
LEMMA ClaimStep ==
    ASSUME NEW in, Divisible(in), NEW A, Claims(in, A), NEW c \in Clusters(in), NEW S \in SUBSET in.compat, Single(S),
           \A p \in S : Uses(A, p[1]) < MaxVehicleUses /\ Unclaimed(A, p)
    PROVE  Claims(in, [A EXCEPT ![c] = S])
<1> DEFINE B == [A EXCEPT ![c] = S]
<1>1. /\ A \in [Clusters(in) -> SUBSET in.compat]
      /\ (\A d \in Clusters(in) : Single(A[d]))
      /\ (\A d, e \in Clusters(in) : \A p \in A[d], q \in A[e] : p[2] = q[2] => d = e)
      /\ (\A d \in Clusters(in) : \A p \in A[d] : Uses(A, p[1]) <= MaxVehicleUses)
  BY DEF Claims
<1>2. B \in [Clusters(in) -> SUBSET in.compat] /\ B[c] = S /\ \A d \in Clusters(in) : d # c => B[d] = A[d]
  BY <1>1
<1> HIDE DEF B
<1>3. \A d \in Clusters(in) : Single(B[d])
  BY <1>1, <1>2
<1>4. \A p \in S : \A d \in Clusters(in) : \A q \in A[d] : q[2] # p[2]
  BY <1>1 DEF Unclaimed
<1>5. \A d, e \in Clusters(in) : \A p \in B[d], q \in B[e] : p[2] = q[2] => d = e
  BY <1>1, <1>2, <1>4
<1>6. ASSUME NEW d \in Clusters(in), NEW p \in B[d] PROVE Uses(B, p[1]) <= MaxVehicleUses
  <2> DEFINE X == UsedBy(A, p[1])
             Y == UsedBy(B, p[1])
  <2>1. X \in SUBSET Clusters(in) /\ Y \in SUBSET Clusters(in) /\ Y \subseteq X \cup {c}
    BY <1>1, <1>2 DEF UsedBy
  <2>2. Uses(A, p[1]) = Cardinality(X) /\ Uses(B, p[1]) = Cardinality(Y)
    BY DEF Uses, UsedBy
  <2>3. MaxVehicleUses \in Nat
    BY LimitsAssumption
  <2>4. CASE \E q \in S : q[1] = p[1]
    <3>1. Uses(A, p[1]) < MaxVehicleUses
      BY <2>4
    <3> HIDE DEF X, Y
    <3>2. IsFiniteSet(X) /\ Cardinality(X) \in Nat /\ Cardinality(Y) \in Nat
      BY <2>1, ClustersFinite
    <3>3. IsFiniteSet(X \cup {c}) /\ (Cardinality(X \cup {c}) = IF c \in X THEN Cardinality(X) ELSE Cardinality(X) + 1)
      BY <3>2, FS_AddElement
    <3>4. Cardinality(Y) <= Cardinality(X \cup {c})
      BY <2>1, <3>3, FS_Subset
    <3> QED BY <2>2, <2>3, <3>1, <3>2, <3>3, <3>4
  <2>5. CASE ~\E q \in S : q[1] = p[1]
    <3>1. d # c /\ p \in A[d]
      BY <1>2, <2>5
    <3>2. Y \subseteq X
      BY <1>1, <1>2, <2>5 DEF UsedBy
    <3>3. Uses(A, p[1]) <= MaxVehicleUses
      BY <1>1, <3>1
    <3> HIDE DEF X, Y
    <3>4. IsFiniteSet(X) /\ Cardinality(X) \in Nat /\ Cardinality(Y) \in Nat
      BY <2>1, ClustersFinite
    <3>5. Cardinality(Y) <= Cardinality(X)
      BY <3>2, <3>4, FS_Subset
    <3> QED BY <2>2, <2>3, <3>3, <3>4, <3>5
  <2> QED BY <2>4, <2>5
<1>7. Claims(in, B)
  BY <1>2, <1>3, <1>5, <1>6 DEF Claims
<1> QED BY <1>7 DEF B

LEMMA ReserveClaims ==
    ASSUME NEW in, Divisible(in), NEW A, Claims(in, A), NEW c \in Clusters(in)
    PROVE  Claims(in, ReserveCluster(in, A, c))
<1> DEFINE all == UNION {in.pairs[t] : t \in in.known}
           Idle(limit) == {p \in all : Uses(A, p[1]) < limit /\ Unclaimed(A, p)}
           few == Candidates(in, c, Idle(1))
           more == Candidates(in, c, Idle(MaxVehicleUses))
           S == IF few # {} THEN few ELSE more
<1>1. ReserveCluster(in, A, c) = [A EXCEPT ![c] = ReserveBest(in, c, S)]
  BY Zenon DEF ReserveCluster
<1>2. few \in SUBSET in.compat /\ few \in SUBSET Idle(1) /\ more \in SUBSET in.compat /\ more \in SUBSET Idle(MaxVehicleUses)
  BY CandidatesFacts
<1>3. MaxVehicleUses \in Nat /\ 1 <= MaxVehicleUses
  BY LimitsAssumption
<1>4. ASSUME NEW p \in S PROVE Uses(A, p[1]) < MaxVehicleUses /\ Unclaimed(A, p)
  <2>1. A \in [Clusters(in) -> SUBSET in.compat]
    BY DEF Claims
  <2>2. Uses(A, p[1]) \in Nat
    <3>1. {d \in DOMAIN A : \E q \in A[d] : q[1] = p[1]} \in SUBSET Clusters(in)
      BY <2>1
    <3> QED BY <3>1, ClustersFinite DEF Uses
  <2>3. p \in Idle(1) \/ p \in Idle(MaxVehicleUses)
    <3> HIDE DEF few, more, Idle
    <3> QED BY <1>2
  <2> QED BY <1>3, <2>2, <2>3
<1>5. S \in SUBSET in.compat
  <2> HIDE DEF few, more
  <2> QED BY <1>2
<1> HIDE DEF S
<1>6. ReserveBest(in, c, S) \in SUBSET S /\ Single(ReserveBest(in, c, S))
  BY <1>5, ReserveBestFacts
<1> DEFINE X == ReserveBest(in, c, S)
<1>7. X \in SUBSET in.compat /\ Single(X) /\ \A p \in X : Uses(A, p[1]) < MaxVehicleUses /\ Unclaimed(A, p)
  BY <1>4, <1>5, <1>6
<1> HIDE DEF X
<1>8. Claims(in, [A EXCEPT ![c] = X])
  BY <1>7, ClaimStep
<1> QED BY <1>1, <1>8 DEF X

Reserving(in, base, seq) == FoldLeft(LAMBDA A, c : ReserveCluster(in, A, c), base, seq)
ReserveInput(in, base, n, seq, D, T) ==
    /\ n \in Nat /\ DOMAIN seq = 1 .. n /\ base \in D /\ \A i \in 1 .. n : seq[i] \in T
    /\ \A d \in D, x \in T : ReserveCluster(in, d, x) \in D
ReserveRun(in, base, n, seq, D, h) ==
    /\ h \in [0 .. n -> D] /\ h[0] = base
    /\ \A i \in 1 .. n : h[i] = ReserveCluster(in, h[i - 1], seq[i])
    /\ h[n] = Reserving(in, base, seq)
LEMMA ReserveFold ==
    ASSUME NEW in, NEW base, NEW n, NEW seq, NEW D, NEW T, ReserveInput(in, base, n, seq, D, T)
    PROVE  \E h : ReserveRun(in, base, n, seq, D, h)
<1> DEFINE F == [p \in D \X T |-> ReserveCluster(in, p[1], p[2])]
           Eq(g) == g = [s \in SUBSET DOMAIN seq |->
                            IF s = {} THEN base ELSE ReserveCluster(in, g[s \ {Max(s)}], seq[Max(s)])]
           iter == CHOOSE g : Eq(g)
           h == [i \in 0 .. n |-> iter[1 .. i]]
<1> USE DEF ReserveInput
<1>1. IsFiniteSet(DOMAIN seq) /\ DOMAIN seq \in SUBSET Int
  BY FirstOnes
<1>2. \A d \in D, x \in T : F[<<d, x>>] = ReserveCluster(in, d, x) /\ F[<<d, x>>] \in D
  OBVIOUS
<1>3. \E g : Eq(g)
  <2> HIDE DEF F
  <2>1. PICK g : FoldEq(g, F, base, seq)
    BY <1>1, FoldExists
  <2>2. \A s \in SUBSET DOMAIN seq : g[s] \in D
    BY <1>1, <1>2, <2>1, FoldTyped
  <2>3. \A s \in SUBSET DOMAIN seq : s # {} => Max(s) \in s /\ s \ {Max(s)} \in SUBSET DOMAIN seq
    BY <1>1, FS_Subset, MaxIs
  <2>4. ASSUME NEW s \in SUBSET DOMAIN seq
        PROVE  (IF s = {} THEN base ELSE F[<<g[s \ {Max(s)}], seq[Max(s)]>>])
               = (IF s = {} THEN base ELSE ReserveCluster(in, g[s \ {Max(s)}], seq[Max(s)]))
    <3>1. CASE s # {}
      <4>1. g[s \ {Max(s)}] \in D /\ seq[Max(s)] \in T
        BY <2>2, <2>3, <3>1
      <4> QED BY <1>2, <3>1, <4>1
    <3> QED BY <3>1
  <2>5. g = [s \in SUBSET DOMAIN seq |-> IF s = {} THEN base ELSE F[<<g[s \ {Max(s)}], seq[Max(s)]>>]]
    BY <2>1 DEF FoldEq
  <2> QED BY <2>4, <2>5, Zenon
<1>4. Eq(iter)
  BY <1>3, Zenon
<1>5. iter[DOMAIN seq] = Reserving(in, base, seq)
  BY Zenon DEF FoldLeft, MapThenFoldSet, Reserving
<1> HIDE DEF iter, F
<1>6. h[0] = base /\ \A i \in 1 .. n : h[i] = ReserveCluster(in, h[i - 1], seq[i])
  <2>1. h[0] = base
    BY <1>4, FirstOnes
  <2>2. ASSUME NEW i \in 1 .. n PROVE h[i] = ReserveCluster(in, h[i - 1], seq[i])
    <3>1. /\ Max(1 .. i) = i /\ 1 .. i \in SUBSET DOMAIN seq /\ 1 .. i # {} /\ (1 .. i) \ {i} = 1 .. i - 1
          /\ i \in 0 .. n /\ i - 1 \in 0 .. n
      BY FirstOnes
    <3>2. iter[1 .. i] = ReserveCluster(in, iter[1 .. i - 1], seq[i])
      BY <1>4, <3>1
    <3>3. h[i] = iter[1 .. i] /\ h[i - 1] = iter[1 .. i - 1]
      BY <3>1
    <3> QED BY <3>2, <3>3
  <2> QED BY <2>1, <2>2
<1>7. h[n] = iter[DOMAIN seq]
  OBVIOUS
<1> DEFINE Good == {i \in 0 .. n : h[i] \in D}
<1>8. \A i \in 0 .. n : i \in Good
  <2>1. 0 \in Good
    BY <1>6
  <2>2. ASSUME NEW i \in 0 .. n - 1, i \in Good PROVE i + 1 \in Good
    <3>1. i + 1 \in 1 .. n /\ (i + 1) - 1 = i /\ i + 1 \in 0 .. n
      OBVIOUS
    <3>2. h[i + 1] = ReserveCluster(in, h[i], seq[i + 1]) /\ seq[i + 1] \in T /\ h[i] \in D
      BY <1>6, <2>2, <3>1
    <3> QED BY <3>1, <3>2
  <2> HIDE DEF Good
  <2> QED BY <2>1, <2>2, UpTo
<1>9. h \in [0 .. n -> D]
  BY <1>8
<1> HIDE DEF h
<1>10. ReserveRun(in, base, n, seq, D, h)
  BY <1>5, <1>6, <1>7, <1>9 DEF ReserveRun
<1> QED BY <1>10

LEMMA GreedyClaims ==
    ASSUME NEW in, Divisible(in)
    PROVE  Claims(in, GreedyAllocation(in))
<1> DEFINE n == Len(in.clusters)
           seq == [i \in 1 .. n |-> i]
           base == [c \in 1 .. n |-> {}]
           D == {A \in [Clusters(in) -> SUBSET in.compat] : Claims(in, A)}
           T == Clusters(in)
<1>1. n \in Nat /\ T = 1 .. n /\ DOMAIN seq = 1 .. n /\ \A i \in 1 .. n : seq[i] \in T
  BY KnownFacts DEF Clusters
<1>2. base \in D
  <2>1. base \in [Clusters(in) -> SUBSET in.compat] /\ \A c \in Clusters(in) : base[c] = {}
    BY <1>1
  <2> HIDE DEF base
  <2>2. Claims(in, base)
    BY <2>1 DEF Claims, Single
  <2> QED BY <2>1, <2>2
<1>3. ASSUME NEW A \in D, NEW c \in T PROVE ReserveCluster(in, A, c) \in D
  <2>1. Claims(in, ReserveCluster(in, A, c))
    BY ReserveClaims
  <2> QED BY <2>1 DEF Claims
<1>4. GreedyAllocation(in) = Reserving(in, base, seq)
  BY Zenon DEF GreedyAllocation, Reserving
<1> HIDE DEF n, seq, base, D, T
<1>5. ReserveInput(in, base, n, seq, D, T)
  BY <1>1, <1>2, <1>3 DEF ReserveInput
<1>6. PICK h : ReserveRun(in, base, n, seq, D, h)
  BY <1>5, ReserveFold
<1>7. Reserving(in, base, seq) \in D
  BY <1>1, <1>6 DEF ReserveRun
<1> QED BY <1>4, <1>7 DEF D

LEMMA GlobalClaims ==
    ASSUME NEW in, Divisible(in), NEW A \in GlobalAllocations(in)
    PROVE  Claims(in, A)
<1> DEFINE One(c) == {S \in SUBSET Offered(in, c) :
                         /\ Cardinality(S) <= ResourceLimit(Len(Known(in, c)))
                         /\ \A p, q \in S : p[1] = q[1] => p = q}
           C == 1 .. Len(in.clusters)
<1>1. /\ A \in [C -> UNION {One(c) : c \in C}]
      /\ \A c \in C : A[c] \in One(c)
      /\ \A c, d \in C : \A p \in A[c], q \in A[d] : p[2] = q[2] => <<c, p>> = <<d, q>>
      /\ \A c \in C : \A p \in A[c] : Uses(A, p[1]) <= MaxVehicleUses
  BY Zenon DEF GlobalAllocations
<1>2. \A c \in C : A[c] \in SUBSET in.compat /\ \A p, q \in A[c] : p[1] = q[1] => p = q
  BY <1>1, OfferedFacts DEF Clusters
<1> HIDE DEF One
<1>3. A \in [C -> SUBSET in.compat]
  BY <1>1, <1>2
<1>4. \A c \in C : Single(A[c])
  BY <1>1, <1>2 DEF Single
<1>5. \A c, d \in C : \A p \in A[c], q \in A[d] : p[2] = q[2] => c = d
  BY <1>1
<1> QED BY <1>1, <1>3, <1>4, <1>5 DEF Claims, Clusters

-----------------------------------------------------------------------------
(* The operators *)

Crews(in, f) ==
    /\ f \in [Clusters(in) -> DOMAIN in.certified \cup {None}]
    /\ \A c, d \in Clusters(in) : c # d /\ f[c] = f[d] => f[c] = None

LEMMA GapTyped ==
    ASSUME NEW in, NEW o
    PROVE  LargestFreeGap(in, o) \in Int
<1> DEFINE S == {g \in (0 .. Horizon) \X (0 .. Horizon) :
                   /\ g[2] >= g[1]
                   /\ g[2] - g[1] = 1 => g[1] = 0 \/ g[2] = Horizon
                   /\ \A w \in in.held[o] : g[2] <= w[1] \/ g[1] >= w[2]}
           T == {g[2] - g[1] : g \in S}
<1>1. LargestFreeGap(in, o) = Max(T \cup {0})
  BY Zenon DEF LargestFreeGap
<1>2. IsFiniteSet(S) /\ \A g \in S : g \in (0 .. Horizon) \X (0 .. Horizon)
  <2>1. IsFiniteSet(0 .. Horizon)
    <3>1. 0 \in Int /\ Horizon \in Int
      BY LimitsAssumption
    <3> QED BY <3>1, FS_Interval
  <2>2. IsFiniteSet((0 .. Horizon) \X (0 .. Horizon))
    BY <2>1, FS_Product
  <2>3. S \in SUBSET ((0 .. Horizon) \X (0 .. Horizon))
    OBVIOUS
  <2> HIDE DEF S
  <2> QED BY <2>2, <2>3, FS_Subset
<1> HIDE DEF S
<1>3. T \in SUBSET Int
  <2>1. \A g \in S : g[1] \in Int /\ g[2] \in Int
    BY <1>2
  <2> QED BY <2>1
<1>4. IsFiniteSet(T)
  <2> DEFINE f == [g \in S |-> g[2] - g[1]]
  <2>1. T = {f[g] : g \in S}
    OBVIOUS
  <2> HIDE DEF f, T
  <2> QED BY <1>2, <2>1, ImageFinite
<1> HIDE DEF T
<1>5. T \cup {0} \in SUBSET Int /\ IsFiniteSet(T \cup {0}) /\ T \cup {0} # {}
  BY <1>3, <1>4, FS_AddElement
<1> QED BY <1>1, <1>5, MaxIs

LEMMA CoversTyped ==
    ASSUME NEW in, Divisible(in), NEW c \in Clusters(in), NEW o
    PROVE  Covers(in, o, c) \in Int
<1> DEFINE S == ToSet(Known(in, c))
           f == [t \in S |-> in.task[t].op]
           T == {in.task[t].op : t \in S}
<1>1. IsFiniteSet(S)
  <2>1. S \in SUBSET in.known /\ IsFiniteSet(in.known)
    <3>1. S = ToSet(in.clusters[c]) \cap in.known
      BY KnownFacts
    <3> HIDE DEF S
    <3> QED BY <3>1, KnownFacts
  <2> QED BY <2>1, FS_Subset
<1>2. IsFiniteSet(T)
  <2>1. T = {f[t] : t \in S}
    OBVIOUS
  <2> HIDE DEF f, T, S
  <2> QED BY <1>1, <2>1, ImageFinite
<1>3. Covers(in, o, c) = Cardinality(T \cap in.certified[o])
  BY Zenon DEF Covers
<1> HIDE DEF T
<1>4. IsFiniteSet(T \cap in.certified[o])
  BY <1>2, FS_Subset
<1> QED BY <1>3, <1>4, FS_CardinalityType

BetterCrew(in, c, o, q) ==
    LET f == Covers(in, o, c) - Covers(in, q, c)
        g == LargestFreeGap(in, o) - LargestFreeGap(in, q)
    IN f > 0 \/ (f = 0 /\ g > 0) \/ (f = 0 /\ g = 0 /\ o <= q)

LEMMA BestCrew ==
    ASSUME NEW in, Divisible(in), NEW c \in Clusters(in), NEW pool \in SUBSET DOMAIN in.certified, pool # {}
    PROVE  \E o \in pool : \A q \in pool : BetterCrew(in, c, o, q)
<1> DEFINE v == [o \in pool |-> Covers(in, o, c)]
           w == [o \in pool |-> LargestFreeGap(in, o)]
           R == {p \in pool \X pool : BetterCrew(in, c, p[1], p[2])}
<1>1. pool \in SUBSET Int /\ IsFiniteSet(pool)
  <2>1. DOMAIN in.certified \in SUBSET Int /\ IsFiniteSet(DOMAIN in.certified)
    BY DEF Divisible, RowsOk
  <2> QED BY <2>1, FS_Subset
<1>2. \A o \in pool : v[o] \in Int /\ w[o] \in Int
  BY GapTyped, CoversTyped
<1>3. \A o, q \in pool : <<o, q>> \in R <=> BetterCrew(in, c, o, q)
  OBVIOUS
<1>4. \A o, q \in pool : <<o, q>> \in R <=>
         (v[o] > v[q] \/ (v[o] = v[q] /\ (w[o] > w[q] \/ (w[o] = w[q] /\ o <= q))))
  <2> SUFFICES ASSUME NEW o \in pool, NEW q \in pool
               PROVE  BetterCrew(in, c, o, q) <=>
                      (v[o] > v[q] \/ (v[o] = v[q] /\ (w[o] > w[q] \/ (w[o] = w[q] /\ o <= q))))
    BY <1>3
  <2>1. v[o] \in Int /\ w[o] \in Int /\ v[q] \in Int /\ w[q] \in Int
    BY <1>2
  <2>2. Covers(in, o, c) = v[o] /\ Covers(in, q, c) = v[q] /\ LargestFreeGap(in, o) = w[o] /\ LargestFreeGap(in, q) = w[q]
    OBVIOUS
  <2> HIDE DEF v, w
  <2> QED BY <2>1, <2>2 DEF BetterCrew
<1> HIDE DEF v, w, R
<1>5. \A o, q \in pool : o = q \/ <<o, q>> \in R \/ <<q, o>> \in R
  <2> SUFFICES ASSUME NEW o \in pool, NEW q \in pool PROVE o = q \/ <<o, q>> \in R \/ <<q, o>> \in R
    OBVIOUS
  <2>1. v[o] \in Int /\ w[o] \in Int /\ v[q] \in Int /\ w[q] \in Int /\ o \in Int /\ q \in Int
    BY <1>1, <1>2
  <2> QED BY <1>4, <2>1
<1>6. \A o, q, r \in pool : <<o, q>> \in R /\ <<q, r>> \in R => <<o, r>> \in R
  <2> SUFFICES ASSUME NEW o \in pool, NEW q \in pool, NEW r \in pool, <<o, q>> \in R, <<q, r>> \in R PROVE <<o, r>> \in R
    OBVIOUS
  <2>1. /\ v[o] \in Int /\ w[o] \in Int /\ v[q] \in Int /\ w[q] \in Int /\ o \in Int /\ q \in Int
        /\ v[r] \in Int /\ w[r] \in Int /\ r \in Int
    BY <1>1, <1>2
  <2> QED BY <1>4, <2>1
<1>7. PICK o : First(R, pool, o)
  BY <1>1, <1>5, <1>6, FirstExists
<1>8. o \in pool /\ \A q \in pool : <<o, q>> \in R
  <2>1. o \in pool /\ \A q \in pool : q = o \/ <<o, q>> \in R
    BY <1>7 DEF First
  <2>2. v[o] \in Int /\ w[o] \in Int /\ o \in Int
    BY <1>1, <1>2, <2>1
  <2>3. <<o, o>> \in R
    BY <1>4, <2>1, <2>2
  <2> QED BY <2>1, <2>3
<1> QED BY <1>3, <1>8

LEMMA AssignCrews ==
    ASSUME NEW in, Divisible(in), NEW f, Crews(in, f), NEW c \in Clusters(in)
    PROVE  Crews(in, AssignOperator(in, f, c))
<1> DEFINE left == DOMAIN in.certified \ {f[d] : d \in DOMAIN f}
           home == {o \in left : in.base[o] = in.depot[c]}
           pool == IF home # {} THEN home ELSE left
           best == CHOOSE o \in pool : \A q \in pool : BetterCrew(in, c, o, q)
           x == IF pool = {} THEN None ELSE best
<1>1. AssignOperator(in, f, c) = [f EXCEPT ![c] = x]
  BY Zenon DEF AssignOperator, BetterCrew
<1>2. f \in [Clusters(in) -> DOMAIN in.certified \cup {None}] /\ \A d, e \in Clusters(in) : d # e /\ f[d] = f[e] => f[d] = None
  BY DEF Crews
<1>3. x = None \/ (x \in DOMAIN in.certified /\ \A d \in Clusters(in) : f[d] # x)
  <2>1. CASE pool = {}
    BY <2>1
  <2>2. CASE pool # {}
    <3>1. pool \in SUBSET DOMAIN in.certified /\ pool \in SUBSET left
      OBVIOUS
    <3> HIDE DEF pool
    <3>2. \E o \in pool : \A q \in pool : BetterCrew(in, c, o, q)
      BY <2>2, <3>1, BestCrew
    <3>3. best \in pool
      BY <3>2
    <3> HIDE DEF best
    <3> QED BY <1>2, <2>2, <3>1, <3>3
  <2> QED BY <2>1, <2>2
<1> HIDE DEF x
<1>4. Crews(in, [f EXCEPT ![c] = x])
  <2> DEFINE g == [f EXCEPT ![c] = x]
  <2>1. g \in [Clusters(in) -> DOMAIN in.certified \cup {None}] /\ g[c] = x /\ \A d \in Clusters(in) : d # c => g[d] = f[d]
    BY <1>2, <1>3
  <2> HIDE DEF g
  <2>2. \A d, e \in Clusters(in) : d # e /\ g[d] = g[e] => g[d] = None
    BY <1>2, <1>3, <2>1
  <2>3. Crews(in, g)
    BY <2>1, <2>2 DEF Crews
  <2> QED BY <2>3 DEF g
<1> QED BY <1>1, <1>4

Crewing(in, base, seq) == FoldLeft(LAMBDA chosen, c : AssignOperator(in, chosen, c), base, seq)
CrewInput(in, base, n, seq, D, T) ==
    /\ n \in Nat /\ DOMAIN seq = 1 .. n /\ base \in D /\ \A i \in 1 .. n : seq[i] \in T
    /\ \A d \in D, x \in T : AssignOperator(in, d, x) \in D
CrewRun(in, base, n, seq, D, h) ==
    /\ h \in [0 .. n -> D] /\ h[0] = base
    /\ \A i \in 1 .. n : h[i] = AssignOperator(in, h[i - 1], seq[i])
    /\ h[n] = Crewing(in, base, seq)
LEMMA CrewFold ==
    ASSUME NEW in, NEW base, NEW n, NEW seq, NEW D, NEW T, CrewInput(in, base, n, seq, D, T)
    PROVE  \E h : CrewRun(in, base, n, seq, D, h)
<1> DEFINE F == [p \in D \X T |-> AssignOperator(in, p[1], p[2])]
           Eq(g) == g = [s \in SUBSET DOMAIN seq |->
                            IF s = {} THEN base ELSE AssignOperator(in, g[s \ {Max(s)}], seq[Max(s)])]
           iter == CHOOSE g : Eq(g)
           h == [i \in 0 .. n |-> iter[1 .. i]]
<1> USE DEF CrewInput
<1>1. IsFiniteSet(DOMAIN seq) /\ DOMAIN seq \in SUBSET Int
  BY FirstOnes
<1>2. \A d \in D, x \in T : F[<<d, x>>] = AssignOperator(in, d, x) /\ F[<<d, x>>] \in D
  OBVIOUS
<1>3. \E g : Eq(g)
  <2> HIDE DEF F
  <2>1. PICK g : FoldEq(g, F, base, seq)
    BY <1>1, FoldExists
  <2>2. \A s \in SUBSET DOMAIN seq : g[s] \in D
    BY <1>1, <1>2, <2>1, FoldTyped
  <2>3. \A s \in SUBSET DOMAIN seq : s # {} => Max(s) \in s /\ s \ {Max(s)} \in SUBSET DOMAIN seq
    BY <1>1, FS_Subset, MaxIs
  <2>4. ASSUME NEW s \in SUBSET DOMAIN seq
        PROVE  (IF s = {} THEN base ELSE F[<<g[s \ {Max(s)}], seq[Max(s)]>>])
               = (IF s = {} THEN base ELSE AssignOperator(in, g[s \ {Max(s)}], seq[Max(s)]))
    <3>1. CASE s # {}
      <4>1. g[s \ {Max(s)}] \in D /\ seq[Max(s)] \in T
        BY <2>2, <2>3, <3>1
      <4> QED BY <1>2, <3>1, <4>1
    <3> QED BY <3>1
  <2>5. g = [s \in SUBSET DOMAIN seq |-> IF s = {} THEN base ELSE F[<<g[s \ {Max(s)}], seq[Max(s)]>>]]
    BY <2>1 DEF FoldEq
  <2> QED BY <2>4, <2>5, Zenon
<1>4. Eq(iter)
  BY <1>3, Zenon
<1>5. iter[DOMAIN seq] = Crewing(in, base, seq)
  BY Zenon DEF FoldLeft, MapThenFoldSet, Crewing
<1> HIDE DEF iter, F
<1>6. h[0] = base /\ \A i \in 1 .. n : h[i] = AssignOperator(in, h[i - 1], seq[i])
  <2>1. h[0] = base
    BY <1>4, FirstOnes
  <2>2. ASSUME NEW i \in 1 .. n PROVE h[i] = AssignOperator(in, h[i - 1], seq[i])
    <3>1. /\ Max(1 .. i) = i /\ 1 .. i \in SUBSET DOMAIN seq /\ 1 .. i # {} /\ (1 .. i) \ {i} = 1 .. i - 1
          /\ i \in 0 .. n /\ i - 1 \in 0 .. n
      BY FirstOnes
    <3>2. iter[1 .. i] = AssignOperator(in, iter[1 .. i - 1], seq[i])
      BY <1>4, <3>1
    <3>3. h[i] = iter[1 .. i] /\ h[i - 1] = iter[1 .. i - 1]
      BY <3>1
    <3> QED BY <3>2, <3>3
  <2> QED BY <2>1, <2>2
<1>7. h[n] = iter[DOMAIN seq]
  OBVIOUS
<1> DEFINE Good == {i \in 0 .. n : h[i] \in D}
<1>8. \A i \in 0 .. n : i \in Good
  <2>1. 0 \in Good
    BY <1>6
  <2>2. ASSUME NEW i \in 0 .. n - 1, i \in Good PROVE i + 1 \in Good
    <3>1. i + 1 \in 1 .. n /\ (i + 1) - 1 = i /\ i + 1 \in 0 .. n
      OBVIOUS
    <3>2. h[i + 1] = AssignOperator(in, h[i], seq[i + 1]) /\ seq[i + 1] \in T /\ h[i] \in D
      BY <1>6, <2>2, <3>1
    <3> QED BY <3>1, <3>2
  <2> HIDE DEF Good
  <2> QED BY <2>1, <2>2, UpTo
<1>9. h \in [0 .. n -> D]
  BY <1>8
<1> HIDE DEF h
<1>10. CrewRun(in, base, n, seq, D, h)
  BY <1>5, <1>6, <1>7, <1>9 DEF CrewRun
<1> QED BY <1>10

LEMMA GreedyCrews ==
    ASSUME NEW in, Divisible(in)
    PROVE  Crews(in, GreedyOperators(in))
<1> DEFINE n == Len(in.clusters)
           seq == [i \in 1 .. n |-> i]
           base == [c \in 1 .. n |-> None]
           D == {f \in [Clusters(in) -> DOMAIN in.certified \cup {None}] : Crews(in, f)}
           T == Clusters(in)
<1>1. n \in Nat /\ T = 1 .. n /\ DOMAIN seq = 1 .. n /\ \A i \in 1 .. n : seq[i] \in T
  BY KnownFacts DEF Clusters
<1>2. base \in D
  <2>1. base \in [Clusters(in) -> DOMAIN in.certified \cup {None}] /\ \A c \in Clusters(in) : base[c] = None
    BY <1>1
  <2> HIDE DEF base
  <2>2. Crews(in, base)
    BY <2>1 DEF Crews
  <2> QED BY <2>1, <2>2
<1>3. ASSUME NEW f \in D, NEW c \in T PROVE AssignOperator(in, f, c) \in D
  <2>1. Crews(in, AssignOperator(in, f, c))
    BY AssignCrews
  <2> QED BY <2>1 DEF Crews
<1>4. GreedyOperators(in) = Crewing(in, base, seq)
  BY Zenon DEF GreedyOperators, Crewing
<1> HIDE DEF n, seq, base, D, T
<1>5. CrewInput(in, base, n, seq, D, T)
  BY <1>1, <1>2, <1>3 DEF CrewInput
<1>6. PICK h : CrewRun(in, base, n, seq, D, h)
  BY <1>5, CrewFold
<1>7. Crewing(in, base, seq) \in D
  BY <1>1, <1>6 DEF CrewRun
<1> QED BY <1>4, <1>7 DEF D

LEMMA GlobalCrews ==
    ASSUME NEW in, NEW f \in GlobalOperators(in)
    PROVE  Crews(in, f)
BY DEF GlobalOperators, Crews, Clusters

-----------------------------------------------------------------------------
(* The division of the work *)

HeldOnce == pc \notin {"cluster", "allocate"} => Claims(inp, alloc) /\ Crews(inp, crew)
DivisionInv == RowsInv /\ HeldOnce

LEMMA ClaimsOnce ==
    ASSUME NEW in, Claims(in, alloc), Crews(in, crew)
    PROVE  /\ \A c, d \in DOMAIN alloc : \A p \in alloc[c], q \in alloc[d] :
                 /\ p[2] = q[2] => <<c, p>> = <<d, q>>
                 /\ Uses(alloc, p[1]) <= MaxVehicleUses
           /\ \A c, d \in DOMAIN crew : c # d /\ crew[c] = crew[d] => crew[c] = None
<1>1. DOMAIN alloc = Clusters(in) /\ DOMAIN crew = Clusters(in)
  BY DEF Claims, Crews
<1>2. ASSUME NEW c \in DOMAIN alloc, NEW d \in DOMAIN alloc, NEW p \in alloc[c], NEW q \in alloc[d], p[2] = q[2]
      PROVE  <<c, p>> = <<d, q>>
  <2>1. c = d
    BY <1>1, <1>2 DEF Claims
  <2>2. p = q
    BY <1>1, <1>2, <2>1 DEF Claims, Single
  <2> QED BY <2>1, <2>2
<1>3. \A c \in DOMAIN alloc : \A p \in alloc[c] : Uses(alloc, p[1]) <= MaxVehicleUses
  BY <1>1 DEF Claims
<1>4. \A c, d \in DOMAIN crew : c # d /\ crew[c] = crew[d] => crew[c] = None
  BY <1>1 DEF Crews
<1> QED BY <1>2, <1>3, <1>4

\* Once the work is divided, no step changes who has what.
LEMMA LaterSteps ==
    ASSUME \/ RejectCluster \/ Prepare \/ SkipVehicle \/ OpenRoute \/ Visit \/ CloseRoute \/ NoSolution
           \/ Refine \/ Improve \/ Extract
           \/ ExpandedOpen \/ ExpandedVisit \/ ExpandedClose \/ ExpandedFails \/ ExpandedExtract
    PROVE  /\ UNCHANGED <<inp, alloc, crew, cluster>>
           /\ pc \in {"prepare", "search", "improve"} /\ pc' \in {"search", "improve", "done"}
<1>1. CASE RejectCluster
  BY <1>1 DEF RejectCluster
<1>2. CASE Prepare
  BY <1>2 DEF Prepare
<1>3. CASE SkipVehicle
  BY <1>3 DEF SkipVehicle, Extend
<1>4. CASE OpenRoute
  BY <1>4 DEF OpenRoute, Extend
<1>5. CASE Visit
  BY <1>5 DEF Visit, Extend
<1>6. CASE CloseRoute
  BY <1>6 DEF CloseRoute, Extend
<1>7. CASE NoSolution
  BY <1>7 DEF NoSolution
<1>8. CASE Refine
  BY <1>8 DEF Refine
<1>9. CASE Improve
  BY <1>9 DEF Improve, Settled
<1>10. CASE Extract
  BY <1>10 DEF Extract, Settled
<1>11. CASE ExpandedOpen
  BY <1>11 DEF ExpandedOpen, Extend
<1>12. CASE ExpandedVisit
  BY <1>12 DEF ExpandedVisit, Extend
<1>13. CASE ExpandedClose
  BY <1>13 DEF ExpandedClose, Extend
<1>14. CASE ExpandedFails
  BY <1>14 DEF ExpandedFails, NoSolution
<1>15. CASE ExpandedExtract
  BY <1>15 DEF ExpandedExtract, Expands
<1> QED BY <1>1, <1>2, <1>3, <1>4, <1>5, <1>6, <1>7, <1>8, <1>9, <1>10, <1>11, <1>12, <1>13, <1>14, <1>15

LEMMA SolveCases ==
    ASSUME Solve
    PROVE  /\ NetworkReady /\ UNCHANGED networkVars
           /\ \/ BuildClusters \/ AllocateGlobal \/ AllocateGreedy
              \/ RejectCluster \/ Prepare \/ SkipVehicle \/ OpenRoute \/ Visit \/ CloseRoute \/ NoSolution
              \/ Refine \/ Improve \/ Extract
              \/ ExpandedOpen \/ ExpandedVisit \/ ExpandedClose \/ ExpandedFails \/ ExpandedExtract
BY DEF Solve, SolveStep

LEMMA DivisionInit == Init => DivisionInv
<1> SUFFICES ASSUME Init PROVE DivisionInv
  OBVIOUS
<1>1. pc = "cluster" /\ inp \in Inputs /\ links = inp.links /\ NetworkInit
  BY DEF Init
<1>2. RowsOk(inp)
  BY <1>1, InputsAssumption
<1>3. Rows(links)
  BY <1>1, <1>2 DEF RowsOk, Rows, LinkRow
<1>4. NetInv
  BY <1>1, <1>3, NetInvInit
<1> QED BY <1>1, <1>2, <1>4 DEF DivisionInv, RowsInv, ClustersOk, ClustersWhole, HeldOnce

LEMMA DivisionAllocate ==
    ASSUME DivisionInv, AllocateGlobal \/ AllocateGreedy, UNCHANGED networkVars
    PROVE  DivisionInv'
<1>1. RowsOk(inp) /\ NetInv /\ pc = "allocate" /\ pc' = "prepare" /\ inp' = inp /\ Cut(inp)
  BY DEF DivisionInv, RowsInv, ClustersOk, AllocateGlobal, AllocateGreedy
<1>2. Divisible(inp)
  BY <1>1 DEF Divisible
<1>3. Claims(inp, alloc') /\ Crews(inp, crew')
  <2>1. CASE AllocateGlobal
    <3>1. alloc' \in GlobalAllocations(inp) /\ crew' \in GlobalOperators(inp)
      BY <2>1 DEF AllocateGlobal
    <3> QED BY <1>2, <3>1, GlobalClaims, GlobalCrews
  <2>2. CASE AllocateGreedy
    <3>1. alloc' = GreedyAllocation(inp) /\ crew' = GreedyOperators(inp)
      BY <2>2 DEF AllocateGreedy
    <3> QED BY <1>2, <3>1, GreedyClaims, GreedyCrews
  <2> QED BY <2>1, <2>2
<1>4. NetInv'
  BY <1>1, NetInvSame
<1>5. RowsOk(inp)' /\ Cut(inp)'
  BY <1>1
<1>6. Claims(inp, alloc)' /\ Crews(inp, crew)'
  BY <1>1, <1>3
<1> QED BY <1>1, <1>4, <1>5, <1>6 DEF DivisionInv, RowsInv, ClustersOk, ClustersWhole, HeldOnce

LEMMA DivisionKept ==
    ASSUME DivisionInv, UNCHANGED <<inp, alloc, crew>>, NetInv', 
           pc' = pc \/ (pc \in {"prepare", "search", "improve"} /\ pc' \in {"search", "improve", "done"})
    PROVE  DivisionInv'
<1>1. RowsOk(inp)'
  BY DEF DivisionInv, RowsInv
<1>2. ClustersOk'
  <2>1. Cut(inp)' <=> Cut(inp)
    OBVIOUS
  <2> QED BY <2>1 DEF DivisionInv, RowsInv, ClustersOk
<1>3. ClustersWhole'
  BY DEF DivisionInv, RowsInv, ClustersWhole
<1>4. HeldOnce'
  <2>1. Claims(inp, alloc)' <=> Claims(inp, alloc)
    OBVIOUS
  <2>2. Crews(inp, crew)' <=> Crews(inp, crew)
    OBVIOUS
  <2> QED BY <2>1, <2>2 DEF DivisionInv, HeldOnce
<1> QED BY <1>1, <1>2, <1>3, <1>4 DEF DivisionInv, RowsInv

LEMMA DivisionStep == DivisionInv /\ [RoutingNext]_vars => DivisionInv'
<1> SUFFICES ASSUME DivisionInv, [RoutingNext]_vars PROVE DivisionInv'
  OBVIOUS
<1>1. NetInv
  BY DEF DivisionInv, RowsInv
<1>2. CASE BuildTravelTimes
  <2>1. NetInv' /\ UNCHANGED <<inp, alloc, crew, pc>>
    BY <1>1, <1>2, NetInvStep DEF BuildTravelTimes, routingVars
  <2> QED BY <2>1, DivisionKept
<1>3. CASE Solve
  <2>1. NetworkReady /\ UNCHANGED networkVars
    BY <1>3, SolveCases
  <2>2. NetInv'
    BY <1>1, <2>1, NetInvSame
  <2>3. CASE BuildClusters
    <3>1. RowsInv'
      BY <2>1, <2>3, RowsInvBuild DEF DivisionInv
    <3> QED BY <2>3, <3>1 DEF DivisionInv, HeldOnce, BuildClusters
  <2>4. CASE AllocateGlobal \/ AllocateGreedy
    BY <2>1, <2>4, DivisionAllocate
  <2>5. CASE ~(BuildClusters \/ AllocateGlobal \/ AllocateGreedy)
    <3>1. /\ UNCHANGED <<inp, alloc, crew, cluster>>
          /\ pc \in {"prepare", "search", "improve"} /\ pc' \in {"search", "improve", "done"}
      BY <1>3, <2>5, SolveCases, LaterSteps
    <3> QED BY <2>2, <3>1, DivisionKept
  <2> QED BY <2>3, <2>4, <2>5
<1>4. CASE UNCHANGED vars
  <2>1. NetInv' /\ UNCHANGED <<inp, alloc, crew, pc>>
    BY <1>1, <1>4, NetInvSame DEF vars, routingVars
  <2> QED BY <2>1, DivisionKept
<1> QED BY <1>2, <1>3, <1>4 DEF RoutingNext

\* In every state the clusters lose and double no task, part no chain and no group and
\* keep to the target size and to one operation as far as units allow; and no implement
\* or operator is given to two clusters, no vehicle more often than it may be: what the
\* clustering and both allocators hand to the searches.
THEOREM RoutingDivision == RoutingSpec => []DivisionSound
<1>1. DivisionInv => DivisionSound
  BY ClaimsOnce DEF DivisionInv, RowsInv, HeldOnce, DivisionSound, ClaimedOnce
<1> QED BY <1>1, DivisionInit, DivisionStep, PTL DEF RoutingSpec
=============================================================================
