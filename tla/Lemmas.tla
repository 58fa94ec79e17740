---------------------------------- MODULE Lemmas -----------------------------------
(***********************************************************************************)
(* What the proofs about several modules rely on.  Induction, over numbers and     *)
(* over sequences, is stated for a set instead of a predicate: the set of what     *)
(* satisfies it.  Repeated application of a function, which is what recursion over *)
(* numbers defines.  A fold, for any operator: an INSTANCE gives combine its value. *)
(* And the fair lock: a writer is alone, asking or leaving takes the lock from nobody  *)
(* else, and who is served leaves the queue at its front.                          *)
(***********************************************************************************)
EXTENDS FairRwLock, SequenceTheorems, FiniteSetTheorems, TLAPS

CONSTANT combine(_, _)         \* the operator that is folded

-----------------------------------------------------------------------------------
\* Every set of numbers has a least element: the induction on which all others rest.
LEMMA LeastNumber ==
  ASSUME NEW S, S \subseteq Nat, S # {}
  PROVE  \E x \in S : \A y \in S : x <= y
<1> DEFINE Less == {ss \in Nat \X Nat : ss[1] < ss[2]}
<1>1. IsWellFoundedOn(Less, Nat)
  BY NatLessThanWellFounded DEF OpToRel
<1>2. \E x \in S : \A y \in S : ~ (<<y, x>> \in Less)
  BY <1>1, WFMin
<1>3. \A x, y \in S : y < x => <<y, x>> \in Less
  OBVIOUS
<1>4. \A x, y \in S : ~ (y < x) => x <= y
  OBVIOUS
<1> HIDE DEF Less
<1> QED BY <1>2, <1>3, <1>4

\* What holds of the empty sequence and is kept by Append holds of every sequence.
LEMMA SequenceInduction ==
  ASSUME NEW E, NEW P, <<>> \in P,
         \A s \in Seq(E), e \in E : s \in P => Append(s, e) \in P
  PROVE  Seq(E) \subseteq P
<1> DEFINE C == {n \in Nat : \E s \in Seq(E) : Len(s) = n /\ s \notin P}
<1> SUFFICES ASSUME C # {} PROVE FALSE
  <2>1. \A s \in Seq(E) : Len(s) \in Nat
    OBVIOUS
  <2> QED BY <2>1
<1>1. PICK n \in C : \A y \in C : n <= y
  <2>1. C \subseteq Nat
    OBVIOUS
  <2> HIDE DEF C
  <2> QED BY <2>1, LeastNumber
<1>2. PICK s \in Seq(E) : Len(s) = n /\ s \notin P
  BY <1>1
<1>3. s # <<>>
  BY <1>2
<1>4. PICK t \in Seq(E), e \in E : s = Append(t, e)
  BY <1>3, SequenceEmptyOrAppend
<1>5. Len(t) \in Nat /\ n = Len(t) + 1
  BY <1>2, <1>4
<1>6. t \in P
  BY <1>1, <1>5
<1> QED BY <1>2, <1>4, <1>6

LEMMA SubSeqTyped ==
  ASSUME NEW S, NEW q \in Seq(S), NEW m \in 1..(Len(q) + 1), NEW n \in 0..Len(q)
  PROVE  SubSeq(q, m, n) \in Seq(S)
<1>1. Len(q) \in Nat
  OBVIOUS
<1>2. \A i \in m..n : i \in 1..Len(q)
  BY <1>1
<1> QED BY <1>1, <1>2, SubSeqProperties

-----------------------------------------------------------------------------------
\* u applies F up to n times, beginning with a: what recursion over numbers defines.
Iterates(u, n, a, F, T) ==
  u \in [0..n -> T] /\ u[0] = a /\ \A i \in 1..n : u[i] = F[u[i - 1]]

LEMMA IteratesExist ==
  ASSUME NEW T, NEW a \in T, NEW F \in [T -> T], NEW n \in Nat
  PROVE  \E u : Iterates(u, n, a, F, T)
<1> DEFINE C == {k \in Nat : ~ \E u : Iterates(u, k, a, F, T)}
<1> SUFFICES ASSUME C # {} PROVE FALSE
  OBVIOUS
<1>1. PICK m \in C : \A y \in C : m <= y
  <2>1. C \subseteq Nat
    OBVIOUS
  <2> HIDE DEF C
  <2> QED BY <2>1, LeastNumber
<1>2. CASE m = 0
  <2> DEFINE u == [i \in 0..0 |-> a]
  <2>1. Iterates(u, 0, a, F, T)
    BY DEF Iterates
  <2> QED BY <1>1, <1>2, <2>1
<1>3. CASE m # 0
  <2>1. m - 1 \in Nat /\ m \in Nat
    BY <1>1, <1>3
  <2>2. PICK u : Iterates(u, m - 1, a, F, T)
    <3>1. m - 1 \notin C
      <4> HIDE DEF C
      <4> QED BY <1>1, <2>1
    <3> QED BY <2>1, <3>1
  <2> DEFINE v == [i \in 0..m |-> IF i = m THEN F[u[m - 1]] ELSE u[i]]
  <2>3. v \in [0..m -> T]
    BY <2>1, <2>2 DEF Iterates
  <2>4. v[0] = a
    BY <1>3, <2>1, <2>2 DEF Iterates
  <2>5. \A i \in 1..m : v[i] = F[v[i - 1]]
    BY <2>1, <2>2 DEF Iterates
  <2> HIDE DEF v
  <2> QED BY <1>1, <2>3, <2>4, <2>5 DEF Iterates
<1> QED BY <1>2, <1>3

-----------------------------------------------------------------------------------
LEMMA MaxInt ==
  ASSUME NEW n \in Nat, NEW S \in SUBSET (1..n), S # {}
  PROVE  Max(S) \in S /\ \A y \in S : y <= Max(S)
<1>. DEFINE T == {n - x : x \in S}
<1>1. T \subseteq Nat /\ T # {}
  <2>1. \A x \in S : n - x \in Nat
    <3>1. \A x \in 1..n : n - x \in Nat
      OBVIOUS
    <3> QED BY <3>1
  <2> QED BY <2>1
<1>2. PICK t \in T : \A u \in T : t <= u
  <2> HIDE DEF T
  <2> QED BY <1>1, LeastNumber
<1>3. PICK x \in S : t = n - x
  OBVIOUS
<1>4. \A y \in S : y <= x
  <2> TAKE y \in S
  <2>1. n - y \in T
    OBVIOUS
  <2>2. n - x <= n - y
    BY <1>2, <1>3, <2>1
  <2> QED BY <2>2
<1>5. \E z \in S : \A y \in S : y <= z
  BY <1>4
<1> QED BY <1>5 DEF Max

Fold(b, s) == FoldLeft(combine, b, s)

\* What FoldLeft computes on a set S of places, and the function it is defined with.
Turn(g, b, s, S) == IF S = {} THEN b ELSE combine(g[S \ {Max(S)}], s[Max(S)])

IsFold(g, b, s, n) == g = [S \in SUBSET (1..n) |-> Turn(g, b, s, S)]

LEMMA FoldDef ==
  ASSUME NEW b, NEW s, NEW n \in Nat, DOMAIN s = 1..n
  PROVE  Fold(b, s) = (CHOOSE g : IsFold(g, b, s, n))[1..n]
BY DEF Fold, FoldLeft, MapThenFoldSet, IsFold, Turn

LEMMA MaxTop ==
  ASSUME NEW n \in Nat, NEW S \in SUBSET (1..(n + 1)), n + 1 \in S
  PROVE  Max(S) = n + 1
<1>1. n + 1 \in Nat
  OBVIOUS
<1>2. Max(S) \in S /\ n + 1 <= Max(S)
  BY <1>1, MaxInt
<1>3. Max(S) \in 1..(n + 1)
  BY <1>2
<1>4. \A x \in 1..(n + 1) : n + 1 <= x => x = n + 1
  OBVIOUS
<1> QED BY <1>2, <1>3, <1>4

LEMMA FoldExists ==
  ASSUME NEW b, NEW s
  PROVE  \A n \in Nat : \E g : IsFold(g, b, s, n)
<1> DEFINE C == {n \in Nat : ~ \E g : IsFold(g, b, s, n)}
<1> SUFFICES ASSUME C # {} PROVE FALSE
  OBVIOUS
<1>1. PICK m \in C : \A y \in C : m <= y
  <2>1. C \subseteq Nat
    OBVIOUS
  <2> HIDE DEF C
  <2> QED BY <2>1, LeastNumber
<1>2. CASE m = 0
  <2> DEFINE g == [S \in SUBSET (1..0) |-> b]
  <2>1. IsFold(g, b, s, 0)
    <3>1. \A S \in SUBSET (1..0) : S = {}
      OBVIOUS
    <3> QED BY <3>1 DEF IsFold, Turn
  <2> HIDE DEF g
  <2> QED BY <1>1, <1>2, <2>1
<1>3. CASE m # 0
  <2>1. m - 1 \in Nat /\ (m - 1) + 1 = m
    BY <1>3
  <2>2. m - 1 \notin C
    BY <1>1, <1>3
  <2>3. PICK g : IsFold(g, b, s, m - 1)
    BY <2>1, <2>2
  <2> DEFINE h == [S \in SUBSET (1..m) |-> IF m \in S THEN combine(g[S \ {m}], s[m]) ELSE g[S]]
  <2>4. ASSUME NEW S \in SUBSET (1..m) PROVE h[S] = Turn(h, b, s, S)
    <3>1. CASE m \in S
      <4>1. Max(S) = m
        BY <2>1, <3>1, MaxTop
      <4>2. S \ {m} \in SUBSET (1..m) /\ m \notin S \ {m}
        OBVIOUS
      <4>3. h[S \ {m}] = g[S \ {m}]
        BY <4>2
      <4> QED BY <3>1, <4>1, <4>3 DEF Turn
    <3>2. CASE m \notin S
      <4>1. S \in SUBSET (1..(m - 1))
        BY <2>1, <3>2
      <4>2. h[S] = Turn(g, b, s, S)
        BY <2>3, <3>2, <4>1 DEF IsFold
      <4>3. S # {} => h[S \ {Max(S)}] = g[S \ {Max(S)}]
        BY <3>2
      <4> HIDE DEF h
      <4> QED BY <4>2, <4>3 DEF Turn
    <3> QED BY <3>1, <3>2
  <2>5. IsFold(h, b, s, m)
    <3>1. h = [S \in SUBSET (1..m) |-> h[S]]
      OBVIOUS
    <3> HIDE DEF h
    <3> QED BY <2>4, <3>1 DEF IsFold
  <2> HIDE DEF h
  <2> QED BY <2>5
<1> QED BY <1>2, <1>3

\* Two folds of sequences that begin alike agree there.
LEMMA FoldAgree ==
  ASSUME NEW b, NEW s, NEW t, NEW n \in Nat, NEW m \in Nat, n <= m,
         \A i \in 1..n : s[i] = t[i],
         NEW g, IsFold(g, b, s, n), NEW h, IsFold(h, b, t, m)
  PROVE  g[1..n] = h[1..n]
<1> DEFINE C == {k \in 0..n : \E S \in SUBSET (1..k) : g[S] # h[S]}
<1>1. ASSUME C # {} PROVE FALSE
  <2>1. PICK k \in C : \A y \in C : k <= y
    <3>1. C \subseteq Nat
      OBVIOUS
    <3> HIDE DEF C
    <3> QED BY <1>1, <3>1, LeastNumber
  <2>2. PICK S \in SUBSET (1..k) : g[S] # h[S]
    BY <2>1
  <2>3. k \in Nat /\ k <= n /\ S \in SUBSET (1..n) /\ S \in SUBSET (1..m)
    BY <2>1
  <2>4. g[S] = Turn(g, b, s, S) /\ h[S] = Turn(h, b, t, S)
    BY <2>3 DEF IsFold
  <2>5. S # {}
    BY <2>2, <2>4 DEF Turn
  <2>6. Max(S) \in S
    BY <2>3, <2>5, MaxInt
  <2>0. \A x \in 1..k : x # k => x \in 1..(k - 1)
    BY <2>1
  <2>7. k # 0 /\ k - 1 \in 0..n
    <3>1. 1..0 = {}
      OBVIOUS
    <3>2. k # 0
      BY <2>2, <2>5, <3>1
    <3> QED BY <2>3, <3>2
  <2>8. k \in S
    <3>1. CASE k \notin S
      <4>1. S \in SUBSET (1..(k - 1))
        BY <2>0, <2>2, <3>1
      <4>2. k - 1 \in C
        BY <2>2, <2>7, <4>1
      <4> QED BY <2>1, <2>3, <4>2
    <3> QED BY <3>1
  <2>9. Max(S) = k
    <3>1. k - 1 \in Nat /\ (k - 1) + 1 = k
      BY <2>3, <2>7
    <3> QED BY <2>8, <3>1, MaxTop
  <2>10. S \ {k} \in SUBSET (1..(k - 1))
    BY <2>0, <2>2
  <2>11. g[S \ {k}] = h[S \ {k}]
    <3>1. k - 1 \notin C
      BY <2>1, <2>3
    <3> QED BY <2>7, <2>10, <3>1
  <2>12. s[k] = t[k]
    BY <2>3, <2>7
  <2> QED BY <2>2, <2>4, <2>5, <2>9, <2>11, <2>12 DEF Turn
<1>2. n \notin C
  BY <1>1
<1>3. 1..n \in SUBSET (1..n) /\ n \in 0..n
  OBVIOUS
<1> QED BY <1>2, <1>3

LEMMA FoldEmpty == ASSUME NEW b PROVE Fold(b, <<>>) = b
<1> DEFINE g == CHOOSE f : IsFold(f, b, <<>>, 0)
<1>1. Fold(b, <<>>) = g[1..0]
  <2>1. DOMAIN <<>> = 1..0
    OBVIOUS
  <2> QED BY <2>1, FoldDef
<1>2. IsFold(g, b, <<>>, 0)
  BY FoldExists
<1>3. 1..0 = {}
  OBVIOUS
<1> HIDE DEF g
<1> QED BY <1>1, <1>2, <1>3 DEF IsFold, Turn

LEMMA FoldAppend ==
  ASSUME NEW T, NEW s \in Seq(T), NEW b, NEW e
  PROVE  Fold(b, Append(s, e)) = combine(Fold(b, s), e)
<1> DEFINE n == Len(s)
           t == Append(s, e)
           g == CHOOSE f : IsFold(f, b, s, n)
           h == CHOOSE f : IsFold(f, b, t, n + 1)
<1>1. n \in Nat /\ n + 1 \in Nat /\ n <= n + 1 /\ (n + 1) - 1 = n
  OBVIOUS
<1>2. /\ DOMAIN s = 1..n /\ DOMAIN t = 1..(n + 1)
      /\ \A i \in 1..n : s[i] = t[i]
      /\ t[n + 1] = e
  OBVIOUS
<1>3. IsFold(g, b, s, n) /\ IsFold(h, b, t, n + 1)
  BY <1>1, FoldExists
<1> HIDE DEF n, t, g, h
<1>4. g[1..n] = h[1..n]
  BY <1>1, <1>2, <1>3, FoldAgree
<1>5. h[1..(n + 1)] = combine(h[1..n], e)
  <2>1. 1..(n + 1) \in SUBSET (1..(n + 1)) /\ n + 1 \in 1..(n + 1)
    BY <1>1
  <2>2. Max(1..(n + 1)) = n + 1
    BY <1>1, <2>1, MaxTop
  <2>3. (1..(n + 1)) \ {n + 1} = 1..n
    BY <1>1
  <2>4. h[1..(n + 1)] = Turn(h, b, t, 1..(n + 1))
    BY <1>3, <2>1 DEF IsFold
  <2> QED BY <1>2, <2>1, <2>2, <2>3, <2>4 DEF Turn
<1>6. Fold(b, s) = g[1..n] /\ Fold(b, t) = h[1..(n + 1)]
  BY <1>1, <1>2, FoldDef DEF g, h
<1> QED BY <1>4, <1>5, <1>6 DEF t

\* What every turn keeps the fold keeps.
LEMMA FoldType ==
  ASSUME NEW E, NEW T, NEW b \in T, NEW s \in Seq(E), \A x \in T, e \in E : combine(x, e) \in T
  PROVE  Fold(b, s) \in T
<1> DEFINE P == {t \in Seq(E) : Fold(b, t) \in T}
<1>1. <<>> \in P
  BY FoldEmpty
<1>2. ASSUME NEW t \in Seq(E), NEW e \in E, t \in P PROVE Append(t, e) \in P
  BY <1>2, FoldAppend
<1>3. Seq(E) \subseteq P
  <2> HIDE DEF P
  <2> QED BY <1>1, <1>2, SequenceInduction
<1> QED BY <1>3

\* The sequence t without what is at k.
Skip(t, k) == [i \in 1..(Len(t) - 1) |-> IF i < k THEN t[i] ELSE t[i + 1]]

LEMMA SkipFacts ==
  ASSUME NEW E, NEW t \in Seq(E), NEW k \in 1..Len(t)
  PROVE  /\ Skip(t, k) \in Seq(E) /\ Len(Skip(t, k)) = Len(t) - 1
         /\ \A i \in 1..(Len(t) - 1) : Skip(t, k)[i] = IF i < k THEN t[i] ELSE t[i + 1]
         /\ \A f \in E : Skip(Append(t, f), k) = Append(Skip(t, k), f)
                         /\ Skip(Append(t, f), Len(t) + 1) = t
<1> DEFINE n == Len(t)
<1>1. n \in Nat /\ n - 1 \in Nat /\ t \in [1..n -> E] /\ k <= n /\ k \in Nat
  BY LenProperties
<1>2. Skip(t, k) = [i \in 1..(n - 1) |-> IF i < k THEN t[i] ELSE t[i + 1]]
  BY DEF Skip
<1>3. \A i \in 1..(n - 1) : i \in 1..n /\ i + 1 \in 1..n
  BY <1>1
<1>4. Skip(t, k) \in [1..(n - 1) -> E]
  <2> HIDE DEF n
  <2> QED BY <1>1, <1>2, <1>3
<1>5. Skip(t, k) \in Seq(E)
  BY <1>1, <1>4, SeqDef
<1>6. Len(Skip(t, k)) = n - 1
  <2> HIDE DEF n
  <2> QED BY <1>1, <1>4, <1>5, LenProperties
<1>7. ASSUME NEW f \in E
      PROVE  Skip(Append(t, f), k) = Append(Skip(t, k), f) /\ Skip(Append(t, f), n + 1) = t
  <2> DEFINE u == Append(t, f)
             v == Append(Skip(t, k), f)
  <2>1. u \in Seq(E) /\ Len(u) = n + 1 /\ u[n + 1] = f /\ \A i \in 1..n : u[i] = t[i]
    BY AppendProperties
  <2>2. v \in Seq(E) /\ Len(v) = n /\ v[n] = f /\ \A i \in 1..(n - 1) : v[i] = Skip(t, k)[i]
    <3> HIDE DEF n
    <3> QED BY <1>1, <1>5, <1>6, AppendProperties
  <2>3. \A j : Skip(u, j) = [i \in 1..n |-> IF i < j THEN u[i] ELSE u[i + 1]]
    <3>1. Len(u) - 1 = n
      BY <1>1, <2>1
    <3> HIDE DEF u, n
    <3> QED BY <3>1 DEF Skip
  <2> HIDE DEF u, v, n
  <2>4. \A i \in 1..n : Skip(u, k)[i] = v[i]
    <3> TAKE i \in 1..n
    <3>1. CASE i = n
      BY <1>1, <2>1, <2>2, <2>3, <3>1
    <3>2. CASE i # n
      <4>1. i \in 1..(n - 1) /\ i + 1 \in 1..n
        BY <1>1, <3>2
      <4> QED BY <1>2, <2>1, <2>2, <2>3, <4>1
    <3> QED BY <3>1, <3>2
  <2>5. v = [i \in 1..n |-> v[i]]
    BY <2>2, LenProperties
  <2>6. Skip(u, n + 1) = [i \in 1..n |-> t[i]]
    <3>1. \A i \in 1..n : i < n + 1
      BY <1>1
    <3> QED BY <2>1, <2>3, <3>1
  <2> QED BY <1>1, <2>3, <2>4, <2>5, <2>6 DEF u, v
<1> QED BY <1>2, <1>5, <1>6, <1>7

\* What is at j may change places with all that follows it.
MayComeLast(u, j, X) ==
  \A i \in 1..Len(u), x \in X :
    j < i => combine(combine(x, u[j]), u[i]) = combine(combine(x, u[i]), u[j])

\* It may as well come last.
LEMMA FoldLast ==
  ASSUME NEW E, NEW X, \A x \in X, e \in E : combine(x, e) \in X, NEW b \in X,
         NEW t \in Seq(E), NEW k \in 1..Len(t), MayComeLast(t, k, X)
  PROVE  Fold(b, t) = combine(Fold(b, Skip(t, k)), t[k])
<1> DEFINE P == {u \in Seq(E) : \A j \in 1..Len(u) : MayComeLast(u, j, X)
                   => Fold(b, u) = combine(Fold(b, Skip(u, j)), u[j])}
<1>1. <<>> \in P
  OBVIOUS
<1>2. ASSUME NEW u \in Seq(E), NEW e \in E, u \in P PROVE Append(u, e) \in P
  <2> DEFINE v == Append(u, e)
             n == Len(u)
  <2>1. /\ v \in Seq(E) /\ Len(v) = n + 1 /\ n \in Nat /\ v[n + 1] = e
        /\ \A i \in 1..n : v[i] = u[i]
    BY AppendProperties, LenProperties
  <2>2. Fold(b, v) = combine(Fold(b, u), e)
    BY FoldAppend
  <2> SUFFICES ASSUME NEW j \in 1..(n + 1), MayComeLast(v, j, X)
               PROVE  Fold(b, v) = combine(Fold(b, Skip(v, j)), v[j])
    <3> HIDE DEF v, n
    <3> QED BY <2>1 DEF v
  <2>3. CASE j = n + 1
    <3>1. CASE n = 0
      <4>1. Skip(v, j) = u
        <5>1. u \in [1..0 -> E] /\ Len(v) - 1 = 0
          BY <2>1, <3>1, LenProperties
        <5> HIDE DEF v
        <5>2. Skip(v, j) = [i \in 1..0 |-> IF i < j THEN v[i] ELSE v[i + 1]]
          BY <5>1 DEF Skip
        <5>3. 1..0 = {}
          OBVIOUS
        <5> QED BY <5>1, <5>2, <5>3
      <4> QED BY <2>1, <2>2, <2>3, <4>1
    <3>2. CASE n # 0
      <4>1. n \in 1..Len(u)
        BY <2>1, <3>2
      <4>2. Skip(v, n + 1) = u
        BY <4>1, SkipFacts
      <4> QED BY <2>1, <2>2, <2>3, <4>2
    <3> QED BY <3>1, <3>2
  <2>4. CASE j # n + 1
    <3>1. j \in 1..n
      BY <2>1, <2>4
    <3>2. MayComeLast(u, j, X)
      <4> SUFFICES ASSUME NEW i \in 1..n, NEW x \in X, j < i
                   PROVE  combine(combine(x, u[j]), u[i]) = combine(combine(x, u[i]), u[j])
        BY DEF MayComeLast
      <4>1. i \in 1..Len(v) /\ v[i] = u[i] /\ v[j] = u[j]
        BY <2>1, <3>1
      <4> HIDE DEF v
      <4> QED BY <4>1 DEF MayComeLast
    <3>3. \A x \in X : combine(combine(x, u[j]), e) = combine(combine(x, e), u[j])
      <4>1. n + 1 \in 1..Len(v) /\ j < n + 1 /\ v[n + 1] = e /\ v[j] = u[j]
        BY <2>1, <3>1
      <4> HIDE DEF v, n
      <4> QED BY <4>1 DEF MayComeLast
    <3>4. Fold(b, u) = combine(Fold(b, Skip(u, j)), u[j])
      BY <1>2, <3>1, <3>2
    <3>5. Skip(v, j) = Append(Skip(u, j), e) /\ Skip(u, j) \in Seq(E)
      BY <3>1, SkipFacts
    <3>6. Fold(b, Skip(u, j)) \in X /\ Fold(b, Skip(v, j)) = combine(Fold(b, Skip(u, j)), e)
      BY <3>5, FoldType, FoldAppend
    <3> QED BY <2>1, <2>2, <3>1, <3>3, <3>4, <3>6
  <2> QED BY <2>3, <2>4
<1>3. Seq(E) \subseteq P
  <2> HIDE DEF P
  <2> QED BY <1>1, <1>2, SequenceInduction
<1> QED BY <1>3

\* No element comes twice in s, and they come in the order of their keys.
InOrder(s, K) ==
  /\ \A i, j \in 1..Len(s) : s[i] = s[j] => i = j
  /\ \A i, j \in 1..Len(s) : i < j => K[s[i]] <= K[s[j]]

LEMMA InOrderSkip ==
  ASSUME NEW E, NEW K, NEW t \in Seq(E), NEW k \in 1..Len(t), InOrder(t, K)
  PROVE  InOrder(Skip(t, k), K) /\ Range(Skip(t, k)) = Range(t) \ {t[k]}
<1> DEFINE n == Len(t)
           w == Skip(t, k)
           At(i) == IF i < k THEN i ELSE i + 1
<1>1. n \in Nat /\ k \in Nat /\ k <= n /\ 1 <= k
  OBVIOUS
<1>2. /\ w \in Seq(E) /\ Len(w) = n - 1
      /\ \A i \in 1..(n - 1) : w[i] = IF i < k THEN t[i] ELSE t[i + 1]
  BY SkipFacts
<1>3. \A i \in 1..(n - 1) : At(i) \in 1..n /\ At(i) # k
  BY <1>1
<1>4. \A i \in 1..(n - 1) : w[i] = t[At(i)]
  BY <1>2
<1>5. \A i, j \in 1..(n - 1) : (At(i) = At(j) => i = j) /\ (i < j => At(i) < At(j))
  BY <1>1
<1>6. \A j \in 1..n : j # k => \E i \in 1..(n - 1) : At(i) = j
  <2> SUFFICES ASSUME NEW j \in 1..n, j # k PROVE \E i \in 1..(n - 1) : At(i) = j
    OBVIOUS
  <2>1. CASE j < k
    <3>1. j \in 1..(n - 1) /\ At(j) = j
      BY <1>1, <2>1
    <3> QED BY <3>1
  <2>2. CASE k < j
    <3>1. j - 1 \in 1..(n - 1) /\ At(j - 1) = j
      BY <1>1, <2>2
    <3> QED BY <3>1
  <2> QED BY <1>1, <2>1, <2>2
<1> HIDE DEF n, w, At
<1>7. /\ \A i, j \in 1..n : t[i] = t[j] => i = j
      /\ \A i, j \in 1..n : i < j => K[t[i]] <= K[t[j]]
  BY DEF InOrder, n
<1>8. InOrder(w, K)
  <2>1. \A i, j \in 1..(n - 1) : w[i] = w[j] => i = j
    BY <1>3, <1>4, <1>5, <1>7
  <2>2. \A i, j \in 1..(n - 1) : i < j => K[w[i]] <= K[w[j]]
    BY <1>3, <1>4, <1>5, <1>7
  <2> QED BY <1>2, <2>1, <2>2 DEF InOrder
<1>9. Range(w) = {w[i] : i \in 1..(n - 1)} /\ Range(t) = {t[i] : i \in 1..n}
  BY <1>2, RangeEquality DEF n
<1>10. Range(w) = Range(t) \ {t[k]}
  <2>1. k \in 1..n
    BY <1>1
  <2>2. \A x \in Range(w) : x \in Range(t) \ {t[k]}
    BY <1>3, <1>4, <1>7, <1>9, <2>1
  <2>3. \A x \in Range(t) \ {t[k]} : x \in Range(w)
    BY <1>4, <1>6, <1>9
  <2> QED BY <2>2, <2>3
<1> QED BY <1>8, <1>10 DEF w

\* Combining with an element of E leads from X to X.
StaysIn(E, X) == \A x \in X, e \in E : combine(x, e) \in X

\* Elements of the same key may change places.
SameKeyCommutes(E, K, X) ==
  \A d, e \in E, x \in X :
    d # e /\ K[d] = K[e] => combine(combine(x, d), e) = combine(combine(x, e), d)

\* Then the fold is the same whatever order they come in.
LEMMA OrdersAgree ==
  ASSUME NEW E, NEW K \in [E -> Int], NEW X, StaysIn(E, X), NEW b \in X, SameKeyCommutes(E, K, X),
         NEW s \in Seq(E), NEW t \in Seq(E), InOrder(s, K), InOrder(t, K), Range(s) = Range(t)
  PROVE  Fold(b, s) = Fold(b, t)
<1> DEFINE P == {u \in Seq(E) : InOrder(u, K) => \A v \in Seq(E) :
                   InOrder(v, K) /\ Range(u) = Range(v) => Fold(b, u) = Fold(b, v)}
<1>1. <<>> \in P
  <2> SUFFICES ASSUME NEW v \in Seq(E), Range(<<>>) = Range(v) PROVE v = <<>>
    OBVIOUS
  <2>1. Range(v) = {} /\ Range(v) = {v[i] : i \in 1..Len(v)}
    BY RangeEquality DEF Range
  <2>2. v # <<>> => 1 \in 1..Len(v)
    BY EmptySeq
  <2> QED BY <2>1, <2>2
<1>2. ASSUME NEW u \in Seq(E), NEW e \in E, u \in P PROVE Append(u, e) \in P
  <2> DEFINE w == Append(u, e)
             n == Len(u)
  <2>1. /\ w \in Seq(E) /\ Len(w) = n + 1 /\ n \in Nat /\ w[n + 1] = e
        /\ \A i \in 1..n : w[i] = u[i]
    BY AppendProperties, LenProperties
  <2>2. Fold(b, w) = combine(Fold(b, u), e)
    BY FoldAppend
  <2>3. Range(u) = {u[i] : i \in 1..n} /\ Range(w) = {w[i] : i \in 1..(n + 1)}
    <3> HIDE DEF w
    <3> QED BY <2>1, RangeEquality
  <2> HIDE DEF n
  <2> SUFFICES ASSUME InOrder(w, K), NEW v \in Seq(E), InOrder(v, K), Range(w) = Range(v)
               PROVE  Fold(b, w) = Fold(b, v)
    BY <2>1
  <2> HIDE DEF w
  <2>4. /\ \A i, j \in 1..(n + 1) : w[i] = w[j] => i = j
        /\ \A i, j \in 1..(n + 1) : i < j => K[w[i]] <= K[w[j]]
    BY <2>1 DEF InOrder
  <2>5. \A i \in 1..n : i \in 1..(n + 1) /\ n + 1 \in 1..(n + 1) /\ i < n + 1
    BY <2>1
  <2>6. InOrder(u, K)
    <3>1. Len(u) = n
      BY DEF n
    <3> QED BY <2>1, <2>4, <2>5, <3>1 DEF InOrder
  <2>7. Range(u) = Range(w) \ {e}
    <3>1. \A i \in 1..(n + 1) : i \in 1..n \/ i = n + 1
      BY <2>1
    <3>2. \A x \in Range(u) : x \in Range(w) /\ x # e
      BY <2>1, <2>3, <2>4, <2>5
    <3>3. \A x \in Range(w) : x # e => x \in Range(u)
      BY <2>1, <2>3, <3>1
    <3> QED BY <3>2, <3>3
  <2>8. \A i \in 1..(n + 1) : K[w[i]] <= K[e]
    <3>1. \A i \in 1..(n + 1) : i \in 1..n \/ i = n + 1
      BY <2>1
    <3>2. K[e] <= K[e]
      OBVIOUS
    <3>3. \A i \in 1..n : K[w[i]] <= K[e]
      BY <2>1, <2>4, <2>5
    <3> QED BY <2>1, <3>1, <3>2, <3>3
  <2>9. Range(v) = {v[i] : i \in 1..Len(v)}
    BY RangeEquality
  <2>10. PICK k \in 1..Len(v) : v[k] = e
    <3>1. e \in Range(w)
      BY <2>1, <2>3
    <3> QED BY <2>9, <3>1
  <2>11. ASSUME NEW i \in 1..Len(v), NEW x \in X, k < i
         PROVE  combine(combine(x, v[k]), v[i]) = combine(combine(x, v[i]), v[k])
    <3>1. v[i] # v[k] /\ K[v[k]] <= K[v[i]] /\ v[i] \in E
      BY <2>11 DEF InOrder
    <3>2. K[v[i]] <= K[e]
      <4>1. v[i] \in Range(w)
        BY <2>9
      <4> QED BY <2>3, <2>8, <4>1
    <3>3. K[v[i]] = K[v[k]]
      BY <2>10, <3>1, <3>2
    <3> QED BY <2>10, <3>1, <3>3 DEF SameKeyCommutes
  <2>12. Fold(b, v) = combine(Fold(b, Skip(v, k)), v[k])
    <3>1. MayComeLast(v, k, X)
      BY <2>11 DEF MayComeLast
    <3>2. \A x \in X, d \in E : combine(x, d) \in X
      BY DEF StaysIn
    <3> QED BY <3>1, <3>2, FoldLast
  <2>13. Fold(b, u) = Fold(b, Skip(v, k))
    <3>1. Skip(v, k) \in Seq(E)
      BY SkipFacts
    <3>2. InOrder(Skip(v, k), K) /\ Range(Skip(v, k)) = Range(u)
      BY <2>7, <2>10, InOrderSkip
    <3> QED BY <1>2, <2>6, <3>1, <3>2
  <2> QED BY <2>2, <2>10, <2>12, <2>13
<1>3. Seq(E) \subseteq P
  <2> HIDE DEF P
  <2> QED BY <1>1, <1>2, SequenceInduction
<1> QED BY <1>3

-----------------------------------------------------------------------------------
\* Serving the queue keeps every holder and never lets a writer in beside another.
LEMMA SettleFacts ==
  ASSUME NEW r, NEW w, NEW q, Exclusive(Lock(r, w, q))
  PROVE  /\ Exclusive(Settle(Lock(r, w, q)))
         /\ r \subseteq Settle(Lock(r, w, q)).readers
         /\ w \subseteq Settle(Lock(r, w, q)).writers
<1> DEFINE l == Lock(r, w, q)
<1>1. l.readers = r /\ l.writers = w /\ l.queue = q
  BY DEF Lock
<1>2. /\ Settle(l).readers = r \cup Entering(l, "R")
      /\ Settle(l).writers = w \cup Entering(l, "W")
  BY <1>1 DEF Settle, Lock
<1>3. CASE Served(l) = {}
  BY <1>1, <1>2, <1>3 DEF Entering, Exclusive
<1>4. CASE Served(l) # {} /\ q[1].mode = "R"
  <2>1. w = {} /\ Served(l) = LeadingReaders(l)
    BY <1>1, <1>4 DEF Served
  <2>2. \A i \in LeadingReaders(l) : q[i].mode = "R"
    <3> SUFFICES ASSUME NEW i \in LeadingReaders(l) PROVE q[i].mode = "R"
      OBVIOUS
    <3>1. i \in 1..i
      BY DEF LeadingReaders
    <3> QED BY <1>1, <3>1 DEF LeadingReaders
  <2>3. Entering(l, "W") = {}
    BY <1>1, <2>1, <2>2 DEF Entering
  <2> QED BY <1>2, <2>1, <2>3 DEF Exclusive
<1>5. CASE Served(l) # {} /\ q[1].mode # "R"
  <2>1. w = {} /\ r = {} /\ Served(l) = {1}
    BY <1>1, <1>5 DEF Served
  <2>2. Entering(l, "R") = {} /\ Entering(l, "W") \subseteq {q[1].task}
    BY <1>1, <1>5, <2>1 DEF Entering
  <2> QED BY <1>2, <2>1, <2>2 DEF Exclusive
<1> QED BY <1>3, <1>4, <1>5

LEMMA RequestFacts ==
  ASSUME NEW l, Exclusive(l), NEW task, NEW mode
  PROVE  /\ Exclusive(Request(l, task, mode))
         /\ l.readers \subseteq Request(l, task, mode).readers
         /\ l.writers \subseteq Request(l, task, mode).writers
<1> DEFINE q == Append(l.queue, [task |-> task, mode |-> mode])
<1>1. Exclusive(Lock(l.readers, l.writers, q))
  BY DEF Exclusive, Lock
<1> QED BY <1>1, SettleFacts DEF Request

LEMMA LeaveFacts ==
  ASSUME NEW l, Exclusive(l), NEW task
  PROVE  /\ Exclusive(Leave(l, task))
         /\ l.readers \ {task} \subseteq Leave(l, task).readers
         /\ l.writers \ {task} \subseteq Leave(l, task).writers
<1> DEFINE q == RemoveFirstMatch(l.queue, LAMBDA v : v.task = task)
<1>1. Exclusive(Lock(l.readers \ {task}, l.writers \ {task}, q))
  BY DEF Exclusive, Lock
<1> QED BY <1>1, SettleFacts DEF Leave

Waiter(T) == [task : T, mode : {"R", "W"}]

Waiters(T) == Seq(Waiter(T))

LocksOf(T) == [readers : SUBSET T, writers : SUBSET T, queue : Waiters(T)]

\* The leading readers are a front part of the queue.
LEMMA LeadingReadersPrefix ==
  ASSUME NEW T, NEW l \in LocksOf(T)
  PROVE  \E k \in 0..Len(l.queue) : LeadingReaders(l) = 1..k
<1> DEFINE q == l.queue
           S == {i \in 1..Len(q) : q[i].mode # "R"}
<1>1. Len(q) \in Nat
  BY DEF LocksOf, Waiters
<1>2. CASE S = {}
  <2>1. LeadingReaders(l) = 1..Len(q)
    BY <1>1, <1>2 DEF LeadingReaders
  <2> QED BY <1>1, <2>1
<1>3. CASE S # {}
  <2>0. S \subseteq Nat
    BY <1>1
  <2>1. PICK m \in S : \A y \in S : m <= y
    <3> HIDE DEF S
    <3> QED BY <1>3, <2>0, LeastNumber
  <2>2. LeadingReaders(l) = 1..(m - 1)
    <3>1. ASSUME NEW i \in LeadingReaders(l) PROVE i \in 1..(m - 1)
      BY <1>1, <2>1, <3>1 DEF LeadingReaders
    <3>2. ASSUME NEW i \in 1..(m - 1) PROVE i \in LeadingReaders(l)
      <4>1. i \in 1..Len(q)
        BY <1>1, <2>1
      <4>2. \A j \in 1..i : j \in 1..Len(q) /\ j \notin S
        BY <1>1, <2>1
      <4> QED BY <4>1, <4>2 DEF LeadingReaders
    <3> QED BY <3>1, <3>2
  <2> QED BY <1>1, <2>1, <2>2
<1> QED BY <1>2, <1>3

\* The first k waiters are served and the others stay.
ServesFront(l, k) ==
  /\ Settle(l).queue = SubSeq(l.queue, k + 1, Len(l.queue))
  /\ Settle(l).readers = l.readers \cup {l.queue[i].task : i \in {j \in 1..k : l.queue[j].mode = "R"}}
  /\ Settle(l).writers = l.writers \cup {l.queue[i].task : i \in {j \in 1..k : l.queue[j].mode = "W"}}

\* Serving the queue takes a front part of it, and whoever is served holds the lock.
LEMMA SettleQueue ==
  ASSUME NEW T, NEW l \in LocksOf(T)
  PROVE  \E k \in 0..Len(l.queue) : ServesFront(l, k)
<1>1. Len(l.queue) \in Nat
  BY DEF LocksOf, Waiters
<1>2. \E k \in 0..Len(l.queue) : Served(l) = 1..k
  <2>1. CASE l.writers # {} \/ l.queue = <<>>
    BY <1>1, <2>1 DEF Served
  <2>2. CASE ~ (l.writers # {} \/ l.queue = <<>>)
    <3>1. Len(l.queue) # 0
      BY <2>2, EmptySeq DEF LocksOf, Waiters
    <3>2. CASE l.queue[1].mode = "R"
      BY <2>2, <3>2, LeadingReadersPrefix DEF Served
    <3>3. CASE l.queue[1].mode # "R" /\ l.readers = {}
      BY <1>1, <2>2, <3>1, <3>3 DEF Served
    <3>4. CASE l.queue[1].mode # "R" /\ l.readers # {}
      BY <1>1, <2>2, <3>4 DEF Served
    <3> QED BY <3>2, <3>3, <3>4
  <2> QED BY <2>1, <2>2
<1>3. PICK k \in 0..Len(l.queue) : Served(l) = 1..k
  BY <1>2
<1>4. Cardinality(Served(l)) = k
  BY <1>1, <1>3, FS_Interval
<1> QED BY <1>3, <1>4 DEF ServesFront, Settle, Entering, Lock

LEMMA SettleType ==
  ASSUME NEW T, NEW l \in LocksOf(T)
  PROVE  Settle(l) \in LocksOf(T)
<1>1. PICK k \in 0..Len(l.queue) : ServesFront(l, k)
  BY SettleQueue
<1>2. l.queue \in Waiters(T) /\ Len(l.queue) \in Nat /\ l.readers \subseteq T /\ l.writers \subseteq T
  BY DEF LocksOf, Waiters
<1>3. Settle(l).queue \in Waiters(T)
  <2>1. k + 1 \in 1..(Len(l.queue) + 1) /\ Len(l.queue) \in 0..Len(l.queue)
    BY <1>1, <1>2
  <2>2. SubSeq(l.queue, k + 1, Len(l.queue)) \in Waiters(T)
    BY <1>2, <2>1, SubSeqTyped DEF Waiters
  <2> QED BY <1>1, <2>2 DEF ServesFront
<1>4. \A i \in 1..k : l.queue[i].task \in T
  <2>1. \A i \in 1..k : l.queue[i] \in Waiter(T)
    <3>1. \A i \in 1..k : i \in 1..Len(l.queue)
      BY <1>1, <1>2
    <3> QED BY <1>2, <3>1, ElementOfSeq DEF Waiters
  <2> QED BY <2>1 DEF Waiter
<1>5. Settle(l) = Lock(Settle(l).readers, Settle(l).writers, Settle(l).queue)
  BY DEF Settle, Lock
<1> QED BY <1>1, <1>2, <1>3, <1>4, <1>5 DEF ServesFront, LocksOf, Lock

LEMMA RequestType ==
  ASSUME NEW T, NEW l \in LocksOf(T), NEW t \in T, NEW mode \in {"R", "W"}
  PROVE  Request(l, t, mode) \in LocksOf(T)
<1>1. Append(l.queue, [task |-> t, mode |-> mode]) \in Waiters(T)
  BY AppendProperties DEF LocksOf, Waiters, Waiter
<1>2. Lock(l.readers, l.writers, Append(l.queue, [task |-> t, mode |-> mode])) \in LocksOf(T)
  BY <1>1 DEF LocksOf, Lock
<1> QED BY <1>2, SettleType DEF Request

\* The queue a task has left: the others, in their order.
QueueWithout(q, t) == RemoveFirstMatch(q, LAMBDA w : w.task = t)

\* If the task does not wait the queue is as before, else it is left at one place.
LEMMA LeftQueue ==
  ASSUME NEW T, NEW q \in Waiters(T), NEW t
  PROVE  \/ QueueWithout(q, t) = q /\ \A i \in 1..Len(q) : q[i].task # t
         \/ \E i \in 1..Len(q) :
              /\ q[i].task = t
              /\ QueueWithout(q, t) = SubSeq(q, 1, i - 1) \o SubSeq(q, i + 1, Len(q))
<1>1. Len(q) \in Nat
  BY DEF Waiters
<1>2. CASE \A i \in 1..Len(q) : q[i].task # t
  BY <1>2 DEF QueueWithout, RemoveFirstMatch
<1>3. CASE \E i \in 1..Len(q) : q[i].task = t
  <2> DEFINE I == {i \in 1..Len(q) : q[i].task = t}
             m == CHOOSE x \in I : \A y \in I : x <= y
  <2>1. I # {} /\ I \subseteq Nat
    BY <1>1, <1>3
  <2>2. \E x \in I : \A y \in I : x <= y
    BY <2>1, LeastNumber
  <2>3. m \in I
    BY <2>2
  <2>4. QueueWithout(q, t) = SubSeq(q, 1, m - 1) \o SubSeq(q, m + 1, Len(q))
    BY <1>3, <2>1 DEF QueueWithout, RemoveFirstMatch, RemoveAt, SelectInSeq, Min
  <2> QED BY <2>3, <2>4
<1> QED BY <1>2, <1>3

\* The places around the one it has left.
LEMMA LeftParts ==
  ASSUME NEW T, NEW q \in Waiters(T), NEW i \in 1..Len(q)
  PROVE  LET a == SubSeq(q, 1, i - 1)
             b == SubSeq(q, i + 1, Len(q))
         IN  /\ a \in Waiters(T) /\ b \in Waiters(T)
             /\ Len(a) = i - 1 /\ Len(b) = Len(q) - i
             /\ \A j \in 1..(i - 1) : a[j] = q[j]
             /\ \A j \in 1..(Len(q) - i) : b[j] = q[j + i]
<1> DEFINE n == Len(q)
           a == SubSeq(q, 1, i - 1)
           b == SubSeq(q, i + 1, n)
<1>1. n \in Nat /\ q \in Seq(Waiter(T)) /\ i \in Nat /\ 1 <= i /\ i <= n
  BY DEF Waiters
<1>2. /\ 1 \in 1..(n + 1) /\ i - 1 \in 0..n
      /\ i + 1 \in 1..(n + 1) /\ n \in 0..n
      /\ \A j \in 1..(i - 1) : j \in 1..n
      /\ \A j \in (i + 1)..n : j \in 1..n
  BY <1>1
<1>3. /\ a \in Seq(Waiter(T)) /\ b \in Seq(Waiter(T))
      /\ Len(a) = IF 1 <= i - 1 THEN (i - 1) - 1 + 1 ELSE 0
      /\ \A j \in 1..((i - 1) - 1 + 1) : a[j] = q[1 + j - 1]
      /\ Len(b) = IF i + 1 <= n THEN n - (i + 1) + 1 ELSE 0
      /\ \A j \in 1..(n - (i + 1) + 1) : b[j] = q[(i + 1) + j - 1]
  <2>1. a \in Seq(Waiter(T)) /\ Len(a) = IF 1 <= i - 1 THEN (i - 1) - 1 + 1 ELSE 0
    <3>1. \A j \in 1..(i - 1) : j \in 1..n
      BY <1>2
    <3> HIDE DEF n
    <3> QED BY <1>1, <1>2, <3>1, SubSeqProperties
  <2>2. \A j \in 1..((i - 1) - 1 + 1) : a[j] = q[1 + j - 1]
    <3>1. \A j \in 1..(i - 1) : j \in 1..n
      BY <1>2
    <3> HIDE DEF n
    <3> QED BY <1>1, <1>2, <3>1, SubSeqProperties
  <2>3. b \in Seq(Waiter(T)) /\ Len(b) = IF i + 1 <= n THEN n - (i + 1) + 1 ELSE 0
    BY <1>1, <1>2, SubSeqProperties
  <2>4. \A j \in 1..(n - (i + 1) + 1) : b[j] = q[(i + 1) + j - 1]
    BY <1>1, <1>2, SubSeqProperties
  <2> HIDE DEF n, a, b
  <2> QED BY <2>1, <2>2, <2>3, <2>4
<1> HIDE DEF n, a, b
<1>4. /\ (i - 1) - 1 + 1 = i - 1 /\ (~ (1 <= i - 1) => i - 1 = 0)
      /\ n - (i + 1) + 1 = n - i /\ (~ (i + 1 <= n) => n - i = 0)
  BY <1>1
<1>5. /\ \A j \in 1..(i - 1) : 1 + j - 1 = j
      /\ \A j \in 1..(n - i) : (i + 1) + j - 1 = j + i
  BY <1>1
<1>6. /\ a \in Waiters(T) /\ b \in Waiters(T)
      /\ Len(a) = i - 1 /\ Len(b) = n - i
      /\ \A j \in 1..(i - 1) : a[j] = q[j]
      /\ \A j \in 1..(n - i) : b[j] = q[j + i]
  BY <1>3, <1>4, <1>5 DEF Waiters
<1> QED BY <1>6 DEF a, b, n

LEMMA LeftWaiters ==
  ASSUME NEW T, NEW q \in Waiters(T), NEW t
  PROVE  QueueWithout(q, t) \in Waiters(T)
<1>1. CASE QueueWithout(q, t) = q
  BY <1>1
<1>2. ASSUME NEW i \in 1..Len(q),
             QueueWithout(q, t) = SubSeq(q, 1, i - 1) \o SubSeq(q, i + 1, Len(q))
      PROVE  QueueWithout(q, t) \in Waiters(T)
  <2>1. SubSeq(q, 1, i - 1) \in Waiters(T) /\ SubSeq(q, i + 1, Len(q)) \in Waiters(T)
    BY LeftParts
  <2> QED BY <1>2, <2>1 DEF Waiters
<1> QED BY <1>1, <1>2, LeftQueue

\* Whoever is left was there.
LEMMA LeftFrom ==
  ASSUME NEW T, NEW q \in Waiters(T), NEW t
  PROVE  \A j \in 1..Len(QueueWithout(q, t)) : \E k \in 1..Len(q) : QueueWithout(q, t)[j] = q[k]
<1> DEFINE r == QueueWithout(q, t)
           n == Len(q)
<1>1. n \in Nat
  BY DEF Waiters
<1>2. CASE r = q
  BY <1>2
<1>3. ASSUME NEW i \in 1..n, r = SubSeq(q, 1, i - 1) \o SubSeq(q, i + 1, n), NEW j \in 1..Len(r)
      PROVE  \E k \in 1..n : r[j] = q[k]
  <2> DEFINE a == SubSeq(q, 1, i - 1)
             b == SubSeq(q, i + 1, n)
  <2>1. /\ a \in Seq(Waiter(T)) /\ b \in Seq(Waiter(T))
        /\ Len(a) = i - 1 /\ Len(b) = n - i
        /\ \A m \in 1..(i - 1) : a[m] = q[m]
        /\ \A m \in 1..(n - i) : b[m] = q[m + i]
    BY LeftParts DEF Waiters
  <2> HIDE DEF a, b, n
  <2>2. /\ Len(a \o b) = Len(a) + Len(b)
        /\ \A m \in 1..(Len(a) + Len(b)) :
             (a \o b)[m] = IF m <= Len(a) THEN a[m] ELSE b[m - Len(a)]
    BY <2>1, ConcatProperties
  <2>3. r = a \o b
    BY <1>3 DEF a, b
  <2>4. i \in Nat /\ 1 <= i /\ i <= n
    BY <1>1, <1>3
  <2>5. j \in 1..((i - 1) + (n - i)) /\ (a \o b)[j] = IF j <= i - 1 THEN a[j] ELSE b[j - (i - 1)]
    BY <1>3, <2>1, <2>2, <2>3
  <2>6. CASE j <= i - 1
    <3>1. j \in 1..(i - 1) /\ j \in 1..n
      BY <1>1, <2>4, <2>5, <2>6
    <3> QED BY <2>1, <2>3, <2>5, <2>6, <3>1
  <2>7. CASE ~ (j <= i - 1)
    <3>1. j - (i - 1) \in 1..(n - i) /\ (j - (i - 1)) + i \in 1..n
      BY <1>1, <2>4, <2>5, <2>7
    <3> QED BY <2>1, <2>3, <2>5, <2>7, <3>1
  <2> QED BY <2>6, <2>7
<1> QED BY <1>2, <1>3, LeftQueue

LEMMA LeaveType ==
  ASSUME NEW T, NEW l \in LocksOf(T), NEW t
  PROVE  Leave(l, t) \in LocksOf(T)
<1>1. QueueWithout(l.queue, t) \in Waiters(T)
  BY LeftWaiters DEF LocksOf
<1>2. Lock(l.readers \ {t}, l.writers \ {t}, QueueWithout(l.queue, t)) \in LocksOf(T)
  BY <1>1 DEF LocksOf, Lock
<1> QED BY <1>2, SettleType DEF Leave, QueueWithout

-----------------------------------------------------------------------------------
\* The tasks that wait for a lock in one of the modes, and those that wait or have it.
Asking(l, mode) == {l.queue[i].task : i \in {j \in 1..Len(l.queue) : l.queue[j].mode = mode}}

Wants(l, mode) == (IF mode = "R" THEN l.readers ELSE l.writers) \cup Asking(l, mode)

\* Who has a lock or waits for it is one of its tasks.
LEMMA QueuedTyped ==
  ASSUME NEW T, NEW l \in LocksOf(T), NEW i \in 1..Len(l.queue)
  PROVE  l.queue[i].task \in T /\ l.queue[i].mode \in {"R", "W"}
<1>1. l.queue \in Seq(Waiter(T))
  BY DEF LocksOf, Waiters
<1>2. l.queue[i] \in Waiter(T)
  BY <1>1
<1> QED BY <1>2 DEF Waiter

LEMMA WantsTyped ==
  ASSUME NEW T, NEW l \in LocksOf(T), NEW m, NEW t \in Wants(l, m)
  PROVE  t \in T
<1>1. \A u \in Asking(l, m) : u \in T
  BY QueuedTyped DEF Asking
<1> QED BY <1>1 DEF Wants, LocksOf

\* Who is served goes from the waiters to the holders of the mode it asked for.
LEMMA SettleWants ==
  ASSUME NEW T, NEW l \in LocksOf(T), NEW m \in {"R", "W"}
  PROVE  Wants(Settle(l), m) = Wants(l, m)
<1> DEFINE q == l.queue
           n == Len(q)
<1>1. n \in Nat /\ q \in Seq(Waiter(T))
  BY DEF LocksOf, Waiters
<1>2. PICK k \in 0..n : ServesFront(l, k)
  BY SettleQueue
<1>3. k \in Nat /\ k <= n /\ k + 1 \in 1..(n + 1) /\ n \in 0..n
  BY <1>1, <1>2
<1> DEFINE r == SubSeq(q, k + 1, n)
<1>4. Len(r) = n - k /\ \A i \in 1..(n - k) : r[i] = q[i + k]
  <2>1. \A i \in (k + 1)..n : i \in 1..n
    BY <1>1, <1>3
  <2>2. Len(r) = IF k + 1 <= n THEN n - (k + 1) + 1 ELSE 0
    BY <1>1, <1>3, <2>1, SubSeqProperties
  <2>3. \A i \in 1..(n - (k + 1) + 1) : r[i] = q[(k + 1) + i - 1]
    BY <1>1, <1>3, <2>1, SubSeqProperties
  <2> HIDE DEF r, n, q
  <2>4. n - (k + 1) + 1 = n - k /\ (~ (k + 1 <= n) => n - k = 0)
    BY <1>1, <1>3
  <2>5. \A i \in 1..(n - k) : (k + 1) + i - 1 = i + k
    BY <1>1, <1>3
  <2> QED BY <2>2, <2>3, <2>4, <2>5
<1>5. Settle(l).queue = r
  BY <1>2 DEF ServesFront
<1> DEFINE Frontmost == {q[i].task : i \in {j \in 1..k : q[j].mode = m}}
<1>6. Asking(l, m) = Frontmost \cup Asking(Settle(l), m)
  <2>1. \A i \in 1..n : i \in 1..k \/ (i - k \in 1..(n - k) /\ (i - k) + k = i)
    BY <1>1, <1>3
  <2>2. \A i \in 1..k : i \in 1..n
    BY <1>1, <1>3
  <2>3. \A i \in 1..(n - k) : i + k \in 1..n
    BY <1>1, <1>3
  <2>4. Asking(l, m) = {q[i].task : i \in {j \in 1..n : q[j].mode = m}}
    BY DEF Asking
  <2>5. Asking(Settle(l), m) = {r[i].task : i \in {j \in 1..(n - k) : r[j].mode = m}}
    BY <1>4, <1>5 DEF Asking
  <2> HIDE DEF q, n, r
  <2> QED BY <1>4, <2>1, <2>2, <2>3, <2>4, <2>5
<1>7. (IF m = "R" THEN Settle(l).readers ELSE Settle(l).writers)
        = (IF m = "R" THEN l.readers ELSE l.writers) \cup Frontmost
  BY <1>2 DEF ServesFront
<1> HIDE DEF Frontmost
<1> QED BY <1>6, <1>7 DEF Wants

LEMMA RequestWants ==
  ASSUME NEW T, NEW l \in LocksOf(T), NEW t \in T, NEW mode \in {"R", "W"}, NEW m \in {"R", "W"}
  PROVE  Wants(Request(l, t, mode), m) = Wants(l, m) \cup (IF m = mode THEN {t} ELSE {})
<1> DEFINE q == l.queue
           e == [task |-> t, mode |-> mode]
           k == Lock(l.readers, l.writers, Append(q, e))
<1>1. q \in Seq(Waiter(T)) /\ Len(q) \in Nat /\ e \in Waiter(T)
  BY DEF LocksOf, Waiters, Waiter
<1>2. /\ Append(q, e) \in Seq(Waiter(T)) /\ Len(Append(q, e)) = Len(q) + 1
      /\ \A i \in 1..Len(q) : Append(q, e)[i] = q[i]
      /\ Append(q, e)[Len(q) + 1] = e
  BY <1>1, AppendProperties
<1>3. k \in LocksOf(T)
  BY <1>2 DEF LocksOf, Lock, Waiters
<1>4. Asking(k, m) = Asking(l, m) \cup (IF m = mode THEN {t} ELSE {})
  <2>1. e.task = t /\ e.mode = mode
    OBVIOUS
  <2>2. \A i : i \in 1..(Len(q) + 1) <=> (i \in 1..Len(q) \/ i = Len(q) + 1)
    BY <1>1
  <2>3. k.queue = Append(q, e)
    BY DEF Lock
  <2> HIDE DEF e, k
  <2> QED BY <1>2, <2>1, <2>2, <2>3 DEF Asking
<1>5. k.readers = l.readers /\ k.writers = l.writers
  BY DEF Lock
<1>6. Wants(k, m) = Wants(l, m) \cup (IF m = mode THEN {t} ELSE {})
  <2> HIDE DEF k
  <2> QED BY <1>4, <1>5 DEF Wants
<1> QED BY <1>3, <1>6, SettleWants DEF Request

LEMMA LeaveWants ==
  ASSUME NEW T, NEW l \in LocksOf(T), NEW t, NEW m \in {"R", "W"}
  PROVE  Wants(Leave(l, t), m) \subseteq Wants(l, m)
<1> DEFINE q == l.queue
           r == QueueWithout(q, t)
           k == Lock(l.readers \ {t}, l.writers \ {t}, r)
<1>1. q \in Waiters(T) /\ q \in Seq(Waiter(T)) /\ Len(q) \in Nat
  BY DEF LocksOf, Waiters
<1>2. r \in Waiters(T)
  <2> HIDE DEF q
  <2> QED BY <1>1, LeftWaiters
<1>3. k \in LocksOf(T)
  BY <1>2 DEF LocksOf, Lock
<1>4. Asking(k, m) \subseteq Asking(l, m)
  <2>1. \A i \in 1..Len(r) : \E j \in 1..Len(q) : r[i] = q[j]
    <3> HIDE DEF q
    <3> QED BY <1>1, LeftFrom
  <2>2. k.queue = r
    BY DEF Lock
  <2> HIDE DEF q, r, k
  <2> QED BY <2>1, <2>2 DEF Asking, q
<1>5. k.readers \subseteq l.readers /\ k.writers \subseteq l.writers
  BY DEF Lock
<1>6. Wants(k, m) \subseteq Wants(l, m)
  <2> HIDE DEF k
  <2> QED BY <1>4, <1>5 DEF Wants
<1> QED BY <1>3, <1>6, SettleWants DEF Leave, QueueWithout

-----------------------------------------------------------------------------------
\* Nobody waits twice for a lock, or for one it has.
Orderly(l) ==
  /\ \A i, j \in 1..Len(l.queue) : l.queue[i].task = l.queue[j].task => i = j
  /\ \A i \in 1..Len(l.queue) : l.queue[i].task \notin l.readers \cup l.writers

QueueFrom(k, l) == \A i \in 1..Len(k.queue) : \E j \in 1..Len(l.queue) : k.queue[i] = l.queue[j]

LEMMA SettleOrderly ==
  ASSUME NEW T, NEW l \in LocksOf(T), Orderly(l)
  PROVE  Orderly(Settle(l)) /\ QueueFrom(Settle(l), l)
<1> DEFINE q == l.queue
           n == Len(q)
           s == Settle(l)
<1>1. n \in Nat /\ q \in Seq(Waiter(T))
  BY DEF LocksOf, Waiters
<1>2. PICK k \in 0..n : ServesFront(l, k)
  BY SettleQueue
<1>3. k \in Nat /\ k <= n
  BY <1>1, <1>2
<1>4. Len(s.queue) = n - k /\ \A i \in 1..(n - k) : s.queue[i] = q[i + k]
  <2>1. s.queue = SubSeq(q, k + 1, n)
    BY <1>2 DEF ServesFront
  <2>2. \A i \in (k + 1)..n : i \in 1..n
    BY <1>1, <1>3
  <2>3. Len(s.queue) = IF k + 1 <= n THEN n - (k + 1) + 1 ELSE 0
    BY <1>1, <1>3, <2>1, <2>2, SubSeqProperties
  <2>4. \A i \in 1..(n - (k + 1) + 1) : s.queue[i] = q[(k + 1) + i - 1]
    BY <1>1, <1>3, <2>1, <2>2, SubSeqProperties
  <2> HIDE DEF n, q, s
  <2>5. n - (k + 1) + 1 = n - k /\ (~ (k + 1 <= n) => n - k = 0)
    BY <1>1, <1>3
  <2>6. \A i \in 1..(n - k) : (k + 1) + i - 1 = i + k
    BY <1>1, <1>3
  <2> QED BY <2>3, <2>4, <2>5, <2>6
<1>5. s.readers \cup s.writers = l.readers \cup l.writers \cup
        {q[i].task : i \in {j \in 1..k : q[j].mode = "R"}} \cup
        {q[i].task : i \in {j \in 1..k : q[j].mode = "W"}}
  BY <1>2 DEF ServesFront
<1>6. /\ \A i, j \in 1..n : q[i].task = q[j].task => i = j
      /\ \A i \in 1..n : q[i].task \notin l.readers \cup l.writers
  BY DEF Orderly
<1>7. /\ \A i \in 1..(n - k) : i + k \in 1..n /\ ~ (i + k \in 1..k)
      /\ \A i \in 1..k : i \in 1..n
      /\ \A i, j \in 1..(n - k) : i + k = j + k => i = j
  BY <1>1, <1>3
<1> HIDE DEF n, q, s
<1>8. \A i, j \in 1..Len(s.queue) : s.queue[i].task = s.queue[j].task => i = j
  <2> TAKE i, j \in 1..Len(s.queue)
  <2>1. i \in 1..(n - k) /\ j \in 1..(n - k)
    BY <1>4
  <2>2. s.queue[i] = q[i + k] /\ s.queue[j] = q[j + k]
    BY <1>4, <2>1
  <2>3. i + k \in 1..n /\ j + k \in 1..n
    BY <1>7, <2>1
  <2>4. q[i + k].task = q[j + k].task => i + k = j + k
    BY <1>6, <2>3
  <2>5. i + k = j + k => i = j
    BY <1>7, <2>1
  <2> QED BY <2>2, <2>4, <2>5
<1>9. \A i \in 1..Len(s.queue) : s.queue[i].task \notin s.readers \cup s.writers
  <2> TAKE i \in 1..Len(s.queue)
  <2>1. i \in 1..(n - k)
    BY <1>4
  <2>2. s.queue[i] = q[i + k] /\ i + k \in 1..n /\ ~ (i + k \in 1..k)
    BY <1>4, <1>7, <2>1
  <2>3. \A j \in 1..k : q[j].task # q[i + k].task
    <3> SUFFICES ASSUME NEW j \in 1..k, q[j].task = q[i + k].task PROVE FALSE
      OBVIOUS
    <3>1. j \in 1..n
      BY <1>7
    <3>2. j = i + k
      BY <1>6, <2>2, <3>1
    <3> QED BY <2>2, <3>2
  <2>4. q[i + k].task \notin l.readers \cup l.writers
    BY <1>6, <2>2
  <2> QED BY <1>5, <2>2, <2>3, <2>4
<1>10. \A i \in 1..Len(s.queue) : \E j \in 1..n : s.queue[i] = q[j]
  BY <1>4, <1>7
<1> QED BY <1>8, <1>9, <1>10 DEF Orderly, QueueFrom, s, n, q

LEMMA RequestOrderly ==
  ASSUME NEW T, NEW l \in LocksOf(T), Orderly(l), NEW t \in T, NEW mode \in {"R", "W"},
         t \notin Wants(l, "R") \cup Wants(l, "W")
  PROVE  /\ Orderly(Request(l, t, mode))
         /\ \A i \in 1..Len(Request(l, t, mode).queue) :
              \/ Request(l, t, mode).queue[i].task = t
              \/ \E j \in 1..Len(l.queue) : Request(l, t, mode).queue[i] = l.queue[j]
<1> DEFINE q == l.queue
           n == Len(q)
           e == [task |-> t, mode |-> mode]
           k == Lock(l.readers, l.writers, Append(q, e))
<1>1. q \in Seq(Waiter(T)) /\ n \in Nat /\ e \in Waiter(T)
  BY DEF LocksOf, Waiters, Waiter
<1>2. /\ Append(q, e) \in Seq(Waiter(T)) /\ Len(Append(q, e)) = n + 1
      /\ \A i \in 1..n : Append(q, e)[i] = q[i]
      /\ Append(q, e)[n + 1] = e
  BY <1>1, AppendProperties
<1>3. k \in LocksOf(T)
  BY <1>2 DEF LocksOf, Lock, Waiters
<1>4. t \notin l.readers \cup l.writers /\ \A i \in 1..n : q[i].task # t
  <2>1. \A i \in 1..n : q[i].mode \in {"R", "W"}
    <3>1. \A i \in 1..n : q[i] \in Waiter(T)
      BY <1>1
    <3> QED BY <3>1 DEF Waiter
  <2> QED BY <2>1 DEF Wants, Asking
<1>5. k.readers = l.readers /\ k.writers = l.writers /\ k.queue = Append(q, e) /\ e.task = t
  BY DEF Lock
<1>6. \A i \in 1..(n + 1) : i \in 1..n \/ i = n + 1
  BY <1>1
<1>7. /\ \A i, j \in 1..n : q[i].task = q[j].task => i = j
      /\ \A i \in 1..n : q[i].task \notin l.readers \cup l.writers
  BY DEF Orderly
<1> HIDE DEF k, e, n, q
<1>8. Orderly(k)
  BY <1>2, <1>4, <1>5, <1>6, <1>7 DEF Orderly
<1>9. Orderly(Settle(k)) /\ QueueFrom(Settle(k), k)
  BY <1>3, <1>8, SettleOrderly
<1>10. Request(l, t, mode) = Settle(k)
  BY DEF Request, k, e, q
<1>11. \A i \in 1..Len(k.queue) : k.queue[i].task = t \/ \E j \in 1..n : k.queue[i] = q[j]
  BY <1>2, <1>5, <1>6
<1> QED BY <1>9, <1>10, <1>11 DEF QueueFrom, n, q

\* A task that leaves a lock it does not wait for is gone from it.
LEMMA LeaveOrderly ==
  ASSUME NEW T, NEW l \in LocksOf(T), Orderly(l), NEW t,
         \A i \in 1..Len(l.queue) : l.queue[i].task # t
  PROVE  /\ Orderly(Leave(l, t)) /\ QueueFrom(Leave(l, t), l)
         /\ \A m \in {"R", "W"} : Wants(Leave(l, t), m) = Wants(l, m) \ {t}
<1> DEFINE q == l.queue
           k == Lock(l.readers \ {t}, l.writers \ {t}, q)
<1>1. q \in Waiters(T)
  BY DEF LocksOf
<1>2. \A i \in 1..Len(q) : q[i].task # t
  OBVIOUS
<1>3. QueueWithout(q, t) = q
  <2> HIDE DEF q
  <2> QED BY <1>1, <1>2, LeftQueue
<1>4. k \in LocksOf(T)
  BY <1>1 DEF LocksOf, Lock
<1>5. k.readers = l.readers \ {t} /\ k.writers = l.writers \ {t} /\ k.queue = q
  BY DEF Lock
<1>6. Leave(l, t) = Settle(k)
  BY <1>3 DEF Leave, QueueWithout
<1> HIDE DEF k
<1>7. Orderly(k)
  BY <1>5 DEF Orderly
<1>8. Orderly(Settle(k)) /\ QueueFrom(Settle(k), l)
  <2>1. Orderly(Settle(k)) /\ QueueFrom(Settle(k), k)
    BY <1>4, <1>7, SettleOrderly
  <2> QED BY <1>5, <2>1 DEF QueueFrom
<1>9. ASSUME NEW m \in {"R", "W"} PROVE Wants(Settle(k), m) = Wants(l, m) \ {t}
  <2>1. Asking(k, m) = Asking(l, m) /\ t \notin Asking(l, m)
    BY <1>2, <1>5 DEF Asking
  <2>2. Wants(k, m) = Wants(l, m) \ {t}
    BY <1>5, <2>1 DEF Wants
  <2> QED BY <1>4, <2>2, SettleWants
<1> QED BY <1>6, <1>8, <1>9
\* A task that leaves a lock is gone from it, also when it waits for it.
LEMMA LeaveGone ==
  ASSUME NEW T, NEW l \in LocksOf(T), Orderly(l), NEW t
  PROVE  /\ Orderly(Leave(l, t))
         /\ \A m \in {"R", "W"} : Wants(Leave(l, t), m) \subseteq Wants(l, m) \ {t}
<1> DEFINE q == l.queue
           n == Len(q)
           r == QueueWithout(q, t)
           k == Lock(l.readers \ {t}, l.writers \ {t}, r)
<1>1. q \in Waiters(T) /\ n \in Nat
  BY DEF LocksOf, Waiters
<1>2. CASE \A i \in 1..n : q[i].task # t
  BY <1>2, LeaveOrderly
<1>3. ASSUME NEW i \in 1..n, q[i].task = t,
             r = SubSeq(q, 1, i - 1) \o SubSeq(q, i + 1, n)
      PROVE  /\ Orderly(Leave(l, t))
             /\ \A m \in {"R", "W"} : Wants(Leave(l, t), m) \subseteq Wants(l, m) \ {t}
  <2> DEFINE a == SubSeq(q, 1, i - 1)
             b == SubSeq(q, i + 1, n)
             From(j) == IF j <= i - 1 THEN j ELSE j + 1
  <2>1. /\ a \in Seq(Waiter(T)) /\ b \in Seq(Waiter(T))
        /\ Len(a) = i - 1 /\ Len(b) = n - i
        /\ \A m \in 1..(i - 1) : a[m] = q[m]
        /\ \A m \in 1..(n - i) : b[m] = q[m + i]
    <3> HIDE DEF q
    <3> QED BY <1>1, LeftParts DEF Waiters, q
  <2>2. r \in Waiters(T)
    <3> HIDE DEF q
    <3> QED BY <1>1, LeftWaiters
  <2>3. i \in Nat /\ 1 <= i /\ i <= n
    BY <1>1
  <2> HIDE DEF a, b, n, q
  <2>4. /\ Len(a \o b) = Len(a) + Len(b)
        /\ \A m \in 1..(Len(a) + Len(b)) :
             (a \o b)[m] = IF m <= Len(a) THEN a[m] ELSE b[m - Len(a)]
    BY <2>1, ConcatProperties
  <2>5. r = a \o b
    BY <1>3 DEF a, b
  <2> HIDE DEF r
  <2>6. Len(r) = n - 1
    BY <1>1, <2>1, <2>3, <2>4, <2>5
  <2>7. ASSUME NEW j \in 1..Len(r) PROVE r[j] = q[From(j)] /\ From(j) \in 1..n \ {i}
    <3>1. j \in 1..((i - 1) + (n - i)) /\ r[j] = IF j <= i - 1 THEN a[j] ELSE b[j - (i - 1)]
      BY <1>1, <2>1, <2>3, <2>4, <2>5, <2>6
    <3>2. CASE j <= i - 1
      <4>1. j \in 1..(i - 1) /\ j \in 1..n \ {i}
        BY <1>1, <2>3, <3>1, <3>2
      <4> QED BY <2>1, <3>1, <3>2, <4>1
    <3>3. CASE ~ (j <= i - 1)
      <4>1. j - (i - 1) \in 1..(n - i) /\ (j - (i - 1)) + i = j + 1 /\ j + 1 \in 1..n \ {i}
        BY <1>1, <2>3, <3>1, <3>3
      <4>2. b[j - (i - 1)] = q[j + 1]
        BY <2>1, <4>1
      <4> QED BY <3>1, <3>3, <4>1, <4>2
    <3> QED BY <3>2, <3>3
  <2>8. \A j, h \in 1..Len(r) : From(j) = From(h) => j = h
    BY <1>1, <2>3, <2>6
  <2> HIDE DEF From
  <2>9. /\ \A j, h \in 1..n : q[j].task = q[h].task => j = h
        /\ \A j \in 1..n : q[j].task \notin l.readers \cup l.writers
    BY DEF Orderly, q, n
  <2>10. k.readers = l.readers \ {t} /\ k.writers = l.writers \ {t} /\ k.queue = r
    BY DEF Lock
  <2>11. k \in LocksOf(T)
    BY <2>2 DEF LocksOf, Lock
  <2> HIDE DEF k
  <2>12. \A j \in 1..Len(r) : r[j].task # t
    BY <1>3, <2>7, <2>9
  <2>13. \A j, h \in 1..Len(r) : r[j].task = r[h].task => j = h
    BY <2>7, <2>8, <2>9
  <2>14. \A j \in 1..Len(r) : r[j].task \notin l.readers \cup l.writers
    BY <2>7, <2>9
  <2>15. Orderly(k)
    BY <2>10, <2>13, <2>14 DEF Orderly
  <2>16. Leave(l, t) = Settle(k)
    BY DEF Leave, QueueWithout, k, r, q
  <2>17. ASSUME NEW m \in {"R", "W"} PROVE Wants(k, m) \subseteq Wants(l, m) \ {t}
    <3>1. \A j \in 1..Len(r) : \E h \in 1..n : r[j] = q[h] /\ r[j].task # t
      BY <2>7, <2>12
    <3>2. Asking(k, m) \subseteq Asking(l, m) \ {t}
      BY <2>10, <3>1 DEF Asking, q, n
    <3> QED BY <2>10, <3>2 DEF Wants
  <2> QED BY <2>11, <2>15, <2>16, <2>17, SettleOrderly, SettleWants
<1>4. (\A i \in 1..n : q[i].task # t) \/
      \E i \in 1..n : q[i].task = t /\ r = SubSeq(q, 1, i - 1) \o SubSeq(q, i + 1, n)
  <2> HIDE DEF q
  <2> QED BY <1>1, LeftQueue
<1> QED BY <1>2, <1>3, <1>4

-----------------------------------------------------------------------------------
\* Whoever has a lock or waits for it is at one of the places of its mode.
WantsAt(l, places, where) == \A m \in {"R", "W"} : \A t \in Wants(l, m) : where[t] \in places[m]

\* That stays so when a task asks at such a place, leaves, or goes from one to another.
LEMMA RequestAt ==
  ASSUME NEW T, NEW l \in LocksOf(T), Orderly(l), NEW t \in T, NEW mode \in {"R", "W"},
         NEW places, NEW where, NEW next, WantsAt(l, places, where),
         \A m \in {"R", "W"} : where[t] \notin places[m],
         \A u \in T \ {t} : next[u] = where[u], next[t] \in places[mode]
  PROVE  /\ Request(l, t, mode) \in LocksOf(T) /\ Orderly(Request(l, t, mode))
         /\ WantsAt(Request(l, t, mode), places, next)
<1>1. t \notin Wants(l, "R") \cup Wants(l, "W")
  BY DEF WantsAt
<1>2. Orderly(Request(l, t, mode)) /\ Request(l, t, mode) \in LocksOf(T)
  BY <1>1, RequestOrderly, RequestType
<1>3. \A m \in {"R", "W"} :
        Wants(Request(l, t, mode), m) = Wants(l, m) \cup (IF m = mode THEN {t} ELSE {})
  BY RequestWants
<1>4. \A m \in {"R", "W"} : \A u \in Wants(l, m) : u \in T \ {t}
  BY <1>1, WantsTyped
<1> QED BY <1>2, <1>3, <1>4 DEF WantsAt

LEMMA LeaveAt ==
  ASSUME NEW T, NEW l \in LocksOf(T), Orderly(l), NEW t,
         NEW places, NEW where, NEW next, WantsAt(l, places, where),
         \A u \in T \ {t} : next[u] = where[u]
  PROVE  /\ Leave(l, t) \in LocksOf(T) /\ Orderly(Leave(l, t))
         /\ WantsAt(Leave(l, t), places, next)
<1>1. /\ Orderly(Leave(l, t)) /\ Leave(l, t) \in LocksOf(T)
      /\ \A m \in {"R", "W"} : Wants(Leave(l, t), m) \subseteq Wants(l, m) \ {t}
  BY LeaveGone, LeaveType
<1>2. \A m \in {"R", "W"} : \A u \in Wants(l, m) : u \in T
  BY WantsTyped
<1> QED BY <1>1, <1>2 DEF WantsAt

LEMMA StayAt ==
  ASSUME NEW T, NEW l \in LocksOf(T), NEW t,
         NEW places, NEW where, NEW next, WantsAt(l, places, where),
         \A u \in T \ {t} : next[u] = where[u],
         \A m \in {"R", "W"} : where[t] \in places[m] => next[t] \in places[m]
  PROVE  WantsAt(l, places, next)
<1>1. \A m \in {"R", "W"} : \A u \in Wants(l, m) : u \in T
  BY WantsTyped
<1> QED BY <1>1 DEF WantsAt
====================================================================================
