-------------------------------- MODULE Server_proofs ------------------------------
(***********************************************************************************)
(* Proofs about the server: its request handlers (NinePServer), for any names,     *)
(* fids, connections and bounds, and its auto-mount daemon (AutoMount), for any    *)
(* number of servers.                                                              *)
(***********************************************************************************)
EXTENDS NinePServer, AutoMount, Lemmas

-----------------------------------------------------------------------------------
(***********************************************************************************)
(* The request handlers: paths, as functions from numbers.                          *)
(***********************************************************************************)
LEMMA IsPath ==
  ASSUME NEW n \in 0..MaxDepth, NEW p \in [1..n -> Names]
  PROVE  p \in Paths /\ Len(p) = n /\ p \in Seq(Names)
<1>1. n \in Nat
  BY BoundsAssumption
<1>2. p \in Seq(Names)
  BY <1>1, SeqDef
<1>3. Len(p) = n
  BY <1>1, <1>2, LenProperties
<1> QED BY <1>2, <1>3 DEF Paths

\* A path has at most MaxDepth names; only the root has none.
LEMMA PathFacts ==
  ASSUME NEW p \in Paths
  PROVE  /\ Len(p) \in Nat /\ Len(p) \in 0..MaxDepth /\ p \in Seq(Names)
         /\ p \in [1..Len(p) -> Names] /\ (p # Root <=> Len(p) # 0)
<1>1. PICK n \in 0..MaxDepth : p \in [1..n -> Names]
  BY DEF Paths
<1>2. p \in Seq(Names) /\ Len(p) = n /\ n \in Nat
  BY <1>1, IsPath, BoundsAssumption
<1>3. p = <<>> <=> Len(p) = 0
  BY <1>2, EmptySeq
<1> QED BY <1>1, <1>2, <1>3 DEF Root

LEMMA SamePath ==
  ASSUME NEW p \in Paths, NEW q \in Paths, Len(p) = Len(q), \A i \in 1..Len(p) : p[i] = q[i]
  PROVE  p = q
<1>1. p \in [1..Len(p) -> Names] /\ q \in [1..Len(p) -> Names]
  BY PathFacts
<1> QED BY <1>1

\* The parent of a path is the path without its last name.
LEMMA ParentFacts ==
  ASSUME NEW p \in Paths, p # Root
  PROVE  /\ Parent(p) \in Paths /\ Len(Parent(p)) = Len(p) - 1 /\ Len(p) - 1 \in Nat
         /\ \A i \in 1..(Len(p) - 1) : Parent(p)[i] = p[i]
<1>1. Len(p) \in Nat /\ Len(p) \in 0..MaxDepth /\ Len(p) # 0 /\ p \in Seq(Names)
  BY PathFacts
<1>2. /\ Len(p) - 1 \in Nat /\ Len(p) - 1 \in 0..MaxDepth
      /\ \A i \in 1..(Len(p) - 1) : i \in 1..Len(p)
  BY <1>1, BoundsAssumption
<1>3. /\ Parent(p) \in Seq(Names) /\ Len(Parent(p)) = Len(p) - 1
      /\ \A i \in 1..(Len(p) - 1) : Parent(p)[i] = p[i]
  <2> DEFINE n == Len(p) - 1
  <2>1. 1 \in Int /\ n \in Int /\ n \in Nat
    BY <1>2
  <2>2. /\ SubSeq(p, 1, n) \in Seq(Names)
        /\ Len(SubSeq(p, 1, n)) = IF 1 <= n THEN n - 1 + 1 ELSE 0
        /\ \A i \in 1..(n - 1 + 1) : SubSeq(p, 1, n)[i] = p[1 + i - 1]
    <3>1. p \in Seq(Names) /\ \A i \in 1..n : i \in 1..Len(p)
      BY <1>1, <1>2
    <3> HIDE DEF n
    <3> QED BY <2>1, <3>1, SubSeqProperties
  <2>3. n - 1 + 1 = n /\ (~ (1 <= n) => n = 0) /\ \A i \in 1..n : 1 + i - 1 = i
    <3> HIDE DEF n
    <3> QED BY <2>1
  <2> HIDE DEF n
  <2>4. Parent(p) = SubSeq(p, 1, n)
    BY DEF Parent, n
  <2>5. Len(SubSeq(p, 1, n)) = n /\ \A i \in 1..n : SubSeq(p, 1, n)[i] = p[i]
    BY <2>2, <2>3
  <2> QED BY <2>2, <2>4, <2>5 DEF n
<1>4. Parent(p) \in [1..(Len(p) - 1) -> Names]
  BY <1>3, LenProperties
<1> QED BY <1>2, <1>3, <1>4, IsPath

\* A path begins with another one if it has its names at their places.
LEMMA PrefixFacts ==
  ASSUME NEW p \in Paths, NEW r \in Paths
  PROVE  IsPrefix(p, r) <=> Len(p) <= Len(r) /\ \A i \in 1..Len(p) : p[i] = r[i]
<1> DEFINE n == Len(p)
<1>1. n \in Nat /\ Len(r) \in Nat /\ p \in Seq(Names) /\ r \in Seq(Names)
  BY PathFacts
<1> SUFFICES ASSUME n <= Len(r)
             PROVE  SubSeq(p, 1, n) = SubSeq(r, 1, n) <=> \A i \in 1..n : p[i] = r[i]
  BY DEF IsPrefix
<1>2. \A s \in {p, r} : /\ SubSeq(s, 1, n) \in Seq(Names) /\ Len(SubSeq(s, 1, n)) = n
                        /\ \A i \in 1..n : SubSeq(s, 1, n)[i] = s[i]
  <2> TAKE s \in {p, r}
  <2>1. s \in Seq(Names) /\ \A i \in 1..n : i \in 1..Len(s)
    BY <1>1
  <2>2. 1 \in Int /\ n \in Int
    BY <1>1
  <2>3. /\ SubSeq(s, 1, n) \in Seq(Names)
        /\ Len(SubSeq(s, 1, n)) = IF 1 <= n THEN n - 1 + 1 ELSE 0
        /\ \A i \in 1..(n - 1 + 1) : SubSeq(s, 1, n)[i] = s[1 + i - 1]
    <3> HIDE DEF n
    <3> QED BY <2>1, <2>2, SubSeqProperties
  <2>4. n - 1 + 1 = n /\ (~ (1 <= n) => n = 0) /\ \A i \in 1..n : 1 + i - 1 = i
    BY <1>1
  <2> HIDE DEF n
  <2> QED BY <2>3, <2>4
<1>3. ASSUME \A i \in 1..n : p[i] = r[i] PROVE SubSeq(p, 1, n) = SubSeq(r, 1, n)
  <2>1. \A i \in 1..n : SubSeq(p, 1, n)[i] = SubSeq(r, 1, n)[i]
    BY <1>2, <1>3
  <2> QED BY <1>2, <2>1, SeqEqual
<1> HIDE DEF n
<1> QED BY <1>2, <1>3

\* A path that is moved keeps its length and the names below what is moved.
LEMMA RebasedFacts ==
  ASSUME NEW p \in Paths, NEW q \in Paths, NEW r \in Paths, Len(p) = Len(q), Len(p) <= Len(r)
  PROVE  /\ Rebased(r, p, q) \in Paths /\ Len(Rebased(r, p, q)) = Len(r)
         /\ \A i \in 1..Len(p) : Rebased(r, p, q)[i] = q[i]
         /\ \A i \in (Len(p) + 1)..Len(r) : Rebased(r, p, q)[i] = r[i]
<1> DEFINE n == Len(p)
           m == Len(r)
           s == SubSeq(r, n + 1, m)
<1>1. /\ n \in Nat /\ m \in Nat /\ m \in 0..MaxDepth /\ n <= m
      /\ q \in Seq(Names) /\ r \in Seq(Names) /\ Len(q) = n
  BY PathFacts
<1>2. s \in Seq(Names) /\ Len(s) = m - n /\ \A i \in 1..(m - n) : s[i] = r[n + i]
  <2>1. \A i \in (n + 1)..m : i \in 1..Len(r)
    BY <1>1
  <2>2. n + 1 \in Int /\ m \in Int
    BY <1>1
  <2>3. /\ s \in Seq(Names)
        /\ Len(s) = IF n + 1 <= m THEN m - (n + 1) + 1 ELSE 0
        /\ \A i \in 1..(m - (n + 1) + 1) : s[i] = r[(n + 1) + i - 1]
    <3> HIDE DEF n, m
    <3> QED BY <1>1, <2>1, <2>2, SubSeqProperties DEF m
  <2>4. /\ m - (n + 1) + 1 = m - n /\ (~ (n + 1 <= m) => m - n = 0)
        /\ \A i \in 1..(m - n) : (n + 1) + i - 1 = n + i
    BY <1>1
  <2> HIDE DEF n, m, s
  <2> QED BY <2>3, <2>4
<1> HIDE DEF s
<1>3. /\ q \o s \in Seq(Names) /\ Len(q \o s) = n + (m - n)
      /\ \A i \in 1..(n + (m - n)) : (q \o s)[i] = IF i <= n THEN q[i] ELSE s[i - n]
  BY <1>1, <1>2, ConcatProperties
<1>4. n + (m - n) = m /\ \A i \in (n + 1)..m : /\ i - n \in 1..(m - n) /\ n + (i - n) = i
                                               /\ ~ (i <= n) /\ i \in 1..m
  BY <1>1
<1>5. \A i \in 1..n : i <= n /\ i \in 1..m
  BY <1>1
<1>6. Rebased(r, p, q) = q \o s
  BY DEF Rebased, s
<1> HIDE DEF n, m
<1>7. /\ Len(q \o s) = m
      /\ \A i \in 1..n : (q \o s)[i] = q[i]
      /\ \A i \in (n + 1)..m : (q \o s)[i] = r[i]
  BY <1>2, <1>3, <1>4, <1>5
<1>8. q \o s \in [1..m -> Names]
  BY <1>3, <1>7, LenProperties
<1>9. q \o s \in Paths
  BY <1>1, <1>8, IsPath
<1> QED BY <1>6, <1>7, <1>9 DEF n, m

\* A path with one name more, if the bound allows it.
LEMMA AppendedPath ==
  ASSUME NEW p \in Paths, NEW name \in Names, Len(p) + 1 \in 0..MaxDepth
  PROVE  Append(p, name) \in Paths
<1>1. p \in Seq(Names) /\ Len(p) \in Nat
  BY PathFacts
<1>2. Append(p, name) \in Seq(Names) /\ Len(Append(p, name)) = Len(p) + 1
  BY <1>1, AppendProperties
<1>3. Append(p, name) \in [1..(Len(p) + 1) -> Names]
  BY <1>2, LenProperties
<1> QED BY <1>3, IsPath

\* A file gets a new name in its directory.
LEMMA Sibling ==
  ASSUME NEW p \in Paths, p # Root, NEW name \in Names, NEW q, q = Append(Parent(p), name)
  PROVE  q \in Paths /\ Len(q) = Len(p) /\ q # Root /\ Parent(q) = Parent(p)
<1> DEFINE u == Parent(p)
           n == Len(p) - 1
<1>1. u \in Paths /\ Len(u) = n /\ n \in Nat
  BY ParentFacts
<1>2. Len(p) \in Nat /\ Len(p) \in 0..MaxDepth /\ Len(p) # 0 /\ n + 1 = Len(p)
  BY PathFacts
<1>3. u \in Seq(Names)
  BY <1>1, PathFacts
<1> HIDE DEF u, n
<1>4. q = Append(u, name)
  BY DEF u
<1>5. q \in Paths
  BY <1>1, <1>2, <1>4, AppendedPath
<1>6. Len(q) = n + 1 /\ \A i \in 1..n : q[i] = u[i]
  BY <1>1, <1>3, <1>4, AppendProperties
<1>7. q # Root
  BY <1>2, <1>5, <1>6, PathFacts
<1>8. /\ Parent(q) \in Paths /\ Len(Parent(q)) = Len(q) - 1
      /\ \A i \in 1..(Len(q) - 1) : Parent(q)[i] = q[i]
  BY <1>5, <1>7, ParentFacts
<1>9. Len(q) - 1 = n
  BY <1>1, <1>6
<1>10. Parent(q) = u
  BY <1>1, <1>6, <1>8, <1>9, SamePath
<1> QED BY <1>2, <1>5, <1>6, <1>7, <1>10 DEF u

-----------------------------------------------------------------------------------
(***********************************************************************************)
(* The tree stays a tree.                                                          *)
(***********************************************************************************)
IsTree(files) ==
  /\ DOMAIN files \subseteq Paths /\ files \in [DOMAIN files -> Kinds]
  /\ \A p \in DOMAIN files : p # Root => Parent(p) \in DOMAIN files /\ files[Parent(p)] = "dir"

\* What lies below a path makes it a directory that is not empty.
LEMMA NotEmpty ==
  ASSUME IsTree(fs), NEW q \in Paths, NEW x \in DOMAIN fs, IsPrefix(q, x), x # q
  PROVE  IsDir(q) /\ Children(q) # {}
<1> DEFINE Below == {y \in DOMAIN fs : IsPrefix(q, y) /\ y # q}
           Lens == {Len(y) : y \in Below}
<1>0. DOMAIN fs \subseteq Paths
  BY DEF IsTree
<1>1. Lens \subseteq Nat /\ Lens # {}
  <2>1. \A y \in Below : Len(y) \in Nat
    BY <1>0, PathFacts
  <2>2. x \in Below
    OBVIOUS
  <2> HIDE DEF Below
  <2> QED BY <2>1, <2>2
<1>2. PICK n \in Lens : \A m \in Lens : n <= m
  <2> HIDE DEF Lens
  <2> QED BY <1>1, LeastNumber
<1>3. PICK y \in Below : n = Len(y)
  BY <1>2
<1>4. y \in Paths /\ y \in DOMAIN fs /\ IsPrefix(q, y) /\ y # q
  BY <1>0, <1>3
<1>5. Len(q) \in Nat /\ Len(y) \in Nat /\ Len(q) <= Len(y) /\ \A i \in 1..Len(q) : q[i] = y[i]
  BY <1>4, PathFacts, PrefixFacts
<1>6. Len(q) < Len(y)
  BY <1>4, <1>5, SamePath
<1>7. y # Root
  BY <1>4, <1>5, <1>6, PathFacts
<1>8. /\ Parent(y) \in Paths /\ Len(Parent(y)) = Len(y) - 1
      /\ \A i \in 1..(Len(y) - 1) : Parent(y)[i] = y[i]
  BY <1>4, <1>7, ParentFacts
<1>9. Parent(y) \in DOMAIN fs /\ fs[Parent(y)] = "dir"
  BY <1>4, <1>7 DEF IsTree
<1>10. Len(q) <= Len(Parent(y)) /\ \A i \in 1..Len(q) : i \in 1..(Len(y) - 1)
  BY <1>5, <1>6, <1>8
<1>11. IsPrefix(q, Parent(y))
  BY <1>5, <1>8, <1>10, PrefixFacts
<1>12. Parent(y) = q
  <2> SUFFICES ASSUME Parent(y) # q PROVE FALSE
    OBVIOUS
  <2>1. Len(Parent(y)) \in Lens
    BY <1>9, <1>11
  <2>2. n <= Len(Parent(y))
    <3> HIDE DEF Lens
    <3> QED BY <1>2, <2>1
  <2>3. n = Len(y) /\ Len(Parent(y)) = Len(y) - 1 /\ Len(y) \in Nat
    BY <1>3, <1>5, <1>8
  <2> QED BY <2>2, <2>3
<1>13. y \in Children(q)
  BY <1>4, <1>7, <1>12 DEF Children
<1> QED BY <1>9, <1>12, <1>13 DEF IsDir

\* Creating a file or a directory where the handlers may create one, or writing a file.
LEMMA PutTree ==
  ASSUME IsTree(fs), NEW p \in Paths, NEW k \in Kinds,
         CanCreate(p, k) \/ (p \in DOMAIN fs /\ ~ IsDir(p) /\ k = "file")
  PROVE  IsTree(Put(fs, p, k))
<1> DEFINE t == Put(fs, p, k)
<1>1. /\ DOMAIN t = DOMAIN fs \cup {p} /\ t[p] = k
      /\ \A r \in DOMAIN fs \ {p} : t[r] = fs[r]
  BY DEF Put
<1>2. t = [r \in DOMAIN t |-> t[r]]
  BY DEF Put
<1> HIDE DEF t
<1>3. p \in DOMAIN fs => k = fs[p]
  BY DEF IsTree, CanCreate, IsDir, Kinds
<1>4. \A r \in DOMAIN fs : t[r] = fs[r]
  BY <1>1, <1>3
<1>5. DOMAIN t \subseteq Paths /\ t \in [DOMAIN t -> Kinds]
  BY <1>1, <1>2, <1>4 DEF IsTree
<1>6. p # Root => Parent(p) \in DOMAIN fs /\ fs[Parent(p)] = "dir"
  BY DEF IsTree, CanCreate, IsDir
<1>7. ASSUME NEW r \in DOMAIN t, r # Root PROVE Parent(r) \in DOMAIN t /\ t[Parent(r)] = "dir"
  BY <1>1, <1>4, <1>6, <1>7 DEF IsTree
<1> QED BY <1>5, <1>7 DEF IsTree, t

\* Removing a file or an empty directory.
LEMMA WithoutTree ==
  ASSUME IsTree(fs), NEW p, CanRemove(p)
  PROVE  IsTree(Without(fs, p))
<1> DEFINE t == Without(fs, p)
<1>1. /\ DOMAIN t = DOMAIN fs \ {p} /\ \A r \in DOMAIN t : t[r] = fs[r]
      /\ t = [r \in DOMAIN t |-> t[r]]
  BY DEF Without, Restrict
<1> HIDE DEF t
<1>2. \A r \in DOMAIN fs : r # Root => Parent(r) # p
  BY DEF CanRemove, Children
<1> QED BY <1>1, <1>2 DEF IsTree, t

\* A path that is moved back is where it was.
LEMMA RebasedBack ==
  ASSUME NEW p \in Paths, NEW q \in Paths, NEW r \in Paths, Len(p) = Len(q), IsPrefix(p, r)
  PROVE  /\ Rebased(r, p, q) \in Paths /\ Len(Rebased(r, p, q)) = Len(r)
         /\ IsPrefix(q, Rebased(r, p, q))
         /\ Rebased(Rebased(r, p, q), q, p) = r
<1> DEFINE s == Rebased(r, p, q)
<1>1. Len(p) \in Nat /\ Len(r) \in Nat /\ Len(p) <= Len(r) /\ \A i \in 1..Len(p) : p[i] = r[i]
  BY PathFacts, PrefixFacts
<1>2. /\ s \in Paths /\ Len(s) = Len(r)
      /\ \A i \in 1..Len(p) : s[i] = q[i]
      /\ \A i \in (Len(p) + 1)..Len(r) : s[i] = r[i]
  BY <1>1, RebasedFacts
<1> HIDE DEF s
<1>3. IsPrefix(q, s)
  BY <1>1, <1>2, PrefixFacts
<1>4. /\ Rebased(s, q, p) \in Paths /\ Len(Rebased(s, q, p)) = Len(s)
      /\ \A i \in 1..Len(q) : Rebased(s, q, p)[i] = p[i]
      /\ \A i \in (Len(q) + 1)..Len(s) : Rebased(s, q, p)[i] = s[i]
  BY <1>1, <1>2, RebasedFacts
<1>5. \A i \in 1..Len(r) : i \in 1..Len(p) \/ i \in (Len(p) + 1)..Len(r)
  BY <1>1
<1>6. \A i \in 1..Len(r) : Rebased(s, q, p)[i] = r[i]
  BY <1>1, <1>2, <1>4, <1>5
<1>7. Rebased(s, q, p) = r
  BY <1>2, <1>4, <1>6, SamePath
<1> QED BY <1>2, <1>3, <1>7 DEF s

\* The parent of what is moved is moved with it.
LEMMA RebasedParent ==
  ASSUME NEW p \in Paths, NEW q \in Paths, NEW r \in Paths, Len(p) = Len(q), p # Root,
         IsPrefix(p, r), r # p
  PROVE  /\ r # Root /\ IsPrefix(p, Parent(r)) /\ Rebased(r, p, q) # Root
         /\ Parent(Rebased(r, p, q)) = Rebased(Parent(r), p, q)
<1> DEFINE s == Rebased(r, p, q)
           n == Len(p)
           m == Len(r)
<1>1. n \in Nat /\ m \in Nat /\ n <= m /\ \A i \in 1..n : p[i] = r[i]
  BY PathFacts, PrefixFacts
<1>2. n # m
  BY <1>1, SamePath
<1>3. n < m /\ m # 0 /\ n <= m - 1 /\ \A i \in 1..n : i \in 1..(m - 1)
  BY <1>1, <1>2
<1>4. r # Root
  BY <1>3, PathFacts
<1>5. /\ Parent(r) \in Paths /\ Len(Parent(r)) = m - 1 /\ m - 1 \in Nat
      /\ \A i \in 1..(m - 1) : Parent(r)[i] = r[i]
  BY <1>4, ParentFacts
<1>6. IsPrefix(p, Parent(r))
  BY <1>1, <1>3, <1>5, PrefixFacts
<1>7. /\ s \in Paths /\ Len(s) = m
      /\ \A i \in 1..n : s[i] = q[i]
      /\ \A i \in (n + 1)..m : s[i] = r[i]
  BY <1>1, RebasedFacts
<1>8. /\ Rebased(Parent(r), p, q) \in Paths /\ Len(Rebased(Parent(r), p, q)) = m - 1
      /\ \A i \in 1..n : Rebased(Parent(r), p, q)[i] = q[i]
      /\ \A i \in (n + 1)..(m - 1) : Rebased(Parent(r), p, q)[i] = Parent(r)[i]
  BY <1>3, <1>5, RebasedFacts
<1> HIDE DEF s
<1>9. s # Root
  BY <1>3, <1>7, PathFacts
<1>10. Parent(s) \in Paths /\ Len(Parent(s)) = m - 1 /\ \A i \in 1..(m - 1) : Parent(s)[i] = s[i]
  BY <1>7, <1>9, ParentFacts
<1>11. \A i \in 1..(m - 1) : i \in 1..n \/ (i \in (n + 1)..(m - 1) /\ i \in (n + 1)..m)
  BY <1>1
<1> HIDE DEF n, m
<1>12. \A i \in 1..(m - 1) : Parent(s)[i] = Rebased(Parent(r), p, q)[i]
  BY <1>5, <1>7, <1>8, <1>10, <1>11
<1>13. Parent(s) = Rebased(Parent(r), p, q)
  BY <1>8, <1>10, <1>12, SamePath
<1> QED BY <1>4, <1>6, <1>9, <1>13 DEF s

\* What begins the parent of a path begins the path.
LEMMA PrefixOfParent ==
  ASSUME NEW p \in Paths, NEW r \in Paths, r # Root, IsPrefix(p, Parent(r))
  PROVE  IsPrefix(p, r)
<1>1. /\ Parent(r) \in Paths /\ Len(Parent(r)) = Len(r) - 1 /\ Len(r) - 1 \in Nat
      /\ \A i \in 1..(Len(r) - 1) : Parent(r)[i] = r[i]
  BY ParentFacts
<1>2. Len(p) \in Nat /\ Len(r) \in Nat
  BY PathFacts
<1>3. Len(p) <= Len(r) - 1 /\ \A i \in 1..Len(p) : p[i] = Parent(r)[i]
  BY <1>1, PrefixFacts
<1>4. Len(p) <= Len(r) /\ \A i \in 1..Len(p) : i \in 1..(Len(r) - 1)
  BY <1>1, <1>2, <1>3
<1> QED BY <1>1, <1>3, <1>4, PrefixFacts

\* Of the paths of one length, a path begins with itself alone.
LEMMA OwnPrefix ==
  ASSUME NEW p \in Paths
  PROVE  IsPrefix(p, p) /\ \A q \in Paths : Len(q) = Len(p) /\ IsPrefix(q, p) => q = p
<1>1. Len(p) \in Nat
  BY PathFacts
<1>2. IsPrefix(p, p)
  BY <1>1, PrefixFacts
<1>3. ASSUME NEW q \in Paths, Len(q) = Len(p), IsPrefix(q, p) PROVE q = p
  <2>1. \A i \in 1..Len(q) : q[i] = p[i]
    BY <1>3, PrefixFacts
  <2> QED BY <1>3, <2>1, SamePath
<1> QED BY <1>2, <1>3

\* What rename(2) leaves where it was, and what it moves.
LEMMA MovedFacts ==
  ASSUME IsTree(fs), NEW p \in Paths, NEW q \in Paths, p # Root, Len(p) = Len(q), CanRename(p, q)
  PROVE  LET kept == DOMAIN fs \ (Under(p) \cup {q})
             t == Moved(p, q)
         IN  /\ \A r \in DOMAIN t : r \in kept \/ \E s \in Under(p) : r = Rebased(s, p, q)
             /\ \A r \in kept : r \in DOMAIN t /\ ~ IsPrefix(q, r) /\ t[r] = fs[r]
             /\ \A s \in Under(p) : /\ Rebased(s, p, q) \in DOMAIN t
                                    /\ t[Rebased(s, p, q)] = fs[s]
             /\ t = [r \in DOMAIN t |-> t[r]]
<1> DEFINE kept == DOMAIN fs \ (Under(p) \cup {q})
           new == {Rebased(s, p, q) : s \in Under(p)}
           t == Moved(p, q)
<1>1. DOMAIN fs \subseteq Paths
  BY DEF IsTree
<1>2. t = [r \in kept \cup new |-> IF r \in new THEN fs[Rebased(r, q, p)] ELSE fs[r]]
  BY DEF Moved
<1>3. \A s \in Under(p) : s \in Paths /\ s \in DOMAIN fs /\ IsPrefix(p, s)
  BY <1>1 DEF Under
<1>4. \A s \in Under(p) : IsPrefix(q, Rebased(s, p, q)) /\ Rebased(Rebased(s, p, q), q, p) = s
  BY <1>3, RebasedBack
<1>5. ASSUME NEW r \in kept, IsPrefix(q, r) PROVE FALSE
  <2>1. r \in DOMAIN fs /\ r # q /\ ~ IsPrefix(p, r) /\ r \in Paths
    BY <1>1 DEF Under
  <2>2. IsDir(q) /\ Children(q) # {}
    BY <1>5, <2>1, NotEmpty
  <2>3. p # q
    BY <1>5, <2>1
  <2> QED BY <2>2, <2>3 DEF CanRename, IsDir
<1> HIDE DEF kept, t
<1>6. \A r \in kept : r \notin new
  BY <1>4, <1>5
<1>7. ASSUME NEW s \in Under(p) PROVE Rebased(s, p, q) \in DOMAIN t /\ t[Rebased(s, p, q)] = fs[s]
  <2>1. Rebased(s, p, q) \in new
    OBVIOUS
  <2> HIDE DEF new
  <2> QED BY <1>2, <1>4, <2>1
<1> HIDE DEF new
<1>8. \A r \in kept : r \in DOMAIN t /\ ~ IsPrefix(q, r) /\ t[r] = fs[r]
  BY <1>2, <1>5, <1>6
<1>9. \A r \in DOMAIN t : r \in kept \/ \E s \in Under(p) : r = Rebased(s, p, q)
  BY <1>2 DEF new
<1>10. t = [r \in DOMAIN t |-> t[r]]
  BY <1>2
<1> QED BY <1>7, <1>8, <1>9, <1>10 DEF kept, t

\* A rename within one directory, whatever is below what it moves.
LEMMA MovedTree ==
  ASSUME IsTree(fs), NEW p \in Paths, NEW q \in Paths, p # Root, q # Root, Len(p) = Len(q),
         Parent(q) = Parent(p), CanRename(p, q)
  PROVE  IsTree(Moved(p, q))
<1> DEFINE kept == DOMAIN fs \ (Under(p) \cup {q})
           t == Moved(p, q)
<1>1. DOMAIN fs \subseteq Paths
  BY DEF IsTree
<1>2. \A s \in Under(p) : s \in Paths /\ s \in DOMAIN fs /\ IsPrefix(p, s)
  BY <1>1 DEF Under
<1>3. /\ \A r \in DOMAIN t : r \in kept \/ \E s \in Under(p) : r = Rebased(s, p, q)
      /\ \A r \in kept : r \in DOMAIN t /\ ~ IsPrefix(q, r) /\ t[r] = fs[r]
      /\ \A s \in Under(p) : Rebased(s, p, q) \in DOMAIN t /\ t[Rebased(s, p, q)] = fs[s]
      /\ t = [r \in DOMAIN t |-> t[r]]
  BY MovedFacts
<1>4. \A s \in Under(p) : Rebased(s, p, q) \in Paths
  BY <1>2, RebasedBack
<1> HIDE DEF t
<1>5. DOMAIN t \subseteq Paths
  BY <1>1, <1>3, <1>4
<1>6. \A r \in DOMAIN t : t[r] \in Kinds
  BY <1>2, <1>3 DEF IsTree
<1>7. ASSUME NEW r \in DOMAIN t, r # Root PROVE Parent(r) \in DOMAIN t /\ t[Parent(r)] = "dir"
  <2>1. CASE r \in kept
    <3>1. r \in Paths /\ r \in DOMAIN fs /\ ~ IsPrefix(p, r) /\ ~ IsPrefix(q, r)
      BY <1>1, <1>3, <2>1 DEF Under
    <3>2. Parent(r) \in DOMAIN fs /\ fs[Parent(r)] = "dir"
      BY <1>7, <3>1 DEF IsTree
    <3>3. ~ IsPrefix(p, Parent(r)) /\ ~ IsPrefix(q, Parent(r))
      BY <1>7, <3>1, PrefixOfParent
    <3>4. Parent(r) # q
      BY <3>3, OwnPrefix
    <3>5. Parent(r) \in kept
      BY <3>2, <3>3, <3>4 DEF Under
    <3> QED BY <1>3, <3>2, <3>5
  <2>2. ASSUME NEW s \in Under(p), r = Rebased(s, p, q)
        PROVE  Parent(r) \in DOMAIN t /\ t[Parent(r)] = "dir"
    <3>1. CASE s = p
      <4>1. r \in Paths /\ Len(r) = Len(q) /\ IsPrefix(q, r)
        BY <1>2, <2>2, <3>1, RebasedBack
      <4>2. r = q
        BY <4>1, OwnPrefix
      <4>3. Parent(p) \in DOMAIN fs /\ fs[Parent(p)] = "dir"
        BY <1>2, <3>1 DEF IsTree
      <4>4. Parent(p) \in Paths /\ Len(Parent(p)) = Len(p) - 1 /\ Len(p) \in Nat
        BY ParentFacts, PathFacts
      <4>5. ~ IsPrefix(p, Parent(p)) /\ Parent(p) # q
        BY <4>4, PrefixFacts
      <4>6. Parent(p) \in kept
        BY <4>3, <4>5 DEF Under
      <4> QED BY <1>3, <4>2, <4>3, <4>6
    <3>2. CASE s # p
      <4>1. s # Root /\ IsPrefix(p, Parent(s)) /\ Parent(r) = Rebased(Parent(s), p, q)
        BY <1>2, <2>2, <3>2, RebasedParent
      <4>2. Parent(s) \in DOMAIN fs /\ fs[Parent(s)] = "dir"
        BY <1>2, <4>1 DEF IsTree
      <4>3. Parent(s) \in Under(p)
        BY <4>1, <4>2 DEF Under
      <4> QED BY <1>3, <4>1, <4>2, <4>3
    <3> QED BY <3>1, <3>2
  <2> QED BY <1>3, <2>1, <2>2
<1> QED BY <1>3, <1>5, <1>6, <1>7 DEF IsTree, t

\* A file, or a directory with nothing in it, is all that moves.
LEMMA MovedAlone ==
  ASSUME IsTree(fs), NEW p \in Paths, NEW q \in Paths, p # Root, Len(p) = Len(q),
         CanRename(p, q), Children(p) = {}
  PROVE  /\ DOMAIN Moved(p, q) = (DOMAIN fs \ {p}) \cup {q}
         /\ Moved(p, q)[q] = fs[p]
         /\ \A r \in DOMAIN fs \ {p, q} : Moved(p, q)[r] = fs[r]
<1> DEFINE kept == DOMAIN fs \ (Under(p) \cup {q})
           t == Moved(p, q)
<1>1. DOMAIN fs \subseteq Paths /\ p \in DOMAIN fs
  BY DEF IsTree, CanRename
<1>2. Under(p) = {p}
  <2>1. p \in Under(p)
    BY <1>1, OwnPrefix DEF Under
  <2>2. \A x \in Under(p) : x = p
    BY NotEmpty DEF Under
  <2> QED BY <2>1, <2>2
<1>3. /\ \A r \in DOMAIN t : r \in kept \/ \E s \in Under(p) : r = Rebased(s, p, q)
      /\ \A r \in kept : r \in DOMAIN t /\ t[r] = fs[r]
      /\ \A s \in Under(p) : Rebased(s, p, q) \in DOMAIN t /\ t[Rebased(s, p, q)] = fs[s]
  BY MovedFacts
<1>4. Rebased(p, p, q) = q
  <2>1. IsPrefix(p, p)
    BY OwnPrefix
  <2>2. /\ Rebased(p, p, q) \in Paths /\ Len(Rebased(p, p, q)) = Len(p)
        /\ IsPrefix(q, Rebased(p, p, q))
    BY <2>1, RebasedBack
  <2> QED BY <2>2, OwnPrefix
<1>6. kept = DOMAIN fs \ {p, q}
  BY <1>2
<1> HIDE DEF t, kept
<1>5. DOMAIN t = (DOMAIN fs \ {p}) \cup {q}
  <2>1. q \in DOMAIN t
    BY <1>2, <1>3, <1>4
  <2>2. \A r \in DOMAIN t : r \in kept \/ r = q
    BY <1>2, <1>3, <1>4
  <2>3. \A r \in kept : r \in DOMAIN t
    BY <1>3
  <2> QED BY <1>6, <2>1, <2>2, <2>3
<1> QED BY <1>2, <1>3, <1>4, <1>5, <1>6 DEF t

-----------------------------------------------------------------------------------
(***********************************************************************************)
(* What a log is worth: the replay of it agrees with the tree.                     *)
(***********************************************************************************)
Log == INSTANCE Lemmas WITH combine <- NS!apply_operation_to_state

Ops == NS!SimpleOps

Create(p, kind) == [kind |-> "Create", path |-> p, mode |-> kind]
Write(p) == [kind |-> "Write", path |-> p]
Delete(p) == [kind |-> "Delete", path |-> p]
Rename(p, q) == [kind |-> "Rename", from |-> p, to |-> q]

\* What the handlers log are operations of a namespace.
LEMMA OpsTyped ==
  ASSUME NEW p \in Paths, NEW q \in Paths, NEW k \in Kinds
  PROVE  Create(p, k) \in Ops /\ Write(p) \in Ops /\ Delete(p) \in Ops /\ Rename(p, q) \in Ops
<1>1. Create(p, k) \in NS!CreateOps
  BY DEF Create, NS!CreateOps
<1>2. Write(p) \in NS!WriteOps
  BY DEF Write, NS!WriteOps
<1>3. Delete(p) \in NS!DeleteOps
  BY DEF Delete, NS!DeleteOps
<1>4. Rename(p, q) \in NS!RenameOps
  BY DEF Rename, NS!RenameOps
<1> QED BY <1>1, <1>2, <1>3, <1>4 DEF Ops, NS!SimpleOps

\* create_checkpoint's replay of a log is a fold, of which Lemmas knows the steps.
LEMMA LogIsFold ==
  ASSUME NEW ops, NEW ns
  PROVE  NS!ApplyBlock(ns, ops) = Log!Fold(ns, ops)
BY DEF Log!Fold, NS!ApplyBlock, Log!FoldLeft, NS!FoldLeft, Log!MapThenFoldSet, NS!MapThenFoldSet,
       Log!Max, NS!Max

\* The namespace has the files of the tree.
Agrees(ns, files) ==
  /\ ns \in [Paths -> NS!FileStates \cup {Absent}]
  /\ \A p \in Paths :
       IF p \in DOMAIN files THEN ns[p] # Absent /\ ns[p].mode = files[p] ELSE ns[p] = Absent

LEMMA FileFacts ==
  /\ \A k \in Kinds : NS!NewFile(k) \in NS!FileStates /\ NS!NewFile(k).mode = k
  /\ \A f \in NS!FileStates : f # Absent /\ [f EXCEPT !.size = @ + 1] \in NS!FileStates
                              /\ [f EXCEPT !.size = @ + 1].mode = f.mode
BY NoFileAssumption DEF NS!FileStates, NS!NewFile

\* A replay begins with the files of the tree it begins at.
LEMMA NamespaceAgrees ==
  ASSUME NEW files, IsTree(files)
  PROVE  Agrees(Namespace(files), files)
<1>1. \A p \in DOMAIN files : files[p] \in Kinds
  BY DEF IsTree
<1> QED BY <1>1, FileFacts DEF Agrees, Namespace

\* A namespace that has the files of a files gives the files back.
LEMMA TreeOfAgreeing ==
  ASSUME NEW files, IsTree(files), NEW ns, Agrees(ns, files)
  PROVE  Tree(ns) = files
<1>1. {q \in Paths : ns[q] # Absent} = DOMAIN files
  BY DEF IsTree, Agrees
<1>2. \A p \in DOMAIN files : ns[p].mode = files[p]
  BY DEF IsTree, Agrees
<1> QED BY <1>1, <1>2 DEF Tree, IsTree

\* One operation, done on the files and replayed: create ...
LEMMA CreateAgrees ==
  ASSUME NEW ns, NEW files, Agrees(ns, files), NEW p \in Paths, NEW k \in Kinds
  PROVE  Agrees(NS!apply_operation_to_state(ns, Create(p, k)), Put(files, p, k))
<1>1. NS!apply_operation_to_state(ns, Create(p, k)) = [ns EXCEPT ![p] = NS!NewFile(k)]
  BY DEF NS!apply_operation_to_state, NS!apply_simple, Create
<1>2. NS!NewFile(k) \in NS!FileStates /\ NS!NewFile(k) # Absent /\ NS!NewFile(k).mode = k
  BY FileFacts
<1>3. /\ DOMAIN Put(files, p, k) = DOMAIN files \cup {p} /\ Put(files, p, k)[p] = k
      /\ \A q \in DOMAIN files \ {p} : Put(files, p, k)[q] = files[q]
  BY DEF Put
<1> QED BY <1>1, <1>2, <1>3 DEF Agrees

\* ... write, on a file that is there ...
LEMMA WriteAgrees ==
  ASSUME NEW ns, NEW files, Agrees(ns, files), NEW p \in Paths, p \in DOMAIN files
  PROVE  Agrees(NS!apply_operation_to_state(ns, Write(p)), files)
<1> DEFINE f == [ns[p] EXCEPT !.size = @ + 1]
<1>1. ns[p] \in NS!FileStates
  BY DEF Agrees
<1>2. f \in NS!FileStates /\ f # Absent /\ f.mode = ns[p].mode
  BY <1>1, FileFacts
<1>3. NS!apply_operation_to_state(ns, Write(p)) = [ns EXCEPT ![p] = f]
  BY DEF NS!apply_operation_to_state, NS!apply_simple, NS!OnFile, Write, Agrees
<1> HIDE DEF f
<1> QED BY <1>2, <1>3 DEF Agrees

\* ... delete ...
LEMMA DeleteAgrees ==
  ASSUME NEW ns, NEW files, Agrees(ns, files), NEW p \in Paths
  PROVE  Agrees(NS!apply_operation_to_state(ns, Delete(p)), Without(files, p))
<1>1. NS!apply_operation_to_state(ns, Delete(p)) = [ns EXCEPT ![p] = Absent]
  BY DEF NS!apply_operation_to_state, NS!apply_simple, Delete
<1>2. /\ DOMAIN Without(files, p) = DOMAIN files \ {p}
      /\ \A q \in DOMAIN files \ {p} : Without(files, p)[q] = files[q]
  BY DEF Without, Restrict
<1> QED BY <1>1, <1>2 DEF Agrees

\* ... and rename, of a file that is there and moves alone.
LEMMA RenameAgrees ==
  ASSUME NEW ns, NEW files, Agrees(ns, files), NEW p \in Paths, NEW q \in Paths, p \in DOMAIN files,
         NEW t, DOMAIN t = (DOMAIN files \ {p}) \cup {q}, t[q] = files[p],
         \A r \in DOMAIN files \ {p, q} : t[r] = files[r]
  PROVE  Agrees(NS!apply_operation_to_state(ns, Rename(p, q)), t)
<1>1. NS!apply_operation_to_state(ns, Rename(p, q)) = [ns EXCEPT ![p] = Absent, ![q] = ns[p]]
  BY DEF NS!apply_operation_to_state, NS!apply_simple, NS!MoveFile, Rename, Agrees
<1> QED BY <1>1 DEF Agrees

-----------------------------------------------------------------------------------
(***********************************************************************************)
(* Types.                                                                          *)
(***********************************************************************************)
Tables == UNION {[F -> Paths] : F \in SUBSET Fids}

LEMMA TableFacts ==
  ASSUME NEW t \in Tables
  PROVE  DOMAIN t \subseteq Fids /\ t \in [DOMAIN t -> Paths] /\ \A f \in DOMAIN t : t[f] \in Paths
BY DEF Tables

LEMMA PutTable ==
  ASSUME NEW t \in Tables, NEW f \in Fids, NEW p \in Paths
  PROVE  Put(t, f, p) \in Tables
<1>1. Put(t, f, p) \in [DOMAIN t \cup {f} -> Paths] /\ DOMAIN t \cup {f} \in SUBSET Fids
  BY TableFacts DEF Put
<1> QED BY <1>1 DEF Tables

LEMMA WithoutTable ==
  ASSUME NEW t \in Tables, NEW f
  PROVE  Without(t, f) \in Tables
<1>1. Without(t, f) \in [DOMAIN t \ {f} -> Paths] /\ DOMAIN t \ {f} \in SUBSET Fids
  BY TableFacts DEF Without, Restrict
<1> QED BY <1>1 DEF Tables

LEMMA MessageFacts ==
  ASSUME NEW r \in Requests
  PROVE  /\ r.kind \in {"Create", "Write", "Remove", "Wstat"}
         /\ r.fid \in Fids /\ r.path \in Paths
         /\ r.kind = "Create" => r.mode \in Kinds
         /\ r.kind = "Wstat" => r.to \in Paths
<1> DEFINE C == [kind : {"Create"}, fid : Fids, path : Paths, mode : Kinds]
           W == [kind : {"Write", "Remove"}, fid : Fids, path : Paths]
           V == [kind : {"Wstat"}, fid : Fids, path : Paths, to : Paths]
<1>1. /\ r \in C => r.kind = "Create" /\ r.fid \in Fids /\ r.path \in Paths /\ r.mode \in Kinds
      /\ r \in W => r.kind \in {"Write", "Remove"} /\ r.fid \in Fids /\ r.path \in Paths
      /\ r \in V => r.kind = "Wstat" /\ r.fid \in Fids /\ r.path \in Paths /\ r.to \in Paths
  OBVIOUS
<1>2. Requests = (C \cup W) \cup V
  BY DEF Requests
<1> HIDE DEF C, W, V
<1> QED BY <1>1, <1>2

LEMMA MessagesTyped ==
  ASSUME NEW f \in Fids, NEW p \in Paths, NEW q \in Paths, NEW k \in Kinds
  PROVE  /\ [kind |-> "Create", fid |-> f, path |-> p, mode |-> k] \in Requests
         /\ [kind |-> "Write", fid |-> f, path |-> p] \in Requests
         /\ [kind |-> "Remove", fid |-> f, path |-> p] \in Requests
         /\ [kind |-> "Wstat", fid |-> f, path |-> p, to |-> q] \in Requests
BY DEF Requests

\* One more for an operation that is done and not yet logged.
Unlogged(c) == IF request[c] # Nobody /\ request[c].kind # "Create" THEN 1 ELSE 0

\* No block is of a time to come, as long as the clock was not set back.
Past(c) == "clock_set_back" \notin blurred[c] => \A b \in dag[c] : b.timestamp <= now

Types ==
  /\ IsTree(fs)
  /\ origin = [c \in Connections |-> origin[c]]
  /\ \A c \in Connections : IsTree(origin[c])
  /\ fids \in [Connections -> Tables]
  /\ dag \in [Connections -> SUBSET Blocks]
  /\ request \in [Connections -> Requests \cup {Nobody}]
  /\ messages \in 0..MaxMessages
  /\ now \in Times
  /\ blurred \in [Connections -> SUBSET Reasons]
  /\ \A c \in Connections : IsFiniteSet(dag[c]) /\ Cardinality(dag[c]) + Unlogged(c) <= messages
  /\ \A c \in Connections : Handling(c, "Create") => dag[c] # {}
  /\ \A c \in Connections : Past(c)

\* The types, counted and shaped as the steps need them, give the type invariant.
LEMMA TypesType == Types => ServerTypeOK
<1> SUFFICES ASSUME Types PROVE ServerTypeOK
  OBVIOUS
<1>1. DOMAIN fs \subseteq Paths /\ fs \in [DOMAIN fs -> Kinds]
  BY DEF Types, IsTree
<1>2. \A p \in DOMAIN fs : p # Root => IsDir(Parent(p))
  BY DEF Types, IsTree, IsDir
<1>3. ASSUME NEW c \in Connections
      PROVE  /\ DOMAIN fids[c] \subseteq Fids
             /\ \A f \in DOMAIN fids[c] : fids[c][f] \in Paths
             /\ request[c] \in Requests \cup {Nobody}
             /\ dag[c] \subseteq Blocks /\ Cardinality(dag[c]) <= MaxMessages
  <2>1. fids[c] \in Tables /\ request[c] \in Requests \cup {Nobody} /\ dag[c] \subseteq Blocks
    BY DEF Types
  <2>2. /\ IsFiniteSet(dag[c]) /\ Cardinality(dag[c]) + Unlogged(c) <= messages /\ messages \in Nat
        /\ messages <= MaxMessages
    BY BoundsAssumption DEF Types
  <2>3. Cardinality(dag[c]) <= MaxMessages
    <3>1. Unlogged(c) \in {0, 1} /\ MaxMessages \in Nat /\ Cardinality(dag[c]) \in Nat
      BY <2>2, BoundsAssumption, FS_CardinalityType DEF Unlogged
    <3> QED BY <2>2, <3>1
  <2> QED BY <2>1, <2>3, TableFacts
<1> QED BY <1>1, <1>2, <1>3 DEF Types, ServerTypeOK

\* The blocks l and the request r of a connection, after m messages.
Counted(l, r, m) ==
  /\ IsFiniteSet(l)
  /\ Cardinality(l) + (IF r # Nobody /\ r.kind # "Create" THEN 1 ELSE 0) <= m
  /\ r # Nobody /\ r.kind = "Create" => l # {}

\* What a step of c does to the types.
Keeps(c) ==
  /\ IsTree(fs')
  /\ \E t \in Tables : fids' = [fids EXCEPT ![c] = t]
  /\ \E l \in SUBSET Blocks, r \in Requests \cup {Nobody} :
       /\ dag' = [dag EXCEPT ![c] = l]
       /\ request' = [request EXCEPT ![c] = r]
       /\ Counted(l, r, messages')
       /\ \A b \in l : b \in dag[c] \/ b.timestamp = now
       /\ blurred[c] \subseteq blurred'[c] \/ l = {}
  /\ messages' \in 0..MaxMessages /\ messages <= messages' /\ now' = now
  /\ origin' \in {origin, [origin EXCEPT ![c] = fs]}
  /\ blurred' \in [Connections -> SUBSET Reasons]
  /\ \A d \in Connections \ {c} : blurred[d] \subseteq blurred'[d]

\* A step that keeps the types of its connection keeps all types.
LEMMA KeepsTypes ==
  ASSUME Types, NEW c \in Connections, Keeps(c)
  PROVE  Types'
<1>1. PICK t \in Tables : fids' = [fids EXCEPT ![c] = t]
  BY DEF Keeps
<1>2. PICK l \in SUBSET Blocks, r \in Requests \cup {Nobody} :
           /\ dag' = [dag EXCEPT ![c] = l]
           /\ request' = [request EXCEPT ![c] = r]
           /\ Counted(l, r, messages')
           /\ \A b \in l : b \in dag[c] \/ b.timestamp = now
           /\ blurred[c] \subseteq blurred'[c] \/ l = {}
  BY DEF Keeps
<1>3. origin' = [d \in Connections |-> origin'[d]] /\ \A d \in Connections : IsTree(origin'[d])
  BY DEF Types, Keeps
<1>4. fids' \in [Connections -> Tables]
  BY <1>1 DEF Types
<1>5. dag' \in [Connections -> SUBSET Blocks] /\ request' \in [Connections -> Requests \cup {Nobody}]
  BY <1>2 DEF Types
<1>0. /\ dag'[c] = l /\ request'[c] = r
      /\ \A d \in Connections \ {c} : dag'[d] = dag[d] /\ request'[d] = request[d]
  BY <1>2 DEF Types
<1>6. ASSUME NEW d \in Connections
      PROVE  IsFiniteSet(dag'[d]) /\ Cardinality(dag'[d]) + Unlogged(d)' <= messages'
  <2>1. CASE d = c
    BY <1>0, <1>2, <2>1 DEF Unlogged, Counted
  <2>2. CASE d # c
    <3>1. dag'[d] = dag[d] /\ request'[d] = request[d]
      BY <1>0, <2>2
    <3>2. /\ Cardinality(dag[d]) + Unlogged(d) <= messages /\ messages <= messages'
          /\ IsFiniteSet(dag[d])
      BY DEF Types, Keeps
    <3>3. Cardinality(dag[d]) \in Nat /\ Unlogged(d) \in Nat /\ messages \in Nat /\ messages' \in Nat
      BY <3>2, FS_CardinalityType, BoundsAssumption DEF Types, Keeps, Unlogged
    <3>4. Unlogged(d)' = Unlogged(d)
      BY <3>1 DEF Unlogged
    <3> HIDE DEF Unlogged
    <3> QED BY <3>1, <3>2, <3>3, <3>4
  <2> QED BY <2>1, <2>2
<1>7. ASSUME NEW d \in Connections, Handling(d, "Create")' PROVE dag'[d] # {}
  <2>1. CASE d = c
    BY <1>0, <1>2, <1>7, <2>1 DEF Handling, Counted
  <2>2. CASE d # c
    BY <1>0, <1>7, <2>2 DEF Types, Handling
  <2> QED BY <2>1, <2>2
<1>8. ASSUME NEW d \in Connections PROVE Past(d)'
  <2>1. CASE d = c
    <3> SUFFICES ASSUME "clock_set_back" \notin blurred'[c], NEW b \in l
                 PROVE  b.timestamp <= now
      BY <1>0, <2>1 DEF Past, Keeps
    <3>1. "clock_set_back" \notin blurred[c]
      BY <1>2
    <3>2. b \in dag[c] => b.timestamp <= now
      BY <3>1 DEF Types, Past
    <3>3. now <= now
      BY BoundsAssumption DEF Types, Times
    <3> QED BY <1>2, <3>2, <3>3
  <2>2. CASE d # c
    BY <1>0, <2>2 DEF Types, Keeps, Past
  <2> QED BY <2>1, <2>2
<1> QED BY <1>3, <1>4, <1>5, <1>6, <1>7, <1>8 DEF Types, Keeps

LEMMA Unchanged ==
  ASSUME Types, NEW c \in Connections
  PROVE  /\ fids = [fids EXCEPT ![c] = fids[c]] /\ fids[c] \in Tables
         /\ dag = [dag EXCEPT ![c] = dag[c]] /\ dag[c] \in SUBSET Blocks
         /\ IsFiniteSet(dag[c]) /\ Cardinality(dag[c]) \in Nat /\ messages \in Nat
         /\ IsTree(fs) /\ blurred \in [Connections -> SUBSET Reasons]
<1>1. IsFiniteSet(dag[c])
  BY DEF Types
<1> QED BY <1>1, FS_CardinalityType, BoundsAssumption DEF Types

\* A block that is added is one more, unless it takes the place of others, which is noted.
LEMMA LoggedFacts ==
  ASSUME Types, NEW c \in Connections, NEW id \in Ids, NEW op \in Ops, Logged(c, id, op)
  PROVE  \E l \in SUBSET Blocks, b \in Blocks :
           /\ dag' = [dag EXCEPT ![c] = l]
           /\ b \in l /\ \A x \in l : x \in dag[c] \/ x = b
           /\ b.timestamp = now /\ b.operation = op
           /\ "overwritten" \notin blurred'[c] => b \notin dag[c] /\ l = dag[c] \cup {b}
           /\ IsFiniteSet(l) /\ Cardinality(l) <= Cardinality(dag[c]) + 1
           /\ blurred' \in [Connections -> SUBSET Reasons]
           /\ blurred'[c] \in {blurred[c], blurred[c] \cup {"overwritten"}}
           /\ \A d \in Connections \ {c} : blurred'[d] = blurred[d]
<1> DEFINE others == {x \in dag[c] : x.id # id}
           b == [id |-> id, operation |-> op, timestamp |-> now]
           l == others \cup {b}
<1>0. /\ dag[c] \in SUBSET Blocks /\ IsFiniteSet(dag[c]) /\ Cardinality(dag[c]) \in Nat
      /\ blurred \in [Connections -> SUBSET Reasons]
  BY Unchanged
<1>1. b \in Blocks /\ b.id = id /\ b.timestamp = now /\ b.operation = op
  BY DEF Blocks, Types, Ops
<1>2. dag' = [dag EXCEPT ![c] = l]
  BY DEF Logged
<1>3. blurred' = [blurred EXCEPT ![c] = @ \cup (IF others = dag[c] THEN {} ELSE {"overwritten"})]
  BY DEF Logged
<1> HIDE DEF b
<1>4. others \subseteq dag[c] /\ b \notin others
  BY <1>1
<1> HIDE DEF others
<1>5. IsFiniteSet(others) /\ Cardinality(others) <= Cardinality(dag[c])
  BY <1>0, <1>4, FS_Subset
<1>6. IsFiniteSet(l) /\ Cardinality(l) <= Cardinality(dag[c]) + 1
  <2>1. IsFiniteSet(l) /\ Cardinality(l) = Cardinality(others) + 1
    BY <1>4, <1>5, FS_AddElement
  <2>2. Cardinality(others) \in Nat
    BY <1>5, FS_CardinalityType
  <2> QED BY <1>0, <1>5, <2>1, <2>2
<1>7. /\ blurred' \in [Connections -> SUBSET Reasons]
      /\ blurred'[c] \in {blurred[c], blurred[c] \cup {"overwritten"}}
      /\ others # dag[c] => "overwritten" \in blurred'[c]
      /\ \A d \in Connections \ {c} : blurred'[d] = blurred[d]
  <2>1. "overwritten" \in Reasons
    BY DEF Reasons
  <2> QED BY <1>0, <1>3, <2>1
<1>8. /\ l \in SUBSET Blocks /\ b \in l /\ \A x \in l : x \in dag[c] \/ x = b
      /\ "overwritten" \notin blurred'[c] => b \notin dag[c] /\ l = dag[c] \cup {b}
  BY <1>0, <1>1, <1>4, <1>7
<1> HIDE DEF l
<1> QED BY <1>1, <1>2, <1>6, <1>7, <1>8

\* The ids the handlers give.
LEMMA IdsTyped ==
  ASSUME Types, NEW c \in Connections
  PROVE  /\ Uuid(c) \in Ids
         /\ \A p \in Paths, f \in Fids : DeleteId(p, f) \in Ids
<1>1. Cardinality(dag[c]) + 1 \in Nat
  BY Unchanged
<1>2. Uuid(c) \in [uuid : Nat]
  BY <1>1 DEF Uuid
<1>3. \A p \in Paths, f \in Fids :
        DeleteId(p, f) \in [flat : {Flat[q] : q \in Paths}, at : Times, fid : Fids]
  BY DEF DeleteId, Types
<1> QED BY <1>2, <1>3 DEF Ids

\* What is noted stays noted.
Noted ==
  /\ blurred' \in [Connections -> SUBSET Reasons]
  /\ \A c \in Connections : blurred[c] \subseteq blurred'[c]

LEMMA TreeChanged ==
  ASSUME Types, NEW c \in Connections, NEW next, NEW why \in SUBSET Reasons,
         ChangeTree(c, next, why)
  PROVE  fs' = next /\ origin' = origin /\ Noted
<1>1. blurred \in [Connections -> SUBSET Reasons] /\ "another_connection" \in Reasons
  BY DEF Types, Reasons
<1> QED BY <1>1 DEF ChangeTree, Noted

LEMMA NothingNoted == ASSUME Types, blurred' = blurred PROVE Noted
BY DEF Types, Noted

\* A message that logs nothing yet.
LEMMA MessageKeeps ==
  ASSUME Types, NEW c \in Connections, request[c] = Nobody,
         messages < MaxMessages, messages' = messages + 1, now' = now,
         NEW t \in Tables, fids' = [fids EXCEPT ![c] = t],
         NEW r \in Requests \cup {Nobody}, r = Nobody \/ r.kind # "Create",
         request' = [request EXCEPT ![c] = r], dag' = dag, IsTree(fs'), origin' = origin, Noted
  PROVE  Keeps(c)
<1>1. /\ IsFiniteSet(dag[c]) /\ Cardinality(dag[c]) \in Nat /\ messages \in Nat
      /\ dag[c] \in SUBSET Blocks /\ dag' = [dag EXCEPT ![c] = dag[c]]
  BY Unchanged
<1>2. Cardinality(dag[c]) <= messages
  <2>1. Cardinality(dag[c]) + Unlogged(c) <= messages
    BY DEF Types
  <2> QED BY <1>1, <2>1 DEF Unlogged
<1>3. messages' \in 0..MaxMessages /\ messages <= messages'
  BY <1>1, BoundsAssumption
<1>4. Counted(dag[c], r, messages')
  <2>1. Cardinality(dag[c]) + 1 <= messages' /\ Cardinality(dag[c]) + 0 <= messages'
    BY <1>1, <1>2
  <2> QED BY <1>1, <2>1 DEF Counted
<1> QED BY <1>1, <1>3, <1>4 DEF Keeps, Noted

\* The end of a message that has an operation in the log, or gets it there.
LEMMA FinishKeeps ==
  ASSUME Types, NEW c \in Connections, request[c] # Nobody,
         NEW l \in SUBSET Blocks, dag' = [dag EXCEPT ![c] = l],
         IsFiniteSet(l), Cardinality(l) <= Cardinality(dag[c]) + Unlogged(c),
         \A b \in l : b \in dag[c] \/ b.timestamp = now,
         NEW t \in Tables, fids' = [fids EXCEPT ![c] = t],
         Reply(c), messages' = messages, now' = now, IsTree(fs'), origin' = origin, Noted
  PROVE  Keeps(c)
<1>1. Counted(l, Nobody, messages')
  <2>1. /\ Cardinality(dag[c]) + Unlogged(c) <= messages /\ Cardinality(dag[c]) \in Nat
        /\ messages \in Nat /\ Unlogged(c) \in Nat /\ Cardinality(l) \in Nat
    BY Unchanged, FS_CardinalityType DEF Types, Unlogged
  <2>2. Cardinality(l) + 0 <= messages'
    BY <2>1
  <2> QED BY <2>2 DEF Counted
<1>2. messages' \in 0..MaxMessages /\ messages <= messages'
  BY BoundsAssumption DEF Types
<1>3. request' = [request EXCEPT ![c] = Nobody]
  BY DEF Reply
<1> QED BY <1>1, <1>2, <1>3 DEF Keeps, Noted

LEMMA RootTyped == Root \in Paths /\ Len(Root) = 0
<1>1. Root \in [1..0 -> Names] /\ 0 \in 0..MaxDepth
  BY BoundsAssumption DEF Root
<1> QED BY <1>1, IsPath

\* The message handlers keep the types ...
LEMMA MessageTypes ==
  ASSUME Types, NEW c \in Connections, NEW fid \in Fids, Message(c, fid), now' = now
  PROVE  Keeps(c)
<1> DEFINE p == fids[c][fid]
<1>0. /\ fids = [fids EXCEPT ![c] = fids[c]] /\ fids[c] \in Tables
      /\ dag = [dag EXCEPT ![c] = dag[c]] /\ dag[c] \in SUBSET Blocks
      /\ IsFiniteSet(dag[c]) /\ Cardinality(dag[c]) \in Nat /\ messages \in Nat
      /\ IsTree(fs) /\ blurred \in [Connections -> SUBSET Reasons]
  BY Unchanged
<1>1. CASE handle_attach(c, fid)
  <2>1. Put(fids[c], fid, Root) \in Tables
    BY <1>0, PutTable, RootTyped
  <2> QED BY <1>0, <1>1, <2>1, MessageKeeps, NothingNoted DEF handle_attach, SetFid, Reply, served, tree
<1>2. ASSUME NEW newfid \in Fids, NEW names \in Paths, handle_walk(c, fid, newfid, names)
      PROVE  Keeps(c)
  <2>1. PICK t \in Tables : fids' = [fids EXCEPT ![c] = t]
    <3>1. p \o names \in Paths => Put(fids[c], newfid, p \o names) \in Tables
      BY <1>0, PutTable
    <3> QED BY <1>0, <1>2, <3>1 DEF handle_walk, SetFid
  <2> QED BY <1>0, <1>2, <2>1, MessageKeeps, NothingNoted DEF handle_walk, Receives, Reply, served, tree
<1>3. ASSUME NEW name \in Names, NEW kind \in Kinds, handle_create(c, fid, name, kind)
      PROVE  Keeps(c)
  <2> DEFINE q == Append(p, name)
             r == [kind |-> "Create", fid |-> fid, path |-> q, mode |-> kind]
  <2>1. /\ q \in Paths /\ messages' = messages + 1 /\ messages < MaxMessages
        /\ Logged(c, Uuid(c), Create(q, kind)) /\ request' = [request EXCEPT ![c] = r]
        /\ request[c] = Nobody
    BY <1>3 DEF handle_create, Receives, Begin, Create
  <2>2. fs' = fs /\ origin' = origin /\ fids' = fids
    BY <1>3 DEF handle_create, tree
  <2>3. r \in Requests /\ Create(q, kind) \in Ops /\ r.kind = "Create" /\ Uuid(c) \in Ids
    <3> HIDE DEF q
    <3> QED BY <1>0, <2>1, MessagesTyped, OpsTyped, IdsTyped
  <2> HIDE DEF q, r
  <2>4. PICK l \in SUBSET Blocks, b \in Blocks :
           /\ dag' = [dag EXCEPT ![c] = l]
           /\ b \in l /\ \A x \in l : x \in dag[c] \/ x = b
           /\ b.timestamp = now
           /\ IsFiniteSet(l) /\ Cardinality(l) <= Cardinality(dag[c]) + 1
           /\ blurred' \in [Connections -> SUBSET Reasons]
           /\ blurred'[c] \in {blurred[c], blurred[c] \cup {"overwritten"}}
           /\ \A d \in Connections \ {c} : blurred'[d] = blurred[d]
    <3> HIDE DEF p
    <3>1. Logged(c, Uuid(c), Create(q, kind)) /\ Create(q, kind) \in Ops /\ Uuid(c) \in Ids
      BY <2>1, <2>3
    <3> QED BY <3>1, LoggedFacts
  <2>5. Cardinality(dag[c]) <= messages
    <3>1. Cardinality(dag[c]) + Unlogged(c) <= messages
      BY DEF Types
    <3> QED BY <1>0, <2>1, <3>1 DEF Unlogged
  <2>6. messages' \in 0..MaxMessages /\ messages <= messages'
    BY <1>0, <2>1, BoundsAssumption
  <2>7. Counted(l, r, messages')
    <3>1. Cardinality(l) + 0 <= messages'
      <4>1. Cardinality(l) \in Nat
        BY <2>4, FS_CardinalityType
      <4> QED BY <1>0, <2>1, <2>4, <2>5, <4>1
    <3> QED BY <2>3, <2>4, <3>1 DEF Counted
  <2>8. blurred[c] \subseteq blurred'[c] /\ \A d \in Connections \ {c} : blurred[d] \subseteq blurred'[d]
    BY <2>4
  <2>9. \A x \in l : x \in dag[c] \/ x.timestamp = now
    BY <2>4
  <2> QED BY <1>0, <2>1, <2>2, <2>3, <2>4, <2>6, <2>7, <2>8, <2>9 DEF Keeps
<1>4. CASE handle_write(c, fid)
  <2>0. request[c] = Nobody /\ messages < MaxMessages /\ messages' = messages + 1 /\ fids' = fids
        /\ dag' = dag /\ p \in Paths
    BY <1>0, <1>4, TableFacts DEF handle_write, Receives
  <2>1. CASE p \in DOMAIN fs \/ CanCreate(p, "file")
    <3> DEFINE why == IF p \in DOMAIN fs THEN {} ELSE {"created_by_write"}
               r == [kind |-> "Write", fid |-> fid, path |-> p]
    <3>1. CASE ~ IsDir(p) /\ ChangeTree(c, Put(fs, p, "file"), why) /\ Begin(c, r)
      <4>1. IsTree(Put(fs, p, "file"))
        BY <1>0, <2>0, <2>1, <3>1, PutTree DEF Kinds
      <4>2. why \in SUBSET Reasons
        BY DEF Reasons
      <4>3. r \in Requests /\ r.kind # "Create"
        <5> HIDE DEF p
        <5> QED BY <2>0, MessagesTyped DEF Kinds
      <4> HIDE DEF why, r
      <4>4. IsTree(fs') /\ origin' = origin /\ Noted
        BY <3>1, <4>1, <4>2, TreeChanged
      <4> QED BY <1>0, <2>0, <3>1, <4>3, <4>4, MessageKeeps DEF Begin
    <3>2. CASE Reply(c) /\ UNCHANGED served
      BY <1>0, <2>0, <3>2, MessageKeeps, NothingNoted DEF Reply, served, tree
    <3> QED BY <1>4, <3>1, <3>2 DEF handle_write
  <2>2. CASE ~ (p \in DOMAIN fs \/ CanCreate(p, "file"))
    <3>1. Reply(c) /\ UNCHANGED served
      BY <1>4, <2>2 DEF handle_write
    <3> QED BY <1>0, <2>0, <3>1, MessageKeeps, NothingNoted DEF Reply, served, tree
  <2> QED BY <2>1, <2>2
<1>5. CASE handle_remove(c, fid)
  <2>0. request[c] = Nobody /\ messages < MaxMessages /\ messages' = messages + 1 /\ fids' = fids
        /\ dag' = dag /\ p \in Paths
    BY <1>0, <1>5, TableFacts DEF handle_remove, Receives
  <2>1. CASE CanRemove(p)
    <3> DEFINE r == [kind |-> "Remove", fid |-> fid, path |-> p]
    <3>1. ChangeTree(c, Without(fs, p), {}) /\ Begin(c, r)
      BY <1>5, <2>1 DEF handle_remove
    <3>2. IsTree(Without(fs, p))
      BY <1>0, <2>1, WithoutTree
    <3>3. r \in Requests /\ r.kind # "Create"
      <4> HIDE DEF p
      <4> QED BY <2>0, MessagesTyped DEF Kinds
    <3> HIDE DEF r
    <3>4. IsTree(fs') /\ origin' = origin /\ Noted
      BY <3>1, <3>2, TreeChanged
    <3> QED BY <1>0, <2>0, <3>1, <3>3, <3>4, MessageKeeps DEF Begin
  <2>2. CASE ~ CanRemove(p)
    <3>1. Reply(c) /\ UNCHANGED served
      BY <1>5, <2>2 DEF handle_remove
    <3> QED BY <1>0, <2>0, <3>1, MessageKeeps, NothingNoted DEF Reply, served, tree
  <2> QED BY <2>1, <2>2
<1>6. ASSUME NEW name \in Names, handle_wstat(c, fid, name)
      PROVE  Keeps(c)
  <2> DEFINE q == Append(Parent(p), name)
  <2>0. request[c] = Nobody /\ messages < MaxMessages /\ messages' = messages + 1 /\ fids' = fids
        /\ dag' = dag /\ p \in Paths /\ p # Root
    BY <1>0, <1>6, TableFacts DEF handle_wstat, Receives
  <2>1. CASE CanRename(p, q)
    <3> DEFINE why == IF Children(p) = {} THEN {} ELSE {"moved_directory"}
               r == [kind |-> "Wstat", fid |-> fid, path |-> p, to |-> q]
    <3>1. ChangeTree(c, Moved(p, q), why) /\ Begin(c, r)
      BY <1>6, <2>1 DEF handle_wstat
    <3>2. q \in Paths /\ q # Root /\ Len(p) = Len(q) /\ Parent(q) = Parent(p)
      <4> HIDE DEF p
      <4> QED BY <2>0, Sibling
    <3>3. r \in Requests /\ r.kind # "Create"
      <4> HIDE DEF p, q
      <4> QED BY <2>0, <3>2, MessagesTyped DEF Kinds
    <3> HIDE DEF q
    <3>4. IsTree(Moved(p, q))
      BY <1>0, <2>0, <2>1, <3>2, MovedTree
    <3>5. why \in SUBSET Reasons
      BY DEF Reasons
    <3> HIDE DEF why, r
    <3>6. IsTree(fs') /\ origin' = origin /\ Noted
      BY <3>1, <3>4, <3>5, TreeChanged
    <3> QED BY <1>0, <2>0, <3>1, <3>3, <3>6, MessageKeeps DEF Begin
  <2>2. CASE ~ CanRename(p, q)
    <3>1. Reply(c) /\ UNCHANGED served
      BY <1>6, <2>2 DEF handle_wstat
    <3> QED BY <1>0, <2>0, <3>1, MessageKeeps, NothingNoted DEF Reply, served, tree
  <2> QED BY <2>1, <2>2
<1>7. CASE handle_clunk(c, fid)
  <2>1. Without(fids[c], fid) \in Tables
    BY <1>0, WithoutTable
  <2> QED BY <1>0, <1>7, <2>1, MessageKeeps, NothingNoted DEF handle_clunk, DropFid, Reply, served, tree
<1> QED BY <1>1, <1>2, <1>3, <1>4, <1>5, <1>6, <1>7 DEF Message

\* ... and so does what they do after their await ...
LEMMA FinishTypes ==
  ASSUME Types, NEW c \in Connections, Finish(c), now' = now
  PROVE  Keeps(c)
<1> DEFINE r == request[c]
<1>0. /\ fids = [fids EXCEPT ![c] = fids[c]] /\ fids[c] \in Tables
      /\ dag = [dag EXCEPT ![c] = dag[c]] /\ dag[c] \in SUBSET Blocks
      /\ IsFiniteSet(dag[c]) /\ Cardinality(dag[c]) \in Nat /\ messages \in Nat
      /\ IsTree(fs) /\ blurred \in [Connections -> SUBSET Reasons]
  BY Unchanged
<1>1. r # Nobody
  BY DEF Finish, CreateOnDisk, LogWrite, LogRemove, LogWstat, Handling
<1>2. r \in Requests
  BY <1>1 DEF Types
<1>3. /\ r.kind \in {"Create", "Write", "Remove", "Wstat"} /\ r.fid \in Fids /\ r.path \in Paths
      /\ r.kind = "Create" => r.mode \in Kinds
      /\ r.kind = "Wstat" => r.to \in Paths
  <2> HIDE DEF r
  <2> QED BY <1>2, MessageFacts
<1>4. ASSUME NEW id \in Ids, NEW op \in Ops, r.kind # "Create", Logged(c, id, op), Reply(c),
             fs' = fs, origin' = origin, messages' = messages,
             NEW t \in Tables, fids' = [fids EXCEPT ![c] = t]
      PROVE  Keeps(c)
  <2>1. PICK l \in SUBSET Blocks, b \in Blocks :
           /\ dag' = [dag EXCEPT ![c] = l]
           /\ b \in l /\ \A x \in l : x \in dag[c] \/ x = b
           /\ b.timestamp = now
           /\ IsFiniteSet(l) /\ Cardinality(l) <= Cardinality(dag[c]) + 1
           /\ blurred' \in [Connections -> SUBSET Reasons]
           /\ blurred'[c] \in {blurred[c], blurred[c] \cup {"overwritten"}}
           /\ \A d \in Connections \ {c} : blurred'[d] = blurred[d]
    BY <1>4, LoggedFacts
  <2>2. Noted
    <3>1. \A d \in Connections : blurred[d] \subseteq blurred'[d]
      BY <2>1
    <3> QED BY <2>1, <3>1 DEF Noted
  <2>3. Unlogged(c) = 1
    BY <1>1, <1>4 DEF Unlogged
  <2>4. \A x \in l : x \in dag[c] \/ x.timestamp = now
    BY <2>1
  <2>5. Cardinality(l) <= Cardinality(dag[c]) + Unlogged(c) /\ request[c] # Nobody
    BY <1>1, <2>1, <2>3
  <2> HIDE DEF r
  <2> QED BY <1>0, <1>4, <2>1, <2>2, <2>4, <2>5, FinishKeeps
<1>5. CASE CreateOnDisk(c)
  <2>0. r.kind = "Create" /\ dag' = dag /\ messages' = messages
    BY <1>5 DEF CreateOnDisk, Handling
  <2>1. Unlogged(c) = 0 /\ Cardinality(dag[c]) <= Cardinality(dag[c]) + Unlogged(c)
    BY <1>0, <2>0 DEF Unlogged
  <2>2. CASE CanCreate(r.path, r.mode) /\ ChangeTree(c, Put(fs, r.path, r.mode), {})
             /\ SetFid(c, r.fid, r.path) /\ Reply(c)
    <3> DEFINE t == Put(fids[c], r.fid, r.path)
    <3>1. IsTree(Put(fs, r.path, r.mode))
      <4> HIDE DEF r
      <4> QED BY <1>0, <1>3, <2>0, <2>2, PutTree
    <3>2. t \in Tables
      BY <1>0, <1>3, PutTable
    <3>3. fids' = [fids EXCEPT ![c] = t]
      BY <2>2 DEF SetFid
    <3>4. IsTree(fs') /\ origin' = origin /\ Noted
      BY <2>2, <3>1, TreeChanged
    <3> HIDE DEF t
    <3> QED BY <1>0, <1>1, <2>0, <2>1, <2>2, <3>2, <3>3, <3>4, FinishKeeps
  <2>3. CASE ChangeTree(c, fs, {"failed_create"}) /\ Reply(c) /\ UNCHANGED fids
    <3>1. {"failed_create"} \in SUBSET Reasons
      BY DEF Reasons
    <3>2. IsTree(fs') /\ origin' = origin /\ Noted
      BY <1>0, <2>3, <3>1, TreeChanged
    <3> QED BY <1>0, <1>1, <2>0, <2>1, <2>3, <3>2, FinishKeeps
  <2> QED BY <1>5, <2>2, <2>3 DEF CreateOnDisk
<1>6. CASE LogWrite(c)
  <2>1. Write(r.path) \in Ops /\ Uuid(c) \in Ids
    BY <1>0, <1>3, OpsTyped, IdsTyped DEF Kinds
  <2>2. /\ r.kind # "Create" /\ Logged(c, Uuid(c), Write(r.path)) /\ Reply(c)
        /\ UNCHANGED <<tree, fids, messages>>
    BY <1>6 DEF LogWrite, Handling, Write
  <2> HIDE DEF r
  <2> QED BY <1>0, <1>4, <2>1, <2>2 DEF tree
<1>7. CASE LogRemove(c)
  <2>1. /\ Delete(r.path) \in Ops /\ Without(fids[c], r.fid) \in Tables
        /\ DeleteId(r.path, r.fid) \in Ids
    BY <1>0, <1>3, OpsTyped, IdsTyped, WithoutTable DEF Kinds
  <2>2. /\ r.kind # "Create" /\ Logged(c, DeleteId(r.path, r.fid), Delete(r.path)) /\ Reply(c)
        /\ UNCHANGED <<tree, messages>>
    BY <1>7 DEF LogRemove, Handling, Delete
  <2>3. fids' = [fids EXCEPT ![c] = Without(fids[c], r.fid)]
    BY <1>7 DEF LogRemove, DropFid
  <2> HIDE DEF r
  <2> QED BY <1>4, <2>1, <2>2, <2>3 DEF tree
<1>8. CASE LogWstat(c)
  <2>0. r.kind = "Wstat"
    BY <1>8 DEF LogWstat, Handling
  <2>1. Rename(r.path, r.to) \in Ops /\ Uuid(c) \in Ids
    <3> HIDE DEF r
    <3> QED BY <1>0, <1>3, <2>0, OpsTyped, IdsTyped DEF Kinds
  <2>2. /\ Logged(c, Uuid(c), Rename(r.path, r.to)) /\ Reply(c)
        /\ UNCHANGED <<tree, fids, messages>>
    BY <1>8 DEF LogWstat, Rename
  <2> HIDE DEF r
  <2> QED BY <1>0, <1>4, <2>0, <2>1, <2>2 DEF tree
<1> QED BY <1>5, <1>6, <1>7, <1>8 DEF Finish

\* ... and the end of a connection.
LEMMA ReconnectTypes ==
  ASSUME Types, NEW c \in Connections, Reconnect(c), now' = now
  PROVE  Keeps(c)
<1>0. /\ messages \in Nat /\ IsTree(fs) /\ blurred \in [Connections -> SUBSET Reasons]
  BY Unchanged
<1>1. <<>> \in Tables
  BY DEF Tables
<1>2. /\ blurred' \in [Connections -> SUBSET Reasons]
      /\ \A d \in Connections \ {c} : blurred[d] \subseteq blurred'[d]
  BY <1>0 DEF Reconnect, Reasons
<1>3. messages' \in 0..MaxMessages /\ messages <= messages'
  BY <1>0 DEF Reconnect, Types
<1>4. request' = [request EXCEPT ![c] = Nobody] /\ dag' = [dag EXCEPT ![c] = {}]
  BY DEF Reconnect, Types
<1>5. Counted({}, Nobody, messages')
  <2>1. 0 + 0 <= messages'
    BY <1>0, <1>3
  <2> QED BY <2>1, FS_EmptySet DEF Counted
<1> QED BY <1>0, <1>1, <1>2, <1>3, <1>4, <1>5 DEF Keeps, Reconnect

\* The clock says nothing of the rest, but that it was set back.
LEMMA ClockFacts ==
  ASSUME Types, SetClock
  PROVE  /\ UNCHANGED <<tree, fids, dag, request, messages>> /\ Noted
         /\ \A c \in Connections :
              /\ blurred'[c] \ blurred[c] \subseteq {"clock_set_back"}
              /\ "clock_set_back" \notin blurred'[c] => now <= now'
<1>1. blurred \in [Connections -> SUBSET Reasons] /\ "clock_set_back" \in Reasons
  BY DEF Types, Reasons
<1>2. now \in Int /\ now' \in Int
  BY BoundsAssumption DEF SetClock, Types, Times
<1> QED BY <1>1, <1>2 DEF SetClock, Noted

LEMMA ClockTypes == ASSUME Types, SetClock PROVE Types'
<1>1. /\ UNCHANGED <<fs, origin, fids, dag, request, messages>> /\ Noted
      /\ \A c \in Connections : "clock_set_back" \notin blurred'[c] => now <= now'
  BY ClockFacts DEF tree
<1>2. now' \in Times /\ now \in Int /\ now' \in Int
  BY BoundsAssumption DEF SetClock, Types, Times
<1>3. ASSUME NEW c \in Connections PROVE Past(c)'
  <2> SUFFICES ASSUME "clock_set_back" \notin blurred'[c], NEW b \in dag[c]
               PROVE  b.timestamp <= now'
    BY <1>1 DEF Past
  <2>1. b.timestamp <= now /\ now <= now'
    BY <1>1 DEF Types, Past, Noted
  <2>2. b.timestamp \in Int
    BY BoundsAssumption DEF Types, Blocks, Times
  <2> QED BY <1>2, <2>1, <2>2
<1>4. \A c \in Connections : Unlogged(c)' = Unlogged(c) /\ Handling(c, "Create")' = Handling(c, "Create")
  BY <1>1 DEF Unlogged, Handling
<1> QED BY <1>1, <1>2, <1>3, <1>4 DEF Types, Noted

LEMMA InitTypes == ServerInit => Types
<1> SUFFICES ASSUME ServerInit PROVE Types
  OBVIOUS
<1>1. IsTree(fs)
  <2>1. DOMAIN fs = {Root} /\ fs = [p \in {Root} |-> "dir"]
    BY DEF ServerInit
  <2> QED BY <2>1, RootTyped DEF IsTree, Kinds
<1>2. <<>> \in Tables
  BY DEF Tables
<1>3. \A c \in Connections : /\ IsFiniteSet(dag[c]) /\ Cardinality(dag[c]) + Unlogged(c) <= messages
                             /\ ~ Handling(c, "Create") /\ Past(c)
  BY FS_EmptySet DEF ServerInit, Unlogged, Handling, Past
<1> QED BY <1>1, <1>2, <1>3, BoundsAssumption DEF ServerInit, Types, Times

LEMMA NextTypes == Types /\ [ServerNext]_serverVars => Types'
<1> SUFFICES ASSUME Types, [ServerNext]_serverVars PROVE Types'
  OBVIOUS
<1>1. CASE UNCHANGED serverVars
  BY <1>1 DEF serverVars, served, tree, Types, IsTree, Unlogged, Handling, Past
<1>2. ASSUME NEW c \in Connections, Serves(c), now' = now
      PROVE  Types'
  BY <1>2, MessageTypes, FinishTypes, ReconnectTypes, KeepsTypes DEF Serves
<1> QED BY <1>1, <1>2, ClockTypes DEF ServerNext

\* Theorem: for any connections, fids, names and bounds, the directory tree stays a tree
\* under all handlers (every entry but the root lies in a directory that is there), fid
\* tables hold paths, and a log has no more blocks than messages were handled.
THEOREM ServerTypeCorrect == ServerSpec => []ServerTypeOK
<1>1. ServerInit => Types
  BY InitTypes
<1>2. Types /\ [ServerNext]_serverVars => Types'
  BY NextTypes
<1>3. Types => ServerTypeOK
  BY TypesType
<1> QED BY <1>1, <1>2, <1>3, PTL DEF ServerSpec

-----------------------------------------------------------------------------------
(***********************************************************************************)
(* The order of blocks.  What a replay does to the files that are there and their  *)
(* modes, its shape, is the same for every order that the times of the blocks      *)
(* allow, if no two of a second depend on their order.                              *)
(***********************************************************************************)
ShapeOf(ns) == [p \in Paths |-> IF ns[p] = Absent THEN "gone" ELSE ns[p].mode]

Shapes == [Paths -> Kinds \cup {"gone"}]

Effect(sh, op) ==
  CASE op.kind = "Create" -> [sh EXCEPT ![op.path] = op.mode]
    [] op.kind = "Delete" -> [sh EXCEPT ![op.path] = "gone"]
    [] op.kind = "Chmod"  -> IF sh[op.path] = "gone" THEN sh ELSE [sh EXCEPT ![op.path] = op.mode]
    [] op.kind = "Rename" -> IF sh[op.from] = "gone" THEN sh
                             ELSE [sh EXCEPT ![op.from] = "gone", ![op.to] = sh[op.from]]
    [] OTHER              -> sh

BlockEffect(sh, b) == Effect(sh, b.operation)

Shape == INSTANCE Lemmas WITH combine <- BlockEffect

Operations(s) == [i \in DOMAIN s |-> s[i].operation]

LEMMA OpFacts ==
  ASSUME NEW op \in Ops
  PROVE  /\ op.kind \in {"Create", "Write", "Delete", "SetTrans", "Chmod", "Rename",
                         "RegisterNamespace"}
         /\ op.kind # "Rename" => op.path \in Paths
         /\ op.kind = "Rename" => op.from \in Paths /\ op.to \in Paths
         /\ op.kind \in {"Create", "Chmod"} => op.mode \in Kinds
<1>1. CASE op \in NS!CreateOps
  BY <1>1 DEF NS!CreateOps
<1>2. CASE op \in NS!WriteOps
  BY <1>2 DEF NS!WriteOps
<1>3. CASE op \in NS!DeleteOps
  BY <1>3 DEF NS!DeleteOps
<1>4. CASE op \in NS!SetTransOps
  BY <1>4 DEF NS!SetTransOps
<1>5. CASE op \in NS!ChmodOps
  BY <1>5 DEF NS!ChmodOps
<1>6. CASE op \in NS!RenameOps
  BY <1>6 DEF NS!RenameOps
<1>7. CASE op \in NS!RegisterOps
  BY <1>7 DEF NS!RegisterOps
<1> QED BY <1>1, <1>2, <1>3, <1>4, <1>5, <1>6, <1>7 DEF Ops, NS!SimpleOps

\* An operation changes the shape on its own paths only, by what is on them.
LEMMA EffectFacts ==
  ASSUME NEW sh \in Shapes, NEW op \in Ops
  PROVE  /\ Effect(sh, op) \in Shapes
         /\ \A p \in Paths \ NS!simple_paths(op) : Effect(sh, op)[p] = sh[p]
         /\ \A o \in Shapes : (\A p \in NS!simple_paths(op) : o[p] = sh[p])
              => \A p \in NS!simple_paths(op) : Effect(o, op)[p] = Effect(sh, op)[p]
<1>0. /\ op.kind \in {"Create", "Write", "Delete", "SetTrans", "Chmod", "Rename",
                      "RegisterNamespace"}
      /\ op.kind # "Rename" => op.path \in Paths
      /\ op.kind = "Rename" => op.from \in Paths /\ op.to \in Paths
      /\ op.kind \in {"Create", "Chmod"} => op.mode \in Kinds
  BY OpFacts
<1>1. CASE op.kind = "Create"
  <2>1. op.path \in Paths /\ op.mode \in Kinds /\ NS!simple_paths(op) = {op.path}
        /\ \A o : Effect(o, op) = [o EXCEPT ![op.path] = op.mode]
    BY <1>0, <1>1 DEF Effect, NS!simple_paths
  <2> QED BY <2>1 DEF Shapes
<1>2. CASE op.kind = "Delete"
  <2>1. op.path \in Paths /\ NS!simple_paths(op) = {op.path}
        /\ \A o : Effect(o, op) = [o EXCEPT ![op.path] = "gone"]
    BY <1>0, <1>2 DEF Effect, NS!simple_paths
  <2> QED BY <2>1 DEF Shapes
<1>3. CASE op.kind = "Chmod"
  <2>1. op.path \in Paths /\ op.mode \in Kinds /\ NS!simple_paths(op) = {op.path}
        /\ \A o : Effect(o, op) = IF o[op.path] = "gone" THEN o ELSE [o EXCEPT ![op.path] = op.mode]
    BY <1>0, <1>3 DEF Effect, NS!simple_paths
  <2> QED BY <2>1 DEF Shapes
<1>4. CASE op.kind = "Rename"
  <2>1. op.from \in Paths /\ op.to \in Paths /\ NS!simple_paths(op) = {op.from, op.to}
        /\ \A o : Effect(o, op) = IF o[op.from] = "gone" THEN o
                                  ELSE [o EXCEPT ![op.from] = "gone", ![op.to] = o[op.from]]
    BY <1>0, <1>4 DEF Effect, NS!simple_paths
  <2> QED BY <2>1 DEF Shapes
<1>5. CASE op.kind \in {"Write", "SetTrans", "RegisterNamespace"}
  <2>1. \A o : Effect(o, op) = o
    BY <1>5 DEF Effect
  <2> QED BY <2>1
<1> QED BY <1>0, <1>1, <1>2, <1>3, <1>4, <1>5

LEMMA EffectsCommute ==
  ASSUME NEW sh \in Shapes, NEW a \in Ops, NEW b \in Ops, Interchangeable(a, b)
  PROVE  Effect(Effect(sh, a), b) = Effect(Effect(sh, b), a)
<1>1. CASE "Write" \in {a.kind, b.kind}
  BY <1>1 DEF Effect
<1>2. CASE ~ NS!conflicts_with(a, b)
  <2> DEFINE A == Effect(sh, a)
             B == Effect(sh, b)
             AB == Effect(A, b)
             BA == Effect(B, a)
             P == NS!simple_paths(a)
             Q == NS!simple_paths(b)
  <2>1. P \cap Q = {}
    <3>1. a.kind # "Batch" /\ b.kind # "Batch"
      BY OpFacts
    <3> QED BY <1>2, <3>1 DEF NS!conflicts_with, NS!affected_paths
  <2>2. P \subseteq Paths /\ Q \subseteq Paths
    BY OpFacts DEF NS!simple_paths
  <2>3. A \in Shapes /\ B \in Shapes
    BY EffectFacts
  <2>4. AB \in Shapes /\ BA \in Shapes
    <3> HIDE DEF A, B
    <3> QED BY <2>3, EffectFacts
  <2>5. /\ \A p \in Paths \ P : A[p] = sh[p]
        /\ \A p \in Paths \ Q : B[p] = sh[p]
    BY EffectFacts
  <2>6. /\ \A p \in Paths \ Q : AB[p] = A[p]
        /\ \A p \in Paths \ P : BA[p] = B[p]
    <3> HIDE DEF A, B
    <3> QED BY <2>3, EffectFacts
  <2>7. \A p \in P : BA[p] = A[p]
    <3>1. \A p \in P : B[p] = sh[p]
      BY <2>1, <2>2, <2>5
    <3> HIDE DEF B
    <3> QED BY <2>3, <3>1, EffectFacts
  <2>8. \A p \in Q : AB[p] = B[p]
    <3>1. \A p \in Q : A[p] = sh[p]
      BY <2>1, <2>2, <2>5
    <3> HIDE DEF A
    <3> QED BY <2>3, <3>1, EffectFacts
  <2> HIDE DEF A, B, AB, BA, P, Q
  <2>9. \A p \in Paths : AB[p] = BA[p]
    BY <2>1, <2>2, <2>5, <2>6, <2>7, <2>8
  <2>10. AB = BA
    BY <2>4, <2>9 DEF Shapes
  <2> QED BY <2>10 DEF A, B, AB, BA
<1> QED BY <1>1, <1>2 DEF Interchangeable

\* An operation that is replayed has its effect on the shape.
LEMMA EffectOfOp ==
  ASSUME NEW ns \in [Paths -> NS!FileStates \cup {Absent}], NEW op \in Ops
  PROVE  /\ NS!apply_operation_to_state(ns, op) \in [Paths -> NS!FileStates \cup {Absent}]
         /\ ShapeOf(NS!apply_operation_to_state(ns, op)) = Effect(ShapeOf(ns), op)
<1> DEFINE F == NS!FileStates \cup {Absent}
           next == NS!apply_operation_to_state(ns, op)
<1>0. /\ op.kind \in {"Create", "Write", "Delete", "SetTrans", "Chmod", "Rename",
                      "RegisterNamespace"}
      /\ op.kind # "Rename" => op.path \in Paths
      /\ op.kind = "Rename" => op.from \in Paths /\ op.to \in Paths
      /\ op.kind \in {"Create", "Chmod"} => op.mode \in Kinds
  BY OpFacts
<1>1. /\ \A f \in NS!FileStates : f # Absent /\ f.mode \in Kinds
      /\ "gone" \notin Kinds
  BY NoFileAssumption DEF NS!FileStates, Kinds
<1>2. /\ \A p \in Paths : ns[p] \in F
      /\ ShapeOf(ns) \in Shapes
      /\ \A p \in Paths : ShapeOf(ns)[p] = IF ns[p] = Absent THEN "gone" ELSE ns[p].mode
  BY <1>1 DEF ShapeOf, Shapes
<1>3. CASE op.kind = "Create"
  <2>1. next = [ns EXCEPT ![op.path] = NS!NewFile(op.mode)]
    BY <1>3 DEF NS!apply_operation_to_state, NS!apply_simple
  <2>2. Effect(ShapeOf(ns), op) = [ShapeOf(ns) EXCEPT ![op.path] = op.mode]
    BY <1>3 DEF Effect
  <2>3. NS!NewFile(op.mode) \in NS!FileStates /\ NS!NewFile(op.mode).mode = op.mode
    BY <1>0, <1>3, FileFacts
  <2> QED BY <1>0, <1>1, <1>2, <1>3, <2>1, <2>2, <2>3 DEF ShapeOf
<1>4. CASE op.kind = "Delete"
  <2>1. next = [ns EXCEPT ![op.path] = Absent]
    BY <1>4 DEF NS!apply_operation_to_state, NS!apply_simple
  <2>2. Effect(ShapeOf(ns), op) = [ShapeOf(ns) EXCEPT ![op.path] = "gone"]
    BY <1>4 DEF Effect
  <2> QED BY <1>0, <1>1, <1>2, <1>4, <2>1, <2>2 DEF ShapeOf
<1>5. CASE op.kind \in {"Write", "SetTrans", "Chmod"} /\ ns[op.path] = Absent
  <2>1. next = ns
    BY <1>5 DEF NS!apply_operation_to_state, NS!apply_simple, NS!OnFile
  <2>2. Effect(ShapeOf(ns), op) = ShapeOf(ns)
    BY <1>0, <1>2, <1>5 DEF Effect
  <2> QED BY <2>1, <2>2
<1>6. CASE op.kind \in {"Write", "SetTrans"} /\ ns[op.path] # Absent
  <2>1. PICK f : f \in NS!FileStates /\ f.mode = ns[op.path].mode /\ next = [ns EXCEPT ![op.path] = f]
    <3>1. CASE op.kind = "Write"
      <4> DEFINE f == [ns[op.path] EXCEPT !.size = @ + 1]
      <4>1. next = [ns EXCEPT ![op.path] = f]
        BY <1>6, <3>1 DEF NS!apply_operation_to_state, NS!apply_simple, NS!OnFile
      <4>2. ns[op.path] \in NS!FileStates
        BY <1>0, <1>2, <1>6
      <4>3. f \in NS!FileStates /\ f.mode = ns[op.path].mode
        BY <4>2, FileFacts
      <4> HIDE DEF f
      <4> QED BY <4>1, <4>3
    <3>2. CASE op.kind = "SetTrans"
      BY <3>2 DEF Ops, NS!SimpleOps, NS!SetTransOps, NS!CreateOps, NS!WriteOps, NS!DeleteOps,
                  NS!ChmodOps, NS!RenameOps, NS!RegisterOps
    <3> QED BY <1>6, <3>1, <3>2
  <2>2. Effect(ShapeOf(ns), op) = ShapeOf(ns)
    BY <1>6 DEF Effect
  <2> HIDE DEF next
  <2>3. next \in [Paths -> F] /\ \A p \in Paths : /\ next[p] = Absent <=> ns[p] = Absent
                                                  /\ ns[p] # Absent => next[p].mode = ns[p].mode
    BY <1>0, <1>1, <1>6, <2>1
  <2>4. ShapeOf(next) = ShapeOf(ns)
    BY <2>3 DEF ShapeOf
  <2> QED BY <2>2, <2>3, <2>4 DEF next
<1>7. CASE op.kind = "Chmod" /\ ns[op.path] # Absent
  <2> DEFINE f == [ns[op.path] EXCEPT !.mode = op.mode]
  <2>1. next = [ns EXCEPT ![op.path] = f]
    BY <1>7 DEF NS!apply_operation_to_state, NS!apply_simple, NS!OnFile
  <2>2. ns[op.path] \in NS!FileStates /\ op.mode \in Kinds
    BY <1>0, <1>2, <1>7
  <2>3. f \in NS!FileStates /\ f.mode = op.mode
    BY <2>2 DEF NS!FileStates
  <2>4. Effect(ShapeOf(ns), op) = [ShapeOf(ns) EXCEPT ![op.path] = op.mode]
    <3>1. ShapeOf(ns)[op.path] # "gone"
      BY <1>0, <1>1, <1>2, <1>7, <2>2
    <3> QED BY <1>7, <3>1 DEF Effect
  <2> HIDE DEF f
  <2> QED BY <1>0, <1>1, <1>2, <1>7, <2>1, <2>3, <2>4 DEF ShapeOf
<1>8. CASE op.kind = "Rename" /\ ns[op.from] = Absent
  <2>1. next = ns
    BY <1>8 DEF NS!apply_operation_to_state, NS!apply_simple, NS!MoveFile
  <2>2. Effect(ShapeOf(ns), op) = ShapeOf(ns)
    BY <1>0, <1>2, <1>8 DEF Effect
  <2> QED BY <2>1, <2>2
<1>9. CASE op.kind = "Rename" /\ ns[op.from] # Absent
  <2>1. next = [ns EXCEPT ![op.from] = Absent, ![op.to] = ns[op.from]]
    BY <1>9 DEF NS!apply_operation_to_state, NS!apply_simple, NS!MoveFile
  <2>2. op.from \in Paths /\ op.to \in Paths /\ ns[op.from] \in NS!FileStates
    BY <1>0, <1>2, <1>9
  <2>3. Effect(ShapeOf(ns), op)
          = [ShapeOf(ns) EXCEPT ![op.from] = "gone", ![op.to] = ns[op.from].mode]
    <3>1. ShapeOf(ns)[op.from] = ns[op.from].mode /\ ns[op.from].mode # "gone"
      BY <1>1, <1>2, <1>9, <2>2
    <3> QED BY <1>9, <3>1 DEF Effect
  <2>4. next \in [Paths -> F]
    BY <2>1, <2>2
  <2>5. \A p \in Paths : ShapeOf(next)[p] = Effect(ShapeOf(ns), op)[p]
    <3> TAKE p \in Paths
    <3>1. ShapeOf(next)[p] = IF next[p] = Absent THEN "gone" ELSE next[p].mode
      BY DEF ShapeOf
    <3> HIDE DEF next
    <3>2. CASE p = op.to
      <4>1. next[p] = ns[op.from] /\ Effect(ShapeOf(ns), op)[p] = ns[op.from].mode
        BY <1>2, <2>1, <2>2, <2>3, <3>2 DEF Shapes
      <4> QED BY <1>9, <3>1, <4>1
    <3>3. CASE p # op.to /\ p = op.from
      <4>1. next[p] = Absent /\ Effect(ShapeOf(ns), op)[p] = "gone"
        BY <1>2, <2>1, <2>2, <2>3, <3>3 DEF Shapes
      <4> QED BY <3>1, <4>1
    <3>4. CASE p # op.to /\ p # op.from
      <4>1. next[p] = ns[p] /\ Effect(ShapeOf(ns), op)[p] = ShapeOf(ns)[p]
        BY <1>2, <2>1, <2>2, <2>3, <3>4 DEF Shapes
      <4> QED BY <1>2, <3>1, <4>1
    <3> QED BY <3>2, <3>3, <3>4
  <2>6. ShapeOf(next) = Effect(ShapeOf(ns), op)
    <3>1. Effect(ShapeOf(ns), op) \in [Paths -> Kinds \cup {"gone"}]
      BY <1>2, EffectFacts DEF Shapes
    <3>2. ShapeOf(next) = [p \in Paths |-> ShapeOf(next)[p]]
      BY DEF ShapeOf
    <3> HIDE DEF next
    <3> QED BY <2>5, <3>1, <3>2
  <2> QED BY <2>4, <2>6
<1>10. CASE op.kind = "RegisterNamespace"
  <2>1. next = ns /\ Effect(ShapeOf(ns), op) = ShapeOf(ns)
    BY <1>10 DEF NS!apply_operation_to_state, NS!apply_simple, Effect
  <2> QED BY <2>1
<1> QED BY <1>0, <1>3, <1>4, <1>5, <1>6, <1>7, <1>8, <1>9, <1>10

\* The operations of blocks, in order.
LEMMA OperationsFacts ==
  /\ Operations(<<>>) = <<>>
  /\ \A s \in Seq(Blocks) : Operations(s) \in Seq(Ops)
  /\ \A s \in Seq(Blocks), b \in Blocks :
       Operations(Append(s, b)) = Append(Operations(s), b.operation)
<1>1. Operations(<<>>) = <<>>
  BY DEF Operations
<1>2. \A b \in Blocks : b.operation \in Ops
  BY DEF Blocks, Ops
<1>3. ASSUME NEW s \in Seq(Blocks)
      PROVE  Operations(s) \in Seq(Ops) /\ Len(Operations(s)) = Len(s)
             /\ \A i \in 1..Len(s) : Operations(s)[i] = s[i].operation
  <2> DEFINE n == Len(s)
  <2>1. n \in Nat /\ DOMAIN s = 1..n /\ \A i \in 1..n : s[i] \in Blocks
    BY LenProperties, ElementOfSeq
  <2> HIDE DEF n
  <2>2. Operations(s) = [i \in 1..n |-> s[i].operation]
    BY <2>1 DEF Operations
  <2>3. Operations(s) \in [1..n -> Ops]
    BY <1>2, <2>1, <2>2
  <2>4. Operations(s) \in Seq(Ops)
    BY <2>1, <2>3, SeqDef
  <2>5. Len(Operations(s)) = n
    BY <2>1, <2>3, <2>4, LenProperties
  <2> QED BY <2>2, <2>4, <2>5 DEF n
<1>4. ASSUME NEW s \in Seq(Blocks), NEW b \in Blocks
      PROVE  Operations(Append(s, b)) = Append(Operations(s), b.operation)
  <2> DEFINE n == Len(s)
             u == Append(s, b)
             v == Operations(u)
             w == Append(Operations(s), b.operation)
  <2>1. /\ u \in Seq(Blocks) /\ Len(u) = n + 1 /\ u[n + 1] = b /\ n \in Nat
        /\ \A i \in 1..n : u[i] = s[i]
    BY AppendProperties, LenProperties
  <2>2. v \in Seq(Ops) /\ Len(v) = n + 1 /\ \A i \in 1..(n + 1) : v[i] = u[i].operation
    <3> HIDE DEF u, n
    <3> QED BY <1>3, <2>1
  <2>3. /\ w \in Seq(Ops) /\ Len(w) = n + 1 /\ w[n + 1] = b.operation
        /\ \A i \in 1..n : w[i] = s[i].operation
    BY <1>2, <1>3, AppendProperties
  <2> HIDE DEF n, u, v, w
  <2>4. \A i \in 1..(n + 1) : v[i] = w[i]
    <3>1. \A i \in 1..(n + 1) : i \in 1..n \/ i = n + 1
      BY <2>1
    <3>2. n + 1 \in 1..(n + 1) /\ \A i \in 1..n : i \in 1..(n + 1)
      BY <2>1
    <3> QED BY <2>1, <2>2, <2>3, <3>1, <3>2
  <2>5. v = w
    BY <2>2, <2>3, <2>4, SeqEqual
  <2> QED BY <2>5 DEF v, w, u
<1> QED BY <1>1, <1>3, <1>4

\* The shape of a replay is made by the effects of the blocks.
LEMMA ShapeOfReplay ==
  ASSUME NEW ns \in [Paths -> NS!FileStates \cup {Absent}], NEW s \in Seq(Blocks)
  PROVE  /\ Log!Fold(ns, Operations(s)) \in [Paths -> NS!FileStates \cup {Absent}]
         /\ ShapeOf(Log!Fold(ns, Operations(s))) = Shape!Fold(ShapeOf(ns), s)
<1> DEFINE P == {u \in Seq(Blocks) :
             /\ Log!Fold(ns, Operations(u)) \in [Paths -> NS!FileStates \cup {Absent}]
             /\ ShapeOf(Log!Fold(ns, Operations(u))) = Shape!Fold(ShapeOf(ns), u)}
<1>1. <<>> \in P
  BY OperationsFacts, Log!FoldEmpty, Shape!FoldEmpty
<1>2. ASSUME NEW u \in Seq(Blocks), NEW b \in Blocks, u \in P PROVE Append(u, b) \in P
  <2>0. b.operation \in Ops /\ Operations(u) \in Seq(Ops)
    BY OperationsFacts DEF Blocks, Ops
  <2>1. Operations(Append(u, b)) = Append(Operations(u), b.operation)
    BY OperationsFacts
  <2>2. Log!Fold(ns, Append(Operations(u), b.operation))
          = NS!apply_operation_to_state(Log!Fold(ns, Operations(u)), b.operation)
    BY <2>0, Log!FoldAppend
  <2>3. Shape!Fold(ShapeOf(ns), Append(u, b))
          = Effect(Shape!Fold(ShapeOf(ns), u), b.operation)
    BY Shape!FoldAppend DEF BlockEffect
  <2>4. /\ Log!Fold(ns, Operations(u)) \in [Paths -> NS!FileStates \cup {Absent}]
        /\ ShapeOf(Log!Fold(ns, Operations(u))) = Shape!Fold(ShapeOf(ns), u)
    BY <1>2
  <2>5. PICK m \in [Paths -> NS!FileStates \cup {Absent}] : m = Log!Fold(ns, Operations(u))
    BY <2>4
  <2>6. /\ NS!apply_operation_to_state(m, b.operation) \in [Paths -> NS!FileStates \cup {Absent}]
        /\ ShapeOf(NS!apply_operation_to_state(m, b.operation)) = Effect(ShapeOf(m), b.operation)
    BY <2>0, EffectOfOp
  <2>7. Append(u, b) \in Seq(Blocks)
    BY AppendProperties
  <2> QED BY <2>1, <2>2, <2>3, <2>4, <2>5, <2>6, <2>7
<1>3. Seq(Blocks) \subseteq P
  <2> HIDE DEF P
  <2> QED BY <1>1, <1>2, SequenceInduction
<1> QED BY <1>3

\* An order of blocks has each of them, once, and by their times.
LEMMA OrderFacts ==
  ASSUME NEW B, B \subseteq Blocks, IsFiniteSet(B), NEW s \in Orders(B)
  PROVE  /\ s \in Seq(B) /\ s \in Seq(Blocks) /\ Len(s) = Cardinality(B) /\ Range(s) = B
         /\ \A i, j \in 1..Len(s) : s[i] = s[j] => i = j
         /\ \A i, j \in 1..Len(s) : i < j => s[i].timestamp <= s[j].timestamp
<1> DEFINE n == Cardinality(B)
<1>1. n \in Nat
  BY FS_CardinalityType
<1>2. /\ s \in [1..n -> B] /\ \A i, j \in 1..n : i # j => s[i] # s[j]
      /\ \A i, j \in DOMAIN s : i < j => s[i].timestamp <= s[j].timestamp
  BY DEF Orders, SetToSeqs
<1> HIDE DEF n
<1>3. s \in Seq(B) /\ s \in Seq(Blocks)
  <2>1. s \in [1..n -> Blocks]
    BY <1>2
  <2> QED BY <1>1, <1>2, <2>1, SeqDef
<1>4. Len(s) = n
  BY <1>1, <1>2, <1>3, LenProperties
<1>5. Range(s) = B
  <2>1. s \in Injection(1..n, B)
    BY <1>2 DEF Injection, IsInjective
  <2>2. Cardinality(1..n) = Cardinality(B)
    <3>1. Cardinality(1..n) = IF 1 > n THEN 0 ELSE n - 1 + 1
      BY <1>1, FS_Interval
    <3>2. Cardinality(1..n) = n
      BY <1>1, <3>1
    <3> QED BY <3>2 DEF n
  <2>3. s \in Surjection(1..n, B)
    BY <2>1, <2>2, FS_Injection
  <2> QED BY <1>2, <2>3 DEF Surjection, Range
<1> QED BY <1>2, <1>3, <1>4, <1>5 DEF n

\* The order of no blocks.
LEMMA NoOrder == <<>> \in Orders({})
<1>1. Cardinality({}) = 0 /\ 1..0 = {}
  BY FS_EmptySet
<1> QED BY <1>1 DEF Orders, SetToSeqs

\* A block that is not older than the others may come last.
LEMMA OrderMore ==
  ASSUME NEW B, B \subseteq Blocks, IsFiniteSet(B), NEW s \in Orders(B),
         NEW b \in Blocks \ B, \A x \in B : x.timestamp <= b.timestamp
  PROVE  Append(s, b) \in Orders(B \cup {b})
<1> DEFINE n == Cardinality(B)
           u == Append(s, b)
           C == B \cup {b}
<1>1. /\ s \in Seq(Blocks) /\ s \in Seq(B) /\ Len(s) = n
      /\ \A i, j \in 1..n : s[i] = s[j] => i = j
      /\ \A i, j \in 1..n : i < j => s[i].timestamp <= s[j].timestamp
  BY OrderFacts
<1>2. \A i \in 1..n : s[i] \in B
  BY <1>1, ElementOfSeq
<1>3. n \in Nat /\ Cardinality(C) = n + 1
  BY FS_CardinalityType, FS_AddElement
<1>4. /\ u \in Seq(Blocks) /\ Len(u) = n + 1 /\ u[n + 1] = b
      /\ \A i \in 1..n : u[i] = s[i]
  BY <1>1, AppendProperties
<1>5. DOMAIN u = 1..(n + 1)
  BY <1>4, LenProperties
<1> HIDE DEF n, u
<1>6. \A i \in 1..(n + 1) : i \in 1..n \/ i = n + 1
  BY <1>3
<1>7. \A i \in 1..(n + 1) : u[i] \in C
  BY <1>2, <1>4, <1>6
<1>8. u \in [1..(n + 1) -> C]
  <2>1. u = [i \in 1..(n + 1) |-> u[i]]
    BY <1>4, LenProperties
  <2> QED BY <1>7, <2>1
<1>9. \A i, j \in 1..(n + 1) : i # j => u[i] # u[j]
  BY <1>1, <1>2, <1>4, <1>6
<1>10. \A i, j \in 1..(n + 1) : i < j => u[i].timestamp <= u[j].timestamp
  <2>1. \A j \in 1..(n + 1) : ~ (n + 1 < j)
    BY <1>3
  <2> QED BY <1>1, <1>2, <1>4, <1>6, <2>1
<1> HIDE DEF C
<1>11. u \in SetToSeqs(C)
  BY <1>3, <1>8, <1>9 DEF SetToSeqs
<1> QED BY <1>5, <1>10, <1>11 DEF Orders, u, C

\* All orders that the times allow replay to the same files.
LEMMA OrdersReplay ==
  ASSUME NEW B, B \subseteq Blocks, IsFiniteSet(B),
         \A a, b \in B : a # b /\ a.timestamp = b.timestamp
                           => Interchangeable(a.operation, b.operation),
         NEW s \in Orders(B), NEW t \in Orders(B),
         NEW files, Agrees(Namespace(files), files) 
  PROVE  \A next : Agrees(Log!Fold(Namespace(files), Operations(s)), next)
                     => Agrees(Log!Fold(Namespace(files), Operations(t)), next)
<1> DEFINE ns == Namespace(files)
           K == [b \in B |-> b.timestamp]
<1>1. /\ s \in Seq(B) /\ s \in Seq(Blocks) /\ Range(s) = B
      /\ \A i, j \in 1..Len(s) : s[i] = s[j] => i = j
      /\ \A i, j \in 1..Len(s) : i < j => s[i].timestamp <= s[j].timestamp
  BY OrderFacts
<1>2. /\ t \in Seq(B) /\ t \in Seq(Blocks) /\ Range(t) = B
      /\ \A i, j \in 1..Len(t) : t[i] = t[j] => i = j
      /\ \A i, j \in 1..Len(t) : i < j => t[i].timestamp <= t[j].timestamp
  BY OrderFacts
<1>3. \A b \in B : b.operation \in Ops /\ b.timestamp \in Int
  BY BoundsAssumption DEF Blocks, Ops, Times
<1>4. K \in [B -> Int] /\ \A b \in B : K[b] = b.timestamp
  BY <1>3
<1> HIDE DEF K
<1>5. Shape!InOrder(s, K) /\ Shape!InOrder(t, K)
  <2>1. /\ \A i \in 1..Len(s) : s[i] \in B
        /\ \A i \in 1..Len(t) : t[i] \in B
    BY <1>1, <1>2, ElementOfSeq
  <2> QED BY <1>1, <1>2, <1>4, <2>1 DEF Shape!InOrder
<1>6. ns \in [Paths -> NS!FileStates \cup {Absent}]
  BY DEF Agrees
<1> HIDE DEF ns
<1>7. ShapeOf(ns) \in Shapes
  BY <1>6, NoFileAssumption DEF ShapeOf, Shapes, NS!FileStates
<1>8. Shape!StaysIn(B, Shapes)
  BY <1>3, EffectFacts DEF BlockEffect, Shape!StaysIn
<1>9. Shape!SameKeyCommutes(B, K, Shapes)
  <2> SUFFICES ASSUME NEW d \in B, NEW e \in B, NEW x \in Shapes, d # e, K[d] = K[e]
               PROVE  BlockEffect(BlockEffect(x, d), e) = BlockEffect(BlockEffect(x, e), d)
    BY DEF Shape!SameKeyCommutes
  <2>1. Interchangeable(d.operation, e.operation)
    BY <1>4
  <2> QED BY <1>3, <2>1, EffectsCommute DEF BlockEffect
<1>10. Shape!Fold(ShapeOf(ns), s) = Shape!Fold(ShapeOf(ns), t)
  <2>1. Shape!Range(s) = Shape!Range(t)
    BY <1>1, <1>2 DEF Range, Shape!Range
  <2>2. s \in Seq(B) /\ t \in Seq(B) /\ K \in [B -> Int]
    BY <1>1, <1>2, <1>4
  <2>3. PICK sh \in Shapes : sh = ShapeOf(ns)
    BY <1>7
  <2>4. Shape!Fold(sh, s) = Shape!Fold(sh, t)
    BY <1>5, <1>8, <1>9, <2>1, <2>2, Shape!OrdersAgree, ZenonT(60)
  <2> QED BY <2>3, <2>4
<1> DEFINE m == Log!Fold(ns, Operations(s))
           n == Log!Fold(ns, Operations(t))
<1>11. /\ n \in [Paths -> NS!FileStates \cup {Absent}]
       /\ m \in [Paths -> NS!FileStates \cup {Absent}]
       /\ ShapeOf(m) = ShapeOf(n)
  BY <1>1, <1>2, <1>6, <1>10, ShapeOfReplay
<1> HIDE DEF m, n
<1>12. ASSUME NEW p \in Paths
       PROVE  (m[p] = Absent <=> n[p] = Absent) /\ (m[p] # Absent => m[p].mode = n[p].mode)
  <2>1. /\ ShapeOf(m)[p] = IF m[p] = Absent THEN "gone" ELSE m[p].mode
        /\ ShapeOf(n)[p] = IF n[p] = Absent THEN "gone" ELSE n[p].mode
    BY DEF ShapeOf
  <2>2. \A f \in NS!FileStates : f.mode \in Kinds /\ f.mode # "gone"
    BY DEF NS!FileStates, Kinds
  <2>3. m[p] \in NS!FileStates \cup {Absent} /\ n[p] \in NS!FileStates \cup {Absent}
    BY <1>11
  <2> QED BY <1>11, <2>1, <2>2, <2>3
<1>13. ASSUME NEW next, Agrees(m, next) PROVE Agrees(n, next)
  BY <1>11, <1>12, <1>13 DEF Agrees
<1> QED BY <1>13 DEF m, n, ns

-----------------------------------------------------------------------------------
(***********************************************************************************)
(* What a connection has done, and what its steps add to that.                     *)
(***********************************************************************************)
\* The operation that a request under way has done.
OpOf(r) ==
  IF r.kind = "Write" THEN Write(r.path)
  ELSE IF r.kind = "Remove" THEN Delete(r.path) ELSE Rename(r.path, r.to)

LogsOf(B) == {Operations(s) : s \in Orders(B)}

LEMMA LogsAre ==
  ASSUME NEW c
  PROVE  Logs(c) = LogsOf(dag[c])
BY DEF Logs, LogsOf, Operations

\* The operations c has done on the tree, in an order its times allow: what it logged,
\* without a create it has still to do, and with the operation it has still to log.
Done(c, log) ==
  \/ request[c] = Nobody /\ log \in LogsOf(dag[c])
  \/ /\ request[c] # Nobody /\ request[c].kind = "Create"
     /\ Append(log, Create(request[c].path, request[c].mode)) \in LogsOf(dag[c])
  \/ /\ request[c] # Nobody /\ request[c].kind # "Create"
     /\ \E l \in LogsOf(dag[c]) : log = Append(l, OpOf(request[c]))

Fresh(c) == request[c] = Nobody /\ dag[c] = {}

OthersWait(c) == \A d \in Connections \ {c} : dag'[d] = dag[d] /\ request'[d] = request[d]

\* Nothing is done on the tree.
Quiet(c) ==
  /\ UNCHANGED tree
  /\ OthersWait(c)
  /\ blurred'[c] \subseteq {"another_connection"}
       => \A log \in Seq(Ops) : Done(c, log) => Done(c, log)'
  /\ blurred'[c] \in {blurred[c], blurred[c] \cup {"overwritten"}}
  /\ \A d \in Connections \ {c} : blurred'[d] = blurred[d]
  /\ Fresh(c)' => Fresh(c)

\* One operation is done, and accounts for the change of the tree, or c is marked.
Does(c) ==
  /\ UNCHANGED origin
  /\ OthersWait(c)
  /\ \E op \in Ops :
       /\ \A log \in Seq(Ops) : Done(c, log) => Done(c, Append(log, op))'
       /\ \A ns : blurred'[c] \subseteq {"another_connection"} /\ Agrees(ns, fs)
                    => Agrees(NS!apply_operation_to_state(ns, op), fs')
  /\ blurred[c] \subseteq blurred'[c]
  /\ "another_connection" \in blurred'[c] => "another_connection" \in blurred[c]
  /\ \A d \in Connections \ {c} : /\ blurred[d] \subseteq blurred'[d]
                                  /\ fs' # fs => "another_connection" \in blurred'[d]
  /\ ~ Fresh(c)'

LEMMA OthersUntouched ==
  ASSUME Types, NEW c \in Connections, NEW l, dag' = [dag EXCEPT ![c] = l],
         NEW r, request' = [request EXCEPT ![c] = r]
  PROVE  /\ OthersWait(c) /\ dag'[c] = l /\ request'[c] = r
         /\ dag \in [Connections -> SUBSET Blocks]
         /\ request \in [Connections -> Requests \cup {Nobody}]
BY DEF Types, OthersWait

LEMMA BlurredFacts ==
  ASSUME Types, NEW c \in Connections, NEW next, NEW why, ChangeTree(c, next, why),
         "another_connection" \notin why
  PROVE  /\ fs' = next /\ origin' = origin
         /\ blurred'[c] = blurred[c] \cup why
         /\ "another_connection" \in blurred'[c] => "another_connection" \in blurred[c]
         /\ \A d \in Connections \ {c} : /\ blurred[d] \subseteq blurred'[d]
                                         /\ fs' # fs => "another_connection" \in blurred'[d]
BY DEF ChangeTree

\* A message that is answered without a change of the tree.
LEMMA QuietMessage ==
  ASSUME Types, NEW c \in Connections, request[c] = Nobody, Reply(c), dag' = dag, UNCHANGED served
  PROVE  Quiet(c)
<1>1. dag' = [dag EXCEPT ![c] = dag[c]] /\ request' = [request EXCEPT ![c] = Nobody]
  BY Unchanged DEF Reply
<1>2. OthersWait(c) /\ dag'[c] = dag[c] /\ request'[c] = Nobody
  BY <1>1, OthersUntouched
<1>3. \A log : Done(c, log) => Done(c, log)'
  BY <1>2 DEF Done
<1>4. Fresh(c)' => Fresh(c)
  BY <1>2 DEF Fresh
<1> QED BY <1>2, <1>3, <1>4 DEF Quiet, served

\* What is logged comes last in some order that the times allow, unless that is noted.
LEMMA LoggedMore ==
  ASSUME Types, NEW c \in Connections, NEW id \in Ids, NEW op \in Ops, Logged(c, id, op)
  PROVE  /\ \E l \in SUBSET Blocks : l # {} /\ dag' = [dag EXCEPT ![c] = l]
         /\ blurred'[c] \in {blurred[c], blurred[c] \cup {"overwritten"}}
         /\ \A d \in Connections \ {c} : blurred'[d] = blurred[d]
         /\ blurred'[c] \subseteq {"another_connection"}
              => \A log \in LogsOf(dag[c]) : Append(log, op) \in LogsOf(dag'[c])
<1>1. PICK l \in SUBSET Blocks, b \in Blocks :
           /\ dag' = [dag EXCEPT ![c] = l]
           /\ b \in l /\ \A x \in l : x \in dag[c] \/ x = b
           /\ b.timestamp = now /\ b.operation = op
           /\ "overwritten" \notin blurred'[c] => b \notin dag[c] /\ l = dag[c] \cup {b}
           /\ IsFiniteSet(l) /\ Cardinality(l) <= Cardinality(dag[c]) + 1
           /\ blurred' \in [Connections -> SUBSET Reasons]
           /\ blurred'[c] \in {blurred[c], blurred[c] \cup {"overwritten"}}
           /\ \A d \in Connections \ {c} : blurred'[d] = blurred[d]
  BY LoggedFacts
<1>2. dag'[c] = l /\ dag[c] \subseteq Blocks /\ IsFiniteSet(dag[c])
  BY <1>1, Unchanged DEF Types
<1>3. ASSUME blurred'[c] \subseteq {"another_connection"}, NEW log \in LogsOf(dag[c])
      PROVE  Append(log, op) \in LogsOf(l)
  <2>1. b \in Blocks \ dag[c] /\ l = dag[c] \cup {b}
    BY <1>1, <1>3
  <2>2. \A x \in dag[c] : x.timestamp <= b.timestamp
    BY <1>1, <1>3 DEF Types, Past
  <2>3. PICK s \in Orders(dag[c]) : log = Operations(s)
    BY DEF LogsOf
  <2>4. s \in Seq(Blocks)
    BY <1>2, OrderFacts
  <2>5. Append(s, b) \in Orders(l)
    BY <1>2, <2>1, <2>2, OrderMore
  <2>6. Operations(Append(s, b)) = Append(log, op)
    BY <1>1, <2>3, <2>4, OperationsFacts
  <2> QED BY <2>5, <2>6 DEF LogsOf
<1> QED BY <1>1, <1>2, <1>3

\* The logs of a connection are of operations; before it logged there is one.
LEMMA LogsTyped ==
  ASSUME Types, NEW c \in Connections
  PROVE  LogsOf(dag[c]) \subseteq Seq(Ops)
<1>1. \A s \in Orders(dag[c]) : s \in Seq(Blocks)
  BY OrderFacts DEF Types
<1> QED BY <1>1, OperationsFacts DEF LogsOf

LEMMA NoLog == <<>> \in LogsOf({}) /\ <<>> \in Seq(Ops)
BY NoOrder, OperationsFacts DEF LogsOf

\* A message that changes the tree and still has to log what it did.
LEMMA DoesMessage ==
  ASSUME Types, NEW c \in Connections, request[c] = Nobody, dag' = dag,
         NEW r \in Requests, r.kind # "Create", Begin(c, r), OpOf(r) \in Ops,
         NEW next, NEW why, ChangeTree(c, next, why), "another_connection" \notin why,
         \A ns : why = {} /\ Agrees(ns, fs)
                   => Agrees(NS!apply_operation_to_state(ns, OpOf(r)), next),
         why # {} => \E x \in why : x # "another_connection"
  PROVE  Does(c)
<1>1. dag' = [dag EXCEPT ![c] = dag[c]] /\ request' = [request EXCEPT ![c] = r]
  BY Unchanged DEF Begin
<1>2. OthersWait(c) /\ dag'[c] = dag[c] /\ request'[c] = r
  BY <1>1, OthersUntouched
<1>3. /\ fs' = next /\ origin' = origin
      /\ blurred'[c] = blurred[c] \cup why
      /\ "another_connection" \in blurred'[c] => "another_connection" \in blurred[c]
      /\ \A d \in Connections \ {c} : /\ blurred[d] \subseteq blurred'[d]
                                      /\ fs' # fs => "another_connection" \in blurred'[d]
  BY BlurredFacts
<1>4. r # Nobody /\ r.kind \in {"Write", "Remove", "Wstat"}
  BY NobodyAssumption, MessageFacts
<1>5. ASSUME NEW log \in Seq(Ops), Done(c, log) PROVE Done(c, Append(log, OpOf(r)))'
  <2>1. log \in LogsOf(dag'[c])
    BY <1>2, <1>5 DEF Done
  <2>2. r.kind # "Create" /\ \E l \in LogsOf(dag'[c]) : Append(log, OpOf(r)) = Append(l, OpOf(r))
    BY <1>4, <2>1
  <2> QED BY <1>2, <1>4, <2>2 DEF Done
<1>6. ASSUME NEW ns, blurred'[c] \subseteq {"another_connection"}, Agrees(ns, fs)
      PROVE  Agrees(NS!apply_operation_to_state(ns, OpOf(r)), fs')
  BY <1>3, <1>6
<1>7. ~ Fresh(c)'
  BY <1>2, <1>4 DEF Fresh
<1>8. blurred[c] \subseteq blurred'[c]
  BY <1>3
<1> QED BY <1>2, <1>3, <1>5, <1>6, <1>7, <1>8 DEF Does

\* A message does nothing to the tree, or does one operation ...
LEMMA MessageSteps ==
  ASSUME Types, NEW c \in Connections, NEW fid \in Fids, Message(c, fid)
  PROVE  Quiet(c) \/ Does(c)
<1> DEFINE p == fids[c][fid]
<1>0. IsTree(fs) /\ fids[c] \in Tables /\ \A f \in DOMAIN fids[c] : fids[c][f] \in Paths
  BY Unchanged, TableFacts
<1>1. CASE handle_attach(c, fid)
  BY <1>1, QuietMessage DEF handle_attach
<1>2. ASSUME NEW newfid \in Fids, NEW names \in Paths, handle_walk(c, fid, newfid, names)
      PROVE  Quiet(c)
  BY <1>2, QuietMessage DEF handle_walk, Receives
<1>3. ASSUME NEW name \in Names, NEW kind \in Kinds, handle_create(c, fid, name, kind)
      PROVE  Quiet(c)
  <2> DEFINE q == Append(p, name)
             r == [kind |-> "Create", fid |-> fid, path |-> q, mode |-> kind]
  <2>1. /\ q \in Paths /\ Logged(c, Uuid(c), Create(q, kind))
        /\ request' = [request EXCEPT ![c] = r] /\ request[c] = Nobody /\ UNCHANGED tree
    BY <1>3 DEF handle_create, Receives, Begin, Create
  <2>2. /\ r \in Requests /\ r.kind = "Create" /\ r.path = q /\ r.mode = kind
        /\ Create(q, kind) \in Ops /\ Uuid(c) \in Ids
    <3> HIDE DEF q
    <3> QED BY <2>1, MessagesTyped, OpsTyped, IdsTyped
  <2> HIDE DEF q, r
  <2>3. /\ \E l \in SUBSET Blocks : l # {} /\ dag' = [dag EXCEPT ![c] = l]
        /\ blurred'[c] \in {blurred[c], blurred[c] \cup {"overwritten"}}
        /\ \A d \in Connections \ {c} : blurred'[d] = blurred[d]
        /\ blurred'[c] \subseteq {"another_connection"}
             => \A log \in LogsOf(dag[c]) : Append(log, Create(q, kind)) \in LogsOf(dag'[c])
    BY <2>1, <2>2, LoggedMore
  <2>4. OthersWait(c) /\ dag'[c] # {} /\ request'[c] = r /\ r # Nobody
    BY <2>1, <2>2, <2>3, OthersUntouched, NobodyAssumption
  <2>5. ASSUME blurred'[c] \subseteq {"another_connection"}, NEW log \in Seq(Ops), Done(c, log)
        PROVE  Done(c, log)'
    <3>1. log \in LogsOf(dag[c])
      BY <2>1, <2>5 DEF Done
    <3>2. Append(log, Create(q, kind)) \in LogsOf(dag'[c])
      BY <2>3, <2>5, <3>1
    <3> QED BY <2>2, <2>4, <3>2 DEF Done
  <2>6. ~ Fresh(c)'
    BY <2>4 DEF Fresh
  <2> QED BY <2>1, <2>3, <2>4, <2>5, <2>6 DEF Quiet
<1>4. CASE handle_write(c, fid)
  <2>0. request[c] = Nobody /\ dag' = dag /\ p \in Paths
    BY <1>0, <1>4 DEF handle_write, Receives
  <2>1. CASE Reply(c) /\ UNCHANGED served
    BY <2>0, <2>1, QuietMessage
  <2>2. CASE ~ (Reply(c) /\ UNCHANGED served)
    <3> DEFINE why == IF p \in DOMAIN fs THEN {} ELSE {"created_by_write"}
               r == [kind |-> "Write", fid |-> fid, path |-> p]
    <3>1. ~ IsDir(p) /\ ChangeTree(c, Put(fs, p, "file"), why) /\ Begin(c, r)
      BY <1>4, <2>2 DEF handle_write
    <3>2. r \in Requests /\ r.kind # "Create" /\ OpOf(r) = Write(p) /\ OpOf(r) \in Ops
      <4>1. r \in Requests /\ Write(p) \in Ops
        <5> HIDE DEF p
        <5> QED BY <2>0, MessagesTyped, OpsTyped DEF Kinds
      <4> QED BY <4>1 DEF OpOf
    <3>3. ASSUME NEW ns, why = {}, Agrees(ns, fs)
          PROVE  Agrees(NS!apply_operation_to_state(ns, Write(p)), Put(fs, p, "file"))
      <4>1. p \in DOMAIN fs
        BY <3>3
      <4>2. Put(fs, p, "file") = fs
        <5>1. fs[p] = "file" /\ fs = [x \in DOMAIN fs |-> fs[x]]
          BY <1>0, <3>1, <4>1 DEF IsDir, IsTree, Kinds
        <5>2. DOMAIN fs \cup {p} = DOMAIN fs
          BY <4>1
        <5> QED BY <5>1, <5>2 DEF Put
      <4> QED BY <2>0, <3>3, <4>1, <4>2, WriteAgrees
    <3>4. "another_connection" \notin why /\ (why # {} => \E x \in why : x # "another_connection")
      OBVIOUS
    <3> HIDE DEF why, r, p
    <3> QED BY <2>0, <3>1, <3>2, <3>3, <3>4, DoesMessage
  <2> QED BY <2>1, <2>2
<1>5. CASE handle_remove(c, fid)
  <2>0. request[c] = Nobody /\ dag' = dag /\ p \in Paths
    BY <1>0, <1>5 DEF handle_remove, Receives
  <2>1. CASE Reply(c) /\ UNCHANGED served
    BY <2>0, <2>1, QuietMessage
  <2>2. CASE ~ (Reply(c) /\ UNCHANGED served)
    <3> DEFINE r == [kind |-> "Remove", fid |-> fid, path |-> p]
    <3>1. ChangeTree(c, Without(fs, p), {}) /\ Begin(c, r)
      BY <1>5, <2>2 DEF handle_remove
    <3>2. r \in Requests /\ r.kind # "Create" /\ OpOf(r) = Delete(p) /\ OpOf(r) \in Ops
      <4>1. r \in Requests /\ Delete(p) \in Ops
        <5> HIDE DEF p
        <5> QED BY <2>0, MessagesTyped, OpsTyped DEF Kinds
      <4> QED BY <4>1 DEF OpOf
    <3>3. \A ns : Agrees(ns, fs)
                    => Agrees(NS!apply_operation_to_state(ns, Delete(p)), Without(fs, p))
      BY <2>0, DeleteAgrees
    <3> HIDE DEF r, p
    <3> QED BY <2>0, <3>1, <3>2, <3>3, DoesMessage
  <2> QED BY <2>1, <2>2
<1>6. ASSUME NEW name \in Names, handle_wstat(c, fid, name)
      PROVE  Quiet(c) \/ Does(c)
  <2> DEFINE q == Append(Parent(p), name)
  <2>0. request[c] = Nobody /\ dag' = dag /\ p \in Paths /\ p # Root
    BY <1>0, <1>6 DEF handle_wstat, Receives
  <2>1. CASE Reply(c) /\ UNCHANGED served
    BY <2>0, <2>1, QuietMessage
  <2>2. CASE ~ (Reply(c) /\ UNCHANGED served)
    <3> DEFINE why == IF Children(p) = {} THEN {} ELSE {"moved_directory"}
               r == [kind |-> "Wstat", fid |-> fid, path |-> p, to |-> q]
    <3>1. CanRename(p, q) /\ ChangeTree(c, Moved(p, q), why) /\ Begin(c, r)
      BY <1>6, <2>2 DEF handle_wstat
    <3>2. q \in Paths /\ q # Root /\ Len(p) = Len(q)
      <4> HIDE DEF p
      <4> QED BY <2>0, Sibling
    <3>3. r \in Requests /\ r.kind # "Create" /\ OpOf(r) = Rename(p, q) /\ OpOf(r) \in Ops
      <4>1. r \in Requests /\ Rename(p, q) \in Ops
        <5> HIDE DEF p, q
        <5> QED BY <2>0, <3>2, MessagesTyped, OpsTyped DEF Kinds
      <4> QED BY <4>1 DEF OpOf
    <3>4. ASSUME NEW ns, why = {}, Agrees(ns, fs)
          PROVE  Agrees(NS!apply_operation_to_state(ns, Rename(p, q)), Moved(p, q))
      <4>1. Children(p) = {}
        BY <3>4
      <4>2. p \in DOMAIN fs
        BY <3>1 DEF CanRename
      <4> HIDE DEF p, q
      <4>3. /\ DOMAIN Moved(p, q) = (DOMAIN fs \ {p}) \cup {q}
            /\ Moved(p, q)[q] = fs[p]
            /\ \A x \in DOMAIN fs \ {p, q} : Moved(p, q)[x] = fs[x]
        BY <1>0, <2>0, <3>1, <3>2, <4>1, MovedAlone
      <4> QED BY <2>0, <3>2, <3>4, <4>2, <4>3, RenameAgrees
    <3>5. "another_connection" \notin why /\ (why # {} => \E x \in why : x # "another_connection")
      OBVIOUS
    <3> HIDE DEF why, r, p, q
    <3> QED BY <2>0, <3>1, <3>3, <3>4, <3>5, DoesMessage
  <2> QED BY <2>1, <2>2
<1>7. CASE handle_clunk(c, fid)
  BY <1>7, QuietMessage DEF handle_clunk
<1> QED BY <1>1, <1>2, <1>3, <1>4, <1>5, <1>6, <1>7 DEF Message

\* ... and so does what its handler does after the await.
LEMMA FinishSteps ==
  ASSUME Types, NEW c \in Connections, Finish(c)
  PROVE  Quiet(c) \/ Does(c)
<1> DEFINE r == request[c]
<1>1. r # Nobody
  BY DEF Finish, CreateOnDisk, LogWrite, LogRemove, LogWstat, Handling
<1>2. r \in Requests
  BY <1>1 DEF Types
<1>3. /\ r.kind \in {"Create", "Write", "Remove", "Wstat"} /\ r.fid \in Fids /\ r.path \in Paths
      /\ r.kind = "Create" => r.mode \in Kinds
  <2> HIDE DEF r
  <2> QED BY <1>2, MessageFacts
<1>4. IsTree(fs) /\ dag = [dag EXCEPT ![c] = dag[c]] /\ dag[c] \in SUBSET Blocks
  BY Unchanged
<1>5. CASE CreateOnDisk(c)
  <2>1. r.kind = "Create" /\ dag' = dag /\ Reply(c)
    BY <1>5 DEF CreateOnDisk, Handling
  <2>2. PICK op \in Ops : op = Create(r.path, r.mode)
    <3> HIDE DEF r
    <3> QED BY <1>3, <2>1, OpsTyped
  <2>3. OthersWait(c) /\ dag'[c] = dag[c] /\ request'[c] = Nobody
    BY <1>4, <2>1, OthersUntouched DEF Reply
  <2>4. ASSUME NEW log, Done(c, log) PROVE Append(log, op) \in LogsOf(dag[c])
    BY <1>1, <2>1, <2>2, <2>4 DEF Done
  <2>5. \A log \in Seq(Ops) : Done(c, log) => Done(c, Append(log, op))'
    BY <2>3, <2>4 DEF Done
  <2>6. ~ Fresh(c)'
    <3>1. dag[c] # {}
      BY <1>1, <2>1 DEF Types, Handling
    <3> QED BY <2>3, <3>1 DEF Fresh
  <2>7. CASE ChangeTree(c, Put(fs, r.path, r.mode), {})
    <3>1. \A ns : Agrees(ns, fs)
                    => Agrees(NS!apply_operation_to_state(ns, op), Put(fs, r.path, r.mode))
      <4> HIDE DEF r
      <4> QED BY <1>3, <2>1, <2>2, CreateAgrees
    <3>2. /\ fs' = Put(fs, r.path, r.mode) /\ origin' = origin
          /\ blurred'[c] = blurred[c]
          /\ "another_connection" \in blurred'[c] => "another_connection" \in blurred[c]
          /\ \A d \in Connections \ {c} : /\ blurred[d] \subseteq blurred'[d]
                                          /\ fs' # fs => "another_connection" \in blurred'[d]
      BY <2>7, BlurredFacts
    <3>3. \A ns : Agrees(ns, fs) => Agrees(NS!apply_operation_to_state(ns, op), fs')
      BY <3>1, <3>2
    <3> HIDE DEF r
    <3> QED BY <2>2, <2>3, <2>5, <2>6, <3>2, <3>3 DEF Does
  <2>8. CASE ChangeTree(c, fs, {"failed_create"})
    <3>2. /\ fs' = fs /\ origin' = origin
          /\ blurred'[c] = blurred[c] \cup {"failed_create"}
          /\ "another_connection" \in blurred'[c] => "another_connection" \in blurred[c]
          /\ \A d \in Connections \ {c} : /\ blurred[d] \subseteq blurred'[d]
                                          /\ fs' # fs => "another_connection" \in blurred'[d]
      BY <2>8, BlurredFacts
    <3>3. ~ (blurred'[c] \subseteq {"another_connection"}) /\ blurred[c] \subseteq blurred'[c]
      BY <3>2
    <3> HIDE DEF r
    <3> QED BY <2>2, <2>3, <2>5, <2>6, <3>2, <3>3 DEF Does
  <2> QED BY <1>5, <2>7, <2>8 DEF CreateOnDisk
<1>6. ASSUME NEW id \in Ids, NEW op \in Ops, r.kind # "Create", op = OpOf(r),
             Logged(c, id, op), Reply(c), UNCHANGED tree
      PROVE  Quiet(c)
  <2>1. /\ \E l \in SUBSET Blocks : l # {} /\ dag' = [dag EXCEPT ![c] = l]
        /\ blurred'[c] \in {blurred[c], blurred[c] \cup {"overwritten"}}
        /\ \A d \in Connections \ {c} : blurred'[d] = blurred[d]
        /\ blurred'[c] \subseteq {"another_connection"}
             => \A log \in LogsOf(dag[c]) : Append(log, op) \in LogsOf(dag'[c])
    BY <1>6, LoggedMore
  <2>2. OthersWait(c) /\ dag'[c] # {} /\ request'[c] = Nobody
    BY <1>6, <2>1, OthersUntouched DEF Reply
  <2>3. \A log : Done(c, log) => \E l \in LogsOf(dag[c]) : log = Append(l, op)
    BY <1>1, <1>6 DEF Done
  <2>4. blurred'[c] \subseteq {"another_connection"}
          => \A log \in Seq(Ops) : Done(c, log) => Done(c, log)'
    BY <2>1, <2>2, <2>3 DEF Done
  <2>5. ~ Fresh(c)'
    BY <2>2 DEF Fresh
  <2> QED BY <1>6, <2>1, <2>2, <2>4, <2>5 DEF Quiet
<1>7. CASE LogWrite(c)
  <2>1. OpOf(r) = Write(r.path) /\ Write(r.path) \in Ops /\ r.kind # "Create" /\ Uuid(c) \in Ids
    BY <1>3, <1>7, OpsTyped, IdsTyped DEF Kinds, LogWrite, Handling, OpOf
  <2>2. Logged(c, Uuid(c), Write(r.path)) /\ Reply(c) /\ UNCHANGED tree
    BY <1>7 DEF LogWrite, Write
  <2> HIDE DEF r
  <2> QED BY <1>6, <2>1, <2>2
<1>8. CASE LogRemove(c)
  <2>1. /\ OpOf(r) = Delete(r.path) /\ Delete(r.path) \in Ops /\ r.kind # "Create"
        /\ DeleteId(r.path, r.fid) \in Ids
    BY <1>3, <1>8, OpsTyped, IdsTyped DEF Kinds, LogRemove, Handling, OpOf
  <2>2. Logged(c, DeleteId(r.path, r.fid), Delete(r.path)) /\ Reply(c) /\ UNCHANGED tree
    BY <1>8 DEF LogRemove, Delete
  <2> HIDE DEF r
  <2> QED BY <1>6, <2>1, <2>2
<1>9. CASE LogWstat(c)
  <2>0. r.kind = "Wstat"
    BY <1>9 DEF LogWstat, Handling
  <2>1. Rename(r.path, r.to) \in Ops /\ Uuid(c) \in Ids
    <3> HIDE DEF r
    <3> QED BY <1>2, <1>3, <2>0, MessageFacts, OpsTyped, IdsTyped DEF Kinds
  <2>2. OpOf(r) = Rename(r.path, r.to)
    BY <2>0 DEF OpOf
  <2>3. Logged(c, Uuid(c), Rename(r.path, r.to)) /\ Reply(c) /\ UNCHANGED tree
    BY <1>9 DEF LogWstat, Rename
  <2> HIDE DEF r
  <2> QED BY <1>6, <2>0, <2>1, <2>2, <2>3
<1> QED BY <1>5, <1>7, <1>8, <1>9 DEF Finish

\* A new connection begins without a log, at the tree as it is.
LEMMA ReconnectFacts ==
  ASSUME Types, NEW c \in Connections, Reconnect(c)
  PROVE  /\ OthersWait(c) /\ dag'[c] = {} /\ request'[c] = Nobody /\ request[c] = Nobody
         /\ fs' = fs /\ origin'[c] = fs /\ blurred'[c] = {}
         /\ \A d \in Connections \ {c} :
              /\ origin'[d] = origin[d] /\ blurred[d] \subseteq blurred'[d]
              /\ IF dag[c] = {} THEN blurred'[d] = blurred[d] ELSE "lost_log" \in blurred'[d]
<1>1. request = [request EXCEPT ![c] = Nobody]
  BY DEF Reconnect, Types
<1>2. request' = [request EXCEPT ![c] = Nobody] /\ dag' = [dag EXCEPT ![c] = {}]
  BY <1>1 DEF Reconnect
<1>3. OthersWait(c) /\ dag'[c] = {} /\ request'[c] = Nobody
  BY <1>2, OthersUntouched
<1>4. origin'[c] = fs /\ \A d \in Connections \ {c} : origin'[d] = origin[d]
  <2>1. origin = [d \in Connections |-> origin[d]] /\ origin' = [origin EXCEPT ![c] = fs]
    BY DEF Reconnect, Types
  <2> QED BY <2>1
<1>5. /\ blurred'[c] = {}
      /\ \A d \in Connections \ {c} :
           blurred'[d] = blurred[d] \cup (IF dag[c] = {} THEN {} ELSE {"lost_log"})
  BY DEF Reconnect
<1> QED BY <1>3, <1>4, <1>5 DEF Reconnect

\* The clock goes on without the connections.
ClockOnly ==
  /\ UNCHANGED <<tree, dag, request>>
  /\ \A c \in Connections : /\ blurred[c] \subseteq blurred'[c]
                            /\ blurred'[c] \ blurred[c] \subseteq {"clock_set_back"}

\* Every step is one of the clock, or of a connection, of one of three sorts.
LEMMA Steps ==
  ASSUME Types, ServerNext
  PROVE  ClockOnly \/ \E c \in Connections : Quiet(c) \/ Does(c) \/ Reconnect(c)
<1>1. SetClock => ClockOnly
  BY ClockFacts DEF ClockOnly, Noted
<1> QED BY <1>1, MessageSteps, FinishSteps DEF ServerNext, Serves

-----------------------------------------------------------------------------------
(***********************************************************************************)
(* The log of one connection.                                                      *)
(***********************************************************************************)
Replay(c, log) == Log!Fold(Namespace(origin[c]), log)

LogInv ==
  \A c \in Connections :
    blurred[c] = {} => \E log \in Seq(Ops) : Done(c, log) /\ Agrees(Replay(c, log), fs)

\* The empty log explains the tree a connection began at.
LEMMA NothingDone ==
  ASSUME NEW c \in Connections, request[c] = Nobody, dag[c] = {}, origin[c] = fs, IsTree(fs)
  PROVE  \E log \in Seq(Ops) : Done(c, log) /\ Agrees(Replay(c, log), fs)
<1>1. Replay(c, <<>>) = Namespace(fs)
  BY Log!FoldEmpty DEF Replay
<1>2. Done(c, <<>>) /\ <<>> \in Seq(Ops)
  BY NoLog DEF Done
<1> QED BY <1>1, <1>2, NamespaceAgrees

\* Replaying one operation more.
LEMMA OneMore ==
  ASSUME NEW c, NEW log \in Seq(Ops), NEW op \in Ops
  PROVE  Replay(c, Append(log, op)) = NS!apply_operation_to_state(Replay(c, log), op)
         /\ Append(log, op) \in Seq(Ops)
BY Log!FoldAppend, AppendProperties DEF Replay

\* A step of one connection is none of another.
LEMMA OthersDone ==
  ASSUME NEW c \in Connections, OthersWait(c), NEW d \in Connections \ {c}, NEW log
  PROVE  (Done(d, log) <=> Done(d, log)') /\ (Fresh(d) <=> Fresh(d)')
BY DEF OthersWait, Done, Fresh

LEMMA LogInit == ServerInit => LogInv
<1> SUFFICES ASSUME ServerInit PROVE LogInv
  OBVIOUS
<1>1. IsTree(fs)
  BY InitTypes DEF Types
<1>2. \A c \in Connections : request[c] = Nobody /\ dag[c] = {} /\ origin[c] = fs
  BY DEF ServerInit
<1> QED BY <1>1, <1>2, NothingDone DEF LogInv

\* One operation more on the tree is one more in the log, before or after.
LEMMA LogNext == Types /\ LogInv /\ [ServerNext]_serverVars => LogInv'
<1> SUFFICES ASSUME Types, LogInv, [ServerNext]_serverVars PROVE LogInv'
  OBVIOUS
<1>1. CASE UNCHANGED serverVars \/ ClockOnly
  <2> SUFFICES ASSUME NEW d \in Connections, blurred'[d] = {}
               PROVE  (\E log \in Seq(Ops) : Done(d, log) /\ Agrees(Replay(d, log), fs))'
    BY DEF LogInv
  <2>1. /\ blurred[d] = {} /\ fs' = fs /\ origin' = origin /\ dag' = dag /\ request' = request
    BY <1>1 DEF serverVars, served, tree, ClockOnly
  <2>2. PICK log \in Seq(Ops) : Done(d, log) /\ Agrees(Replay(d, log), fs)
    BY <2>1 DEF LogInv
  <2>3. Done(d, log)' /\ Replay(d, log)' = Replay(d, log)
    BY <2>1, <2>2 DEF Done, Replay
  <2> QED BY <2>1, <2>2, <2>3
<1>2. ASSUME NEW c \in Connections, Quiet(c) \/ Does(c) \/ Reconnect(c),
             NEW d \in Connections, (blurred[d] = {})'
      PROVE  (\E log \in Seq(Ops) : Done(d, log) /\ Agrees(Replay(d, log), fs))'
  <2>1. CASE d # c
    <3>1. OthersWait(c) /\ blurred[d] = {} /\ fs' = fs /\ origin'[d] = origin[d]
      BY <1>2, <2>1, ReconnectFacts DEF Quiet, Does, tree
    <3>2. PICK log \in Seq(Ops) : Done(d, log) /\ Agrees(Replay(d, log), fs)
      BY <3>1 DEF LogInv
    <3>3. Done(d, log)' /\ Replay(d, log)' = Replay(d, log)
      BY <2>1, <3>1, <3>2, OthersDone DEF Replay
    <3> QED BY <3>1, <3>2, <3>3
  <2>2. CASE d = c /\ Quiet(c)
    <3>1. blurred[c] = {} /\ fs' = fs /\ origin' = origin
      BY <1>2, <2>2 DEF Quiet, tree
    <3>2. PICK log \in Seq(Ops) : Done(c, log) /\ Agrees(Replay(c, log), fs)
      BY <3>1 DEF LogInv
    <3>3. Done(c, log)' /\ Replay(c, log)' = Replay(c, log)
      BY <1>2, <2>2, <3>1, <3>2 DEF Quiet, Replay
    <3> QED BY <2>2, <3>1, <3>2, <3>3
  <2>3. CASE d = c /\ Does(c)
    <3>1. blurred[c] = {} /\ origin' = origin /\ blurred'[c] \subseteq {"another_connection"}
      BY <1>2, <2>3 DEF Does
    <3>2. PICK log \in Seq(Ops) : Done(c, log) /\ Agrees(Replay(c, log), fs)
      BY <3>1 DEF LogInv
    <3>3. PICK op \in Ops :
            /\ \A l \in Seq(Ops) : Done(c, l) => Done(c, Append(l, op))'
            /\ \A ns : blurred'[c] \subseteq {"another_connection"} /\ Agrees(ns, fs)
                         => Agrees(NS!apply_operation_to_state(ns, op), fs')
      BY <2>3 DEF Does
    <3>4. /\ Done(c, Append(log, op))'
          /\ Agrees(NS!apply_operation_to_state(Replay(c, log), op), fs')
      BY <3>1, <3>2, <3>3
    <3>5. /\ Replay(c, Append(log, op)) = NS!apply_operation_to_state(Replay(c, log), op)
          /\ Append(log, op) \in Seq(Ops)
      BY OneMore
    <3>6. Replay(c, Append(log, op))' = Replay(c, Append(log, op))
      BY <3>1 DEF Replay
    <3> QED BY <2>3, <3>4, <3>5, <3>6
  <2>4. CASE d = c /\ Reconnect(c)
    <3>1. dag'[c] = {} /\ request'[c] = Nobody /\ fs' = fs /\ origin'[c] = fs
      BY <2>4, ReconnectFacts
    <3>2. IsTree(fs)
      BY DEF Types
    <3>3. Done(c, <<>>)' /\ <<>> \in Seq(Ops)
      BY <3>1, NoLog DEF Done
    <3>4. Replay(c, <<>>)' = Namespace(fs)
      BY <3>1, Log!FoldEmpty DEF Replay
    <3> QED BY <2>4, <3>1, <3>2, <3>3, <3>4, NamespaceAgrees
  <2> QED BY <1>2, <2>1, <2>2, <2>3, <2>4
<1> QED BY <1>1, <1>2, Steps DEF LogInv

\* The log that explains the tree is one of those that the times allow, and the others
\* replay to the same.
LEMMA LogInvExplains == Types /\ LogInv => LogExplainsTree
<1> SUFFICES ASSUME Types, LogInv, NEW c \in Connections, request[c] = Nobody, blurred[c] = {},
                    SecondsSuffice(c), NEW log \in Logs(c)
             PROVE  Tree(NS!ApplyBlock(Namespace(origin[c]), log)) = fs
  BY DEF LogExplainsTree
<1>1. PICK l \in Seq(Ops) : Done(c, l) /\ Agrees(Replay(c, l), fs)
  BY DEF LogInv
<1>2. l \in LogsOf(dag[c])
  BY <1>1 DEF Done
<1>3. PICK s \in Orders(dag[c]) : l = Operations(s)
  BY <1>2 DEF LogsOf
<1>4. PICK t \in Orders(dag[c]) : log = Operations(t)
  BY LogsAre DEF LogsOf
<1>5. dag[c] \subseteq Blocks /\ IsFiniteSet(dag[c]) /\ IsTree(fs) /\ IsTree(origin[c])
  BY DEF Types
<1>6. \A a, b \in dag[c] : a # b /\ a.timestamp = b.timestamp
                             => Interchangeable(a.operation, b.operation)
  BY DEF SecondsSuffice
<1>7. Agrees(Namespace(origin[c]), origin[c])
  BY <1>5, NamespaceAgrees
<1>8. Agrees(Log!Fold(Namespace(origin[c]), Operations(s)), fs)
  BY <1>1, <1>3 DEF Replay
<1>9. Agrees(Log!Fold(Namespace(origin[c]), Operations(t)), fs)
  BY <1>5, <1>6, <1>7, <1>8, OrdersReplay
<1> QED BY <1>4, <1>5, <1>9, LogIsFold, TreeOfAgreeing

\* Theorem: for any number of connections, the blocks that one logged explain the tree
\* between its messages, in whatever order their times allow (LogExplainsTree): create logs
\* before it touches the tree, write, remove and wstat after, and whatever the replay of
\* checkpoints makes of them is the tree.
THEOREM LogCorrect == ServerSpec => []LogExplainsTree
<1>1. ServerInit => Types /\ LogInv
  BY InitTypes, LogInit
<1>2. Types /\ LogInv /\ [ServerNext]_serverVars => (Types /\ LogInv)'
  BY NextTypes, LogNext
<1>3. Types /\ LogInv => LogExplainsTree
  BY LogInvExplains
<1> QED BY <1>1, <1>2, <1>3, PTL DEF ServerSpec

-----------------------------------------------------------------------------------
(***********************************************************************************)
(* Two logs merged.                                                                *)
(***********************************************************************************)
\* I are places for s in a merge with t.
ArePlaces(s, t, I) == I \subseteq 1..(Len(s) + Len(t)) /\ Cardinality(I) = Len(s)

\* The places a merge leaves to the second log are as many as it has operations.
LEMMA PlaceFacts ==
  ASSUME NEW E, NEW s \in Seq(E), NEW t \in Seq(E), NEW I, ArePlaces(s, t, I)
  PROVE  LET n == Len(s) + Len(t)
         IN  /\ IsFiniteSet(I) /\ IsFiniteSet(1..n) /\ Len(s) \in Nat /\ Len(t) \in Nat
             /\ \A J : J = (1..n) \ I => Cardinality(J) = Len(t)
             /\ \A k \in 1..n : /\ k \in I => Cardinality(I \cap 1..k) \in 1..Len(s)
                                /\ k \notin I => Cardinality((1..k) \ I) \in 1..Len(t)
<1> DEFINE n == Len(s) + Len(t)
<1>1. Len(s) \in Nat /\ Len(t) \in Nat /\ n \in Nat
  OBVIOUS
<1>2. IsFiniteSet(1..n) /\ Cardinality(1..n) = n
  <2> HIDE DEF n
  <2>1. 1 \in Int /\ n \in Int
    BY <1>1
  <2>2. IsFiniteSet(1..n) /\ Cardinality(1..n) = (IF 1 > n THEN 0 ELSE n - 1 + 1)
    BY <2>1, FS_Interval
  <2> QED BY <1>1, <2>2
<1>3. I \subseteq 1..n /\ Cardinality(I) = Len(s)
  BY DEF ArePlaces
<1> HIDE DEF n
<1>4. IsFiniteSet(I)
  BY <1>2, <1>3, FS_Subset
<1>5. IsFiniteSet((1..n) \ I) /\ Cardinality((1..n) \ I) = Len(t)
  <2>1. (1..n) \cap I = I
    BY <1>3
  <2>2. /\ IsFiniteSet((1..n) \ I)
        /\ Cardinality((1..n) \ I) = Cardinality(1..n) - Cardinality((1..n) \cap I)
    BY <1>2, <1>4, FS_Difference
  <2>3. Cardinality((1..n) \ I) = n - Len(s)
    BY <1>2, <1>3, <2>1, <2>2
  <2>4. n - Len(s) = Len(t)
    BY <1>1 DEF n
  <2> QED BY <2>2, <2>3, <2>4
<1>6. ASSUME NEW k \in 1..n, NEW S, IsFiniteSet(S), NEW T, T \subseteq S, k \in T
      PROVE  Cardinality(T) \in 1..Cardinality(S)
  <2>1. IsFiniteSet(T) /\ Cardinality(T) <= Cardinality(S)
    BY <1>6, FS_Subset
  <2>2. Cardinality(T) \in Nat /\ Cardinality(S) \in Nat /\ Cardinality(T) # 0
    BY <1>6, <2>1, FS_CardinalityType, FS_EmptySet
  <2> QED BY <2>1, <2>2
<1>7. ASSUME NEW k \in 1..n, k \in I PROVE Cardinality(I \cap 1..k) \in 1..Len(s)
  <2>1. k \in I \cap 1..k /\ I \cap 1..k \subseteq I
    BY <1>1, <1>7
  <2> QED BY <1>3, <1>4, <1>6, <2>1
<1>8. ASSUME NEW k \in 1..n, k \notin I PROVE Cardinality((1..k) \ I) \in 1..Len(t)
  <2>1. k \in (1..k) \ I /\ (1..k) \ I \subseteq (1..n) \ I
    BY <1>1, <1>8
  <2> QED BY <1>5, <1>6, <2>1
<1> QED BY <1>1, <1>2, <1>4, <1>5, <1>7, <1>8 DEF n

\* A merge has the operations of both logs, and no others.
LEMMA InterleavingTyped ==
  ASSUME NEW E, NEW s \in Seq(E), NEW t \in Seq(E), NEW I, ArePlaces(s, t, I)
  PROVE  /\ Interleaving(s, t, I) \in Seq(E)
         /\ Len(Interleaving(s, t, I)) = Len(s) + Len(t)
<1> DEFINE n == Len(s) + Len(t)
           m == Interleaving(s, t, I)
<1>1. Len(s) \in Nat /\ Len(t) \in Nat /\ n \in Nat
  OBVIOUS
<1>2. m = [k \in 1..n |-> IF k \in I THEN s[Cardinality(I \cap 1..k)]
                                     ELSE t[Cardinality((1..k) \ I)]]
  BY DEF Interleaving
<1>3. \A k \in 1..n : /\ k \in I => Cardinality(I \cap 1..k) \in 1..Len(s)
                      /\ k \notin I => Cardinality((1..k) \ I) \in 1..Len(t)
  BY PlaceFacts
<1> HIDE DEF n, m
<1>4. \A k \in 1..n : m[k] \in E
  <2> TAKE k \in 1..n
  <2>1. CASE k \in I
    <3>1. m[k] = s[Cardinality(I \cap 1..k)]
      BY <1>2, <2>1
    <3> QED BY <1>3, <2>1, <3>1, ElementOfSeq
  <2>2. CASE k \notin I
    <3>1. m[k] = t[Cardinality((1..k) \ I)]
      BY <1>2, <2>2
    <3> QED BY <1>3, <2>2, <3>1, ElementOfSeq
  <2> QED BY <2>1, <2>2
<1>5. m \in [1..n -> E]
  BY <1>2, <1>4
<1>6. m \in Seq(E) /\ Len(m) = n
  <2>1. m \in Seq(E)
    BY <1>1, <1>5, SeqDef
  <2> QED BY <1>1, <1>5, <2>1, LenProperties
<1> QED BY <1>6 DEF m, n

\* A log grows: so does the merge, at its end.
LEMMA InterleavingMore ==
  ASSUME NEW E, NEW s \in Seq(E), NEW t \in Seq(E), NEW I, ArePlaces(s, t, I), NEW e \in E
  PROVE  \E J : /\ ArePlaces(Append(s, e), t, J)
               /\ Interleaving(Append(s, e), t, J) = Append(Interleaving(s, t, I), e)
<1> DEFINE n == Len(s) + Len(t)
           J == I \cup {n + 1}
           u == Append(s, e)
           m == Interleaving(s, t, I)
           w == Interleaving(u, t, J)
<1>1. Len(s) \in Nat /\ Len(t) \in Nat /\ n \in Nat /\ n + 1 \in Nat
  OBVIOUS
<1>2. /\ u \in Seq(E) /\ Len(u) = Len(s) + 1 /\ u[Len(s) + 1] = e
      /\ \A i \in 1..Len(s) : u[i] = s[i]
  BY AppendProperties
<1>3. /\ IsFiniteSet(I)
      /\ \A k \in 1..n : /\ k \in I => Cardinality(I \cap 1..k) \in 1..Len(s)
                         /\ k \notin I => Cardinality((1..k) \ I) \in 1..Len(t)
  BY PlaceFacts
<1>4. I \subseteq 1..n /\ Cardinality(I) = Len(s)
  BY DEF ArePlaces
<1>5. Len(u) + Len(t) = n + 1
  BY <1>1, <1>2
<1>6. m \in Seq(E) /\ Len(m) = n
  BY InterleavingTyped
<1>7. m = [k \in 1..n |-> IF k \in I THEN s[Cardinality(I \cap 1..k)]
                                     ELSE t[Cardinality((1..k) \ I)]]
  BY DEF Interleaving
<1>8. w = [k \in 1..(n + 1) |-> IF k \in J THEN u[Cardinality(J \cap 1..k)]
                                           ELSE t[Cardinality((1..k) \ J)]]
  BY <1>5 DEF Interleaving
<1> HIDE DEF n, u, m, w
<1>9. n + 1 \notin I /\ I \subseteq 1..(n + 1)
  BY <1>1, <1>4
<1>10. Cardinality(J) = Len(s) + 1
  BY <1>3, <1>4, <1>9, FS_AddElement
<1>11. ArePlaces(u, t, J)
  <2>1. J \subseteq 1..(n + 1)
    BY <1>1, <1>9
  <2> QED BY <1>2, <1>5, <1>10, <2>1 DEF ArePlaces
<1>12. w \in Seq(E) /\ Len(w) = n + 1
  BY <1>2, <1>5, <1>11, InterleavingTyped DEF w
<1>13. Append(m, e) \in Seq(E) /\ Len(Append(m, e)) = n + 1 /\ Append(m, e)[n + 1] = e
       /\ \A k \in 1..n : Append(m, e)[k] = m[k]
  BY <1>6, AppendProperties
<1>14. ASSUME NEW k \in 1..n PROVE w[k] = m[k]
  <2>1. /\ (k \in J) = (k \in I) /\ k \in 1..(n + 1)
        /\ J \cap 1..k = I \cap 1..k /\ (1..k) \ J = (1..k) \ I
    BY <1>1
  <2> HIDE DEF J
  <2>2. CASE k \in I
    <3>1. w[k] = u[Cardinality(I \cap 1..k)] /\ m[k] = s[Cardinality(I \cap 1..k)]
      BY <1>7, <1>8, <2>1, <2>2
    <3> QED BY <1>2, <1>3, <2>2, <3>1
  <2>3. CASE k \notin I
    BY <1>7, <1>8, <2>1, <2>3
  <2> QED BY <2>2, <2>3
<1>15. w[n + 1] = e
  <2>1. n + 1 \in J /\ n + 1 \in 1..(n + 1)
    BY <1>1
  <2>3. J \cap 1..(n + 1) = J
    BY <1>9, <2>1
  <2> HIDE DEF J
  <2> QED BY <1>2, <1>8, <1>10, <2>1, <2>3
<1>16. \A k \in 1..(n + 1) : w[k] = Append(m, e)[k]
  <2>1. \A k \in 1..(n + 1) : k \in 1..n \/ k = n + 1
    BY <1>1
  <2> QED BY <1>13, <1>14, <1>15, <2>1
<1>17. w = Append(m, e)
  BY <1>12, <1>13, <1>16, SeqEqual
<1> QED BY <1>11, <1>17 DEF u, w, m

\* A log merged with nothing.
LEMMA InterleavingNone ==
  ASSUME NEW E, NEW t \in Seq(E)
  PROVE  ArePlaces(<<>>, t, {}) /\ Interleaving(<<>>, t, {}) = t
<1> DEFINE n == Len(t)
           w == Interleaving(<<>>, t, {})
<1>1. n \in Nat /\ Len(<<>>) = 0 /\ 0 + n = n /\ <<>> \in Seq(E)
  OBVIOUS
<1>2. ArePlaces(<<>>, t, {})
  BY <1>1, FS_EmptySet DEF ArePlaces
<1>3. w \in Seq(E) /\ Len(w) = n
  BY <1>1, <1>2, InterleavingTyped
<1>4. w = [k \in 1..n |-> t[Cardinality((1..k) \ {})]]
  BY <1>1 DEF Interleaving
<1> HIDE DEF n, w
<1>5. ASSUME NEW k \in 1..n PROVE w[k] = t[k]
  <2>1. k \in Int /\ ~ (1 > k) /\ k - 1 + 1 = k /\ (1..k) \ {} = 1..k
    BY <1>1
  <2>2. Cardinality(1..k) = k
    BY <2>1, FS_Interval
  <2> QED BY <1>4, <2>1, <2>2
<1>6. w = t
  BY <1>3, <1>5, SeqEqual DEF n
<1> QED BY <1>2, <1>6 DEF w

\* The two logs of a merge change their parts.
LEMMA InterleavingSwap ==
  ASSUME NEW E, NEW s \in Seq(E), NEW t \in Seq(E), NEW I, ArePlaces(s, t, I)
  PROVE  \E J : ArePlaces(t, s, J) /\ Interleaving(t, s, J) = Interleaving(s, t, I)
<1> DEFINE n == Len(s) + Len(t)
           J == (1..n) \ I
<1>1. Len(s) \in Nat /\ Len(t) \in Nat /\ n \in Nat /\ Len(t) + Len(s) = n
  OBVIOUS
<1>2. Cardinality(J) = Len(t) /\ I \subseteq 1..n
  <2>1. Cardinality(J) = Len(t)
    BY PlaceFacts
  <2> QED BY <2>1 DEF ArePlaces
<1>3. Interleaving(s, t, I) = [k \in 1..n |-> IF k \in I THEN s[Cardinality(I \cap 1..k)]
                                                         ELSE t[Cardinality((1..k) \ I)]]
  BY DEF Interleaving
<1>4. Interleaving(t, s, J) = [k \in 1..n |-> IF k \in J THEN t[Cardinality(J \cap 1..k)]
                                                         ELSE s[Cardinality((1..k) \ J)]]
  BY <1>1 DEF Interleaving
<1>5. ArePlaces(t, s, J)
  BY <1>1, <1>2 DEF ArePlaces
<1> HIDE DEF n
<1>6. \A k \in 1..n : /\ k \in J <=> k \notin I
                      /\ J \cap 1..k = (1..k) \ I /\ (1..k) \ J = I \cap 1..k
  BY <1>1, <1>2
<1> HIDE DEF J
<1>7. Interleaving(t, s, J) = Interleaving(s, t, I)
  BY <1>3, <1>4, <1>6
<1> QED BY <1>5, <1>7

-----------------------------------------------------------------------------------
(***********************************************************************************)
(* The logs of two connections.                                                    *)
(***********************************************************************************)
TwoConnections == \E c1, c2 : Connections = {c1, c2}

\* The logs s and t, merged in some order, lead from the tree o to the given one.
Explains(o, files, s, t) ==
  \E I : ArePlaces(s, t, I) /\ Agrees(Log!Fold(Namespace(o), Interleaving(s, t, I)), files)

\* One operation more, in the first log and at the end of the merge.
LEMMA ExplainsMore ==
  ASSUME NEW o, NEW files, NEW next, NEW s \in Seq(Ops), NEW t \in Seq(Ops), NEW op \in Ops,
         Explains(o, files, s, t),
         \A ns : Agrees(ns, files) => Agrees(NS!apply_operation_to_state(ns, op), next)
  PROVE  Explains(o, next, Append(s, op), t)
<1> DEFINE Ns(l) == Log!Fold(Namespace(o), l)
<1>1. PICK I : ArePlaces(s, t, I) /\ Agrees(Ns(Interleaving(s, t, I)), files)
  BY DEF Explains
<1>2. PICK J : /\ ArePlaces(Append(s, op), t, J)
               /\ Interleaving(Append(s, op), t, J) = Append(Interleaving(s, t, I), op)
  BY <1>1, InterleavingMore
<1>3. Interleaving(s, t, I) \in Seq(Ops)
  BY <1>1, InterleavingTyped
<1>4. \A l \in Seq(Ops) : Ns(Append(l, op)) = NS!apply_operation_to_state(Ns(l), op)
  BY Log!FoldAppend
<1> HIDE DEF Ns
<1>5. Agrees(Ns(Append(Interleaving(s, t, I), op)), next)
  BY <1>1, <1>3, <1>4
<1> QED BY <1>2, <1>5 DEF Explains, Ns

LEMMA ExplainsSwap ==
  ASSUME NEW o, NEW files, NEW s \in Seq(Ops), NEW t \in Seq(Ops), Explains(o, files, s, t)
  PROVE  Explains(o, files, t, s)
<1>1. PICK I : /\ ArePlaces(s, t, I)
               /\ Agrees(Log!Fold(Namespace(o), Interleaving(s, t, I)), files)
  BY DEF Explains
<1>2. PICK J : ArePlaces(t, s, J) /\ Interleaving(t, s, J) = Interleaving(s, t, I)
  BY <1>1, InterleavingSwap
<1> QED BY <1>1, <1>2 DEF Explains

LEMMA ExplainsAlone ==
  ASSUME NEW o, NEW files, NEW t \in Seq(Ops), Agrees(Log!Fold(Namespace(o), t), files)
  PROVE  Explains(o, files, <<>>, t)
<1>1. ArePlaces(<<>>, t, {}) /\ Interleaving(<<>>, t, {}) = t
  BY InterleavingNone
<1> QED BY <1>1 DEF Explains

Explained(c, d) ==
  \E s, t \in Seq(Ops) : Done(c, s) /\ Done(d, t) /\ Explains(origin[c], fs, s, t)

\* A connection that has just come has been done no harm by the other, nor the other by
\* it, but for a log that is lost.
FreshInv ==
  \A c, d \in Connections :
    c # d /\ Fresh(c) /\ "lost_log" \notin blurred[d] => "another_connection" \notin blurred[d]

MergeInv ==
  \A c, d \in Connections :
    c # d /\ origin[c] = origin[d] /\ blurred[c] \cup blurred[d] \subseteq {"another_connection"}
      => Explained(c, d)

\* Nothing is done on the tree between the arrival of a connection and its first log entry.
LEMMA FreshStep ==
  ASSUME Types, FreshInv, TwoConnections,
         NEW e \in Connections, Quiet(e) \/ Does(e) \/ Reconnect(e)
  PROVE  FreshInv'
<1> SUFFICES ASSUME NEW c \in Connections, NEW d \in Connections, c # d, Fresh(c)',
                    "lost_log" \notin blurred'[d]
             PROVE  "another_connection" \notin blurred'[d]
  BY DEF FreshInv
<1>1. e = c \/ e = d
  BY DEF TwoConnections
<1>2. e # c => (Fresh(c) <=> Fresh(c)')
  <2>1. OthersWait(e)
    BY ReconnectFacts DEF Quiet, Does
  <2> QED BY <2>1, OthersDone
<1>3. CASE Quiet(e)
  BY <1>1, <1>2, <1>3 DEF FreshInv, Quiet
<1>4. CASE Does(e)
  <2>1. e = d
    BY <1>1, <1>4 DEF Does
  <2>2. /\ blurred[d] \subseteq blurred'[d]
        /\ "another_connection" \in blurred'[d] => "another_connection" \in blurred[d]
    BY <1>4, <2>1 DEF Does
  <2> QED BY <1>2, <2>1, <2>2 DEF FreshInv
<1>5. CASE Reconnect(e) /\ e = d
  BY <1>5, ReconnectFacts
<1>6. CASE Reconnect(e) /\ e = c
  <2>1. request[c] = Nobody /\ dag[c] = {} /\ blurred'[d] = blurred[d]
    BY <1>6, ReconnectFacts
  <2> QED BY <2>1 DEF FreshInv, Fresh
<1> QED BY <1>1, <1>3, <1>4, <1>5, <1>6

\* A step of one of the two connections.
LEMMA MergeStep ==
  ASSUME Types, LogInv, FreshInv, MergeInv, NEW c \in Connections, NEW d \in Connections, c # d,
         Quiet(c) \/ Does(c) \/ Reconnect(c), origin'[c] = origin'[d],
         blurred'[c] \cup blurred'[d] \subseteq {"another_connection"}
  PROVE  Explained(c, d)' /\ Explained(d, c)'
<1>0. /\ OthersWait(c) /\ blurred[d] \subseteq blurred'[d]
      /\ \A log : Done(d, log) => Done(d, log)'
  <2>1. OthersWait(c) /\ blurred[d] \subseteq blurred'[d]
    BY ReconnectFacts DEF Quiet, Does
  <2> QED BY <2>1, OthersDone
<1> SUFFICES ASSUME TRUE
             PROVE  \E s, t \in Seq(Ops) : /\ Done(c, s)' /\ Done(d, t)'
                                           /\ Explains(origin'[c], fs', s, t)
  <2>1. ASSUME NEW s \in Seq(Ops), NEW t \in Seq(Ops), Done(c, s)', Done(d, t)',
               Explains(origin'[c], fs', s, t)
        PROVE  Explained(c, d)' /\ Explained(d, c)'
    <3>1. Explains(origin'[d], fs', t, s)
      BY <2>1, ExplainsSwap
    <3> QED BY <2>1, <3>1 DEF Explained
  <2> QED BY <2>1
<1>1. ASSUME Quiet(c) \/ Does(c)
      PROVE  \E s, t \in Seq(Ops) : Done(c, s) /\ Done(d, t) /\ Explains(origin[c], fs, s, t)
  <2>1. origin' = origin /\ blurred[c] \subseteq blurred'[c]
    BY <1>1 DEF Quiet, Does, tree
  <2> QED BY <1>0, <2>1 DEF MergeInv, Explained
<1>2. CASE Quiet(c)
  <2>1. PICK s \in Seq(Ops), t \in Seq(Ops) : /\ Done(c, s) /\ Done(d, t)
                                              /\ Explains(origin[c], fs, s, t)
    BY <1>1, <1>2
  <2>2. origin' = origin /\ fs' = fs /\ Done(c, s)'
    BY <1>2, <2>1 DEF Quiet, tree
  <2> QED BY <1>0, <2>1, <2>2
<1>3. CASE Does(c)
  <2>1. PICK s \in Seq(Ops), t \in Seq(Ops) : /\ Done(c, s) /\ Done(d, t)
                                              /\ Explains(origin[c], fs, s, t)
    BY <1>1, <1>3
  <2>2. PICK op \in Ops :
          /\ \A l \in Seq(Ops) : Done(c, l) => Done(c, Append(l, op))'
          /\ \A ns : blurred'[c] \subseteq {"another_connection"} /\ Agrees(ns, fs)
                       => Agrees(NS!apply_operation_to_state(ns, op), fs')
    BY <1>3 DEF Does
  <2>3. origin' = origin /\ Done(c, Append(s, op))' /\ Append(s, op) \in Seq(Ops)
    BY <1>3, <2>1, <2>2, AppendProperties DEF Does
  <2>4. Explains(origin[c], fs', Append(s, op), t)
    BY <2>1, <2>2, ExplainsMore
  <2> QED BY <1>0, <2>1, <2>3, <2>4
<1>4. CASE Reconnect(c)
  <2>1. /\ dag'[c] = {} /\ request'[c] = Nobody /\ request[c] = Nobody /\ fs' = fs
        /\ origin'[c] = fs /\ origin'[d] = origin[d]
        /\ IF dag[c] = {} THEN blurred'[d] = blurred[d] ELSE "lost_log" \in blurred'[d]
    BY <1>4, ReconnectFacts
  <2>2. Fresh(c) /\ blurred[d] \subseteq {"another_connection"}
    BY <2>1 DEF Fresh
  <2>3. blurred[d] = {}
    BY <2>2 DEF FreshInv
  <2>4. PICK t \in Seq(Ops) : Done(d, t) /\ Agrees(Replay(d, t), fs)
    BY <2>3 DEF LogInv
  <2>5. Explains(origin[d], fs, <<>>, t)
    BY <2>4, ExplainsAlone DEF Replay
  <2>6. Done(c, <<>>)' /\ <<>> \in Seq(Ops)
    BY <2>1, NoLog DEF Done
  <2> QED BY <1>0, <2>1, <2>4, <2>5, <2>6
<1> QED BY <1>2, <1>3, <1>4

LEMMA TwoInit == ServerInit => FreshInv /\ MergeInv
<1> SUFFICES ASSUME ServerInit PROVE FreshInv /\ MergeInv
  OBVIOUS
<1>1. IsTree(fs)
  BY InitTypes DEF Types
<1>2. \A c \in Connections : /\ request[c] = Nobody /\ dag[c] = {} /\ origin[c] = fs
                             /\ blurred[c] = {}
  BY DEF ServerInit
<1>3. <<>> \in Seq(Ops) /\ \A c \in Connections : Done(c, <<>>)
  BY <1>2, NoLog DEF Done
<1>4. Explains(fs, fs, <<>>, <<>>)
  BY <1>1, <1>3, Log!FoldEmpty, NamespaceAgrees, ExplainsAlone
<1> QED BY <1>2, <1>3, <1>4 DEF FreshInv, MergeInv, Explained

LEMMA TwoNext ==
  ASSUME Types, LogInv, FreshInv, MergeInv, TwoConnections, [ServerNext]_serverVars
  PROVE  FreshInv' /\ MergeInv'
<1>1. CASE UNCHANGED serverVars \/ ClockOnly
  <2>1. /\ fs' = fs /\ origin' = origin /\ dag' = dag /\ request' = request
        /\ \A c \in Connections : /\ blurred[c] \subseteq blurred'[c]
                                  /\ blurred'[c] \ blurred[c] \subseteq {"clock_set_back"}
    BY <1>1 DEF serverVars, served, tree, ClockOnly
  <2>2. FreshInv'
    BY <2>1 DEF FreshInv, Fresh
  <2>3. \A c, log : Done(c, log) <=> Done(c, log)'
    BY <2>1 DEF Done
  <2>4. MergeInv'
    <3> SUFFICES ASSUME NEW c \in Connections, NEW d \in Connections, c # d,
                        origin[c] = origin[d],
                        blurred'[c] \cup blurred'[d] \subseteq {"another_connection"}
                 PROVE  Explained(c, d)'
      BY <2>1 DEF MergeInv
    <3>1. PICK s \in Seq(Ops), t \in Seq(Ops) : /\ Done(c, s) /\ Done(d, t)
                                                /\ Explains(origin[c], fs, s, t)
      BY <2>1 DEF MergeInv, Explained
    <3> QED BY <2>1, <2>3, <3>1 DEF Explained
  <2> QED BY <2>2, <2>4
<1>2. ASSUME NEW e \in Connections, Quiet(e) \/ Does(e) \/ Reconnect(e)
      PROVE  FreshInv' /\ MergeInv'
  <2>1. ASSUME NEW c \in Connections, NEW d \in Connections, c # d, origin'[c] = origin'[d],
               blurred'[c] \cup blurred'[d] \subseteq {"another_connection"}
        PROVE  Explained(c, d)'
    <3>1. e = c \/ e = d
      BY <2>1 DEF TwoConnections
    <3> QED BY <1>2, <2>1, <3>1, MergeStep
  <2> QED BY <1>2, <2>1, FreshStep DEF MergeInv
<1> QED BY <1>1, <1>2, Steps

LEMMA MergeInvExplains == Types /\ MergeInv => MergedLogsExplainTree
<1> SUFFICES ASSUME Types, MergeInv, NEW c \in Connections, NEW d \in Connections, c # d,
                    request[c] = Nobody, request[d] = Nobody, origin[c] = origin[d],
                    blurred[c] \cup blurred[d] \subseteq {"another_connection"}
             PROVE  \E s \in Logs(c), t \in Logs(d) : \E log \in Interleavings(s, t) :
                      Tree(NS!ApplyBlock(Namespace(origin[c]), log)) = fs
  BY DEF MergedLogsExplainTree
<1>1. PICK s \in Seq(Ops), t \in Seq(Ops) : /\ Done(c, s) /\ Done(d, t)
                                            /\ Explains(origin[c], fs, s, t)
  BY DEF MergeInv, Explained
<1>2. s \in Logs(c) /\ t \in Logs(d)
  BY <1>1, LogsAre DEF Done
<1>3. PICK I : /\ ArePlaces(s, t, I)
               /\ Agrees(Log!Fold(Namespace(origin[c]), Interleaving(s, t, I)), fs)
  BY <1>1 DEF Explains
<1>4. Interleaving(s, t, I) \in Interleavings(s, t)
  BY <1>3 DEF Interleavings, ArePlaces
<1>5. Tree(NS!ApplyBlock(Namespace(origin[c]), Interleaving(s, t, I))) = fs
  <2>1. IsTree(fs)
    BY DEF Types
  <2> QED BY <1>3, <2>1, LogIsFold, TreeOfAgreeing
<1> QED BY <1>2, <1>4, <1>5

\* Theorem: with two connections, for any fids, names and bounds, what the two logged, each
\* in some order that its times allow, leads to the tree when it is merged in some way
\* (MergedLogsExplainTree), although nothing orders the logging of one handler and the work
\* on the tree of the other.
THEOREM MergedLogsCorrect ==
  TwoConnections => (ServerSpec => []MergedLogsExplainTree)
<1> SUFFICES ASSUME TwoConnections PROVE ServerSpec => []MergedLogsExplainTree
  OBVIOUS
<1> DEFINE Inv == Types /\ LogInv /\ FreshInv /\ MergeInv
<1>1. ServerInit => Inv
  BY InitTypes, LogInit, TwoInit
<1>2. Inv /\ [ServerNext]_serverVars => Inv'
  BY NextTypes, LogNext, TwoNext
<1>3. Inv => MergedLogsExplainTree
  BY MergeInvExplains
<1> QED BY <1>1, <1>2, <1>3, PTL DEF ServerSpec

-----------------------------------------------------------------------------------
(***********************************************************************************)
(* The auto-mount daemon.                                                          *)
(***********************************************************************************)
\* Who holds which lock where: a discovery cycle writes the discovered servers from its
\* first server to its end, a health check reads the mounted ones until it has decided.
LockInv ==
  /\ pc \in Places
  /\ Exclusive(D) /\ Exclusive(M)
  /\ pc.discovery \in {"check", "connect", "record"} => Writes(D, "discovery")
  /\ pc.health = "discovered" => Reads(M, "health")

LEMMA LockInit == Init => LockInv
BY DEF Init, LockInv, Places, Unlocked, Lock, Exclusive

LEMMA LockStep == LockInv /\ [Next]_vars => LockInv'
<1> SUFFICES ASSUME LockInv, [Next]_vars PROVE LockInv'
  OBVIOUS
<1> USE DEF LockInv, Places, Goto, Reads, Writes, maps, locks
<1>1. CASE DiscoveryTick
  BY <1>1, RequestFacts DEF DiscoveryTick
<1>2. CASE DiscoveryExit
  BY <1>2 DEF DiscoveryExit
<1>3. CASE Visit
  BY <1>3, RequestFacts DEF Visit
<1>4. CASE CheckMounted
  BY <1>4, LeaveFacts DEF CheckMounted
<1>5. CASE Connect
  BY <1>5, RequestFacts DEF Connect
<1>6. CASE RecordMount
  BY <1>6, LeaveFacts DEF RecordMount
<1>7. CASE EndCycle
  BY <1>7, LeaveFacts DEF EndCycle
<1>8. CASE HealthTick
  BY <1>8, RequestFacts DEF HealthTick
<1>9. CASE ReadMounted
  BY <1>9, RequestFacts DEF ReadMounted
<1>10. CASE ChooseDead
  BY <1>10, LeaveFacts, RequestFacts DEF ChooseDead
<1>11. CASE UnmountDead
  BY <1>11, LeaveFacts DEF UnmountDead
<1>12. CASE Status
  BY <1>12, RequestFacts DEF Status
<1>13. CASE StatusMounted
  BY <1>13, RequestFacts DEF StatusMounted
<1>14. CASE StatusReturns
  BY <1>14, LeaveFacts DEF StatusReturns
<1>15. CASE Stop
  BY <1>15, LeaveFacts, RequestFacts DEF Stop
<1>16. CASE DrainMounted
  BY <1>16, LeaveFacts DEF DrainMounted
<1>17. CASE Age
  BY <1>17 DEF Age
<1>18. CASE UNCHANGED vars
  BY <1>18 DEF vars
<1> QED BY <1>1, <1>2, <1>3, <1>4, <1>5, <1>6, <1>7, <1>8, <1>9, <1>10, <1>11, <1>12,
           <1>13, <1>14, <1>15, <1>16, <1>17, <1>18
        DEF Next, DiscoveryStep, HealthStep, OwnerStep

\* A step that mounts, unmounts or sees a server is made under the write lock of a map;
\* the health check, which reads both, excludes it.  Time only makes more servers dead.
THEOREM HealthCheckConsistent == Spec => ConsistentHealthCheck
<1>1. LockInv /\ [Next]_vars =>
        [pc.health = "discovered" =>
           /\ UNCHANGED mounted_servers
           /\ Reads(D, "health") => \A s \in Servers : Dead(s) => Dead(s)']_vars
  <2> SUFFICES ASSUME LockInv, [Next]_vars, pc.health = "discovered"
               PROVE  /\ UNCHANGED mounted_servers
                      /\ Reads(D, "health") => \A s \in Servers : Dead(s) => Dead(s)'
    OBVIOUS
  <2>1. M.writers = {} /\ (Reads(D, "health") => D.writers = {})
    BY DEF LockInv, Exclusive, Reads
  <2>2. ~ RecordMount /\ ~ DrainMounted /\ ~ UnmountDead
    BY <2>1 DEF RecordMount, DrainMounted, UnmountDead, Writes
  <2>3. Visit => UNCHANGED mounted_servers /\ ~ Reads(D, "health")
    BY <2>1 DEF Visit, Writes
  <2>4. CASE Age
    BY <2>4 DEF Age, Dead
  <2>5. CASE UNCHANGED maps
    BY <2>5 DEF maps, Dead
  <2> QED BY <2>2, <2>3, <2>4, <2>5
          DEF Next, vars, maps, DiscoveryStep, HealthStep, OwnerStep, DiscoveryTick,
              DiscoveryExit, CheckMounted, Connect, EndCycle, HealthTick, ReadMounted,
              ChooseDead, Status, StatusMounted, StatusReturns, Stop
<1> QED BY <1>1, LockInit, LockStep, PTL DEF Spec, ConsistentHealthCheck

-----------------------------------------------------------------------------------
\* Nobody but the discovery task adds mounts, and it goes one server at a time.
MountInv ==
  /\ pc \in Places
  /\ pc.discovery \in {"connect", "record"} => current \notin mounted_servers

\* A mount is never recorded over another one.
THEOREM MountedOnce == Spec => NeverMountedTwice
<1>1. Init => MountInv
  BY DEF Init, MountInv, Places
<1>2. MountInv /\ [Next]_vars => MountInv'
  BY ZenonT(30) DEF MountInv, Places, Goto, Next, vars, maps, locks, DiscoveryStep, HealthStep, OwnerStep,
         DiscoveryTick, DiscoveryExit, Visit, CheckMounted, Connect, RecordMount, EndCycle,
         HealthTick, ReadMounted, ChooseDead, UnmountDead, Status, StatusMounted,
         StatusReturns, Stop, DrainMounted, Age
<1>3. MountInv =>
        [pc.discovery = "record" /\ pc'.discovery = "visit" => current \notin mounted_servers]_vars
  BY DEF MountInv
<1> QED BY <1>1, <1>2, <1>3, PTL DEF Spec, NeverMountedTwice
-----------------------------------------------------------------------------------
LEMMA LocksTyped == Locks = LocksOf(Tasks)
BY DEF Locks, LocksOf, Waiters, Waiter

LEMMA LockedWants ==
  ASSUME NEW l \in Locks, NEW places, NEW where
  PROVE  WantsAt(l, places, where) <=>
           /\ \A t \in l.readers : where[t] \in places.R
           /\ \A t \in l.writers : where[t] \in places.W
           /\ \A i \in DOMAIN l.queue : where[l.queue[i].task] \in places[l.queue[i].mode]
<1>1. l.queue \in Seq(Waiter(Tasks)) /\ DOMAIN l.queue = 1..Len(l.queue)
  <2>1. l.queue \in Seq(Waiter(Tasks))
    BY LocksTyped DEF LocksOf, Waiters
  <2> QED BY <2>1, LenProperties
<1>2. \A i \in 1..Len(l.queue) : l.queue[i].mode \in {"R", "W"}
  <2>1. \A i \in 1..Len(l.queue) : l.queue[i] \in Waiter(Tasks)
    BY <1>1
  <2> QED BY <2>1 DEF Waiter
<1>3. \A m \in {"R", "W"} : \A t : t \in Asking(l, m) <=>
        \E i \in DOMAIN l.queue : l.queue[i].mode = m /\ l.queue[i].task = t
  BY <1>1 DEF Asking
<1>4. ASSUME WantsAt(l, places, where)
      PROVE  /\ \A t \in l.readers : where[t] \in places.R
             /\ \A t \in l.writers : where[t] \in places.W
             /\ \A i \in DOMAIN l.queue : where[l.queue[i].task] \in places[l.queue[i].mode]
  BY <1>1, <1>2, <1>3, <1>4 DEF WantsAt, Wants
<1>5. ASSUME \A t \in l.readers : where[t] \in places.R,
             \A t \in l.writers : where[t] \in places.W,
             \A i \in DOMAIN l.queue : where[l.queue[i].task] \in places[l.queue[i].mode]
      PROVE  WantsAt(l, places, where)
  <2> SUFFICES ASSUME NEW m \in {"R", "W"}, NEW t \in Wants(l, m) PROVE where[t] \in places[m]
    BY DEF WantsAt
  <2>1. CASE t \in Asking(l, m)
    BY <1>3, <1>5, <2>1
  <2>2. CASE t \notin Asking(l, m)
    BY <1>5, <2>2 DEF Wants
  <2> QED BY <2>1, <2>2
<1> QED BY <1>4, <1>5

\* Nobody asks twice, and the cycle is inside the list while it works on a server.
TypeInv ==
  /\ TypeOK
  /\ Orderly(D) /\ Orderly(M)
  /\ pc.discovery \in {"check", "connect", "record"} => current \in Servers

LEMMA TypeInit == Init => TypeInv
<1> SUFFICES ASSUME Init PROVE TypeInv
  OBVIOUS
<1>1. Unlocked \in LocksOf(Tasks) /\ Orderly(Unlocked)
  BY EmptySeq DEF Unlocked, Lock, LocksOf, Waiters, Orderly
<1>2. 1 \in 1..(N + 1)
  BY NAssumption
<1>3. DOMAIN discovered_servers = {} /\ mounted_servers = {} /\ to_unmount = {} /\ shutdown = FALSE
  BY DEF Init
<1>4. /\ D \in Locks /\ M \in Locks /\ Orderly(D) /\ Orderly(M)
      /\ D.readers = {} /\ D.writers = {} /\ DOMAIN D.queue = {}
      /\ M.readers = {} /\ M.writers = {} /\ DOMAIN M.queue = {}
  BY <1>1, LocksTyped DEF Init, Unlocked, Lock
<1>5. pc \in Places /\ pc.discovery = "idle" /\ pc.health = "idle"
  BY DEF Init, Places
<1>6. /\ LockedAt(D, DPlaces) /\ Exclusive(D)
      /\ LockedAt(M, MPlaces) /\ Exclusive(M)
  BY <1>4 DEF LockedAt, Exclusive
<1> QED BY <1>2, <1>3, <1>4, <1>5, <1>6 DEF Init, TypeInv, TypeOK

\* What a step leaves behind: the maps, the counter and the flag are of their types ...
DataOK ==
  /\ DOMAIN discovered_servers \subseteq Servers
  /\ \A s \in DOMAIN discovered_servers : discovered_servers[s] \in {"fresh", "stale"}
  /\ mounted_servers \subseteq Servers
  /\ current \in 1..(N + 1)
  /\ to_unmount \subseteq Servers
  /\ shutdown \in BOOLEAN
  /\ pc.discovery \in {"check", "connect", "record"} => current \in Servers

LEMMA DataStep == DataOK /\ LockInv /\ LockInv' /\ [Next]_vars => DataOK'
<1> SUFFICES ASSUME DataOK, LockInv, LockInv', [Next]_vars PROVE DataOK'
  OBVIOUS
<1>a. /\ 1 \in 1..(N + 1)
      /\ \A s \in Servers : s + 1 \in 1..(N + 1)
  BY NAssumption DEF Servers
<1>b. DOMAIN pc = {"discovery", "health", "owner"} /\ pc' \in Places
  BY DEF Places, LockInv
<1> USE DEF DataOK, Goto, maps, locks
<1>1. CASE DiscoveryTick \/ DiscoveryExit
  BY <1>a, <1>b, <1>1 DEF DiscoveryTick, DiscoveryExit
<1>2. CASE Visit
  BY <1>a, <1>b, <1>2 DEF Visit
<1>3. CASE CheckMounted
  BY <1>a, <1>b, <1>3 DEF CheckMounted
<1>4. CASE Connect \/ RecordMount \/ EndCycle
  BY <1>a, <1>b, <1>4 DEF Connect, RecordMount, EndCycle
<1>5. CASE HealthTick \/ ReadMounted
  BY <1>b, <1>5 DEF HealthTick, ReadMounted
<1>6. CASE ChooseDead
  <2>1. to_unmount' \subseteq Servers
    BY <1>6 DEF ChooseDead
  <2>2. pc'.discovery = pc.discovery /\ UNCHANGED <<maps, current, shutdown>>
    BY <1>b, <1>6 DEF ChooseDead
  <2> QED BY <2>1, <2>2
<1>7. CASE UnmountDead
  BY <1>b, <1>7 DEF UnmountDead
<1>8. CASE Status \/ StatusMounted \/ StatusReturns
  BY <1>b, <1>8 DEF Status, StatusMounted, StatusReturns
<1>9. CASE Stop
  BY <1>b, <1>9 DEF Stop
<1>10. CASE DrainMounted
  BY <1>b, <1>10 DEF DrainMounted
<1>11. CASE Age
  BY <1>11 DEF Age
<1>12. CASE UNCHANGED vars
  BY <1>12 DEF vars
<1> QED BY <1>1, <1>2, <1>3, <1>4, <1>5, <1>6, <1>7, <1>8, <1>9, <1>10, <1>11, <1>12
        DEF Next, DiscoveryStep, HealthStep, OwnerStep

\* ... and both locks are had and waited for where the code says.
KeptAt(l, places) == l \in Locks /\ Orderly(l) /\ WantsAt(l, places, pc)

LEMMA PlacesStep ==
  LockInv /\ LockInv' /\ KeptAt(D, DPlaces) /\ KeptAt(M, MPlaces) /\ [Next]_vars
    => KeptAt(D, DPlaces)' /\ KeptAt(M, MPlaces)'
<1> SUFFICES ASSUME LockInv, LockInv', KeptAt(D, DPlaces), KeptAt(M, MPlaces), [Next]_vars
             PROVE  KeptAt(D, DPlaces)' /\ KeptAt(M, MPlaces)'
  OBVIOUS
<1>p. /\ DPlaces["R"] = {"discovered", "status", "status2"}
      /\ DPlaces["W"] = {"visit", "check", "connect", "record"}
      /\ MPlaces["R"] = {"check", "mounted", "discovered", "status2"}
      /\ MPlaces["W"] = {"record", "unmount", "drain"}
  BY DEF DPlaces, MPlaces
<1>t. /\ "discovery" \in Tasks /\ "health" \in Tasks /\ "owner" \in Tasks
      /\ DOMAIN pc = Tasks /\ DOMAIN pc' = Tasks
  BY DEF Tasks, LockInv, Places
<1>k. /\ D \in LocksOf(Tasks) /\ Orderly(D) /\ WantsAt(D, DPlaces, pc)
      /\ M \in LocksOf(Tasks) /\ Orderly(M) /\ WantsAt(M, MPlaces, pc)
  BY LocksTyped DEF KeptAt
<1>g. SUFFICES /\ D' \in LocksOf(Tasks) /\ Orderly(D') /\ WantsAt(D', DPlaces, pc')
               /\ M' \in LocksOf(Tasks) /\ Orderly(M') /\ WantsAt(M', MPlaces, pc')
  BY LocksTyped DEF KeptAt
<1>o. \A t \in Tasks : \A x : Goto(t, x) =>
        pc'[t] = x /\ \A u \in Tasks \ {t} : pc'[u] = pc[u]
  BY <1>t DEF Goto
<1> HIDE DEF Goto
<1>1. CASE DiscoveryTick
  <2>1. D' = Request(D, "discovery", "W") /\ M' = M /\ pc["discovery"] = "idle" /\ Goto("discovery", "visit")
    BY <1>1 DEF DiscoveryTick
  <2>2. D' \in LocksOf(Tasks) /\ Orderly(D') /\ WantsAt(D', DPlaces, pc')
    BY <1>p, <1>t, <1>k, <1>o, <2>1, RequestAt
  <2>3. WantsAt(M', MPlaces, pc')
    BY <1>p, <1>t, <1>k, <1>o, <2>1, StayAt
  <2> QED BY <1>k, <2>1, <2>2, <2>3
<1>2. CASE DiscoveryExit
  <2>1. D' = D /\ M' = M /\ pc["discovery"] = "idle" /\ Goto("discovery", "exited")
    BY <1>2 DEF DiscoveryExit, locks
  <2> QED BY <1>p, <1>t, <1>k, <1>o, <2>1, StayAt
<1>3. CASE Visit
  <2>1. D' = D /\ M' = Request(M, "discovery", "R") /\ pc["discovery"] = "visit" /\ Goto("discovery", "check")
    BY <1>3 DEF Visit
  <2>2. M' \in LocksOf(Tasks) /\ Orderly(M') /\ WantsAt(M', MPlaces, pc')
    BY <1>p, <1>t, <1>k, <1>o, <2>1, RequestAt
  <2>3. WantsAt(D', DPlaces, pc')
    BY <1>p, <1>t, <1>k, <1>o, <2>1, StayAt
  <2> QED BY <1>k, <2>1, <2>2, <2>3
<1>4. CASE CheckMounted
  <2>1. /\ D' = D /\ M' = Leave(M, "discovery") /\ pc["discovery"] = "check"
        /\ Goto("discovery", "visit") \/ Goto("discovery", "connect")
    BY <1>4 DEF CheckMounted
  <2>2. M' \in LocksOf(Tasks) /\ Orderly(M') /\ WantsAt(M', MPlaces, pc')
    BY <1>t, <1>k, <1>o, <2>1, LeaveAt
  <2>3. WantsAt(D', DPlaces, pc')
    BY <1>p, <1>t, <1>k, <1>o, <2>1, StayAt
  <2> QED BY <1>k, <2>1, <2>2, <2>3
<1>5. CASE Connect
  <2>1. D' = D /\ pc["discovery"] = "connect"
    BY <1>5 DEF Connect
  <2>2. CASE M' = Request(M, "discovery", "W") /\ Goto("discovery", "record")
    <3>1. M' \in LocksOf(Tasks) /\ Orderly(M') /\ WantsAt(M', MPlaces, pc')
      BY <1>p, <1>t, <1>k, <1>o, <2>1, <2>2, RequestAt
    <3>2. WantsAt(D', DPlaces, pc')
      BY <1>p, <1>t, <1>k, <1>o, <2>1, <2>2, StayAt
    <3> QED BY <1>k, <2>1, <3>1, <3>2
  <2>3. CASE M' = M /\ Goto("discovery", "visit")
    BY <1>p, <1>t, <1>k, <1>o, <2>1, <2>3, StayAt
  <2> QED BY <1>5, <2>2, <2>3 DEF Connect
<1>6. CASE RecordMount
  <2>1. D' = D /\ M' = Leave(M, "discovery") /\ pc["discovery"] = "record" /\ Goto("discovery", "visit")
    BY <1>6 DEF RecordMount
  <2>2. M' \in LocksOf(Tasks) /\ Orderly(M') /\ WantsAt(M', MPlaces, pc')
    BY <1>t, <1>k, <1>o, <2>1, LeaveAt
  <2>3. WantsAt(D', DPlaces, pc')
    BY <1>p, <1>t, <1>k, <1>o, <2>1, StayAt
  <2> QED BY <1>k, <2>1, <2>2, <2>3
<1>7. CASE EndCycle
  <2>1. D' = Leave(D, "discovery") /\ M' = M /\ pc["discovery"] = "visit" /\ Goto("discovery", "idle")
    BY <1>7 DEF EndCycle
  <2>2. D' \in LocksOf(Tasks) /\ Orderly(D') /\ WantsAt(D', DPlaces, pc')
    BY <1>t, <1>k, <1>o, <2>1, LeaveAt
  <2>3. WantsAt(M', MPlaces, pc')
    BY <1>p, <1>t, <1>k, <1>o, <2>1, StayAt
  <2> QED BY <1>k, <2>1, <2>2, <2>3
<1>8. CASE HealthTick
  <2>1. D' = D /\ M' = Request(M, "health", "R") /\ pc["health"] = "idle" /\ Goto("health", "mounted")
    BY <1>8 DEF HealthTick
  <2>2. M' \in LocksOf(Tasks) /\ Orderly(M') /\ WantsAt(M', MPlaces, pc')
    BY <1>p, <1>t, <1>k, <1>o, <2>1, RequestAt
  <2>3. WantsAt(D', DPlaces, pc')
    BY <1>p, <1>t, <1>k, <1>o, <2>1, StayAt
  <2> QED BY <1>k, <2>1, <2>2, <2>3
<1>9. CASE ReadMounted
  <2>1. D' = Request(D, "health", "R") /\ M' = M /\ pc["health"] = "mounted" /\ Goto("health", "discovered")
    BY <1>9 DEF ReadMounted
  <2>2. D' \in LocksOf(Tasks) /\ Orderly(D') /\ WantsAt(D', DPlaces, pc')
    BY <1>p, <1>t, <1>k, <1>o, <2>1, RequestAt
  <2>3. WantsAt(M', MPlaces, pc')
    BY <1>p, <1>t, <1>k, <1>o, <2>1, StayAt
  <2> QED BY <1>k, <2>1, <2>2, <2>3
<1>10. CASE ChooseDead
  <2>1. D' = Leave(D, "health") /\ pc["health"] = "discovered"
    BY <1>10 DEF ChooseDead
  <2>2. \E x : Goto("health", x)
    BY <1>10 DEF ChooseDead
  <2>3. D' \in LocksOf(Tasks) /\ Orderly(D') /\ WantsAt(D', DPlaces, pc')
    BY <1>t, <1>k, <1>o, <2>1, <2>2, LeaveAt
  <2>4. CASE M' = Leave(M, "health")
    BY <1>t, <1>k, <1>o, <2>2, <2>3, <2>4, LeaveAt
  <2>5. CASE M' = Request(Leave(M, "health"), "health", "W") /\ Goto("health", "unmount")
    <3> DEFINE l == Leave(M, "health")
               w == [pc EXCEPT !["health"] = "idle"]
    <3>1. w["health"] = "idle" /\ \A u \in Tasks \ {"health"} : w[u] = pc[u]
      BY <1>t
    <3>2. pc'["health"] = "unmount" /\ \A u \in Tasks \ {"health"} : pc'[u] = pc[u]
      BY <1>t, <1>o, <2>5
    <3> HIDE DEF w
    <3>3. l \in LocksOf(Tasks) /\ Orderly(l) /\ WantsAt(l, MPlaces, w)
      BY <1>t, <1>k, <3>1, LeaveAt
    <3> HIDE DEF l
    <3>4. /\ Request(l, "health", "W") \in LocksOf(Tasks) /\ Orderly(Request(l, "health", "W"))
          /\ WantsAt(Request(l, "health", "W"), MPlaces, pc')
      BY <1>p, <1>t, <3>1, <3>2, <3>3, RequestAt
    <3> QED BY <2>3, <2>5, <3>4 DEF l
  <2> QED BY <1>10, <2>4, <2>5 DEF ChooseDead
<1>11. CASE UnmountDead
  <2>1. D' = D /\ M' = Leave(M, "health") /\ pc["health"] = "unmount" /\ Goto("health", "idle")
    BY <1>11 DEF UnmountDead
  <2>2. M' \in LocksOf(Tasks) /\ Orderly(M') /\ WantsAt(M', MPlaces, pc')
    BY <1>t, <1>k, <1>o, <2>1, LeaveAt
  <2>3. WantsAt(D', DPlaces, pc')
    BY <1>p, <1>t, <1>k, <1>o, <2>1, StayAt
  <2> QED BY <1>k, <2>1, <2>2, <2>3
<1>12. CASE Status
  <2>1. D' = Request(D, "owner", "R") /\ M' = M /\ pc["owner"] = "idle" /\ Goto("owner", "status")
    BY <1>12 DEF Status
  <2>2. D' \in LocksOf(Tasks) /\ Orderly(D') /\ WantsAt(D', DPlaces, pc')
    BY <1>p, <1>t, <1>k, <1>o, <2>1, RequestAt
  <2>3. WantsAt(M', MPlaces, pc')
    BY <1>p, <1>t, <1>k, <1>o, <2>1, StayAt
  <2> QED BY <1>k, <2>1, <2>2, <2>3
<1>13. CASE StatusMounted
  <2>1. D' = D /\ M' = Request(M, "owner", "R") /\ pc["owner"] = "status" /\ Goto("owner", "status2")
    BY <1>13 DEF StatusMounted
  <2>2. M' \in LocksOf(Tasks) /\ Orderly(M') /\ WantsAt(M', MPlaces, pc')
    BY <1>p, <1>t, <1>k, <1>o, <2>1, RequestAt
  <2>3. WantsAt(D', DPlaces, pc')
    BY <1>p, <1>t, <1>k, <1>o, <2>1, StayAt
  <2> QED BY <1>k, <2>1, <2>2, <2>3
<1>14. CASE StatusReturns
  <2>1. D' = Leave(D, "owner") /\ M' = Leave(M, "owner") /\ Goto("owner", "idle")
    BY <1>14 DEF StatusReturns
  <2> QED BY <1>t, <1>k, <1>o, <2>1, LeaveAt
<1>15. CASE Stop
  <2> DEFINE l == Leave(M, "health")
             w == [pc EXCEPT !["health"] = "aborted"]
  <2>1. /\ D' = Leave(D, "health") /\ M' = Request(l, "owner", "W") /\ pc["owner"] = "idle"
        /\ pc' = [pc EXCEPT !.owner = "drain", !.health = "aborted"]
    BY <1>15 DEF Stop
  <2>2. w["owner"] = "idle" /\ \A u \in Tasks \ {"health"} : w[u] = pc[u]
    BY <1>t, <2>1
  <2>3. pc'["owner"] = "drain" /\ \A u \in Tasks \ {"owner"} : pc'[u] = w[u]
    BY <1>t, <2>1 DEF Tasks
  <2> HIDE DEF w
  <2>4. l \in LocksOf(Tasks) /\ Orderly(l) /\ WantsAt(l, MPlaces, w)
    BY <1>t, <1>k, <2>2, LeaveAt
  <2>5. D' \in LocksOf(Tasks) /\ Orderly(D') /\ WantsAt(D', DPlaces, w)
    BY <1>t, <1>k, <2>1, <2>2, LeaveAt
  <2> HIDE DEF l
  <2>6. M' \in LocksOf(Tasks) /\ Orderly(M') /\ WantsAt(M', MPlaces, pc')
    BY <1>p, <1>t, <2>1, <2>2, <2>3, <2>4, RequestAt
  <2>7. WantsAt(D', DPlaces, pc')
    BY <1>p, <1>t, <2>2, <2>3, <2>5, StayAt
  <2> QED BY <2>5, <2>6, <2>7
<1>16. CASE DrainMounted
  <2>1. D' = D /\ M' = Leave(M, "owner") /\ pc["owner"] = "drain" /\ Goto("owner", "stopped")
    BY <1>16 DEF DrainMounted
  <2>2. M' \in LocksOf(Tasks) /\ Orderly(M') /\ WantsAt(M', MPlaces, pc')
    BY <1>t, <1>k, <1>o, <2>1, LeaveAt
  <2>3. WantsAt(D', DPlaces, pc')
    BY <1>p, <1>t, <1>k, <1>o, <2>1, StayAt
  <2> QED BY <1>k, <2>1, <2>2, <2>3
<1>17. CASE Age
  BY <1>k, <1>17 DEF Age, locks
<1>18. CASE UNCHANGED vars
  BY <1>k, <1>18 DEF vars, locks
<1> QED BY <1>1, <1>2, <1>3, <1>4, <1>5, <1>6, <1>7, <1>8, <1>9, <1>10, <1>11, <1>12,
           <1>13, <1>14, <1>15, <1>16, <1>17, <1>18
        DEF Next, DiscoveryStep, HealthStep, OwnerStep

LEMMA TypeStep == TypeInv /\ LockInv /\ LockInv' /\ [Next]_vars => TypeInv'
<1> SUFFICES ASSUME TypeInv, LockInv, LockInv', [Next]_vars PROVE TypeInv'
  OBVIOUS
<1>1. DataOK /\ KeptAt(D, DPlaces) /\ KeptAt(M, MPlaces)
  BY LockedWants DEF TypeInv, TypeOK, DataOK, KeptAt, LockedAt
<1>2. DataOK'
  BY <1>1, DataStep
<1>3. KeptAt(D, DPlaces)' /\ KeptAt(M, MPlaces)'
  BY <1>1, PlacesStep
<1>4. D' \in Locks /\ Orderly(D') /\ M' \in Locks /\ Orderly(M')
  BY <1>3 DEF KeptAt
<1>5. LockedAt(D, DPlaces)' /\ LockedAt(M, MPlaces)'
  <2>1. WantsAt(D', DPlaces, pc') /\ WantsAt(M', MPlaces, pc')
    BY <1>3 DEF KeptAt
  <2> QED BY <1>4, <2>1, LockedWants DEF LockedAt, DPlaces, MPlaces
<1> QED BY <1>2, <1>4, <1>5 DEF TypeInv, TypeOK, DataOK, LockInv

\* Type correctness of the daemon, the locks with their queues included: for any list of
\* servers, who has or awaits a lock is where the code asked for it, also when stop()
\* aborts the health check in a queue.
THEOREM TypeCorrect == Spec => []TypeOK
<1>1. TypeInv => TypeOK
  BY DEF TypeInv
<1> QED BY <1>1, TypeInit, TypeStep, LockInit, LockStep, PTL DEF Spec
===================================================================================
