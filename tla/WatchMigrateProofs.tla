-------------------------- MODULE WatchMigrateProofs --------------------------
(***************************************************************************)
(* What a migration leaves of the watches, of their points and of the      *)
(* routes', for any stores, caps, routes and currencies.                   *)
(***************************************************************************)
EXTENDS WatchMigrate, WatchGenerationProofs

-----------------------------------------------------------------------------
(* How far a position of a set is from its greatest.                        *)

From(hits, i) == {j \in hits : j >= i}

(* The limit newest of hits are limit many, or all of them.                 *)
LEMMA NewestCount ==
  ASSUME NEW n \in Nat, NEW hits \in SUBSET (1..n), NEW limit \in Nat
  PROVE  Cardinality(Newest(hits, limit))
           = IF Cardinality(hits) <= limit THEN Cardinality(hits) ELSE limit
<1> DEFINE N == Newest(hits, limit)
           gone == hits \ N
<1>1. N \in SUBSET (1..n) /\ N \in SUBSET hits /\ gone \in SUBSET (1..n)
  BY DEF Newest
<1>2. Cardinality(N) <= limit /\ Cardinality(N) \in Nat /\ Cardinality(hits) \in Nat
      /\ Cardinality(N) <= Cardinality(hits)
  BY <1>1, NewestFit, FewerPositions
<1>3. CASE Cardinality(hits) <= limit
  <2>1. \A i \in hits : ~(Cardinality(From(hits, i)) > limit)
    <3> SUFFICES ASSUME NEW i \in hits PROVE ~(Cardinality(From(hits, i)) > limit)
      OBVIOUS
    <3>1. From(hits, i) \in SUBSET hits
      BY DEF From
    <3>2. Cardinality(From(hits, i)) \in Nat /\ Cardinality(From(hits, i)) <= Cardinality(hits)
      BY <3>1, FewerPositions
    <3> QED
      BY <1>2, <1>3, <3>2
  <2>2. N = hits
    BY <2>1 DEF Newest, From
  <2> QED
    BY <1>3, <2>2
<1>4. CASE ~(Cardinality(hits) <= limit)
  <2>1. gone # {}
    BY <1>1, <1>2, <1>4
  <2>2. PICK i \in gone : \A j \in gone : j <= i
    BY <1>1, <2>1, MaxIs
  <2>3. i \in hits /\ Cardinality(From(hits, i)) > limit
    BY <2>2 DEF Newest, From
  <2>4. From(hits, i) \subseteq N \union {i}
    <3> SUFFICES ASSUME NEW j \in hits, j >= i, j \notin N PROVE j = i
      BY DEF From
    <3>1. j <= i
      BY <2>2
    <3>2. i \in Int /\ j \in Int
      BY <2>3
    <3> QED
      BY <3>1, <3>2
  <2> HIDE DEF N, gone
  <2>5. IsFiniteSet(N) /\ i \notin N
    BY <1>1, <2>2, PositionsFinite DEF gone
  <2>6. /\ IsFiniteSet(N \union {i})
        /\ Cardinality(N \union {i}) = Cardinality(N) + 1
    BY <2>5, FS_AddElement
  <2>7. Cardinality(From(hits, i)) <= Cardinality(N) + 1
    BY <2>4, <2>6, FS_Subset
  <2>8. Cardinality(From(hits, i)) \in Nat
    <3>1. From(hits, i) \in SUBSET hits
      BY DEF From
    <3> QED
      BY <3>1, FewerPositions
  <2> QED
    BY <1>2, <1>4, <2>3, <2>7, <2>8 DEF N
<1> QED
  BY <1>3, <1>4

(* Places from the greatest are natural numbers, one for each position.     *)
LEMMA FromIs ==
  ASSUME NEW n \in Nat, NEW hits \in SUBSET (1..n)
  PROVE  /\ \A i \in hits : Cardinality(From(hits, i)) \in 1..Cardinality(hits)
         /\ \A i, j \in hits : i < j => Cardinality(From(hits, i)) > Cardinality(From(hits, j))
         /\ \A i, j \in hits : Cardinality(From(hits, i)) = Cardinality(From(hits, j)) => i = j
         /\ \A i, j \in hits : Cardinality(From(hits, j)) <= Cardinality(From(hits, i)) => i <= j
<1>i. \A i \in hits : i \in Int
  OBVIOUS
<1>1. ASSUME NEW i \in hits PROVE Cardinality(From(hits, i)) \in 1..Cardinality(hits)
  <2>1. From(hits, i) \in SUBSET hits /\ i \in From(hits, i)
    BY <1>i DEF From
  <2>2. /\ Cardinality(From(hits, i)) \in Nat /\ Cardinality(hits) \in Nat
        /\ Cardinality(From(hits, i)) <= Cardinality(hits)
    BY <2>1, FewerPositions
  <2>3. IsFiniteSet(From(hits, i))
    BY <2>1, PositionsFinite, FS_Subset
  <2>4. Cardinality(From(hits, i)) # 0
    BY <2>1, <2>3, FS_EmptySet
  <2> QED
    BY <2>2, <2>4
<1>2. ASSUME NEW i \in hits, NEW j \in hits, i < j
      PROVE  Cardinality(From(hits, i)) > Cardinality(From(hits, j))
  <2>i. i \in Int /\ j \in Int
    BY <1>i
  <2>1. \A k \in From(hits, j) : k \in From(hits, i)
    <3> SUFFICES ASSUME NEW k \in hits, k >= j PROVE k >= i
      BY DEF From
    <3> QED
      BY <1>i, <1>2, <2>i
  <2>3. i \in From(hits, i)
    BY <2>i DEF From
  <2>4. i \notin From(hits, j)
    BY <1>2, <2>i DEF From
  <2>n. From(hits, i) \in SUBSET (1..n)
    BY DEF From
  <2>2. /\ Cardinality(From(hits, i)) \in Nat /\ Cardinality(From(hits, j)) \in Nat
        /\ Cardinality(From(hits, j)) < Cardinality(From(hits, i))
    BY <2>1, <2>3, <2>4, <2>n, FewerPositions
  <2> QED
    BY <2>2
<1> DEFINE C(i) == Cardinality(From(hits, i))
<1>3. \A i \in hits : C(i) \in Nat
  BY <1>1
<1>4. \A i, j \in hits : i < j => C(i) > C(j)
  BY <1>2
<1>5. \A i, j \in hits : C(j) <= C(i) => i <= j
  <2> HIDE DEF C
  <2> QED
    BY <1>i, <1>3, <1>4
<1>6. \A i, j \in hits : C(i) = C(j) => i = j
  <2> HIDE DEF C
  <2> QED
    BY <1>i, <1>3, <1>4
<1> QED
  BY <1>1, <1>2, <1>5, <1>6

(* Every place up to their number is taken.                                 *)
LEMMA FromOnto ==
  ASSUME NEW n \in Nat, NEW hits \in SUBSET (1..n), NEW d \in 1..Cardinality(hits)
  PROVE  \E i \in hits : Cardinality(From(hits, i)) = d
<1> DEFINE N == Newest(hits, d)
           M == Newest(hits, d - 1)
<1>c. Cardinality(hits) \in Nat
  BY PositionsFinite
<1>1. Cardinality(hits) \in Nat /\ d \in Nat /\ d - 1 \in Nat
  BY <1>c
<1>2. Cardinality(N) = d
  <2>1. Cardinality(N) = IF Cardinality(hits) <= d THEN Cardinality(hits) ELSE d
    BY <1>1, NewestCount
  <2> QED
    BY <1>1, <2>1
<1>3. Cardinality(M) = d - 1
  <2>1. Cardinality(M) = IF Cardinality(hits) <= d - 1 THEN Cardinality(hits) ELSE d - 1
    BY <1>1, NewestCount
  <2> QED
    BY <1>1, <2>1
<1>4. N \in SUBSET (1..n) /\ M \in SUBSET (1..n)
  BY DEF Newest
<1>5. ~(N \subseteq M)
  <2> SUFFICES ASSUME N \subseteq M PROVE FALSE
    OBVIOUS
  <2> HIDE DEF N, M
  <2>1. Cardinality(N) <= Cardinality(M)
    BY <1>4, FewerPositions
  <2> QED
    BY <1>1, <1>2, <1>3, <2>1
<1>6. PICK i \in N : i \notin M
  BY <1>5
<1>7. i \in hits /\ ~(Cardinality(From(hits, i)) > d) /\ Cardinality(From(hits, i)) > d - 1
  BY <1>6 DEF Newest, From
<1>8. Cardinality(From(hits, i)) \in Nat
  <2>1. Cardinality(From(hits, i)) \in 1..Cardinality(hits)
    BY <1>7, FromIs
  <2> QED
    BY <1>c, <2>1
<1> QED
  BY <1>1, <1>7, <1>8

-----------------------------------------------------------------------------
(* Greatest values.                                                         *)

(* Max picks the greatest of a set of bounded numbers.                      *)
LEMMA MaxWithin ==
  ASSUME NEW n \in Nat, NEW S \in SUBSET (0..n), S # {}
  PROVE  Max(S) \in S /\ \A i \in S : i <= Max(S)
<1> DEFINE T == {k \in Nat : \A i \in S : i <= k}
<1>1. n \in T
  OBVIOUS
<1>2. PICK m \in T : \A k \in T : m <= k
  BY <1>1, LeastExists
<1>3. m \in S
  <2> SUFFICES ASSUME m \notin S PROVE FALSE
    OBVIOUS
  <2>0. \A i \in S : i \in Nat /\ i <= m
    BY <1>2
  <2>1. m # 0
    <3>1. PICK s \in S : TRUE
      OBVIOUS
    <3> QED
      BY <2>0, <3>1
  <2>2. m - 1 \in T
    BY <1>2, <2>0, <2>1
  <2> QED
    BY <1>2, <2>2
<1> QED
  BY <1>2, <1>3 DEF Max

(* Values over finitely many positions have a greatest one.                 *)
LEMMA GreatestValue ==
  ASSUME NEW n \in Nat, NEW T \in SUBSET (1..n), T # {}, NEW f \in [T -> Nat]
  PROVE  Max({f[i] : i \in T}) \in {f[i] : i \in T}
<1> DEFINE Bounds(m) == {u \in Nat : \A i \in T : i <= m => f[i] <= u}
           S == {f[i] : i \in T}
<1>t. \A i \in T : i \in 1..n /\ f[i] \in Nat
  OBVIOUS
<1>1. Bounds(n) # {}
  <2> SUFFICES ASSUME Bounds(n) = {} PROVE FALSE
    OBVIOUS
  <2> DEFINE Bad == {m \in Nat : Bounds(m) = {}}
  <2>1. Bad \in SUBSET Nat /\ n \in Bad
    OBVIOUS
  <2>2. PICK m \in Bad : \A k \in Bad : m <= k
    BY <2>1, LeastExists
  <2>3. m \in Nat /\ m # 0
    <3>1. 0 \in Bounds(0)
      BY <1>t
    <3>2. 0 \notin Bad
      BY <3>1
    <3> HIDE DEF Bounds, Bad
    <3> QED
      BY <2>1, <2>2, <3>2
  <2>4. m - 1 \in Nat /\ m - 1 \notin Bad
    <3>1. m - 1 \in Nat /\ ~(m <= m - 1)
      BY <2>3
    <3> HIDE DEF Bad
    <3> QED
      BY <2>2, <3>1
  <2>5. PICK u \in Nat : \A i \in T : i <= m - 1 => f[i] <= u
    BY <2>4
  <2>6. \A i \in T : i <= m => i <= m - 1 \/ i = m
    BY <1>t, <2>3
  <2>7. CASE m \in T
    <3> DEFINE b == IF f[m] <= u THEN u ELSE f[m]
    <3>1. b \in Nat /\ u <= b /\ f[m] <= b
      BY <1>t, <2>7
    <3>2. \A i \in T : i <= m => f[i] <= b
      BY <1>t, <2>5, <2>6, <3>1
    <3>3. b \in Bounds(m)
      BY <3>1, <3>2
    <3> QED
      BY <2>2, <3>3
  <2>8. CASE m \notin T
    <3>1. u \in Bounds(m)
      BY <2>5, <2>6, <2>8
    <3> QED
      BY <2>2, <3>1
  <2> QED
    BY <2>7, <2>8
<1>2. PICK u \in Nat : \A i \in T : f[i] <= u
  BY <1>1, <1>t
<1>3. S \in SUBSET (0..u) /\ S # {}
  <2>1. \A i \in T : f[i] \in 0..u
    BY <1>2, <1>t
  <2> QED
    BY <2>1
<1> HIDE DEF S
<1>4. Max(S) \in S
  BY <1>3, MaxWithin
<1> QED
  BY <1>4 DEF S

(***************************************************************************)
(* Of positions that take turns, as many have fewer than left before them  *)
(* as left says, if there are that many.                                   *)
(***************************************************************************)
LEMMA FirstTurns ==
  ASSUME NEW n \in Nat, NEW S \in SUBSET (1..n), NEW turn \in [S -> Int],
         \A i, j \in S : turn[i] = turn[j] => i = j,
         NEW left \in Nat, left <= Cardinality(S)
  PROVE  Cardinality({i \in S : Cardinality({j \in S : turn[j] < turn[i]}) < left}) = left
<1> DEFINE Before(i) == {j \in S : turn[j] < turn[i]}
           c == Cardinality(S)
           R == [i \in S |-> Cardinality(Before(i))]
           A == {i \in S : R[i] < left}
<1>1. IsFiniteSet(S) /\ c \in Nat
  BY PositionsFinite
<1>2. \A i, j \in S : turn[i] < turn[j] => R[i] < R[j]
  <2> SUFFICES ASSUME NEW i \in S, NEW j \in S, turn[i] < turn[j] PROVE R[i] < R[j]
    OBVIOUS
  <2>0. turn[i] \in Int
    OBVIOUS
  <2>1. Before(j) \in SUBSET (1..n) /\ i \in Before(j) /\ i \notin Before(i)
    <3>1. \A k \in Before(j) : k \in 1..n
      OBVIOUS
    <3>2. i \in Before(j)
      OBVIOUS
    <3>3. i \notin Before(i)
      BY <2>0
    <3> HIDE DEF Before
    <3> QED
      BY <3>1, <3>2, <3>3
  <2>2. \A k \in Before(i) : k \in Before(j)
    <3> SUFFICES ASSUME NEW k \in S, turn[k] < turn[i] PROVE turn[k] < turn[j]
      OBVIOUS
    <3>1. turn[k] \in Int /\ turn[i] \in Int /\ turn[j] \in Int
      OBVIOUS
    <3> QED
      BY <3>1
  <2> HIDE DEF Before
  <2>3. Before(i) \in SUBSET Before(j) /\ Before(i) # Before(j)
    BY <2>1, <2>2
  <2>4. Cardinality(Before(i)) < Cardinality(Before(j))
    BY <2>1, <2>3, FewerPositions
  <2> QED
    BY <2>4
<1>3. \A i, j \in S : R[i] = R[j] => i = j
  <2> SUFFICES ASSUME NEW i \in S, NEW j \in S, R[i] = R[j] PROVE i = j
    OBVIOUS
  <2>1. R[i] \in Nat /\ R[j] \in Nat
    <3>1. Before(i) \in SUBSET (1..n) /\ Before(j) \in SUBSET (1..n)
      OBVIOUS
    <3> QED
      BY <3>1, PositionsFinite
  <2>2. turn[i] \in Int /\ turn[j] \in Int
    OBVIOUS
  <2> HIDE DEF R
  <2>3. ~(turn[i] < turn[j]) /\ ~(turn[j] < turn[i])
    BY <1>2, <2>1
  <2> QED
    BY <2>2, <2>3
<1>4. R \in [S -> 0..(c - 1)]
  <2> SUFFICES ASSUME NEW i \in S PROVE Cardinality(Before(i)) \in 0..(c - 1)
    OBVIOUS
  <2>1. Before(i) \in SUBSET S /\ i \notin Before(i)
    OBVIOUS
  <2> HIDE DEF Before
  <2>2. Cardinality(Before(i)) \in Nat /\ Cardinality(Before(i)) < c
    BY <2>1, FewerPositions
  <2> QED
    BY <1>1, <2>2
<1>5. IsFiniteSet(0..(c - 1)) /\ Cardinality(0..(c - 1)) = c
  <2> HIDE DEF c
  <2>1. 0 \in Int /\ c - 1 \in Int
    BY <1>1
  <2>2. Cardinality(0..(c - 1)) = IF 0 > c - 1 THEN 0 ELSE (c - 1) - 0 + 1
    BY <2>1, FS_Interval
  <2>3. IsFiniteSet(0..(c - 1))
    BY <2>1, FS_Interval
  <2> QED
    BY <1>1, <2>2, <2>3
<1>6. \A d \in 0..(c - 1) : \E i \in S : R[i] = d
  <2> HIDE DEF R, c
  <2>1. R \in Injection(S, 0..(c - 1))
    BY <1>3, <1>4, Fun_IsInj
  <2>2. R \in Surjection(S, 0..(c - 1))
    BY <1>5, <2>1, FS_Injection DEF c
  <2> QED
    BY <2>2, Fun_SurjectionProperties
<1>7. left \in 0..c
  BY <1>1
<1> DEFINE f == [i \in A |-> R[i]]
<1>8. f \in [A -> 0..(left - 1)]
  <2> SUFFICES ASSUME NEW i \in A PROVE R[i] \in 0..(left - 1)
    OBVIOUS
  <2>1. R[i] \in Nat /\ R[i] < left
    BY <1>1, <1>4
  <2> QED
    BY <2>1
<1>9. f \in Bijection(A, 0..(left - 1))
  <2>1. \A i, j \in A : f[i] = f[j] => i = j
    BY <1>3
  <2>2. \A d \in 0..(left - 1) : \E i \in A : f[i] = d
    <3> SUFFICES ASSUME NEW d \in 0..(left - 1) PROVE \E i \in A : f[i] = d
      OBVIOUS
    <3>1. d \in 0..(c - 1) /\ d < left
      BY <1>1, <1>7
    <3>2. PICK i \in S : R[i] = d
      BY <1>6, <3>1
    <3> QED
      BY <3>1, <3>2
  <2> HIDE DEF f, A
  <2> QED
    BY <1>8, <2>1, <2>2, Fun_IsInj, Fun_IsSurj DEF Bijection
<1>10. IsFiniteSet(A)
  BY <1>1, FS_Subset
<1>11. Cardinality(0..(left - 1)) = left
  BY FS_Interval
<1> HIDE DEF f, A
<1>12. Cardinality(A) = left
  BY <1>9, <1>10, <1>11, FS_Bijection DEF ExistsBijection
<1> QED
  BY <1>12 DEF A

-----------------------------------------------------------------------------
(* Series and their ends.                                                   *)

(* A point's depth tells its place in its series.                           *)
LEMMA DepthIs ==
  ASSUME NEW h \in Seq(Points), NEW k
  PROVE  LET P == PointsOf(h, k)
         IN /\ P \in SUBSET (1..Len(h)) /\ Cardinality(P) \in Nat
            /\ \A i \in P : /\ Depth(h, i) = Cardinality(From(P, i))
                            /\ Depth(h, i) \in 1..Cardinality(P)
            /\ \A i, j \in P : Depth(h, i) = Depth(h, j) => i = j
            /\ \A i, j \in P : Depth(h, j) <= Depth(h, i) <=> i <= j
            /\ \A d \in 1..Cardinality(P) : \E i \in P : Depth(h, i) = d
            /\ \A q \in Nat : {i \in P : Depth(h, i) <= q} = Newest(P, q)
<1> DEFINE P == PointsOf(h, k)
<1>1. P \in SUBSET (1..Len(h)) /\ Len(h) \in Nat
  BY DEF PointsOf
<1>2. Cardinality(P) \in Nat
  BY <1>1, PositionsFinite
<1>3. \A i \in P : Depth(h, i) = Cardinality(From(P, i))
  BY DEF Depth, From, PointsOf
<1> HIDE DEF P
<1>4. \A i \in P : Cardinality(From(P, i)) \in 1..Cardinality(P)
  BY <1>1, FromIs
<1>5. \A i, j \in P : Cardinality(From(P, i)) = Cardinality(From(P, j)) => i = j
  BY <1>1, FromIs
<1>6. \A i, j \in P : Cardinality(From(P, j)) <= Cardinality(From(P, i)) <=> i <= j
  <2> SUFFICES ASSUME NEW i \in P, NEW j \in P
               PROVE  Cardinality(From(P, j)) <= Cardinality(From(P, i)) <=> i <= j
    OBVIOUS
  <2>1. Cardinality(From(P, j)) <= Cardinality(From(P, i)) => i <= j
    BY <1>1, FromIs
  <2>2. i < j => Cardinality(From(P, i)) > Cardinality(From(P, j))
    BY <1>1, FromIs
  <2>3. i \in Int /\ j \in Int /\ Cardinality(From(P, i)) \in Int /\ Cardinality(From(P, j)) \in Int
    BY <1>1, <1>4
  <2>4. i = j => Cardinality(From(P, j)) <= Cardinality(From(P, i))
    BY <2>3
  <2> QED
    BY <2>1, <2>2, <2>3, <2>4
<1>7. \A d \in 1..Cardinality(P) : \E i \in P : Cardinality(From(P, i)) = d
  BY <1>1, FromOnto
<1>8. \A q \in Nat : {i \in P : Depth(h, i) <= q} = Newest(P, q)
  <2> SUFFICES ASSUME NEW q \in Nat, NEW i \in P
               PROVE  Depth(h, i) <= q <=> ~(Cardinality({j \in P : j >= i}) > q)
    BY DEF Newest
  <2>1. Cardinality({j \in P : j >= i}) = Depth(h, i) /\ Depth(h, i) \in Int
    BY <1>3, <1>4 DEF From
  <2> QED
    BY <2>1
<1> QED
  BY <1>1, <1>2, <1>3, <1>4, <1>5, <1>6, <1>7, <1>8 DEF P

(***************************************************************************)
(* r keeps the end of h's series, with n more points behind it.            *)
(***************************************************************************)
TailKept(h, r, k, n) ==
  /\ Cardinality(PointsOf(r, k)) <= Cardinality(PointsOf(h, k)) + n
  /\ \A i \in PointsOf(h, k), j \in PointsOf(r, k) :
       Depth(r, j) = Depth(h, i) + n => r[j] = h[i]

(* A history keeps its own tails.                                           *)
LEMMA TailSame ==
  ASSUME NEW h \in Seq(Points), NEW k
  PROVE  TailKept(h, h, k, 0)
<1>1. /\ Cardinality(PointsOf(h, k)) \in Nat
      /\ \A i \in PointsOf(h, k) : Depth(h, i) \in Nat
      /\ \A i, j \in PointsOf(h, k) : Depth(h, i) = Depth(h, j) => i = j
  BY DepthIs
<1>2. Cardinality(PointsOf(h, k)) <= Cardinality(PointsOf(h, k)) + 0
  BY <1>1
<1>3. ASSUME NEW i \in PointsOf(h, k), NEW j \in PointsOf(h, k), Depth(h, j) = Depth(h, i) + 0
      PROVE  h[j] = h[i]
  <2>1. Depth(h, j) = Depth(h, i)
    BY <1>1, <1>3
  <2> QED
    BY <1>1, <2>1
<1> QED
  BY <1>2, <1>3 DEF TailKept

(* What is kept of a kept tail is kept.                                     *)
LEMMA TailTransitive ==
  ASSUME NEW h \in Seq(Points), NEW r \in Seq(Points), NEW s \in Seq(Points), NEW k,
         NEW n \in Nat, TailKept(h, r, k, n), TailKept(r, s, k, 0)
  PROVE  TailKept(h, s, k, n)
<1>1. /\ Cardinality(PointsOf(h, k)) \in Nat /\ Cardinality(PointsOf(r, k)) \in Nat
      /\ Cardinality(PointsOf(s, k)) \in Nat
  BY DepthIs
<1>2. /\ Cardinality(PointsOf(r, k)) <= Cardinality(PointsOf(h, k)) + n
      /\ Cardinality(PointsOf(s, k)) <= Cardinality(PointsOf(r, k)) + 0
  BY DEF TailKept
<1>3. ASSUME NEW i \in PointsOf(h, k), NEW j \in PointsOf(s, k), Depth(s, j) = Depth(h, i) + n
      PROVE  s[j] = h[i]
  <2>1. Depth(s, j) \in 1..Cardinality(PointsOf(s, k))
    BY DepthIs
  <2>2. Depth(s, j) \in 1..Cardinality(PointsOf(r, k))
    BY <1>1, <1>2, <2>1
  <2>3. PICK m \in PointsOf(r, k) : Depth(r, m) = Depth(s, j)
    BY <2>2, DepthIs
  <2>4. Depth(s, j) = Depth(r, m) + 0
    BY <2>1, <2>3
  <2>5. s[j] = r[m]
    BY <2>4 DEF TailKept
  <2>6. r[m] = h[i]
    BY <1>3, <2>3 DEF TailKept
  <2> QED
    BY <2>5, <2>6
<1>4. Cardinality(PointsOf(s, k)) <= Cardinality(PointsOf(h, k)) + n
  BY <1>1, <1>2
<1> QED
  BY <1>3, <1>4 DEF TailKept

(* Points go from the old end of a series.                                  *)
LEMMA TailWithout ==
  ASSUME NEW h \in Seq(Points), NEW doomed, NEW k,
         \A i, j \in PointsOf(h, k) : i \notin doomed /\ i <= j => j \notin doomed
  PROVE  TailKept(h, Without(h, doomed), k, 0)
<1> DEFINE r == Without(h, doomed)
           P == PointsOf(h, k)
           R == PointsOf(r, k)
<1>1. PICK e : Comes(h, doomed, e)
  BY WithoutIs
<1>2. \A l \in DOMAIN r : e[l] \in DOMAIN h \ doomed /\ r[l] = h[e[l]] /\ l \in Int /\ e[l] \in Int
  <2> DEFINE kept == DOMAIN h \ doomed
             c == Cardinality(kept)
  <2>0. c \in Nat /\ DOMAIN r = 1..c /\ r = [l \in 1..c |-> h[e[l]]] /\ e \in [1..c -> kept]
    BY <1>1 DEF Comes
  <2>1. \A l \in DOMAIN r : e[l] \in kept /\ r[l] = h[e[l]] /\ l \in Int
    <3> HIDE DEF c, kept, r
    <3> QED
      BY <2>0
  <2>2. \A i \in DOMAIN h : i \in Int
    OBVIOUS
  <2> HIDE DEF r
  <2> QED
    BY <2>1, <2>2
<1>3. \A l, m \in DOMAIN r : l < m <=> e[l] < e[m]
  BY <1>1 DEF Comes
<1>4. \A l \in R : e[l] \in P /\ e[l] \notin doomed /\ r[l] = h[e[l]] /\ l \in DOMAIN r
  BY <1>2 DEF PointsOf
<1>5. r \in Seq(Points)
  BY WithoutType
<1>6. ASSUME NEW j \in R PROVE Depth(r, j) = Depth(h, e[j])
  <2> DEFINE H == From(P, e[j])
  <2>1. H \in SUBSET DOMAIN h
    BY DEF From, PointsOf
  <2>2. H \ doomed = H
    BY <1>4, <1>2 DEF From, PointsOf
  <2>3. Places(h, doomed, e, H) = From(R, j)
    <3>1. ASSUME NEW l \in DOMAIN r PROVE e[l] \in H <=> l \in From(R, j)
      <4>1. e[l] \in P <=> l \in R
        BY <1>2 DEF PointsOf
      <4>2. e[l] >= e[j] <=> l >= j
        <5>1. /\ l \in Int /\ j \in Int /\ e[l] \in Int /\ e[j] \in Int
              /\ (l < j <=> e[l] < e[j])
          BY <1>2, <1>3, <1>4
        <5> QED
          BY <5>1
      <4> QED
        BY <4>1, <4>2 DEF From
    <3>2. From(R, j) \subseteq DOMAIN r
      BY DEF From, PointsOf
    <3> HIDE DEF H, R, r
    <3> QED
      BY <3>1, <3>2 DEF Places, r
  <2>4. Cardinality(From(R, j)) = Cardinality(H)
    <3> HIDE DEF H, R, r, P
    <3> QED
      BY <1>1, <2>1, <2>2, <2>3, PlacesCount
  <2> HIDE DEF r
  <2> QED
    BY <1>4, <1>5, <2>4, DepthIs
<1>7. Cardinality(R) <= Cardinality(P) + 0
  <2>1. P \ doomed \in SUBSET P /\ P \in SUBSET (1..Len(h)) /\ Len(h) \in Nat
    BY DEF PointsOf
  <2>2. Cardinality(R) = Cardinality(P \ doomed)
    BY PointsLeft
  <2>3. /\ Cardinality(P) \in Nat /\ Cardinality(P \ doomed) \in Nat
        /\ Cardinality(P \ doomed) <= Cardinality(P)
    BY <2>1, FewerPositions
  <2> HIDE DEF P, R
  <2> QED
    BY <2>2, <2>3
<1>8. ASSUME NEW i \in P, NEW j \in R, Depth(r, j) = Depth(h, i) + 0 PROVE r[j] = h[i]
  <2>1. Depth(h, i) \in 1..Cardinality(P)
    BY DepthIs
  <2>2. Depth(h, i) = Depth(h, e[j])
    BY <1>6, <1>8, <2>1
  <2>3. i = e[j]
    BY <1>4, <2>2, DepthIs
  <2> QED
    BY <1>4, <2>3
<1> QED
  BY <1>7, <1>8 DEF TailKept

(* An appended point is one more behind its own series and behind no other. *)
LEMMA TailAppend ==
  ASSUME NEW h \in Seq(Points), NEW pt \in Points
  PROVE  LET a == Append(h, pt)
         IN /\ a \in Seq(Points)
            /\ \A k : /\ TailKept(h, a, k, IF k = pt.id THEN 1 ELSE 0)
                      /\ Cardinality(PointsOf(a, k))
                           = Cardinality(PointsOf(h, k)) + IF k = pt.id THEN 1 ELSE 0
<1> DEFINE a == Append(h, pt)
           l == Len(h) + 1
<1>1. /\ a \in Seq(Points) /\ Len(h) \in Nat /\ DOMAIN h = 1..Len(h) /\ DOMAIN a = 1..l
      /\ a[l] = pt /\ \A i \in DOMAIN h : a[i] = h[i]
  OBVIOUS
<1> HIDE DEF a
<1> SUFFICES ASSUME NEW k
             PROVE  /\ TailKept(h, a, k, IF k = pt.id THEN 1 ELSE 0)
                    /\ Cardinality(PointsOf(a, k))
                         = Cardinality(PointsOf(h, k)) + IF k = pt.id THEN 1 ELSE 0
  BY <1>1 DEF a
<1> DEFINE P == PointsOf(h, k)
           A == PointsOf(a, k)
<1>2. l \notin P /\ (\A i \in P : i <= l /\ i \in Nat) /\ IsFiniteSet(P) /\ Cardinality(P) \in Nat
  <2>1. P \in SUBSET (1..Len(h))
    BY <1>1 DEF PointsOf
  <2>2. \A i \in P : i \in Nat /\ i <= Len(h)
    BY <1>1, <2>1
  <2>3. IsFiniteSet(P) /\ Cardinality(P) \in Nat
    BY <1>1, <2>1, PositionsFinite
  <2> HIDE DEF P
  <2> QED
    BY <1>1, <2>2, <2>3
<1>3. CASE k = pt.id
  <2>1. A = P \union {l}
    BY <1>1, <1>3 DEF PointsOf
  <2>2. Cardinality(A) = Cardinality(P) + 1
    BY <1>2, <2>1, FS_AddElement
  <2>3. ASSUME NEW i \in P PROVE Depth(a, i) = Depth(h, i) + 1
    <3>1. From(A, i) = From(P, i) \union {l}
      BY <1>2, <2>1 DEF From
    <3>2. l \notin From(P, i) /\ From(P, i) \in SUBSET P
      BY <1>2 DEF From
    <3>3. Cardinality(From(A, i)) = Cardinality(From(P, i)) + 1
      BY <1>2, <3>1, <3>2, FS_Subset, FS_AddElement
    <3>4. Depth(h, i) = Cardinality(From(P, i))
      BY DepthIs
    <3>5. Depth(a, i) = Cardinality(From(A, i))
      BY <1>1, <2>1, DepthIs
    <3> QED
      BY <3>3, <3>4, <3>5
  <2>4. ASSUME NEW i \in P, NEW j \in A, Depth(a, j) = Depth(h, i) + 1 PROVE a[j] = h[i]
    <3>1. Depth(a, j) = Depth(a, i)
      BY <2>3, <2>4
    <3>2. i = j
      BY <1>1, <2>1, <3>1, DepthIs
    <3> QED
      BY <1>1, <3>2 DEF PointsOf
  <2> QED
    BY <1>2, <1>3, <2>2, <2>4 DEF TailKept
<1>4. CASE k # pt.id
  <2>1. A = P
    BY <1>1, <1>4 DEF PointsOf
  <2>2. ASSUME NEW i \in P PROVE Depth(a, i) = Depth(h, i)
    BY <1>1, <2>1, DepthIs
  <2>3. ASSUME NEW i \in P, NEW j \in A, Depth(a, j) = Depth(h, i) + 0 PROVE a[j] = h[i]
    <3>1. Depth(h, i) \in 1..Cardinality(P)
      BY DepthIs
    <3>2. Depth(h, j) = Depth(h, i)
      BY <2>1, <2>2, <2>3, <3>1
    <3>3. i = j
      BY <2>1, <3>2, DepthIs
    <3> QED
      BY <1>1, <3>3 DEF PointsOf
  <2>4. Cardinality(A) = Cardinality(P) + 0
    BY <1>2, <2>1
  <2> QED
    BY <1>2, <1>4, <2>3, <2>4 DEF TailKept
<1> QED
  BY <1>3, <1>4

(* Of the routes' points, as many remain as are not doomed.                 *)
LEMMA RoutesLeft ==
  ASSUME NEW h \in Seq(Points), NEW doomed
  PROVE  /\ Cardinality(RoutePoints(Without(h, doomed)))
              = Cardinality(RoutePoints(h) \ doomed)
         /\ Cardinality(RoutePoints(h)) \in Nat
         /\ Cardinality(RoutePoints(h) \ doomed) <= Cardinality(RoutePoints(h))
<1>1. PICK e : Comes(h, doomed, e)
  BY WithoutIs
<1> DEFINE r == Without(h, doomed)
<1>2. \A l \in DOMAIN r : e[l] \in DOMAIN h /\ r[l] = h[e[l]]
  BY <1>1 DEF Comes
<1>3. RoutePoints(r) = Places(h, doomed, e, RoutePoints(h))
  BY <1>2 DEF RoutePoints, Places
<1>4. RoutePoints(h) \in SUBSET DOMAIN h /\ RoutePoints(h) \in SUBSET (1..Len(h))
      /\ Len(h) \in Nat /\ RoutePoints(h) \ doomed \in SUBSET RoutePoints(h)
  BY DEF RoutePoints
<1>5. Cardinality(RoutePoints(r)) = Cardinality(RoutePoints(h) \ doomed)
  BY <1>1, <1>3, <1>4, PlacesCount
<1> QED
  BY <1>4, <1>5, FewerPositions

-----------------------------------------------------------------------------
(***************************************************************************)
(* The budget of the routes.  Quota is the largest number of newest points *)
(* that every route can keep; one more of each would not fit.              *)
(***************************************************************************)
Within(h, q) == {i \in RoutePoints(h) : Depth(h, i) <= q}
Quota(h)     == Max({q \in 0..Len(h) : Cardinality(Within(h, q)) <= MaxRoutes})
Behind(h)    == {i \in RoutePoints(h) : Depth(h, i) = Quota(h) + 1}

(* A route's point has a depth in its series, between one and the length.   *)
LEMMA RouteDepths ==
  ASSUME NEW h \in Seq(Points)
  PROVE  /\ Len(h) \in Nat /\ RoutePoints(h) \in SUBSET (1..Len(h))
         /\ \A i \in RoutePoints(h) : /\ h[i].id \in RouteKeys /\ i \in PointsOf(h, h[i].id)
                                      /\ Depth(h, i) \in 1..Len(h)
         /\ \A k \in RouteKeys : PointsOf(h, k) \subseteq RoutePoints(h)
<1>1. Len(h) \in Nat /\ DOMAIN h = 1..Len(h)
  OBVIOUS
<1>2. \A i \in RoutePoints(h) : h[i].id \in RouteKeys /\ i \in PointsOf(h, h[i].id)
  BY DEF RoutePoints, PointsOf
<1>3. ASSUME NEW i \in RoutePoints(h) PROVE Depth(h, i) \in 1..Len(h)
  <2> DEFINE P == PointsOf(h, h[i].id)
  <2>1. i \in P /\ P \in SUBSET (1..Len(h))
    BY <1>2, DepthIs
  <2>2. Depth(h, i) \in 1..Cardinality(P)
    BY <2>1, DepthIs
  <2>3. Cardinality(1..Len(h)) = Len(h)
    BY <1>1, FS_Interval
  <2>4. Cardinality(P) \in Nat /\ Cardinality(P) <= Len(h)
    <3> HIDE DEF P
    <3>1. (1..Len(h)) \in SUBSET (1..Len(h))
      OBVIOUS
    <3>2. Cardinality(P) \in Nat /\ Cardinality(P) <= Cardinality(1..Len(h))
      BY <1>1, <2>1, <3>1, FewerPositions
    <3> QED
      BY <2>3, <3>2
  <2> HIDE DEF P
  <2> QED
    BY <1>1, <2>2, <2>4
<1> QED
  BY <1>1, <1>2, <1>3 DEF RoutePoints, PointsOf

(* When the routes exceed their budget, the quota fits and one more does    *)
(* not.                                                                     *)
LEMMA QuotaIs ==
  ASSUME NEW h \in Seq(Points), Cardinality(RoutePoints(h)) > MaxRoutes
  PROVE  /\ Quota(h) \in Nat
         /\ Cardinality(Within(h, Quota(h))) <= MaxRoutes
         /\ Cardinality(Within(h, Quota(h) + 1)) > MaxRoutes
<1> DEFINE C(q) == Cardinality(Within(h, q))
           S == {q \in 0..Len(h) : C(q) <= MaxRoutes}
<1>1. /\ Len(h) \in Nat /\ RoutePoints(h) \in SUBSET (1..Len(h))
      /\ \A i \in RoutePoints(h) : Depth(h, i) \in 1..Len(h)
  BY RouteDepths
<1>2. \A q : C(q) \in Nat
  <2>1. \A q : Within(h, q) \in SUBSET (1..Len(h))
    BY <1>1 DEF Within
  <2> QED
    BY <1>1, <2>1, PositionsFinite
<1>3. MaxRoutes \in Nat
  BY RetentionAssumption
<1>4. 0 \in S
  <2>1. Within(h, 0) = {}
    BY <1>1 DEF Within
  <2>2. C(0) = 0
    BY <2>1, FS_EmptySet
  <2> QED
    BY <1>1, <1>3, <2>2
<1>5. Len(h) \notin S
  <2>1. Within(h, Len(h)) = RoutePoints(h)
    BY <1>1 DEF Within
  <2>2. C(Len(h)) > MaxRoutes
    BY <2>1
  <2>3. ~(C(Len(h)) <= MaxRoutes)
    BY <1>2, <1>3, <2>2
  <2> QED
    BY <2>3
<1> HIDE DEF C
<1>6. Max(S) \in S /\ \A q \in S : q <= Max(S)
  <2>1. S \in SUBSET (0..Len(h)) /\ S # {}
    BY <1>4
  <2> HIDE DEF S
  <2> QED
    BY <1>1, <2>1, MaxWithin
<1>7. Max(S) \in 0..Len(h) /\ C(Max(S)) <= MaxRoutes /\ Max(S) # Len(h)
  BY <1>5, <1>6
<1>8. Max(S) + 1 \in 0..Len(h) /\ ~(Max(S) + 1 <= Max(S))
  BY <1>1, <1>7
<1>9. Max(S) + 1 \notin S
  <2> HIDE DEF S
  <2> QED
    BY <1>6, <1>8
<1>10. C(Max(S) + 1) > MaxRoutes
  BY <1>2, <1>3, <1>8, <1>9
<1>11. Quota(h) = Max(S)
  BY DEF Quota, C
<1> HIDE DEF S
<1> QED
  BY <1>7, <1>10, <1>11 DEF C

(* What is within the quota of a series, and within one more.               *)
LEMMA QuotaCounts ==
  ASSUME NEW h \in Seq(Points), NEW k, NEW q \in Nat
  PROVE  LET P == PointsOf(h, k)
             c == Cardinality(P)
         IN /\ Cardinality({i \in P : Depth(h, i) <= q}) = IF c <= q THEN c ELSE q
            /\ c \in Nat
<1> DEFINE P == PointsOf(h, k)
<1>1. P \in SUBSET (1..Len(h)) /\ Cardinality(P) \in Nat /\ {i \in P : Depth(h, i) <= q} = Newest(P, q)
  BY DepthIs
<1>2. Len(h) \in Nat
  OBVIOUS
<1> HIDE DEF P
<1> QED
  BY <1>1, <1>2, NewestCount DEF P

(* As many routes' next-newest points are kept as the budget has left.      *)
LEMMA BudgetSpent ==
  ASSUME NEW h \in Seq(Points), Cardinality(RoutePoints(h)) > MaxRoutes,
         NEW added \in SUBSET Behind(h),
         Cardinality(added) = MaxRoutes - Cardinality(Within(h, Quota(h)))
  PROVE  LET doomed == RoutePoints(h) \ (Within(h, Quota(h)) \union added)
         IN Cardinality(RoutePoints(h) \ doomed) = MaxRoutes
<1> DEFINE W == Within(h, Quota(h))
           doomed == RoutePoints(h) \ (W \union added)
<1>1. Quota(h) \in Nat
  BY QuotaIs
<1>2. /\ W \in SUBSET (1..Len(h)) /\ added \in SUBSET (1..Len(h)) /\ Len(h) \in Nat
      /\ W \subseteq RoutePoints(h) /\ added \subseteq RoutePoints(h)
  BY RouteDepths DEF Within, Behind
<1>3. W \intersect added = {}
  BY <1>1 DEF Within, Behind
<1>4. RoutePoints(h) \ doomed = W \union added
  BY <1>2
<1>5. /\ IsFiniteSet(W) /\ IsFiniteSet(added)
      /\ Cardinality(W) \in Nat /\ Cardinality(added) \in Nat
  BY <1>2, PositionsFinite
<1>6. Cardinality(W \union added) = Cardinality(W) + Cardinality(added) - Cardinality(W \intersect added)
  BY <1>5, FS_Union
<1>7. Cardinality(W \intersect added) = 0
  BY <1>3, FS_EmptySet
<1>8. Cardinality(added) = MaxRoutes - Cardinality(W)
  OBVIOUS
<1>9. MaxRoutes \in Nat
  BY RetentionAssumption
<1> HIDE DEF W
<1>10. Cardinality(W \union added) = MaxRoutes
  BY <1>5, <1>6, <1>7, <1>8, <1>9
<1> QED
  BY <1>4, <1>10 DEF W

(* More points are behind the quota than the budget has left.               *)
LEMMA EnoughBehind ==
  ASSUME NEW h \in Seq(Points), Cardinality(RoutePoints(h)) > MaxRoutes
  PROVE  LET left == MaxRoutes - Cardinality(Within(h, Quota(h)))
         IN left \in Nat /\ left <= Cardinality(Behind(h))
<1> DEFINE W == Within(h, Quota(h))
<1>1. /\ Quota(h) \in Nat /\ Cardinality(W) <= MaxRoutes
      /\ Cardinality(Within(h, Quota(h) + 1)) > MaxRoutes
  BY QuotaIs
<1>2. W \in SUBSET (1..Len(h)) /\ Behind(h) \in SUBSET (1..Len(h)) /\ Len(h) \in Nat
  BY RouteDepths DEF Within, Behind
<1>3. /\ IsFiniteSet(W) /\ IsFiniteSet(Behind(h))
      /\ Cardinality(W) \in Nat /\ Cardinality(Behind(h)) \in Nat
  BY <1>2, PositionsFinite
<1>4. Within(h, Quota(h) + 1) = W \union Behind(h)
  <2>1. \A i \in RoutePoints(h) : Depth(h, i) \in Int
    BY RouteDepths
  <2>2. \A i \in RoutePoints(h) :
          Depth(h, i) <= Quota(h) + 1 <=> Depth(h, i) <= Quota(h) \/ Depth(h, i) = Quota(h) + 1
    BY <1>1, <2>1
  <2> QED
    BY <2>2 DEF Within, Behind
<1>5. Cardinality(W \union Behind(h))
        = Cardinality(W) + Cardinality(Behind(h)) - Cardinality(W \intersect Behind(h))
  BY <1>3, FS_Union
<1>6. Cardinality(W \intersect Behind(h)) \in Nat
  BY <1>3, FS_Intersection, FS_CardinalityType
<1>7. MaxRoutes \in Nat
  BY RetentionAssumption
<1> HIDE DEF W
<1>8. MaxRoutes - Cardinality(W) \in Nat /\ MaxRoutes - Cardinality(W) <= Cardinality(Behind(h))
  <2> DEFINE a == Cardinality(W)
             b == Cardinality(Behind(h))
             c == Cardinality(W \intersect Behind(h))
  <2>1. a \in Nat /\ b \in Nat /\ c \in Nat /\ a <= MaxRoutes /\ a + b - c > MaxRoutes
    BY <1>1, <1>3, <1>4, <1>5, <1>6
  <2> HIDE DEF a, b, c
  <2>2. MaxRoutes - a \in Nat /\ MaxRoutes - a <= b
    BY <1>7, <2>1
  <2> QED
    BY <2>2 DEF a, b
<1> QED
  BY <1>8 DEF W

(* No two of the next-newest points have the same turn.                     *)
Ordered(h, order) ==
  \A i, j \in RoutePoints(h) :
    /\ order[h[i].id] \in Int
    /\ order[h[i].id] = order[h[j].id] => h[i].id = h[j].id

TurnOf(h, order) ==
  [i \in Behind(h) |-> IF Quota(h) = 0 THEN Len(h) - i ELSE order[h[i].id]]

(* No two points one beyond the quota have the same turn.                   *)
LEMMA TurnsDiffer ==
  ASSUME NEW h \in Seq(Points), NEW order, Ordered(h, order)
  PROVE  /\ TurnOf(h, order) \in [Behind(h) -> Int]
         /\ \A i, j \in Behind(h) : TurnOf(h, order)[i] = TurnOf(h, order)[j] => i = j
<1>1. /\ Len(h) \in Nat /\ \A i \in Behind(h) : i \in 1..Len(h) /\ i \in RoutePoints(h)
  BY RouteDepths DEF Behind
<1>2. \A i \in Behind(h) : i \in Int /\ order[h[i].id] \in Int
  BY <1>1 DEF Ordered
<1>3. TurnOf(h, order) \in [Behind(h) -> Int]
  BY <1>1, <1>2 DEF TurnOf
<1>4. ASSUME NEW i \in Behind(h), NEW j \in Behind(h), TurnOf(h, order)[i] = TurnOf(h, order)[j]
      PROVE  i = j
  <2>1. CASE Quota(h) = 0
    <3>1. Len(h) - i = Len(h) - j
      BY <1>4, <2>1 DEF TurnOf
    <3> QED
      BY <1>1, <1>2, <3>1
  <2>2. CASE Quota(h) # 0
    <3>1. order[h[i].id] = order[h[j].id]
      BY <1>4, <2>2 DEF TurnOf
    <3>2. h[i].id = h[j].id
      BY <1>1, <3>1 DEF Ordered
    <3>3. i \in PointsOf(h, h[i].id) /\ j \in PointsOf(h, h[i].id)
      BY <1>1, <3>2, RouteDepths
    <3>4. Depth(h, i) = Depth(h, j)
      BY DEF Behind
    <3> QED
      BY <3>3, <3>4, DepthIs
  <2> QED
    BY <2>1, <2>2
<1> QED
  BY <1>3, <1>4

(* Over the budget, the newest points up to the quota stay, and the first   *)
(* of those behind it for what is left.                                     *)
LEMMA ShareOutOver ==
  ASSUME NEW h \in Seq(Points), NEW order, Ordered(h, order),
         Cardinality(RoutePoints(h)) > MaxRoutes
  PROVE  \E added \in SUBSET Behind(h) :
           /\ Cardinality(added) = MaxRoutes - Cardinality(Within(h, Quota(h)))
           /\ ShareOut(h, order)
                = Without(h, RoutePoints(h) \ (Within(h, Quota(h)) \union added))
<1> DEFINE t == TurnOf(h, order)
           left == MaxRoutes - Cardinality(Within(h, Quota(h)))
           added == {i \in Behind(h) : Cardinality({j \in Behind(h) : t[j] < t[i]}) < left}
<1>1. t \in [Behind(h) -> Int] /\ \A i, j \in Behind(h) : t[i] = t[j] => i = j
  BY TurnsDiffer
<1>2. left \in Nat /\ left <= Cardinality(Behind(h))
  BY EnoughBehind
<1>3. Behind(h) \in SUBSET (1..Len(h)) /\ Len(h) \in Nat
  BY RouteDepths DEF Behind
<1>4. Cardinality(added) = left
  <2> HIDE DEF t, left
  <2> QED
    BY <1>1, <1>2, <1>3, FirstTurns
<1>5. Cardinality(RoutePoints(h)) \in Nat /\ MaxRoutes \in Nat
  BY RoutesLeft, RetentionAssumption
<1>6. ~(Cardinality(RoutePoints(h)) <= MaxRoutes)
  BY <1>5
<1>7. added = {i \in Behind(h) :
                 Cardinality({j \in Behind(h) :
                   (IF Quota(h) = 0 THEN Len(h) - j ELSE order[h[j].id])
                     < (IF Quota(h) = 0 THEN Len(h) - i ELSE order[h[i].id])}) < left}
  <2>1. \A i \in Behind(h) :
          {j \in Behind(h) : t[j] < t[i]}
            = {j \in Behind(h) :
                 (IF Quota(h) = 0 THEN Len(h) - j ELSE order[h[j].id])
                   < (IF Quota(h) = 0 THEN Len(h) - i ELSE order[h[i].id])}
    BY DEF TurnOf
  <2> QED
    BY <2>1, Zenon
<1>8. ShareOut(h, order) = Without(h, RoutePoints(h) \ (Within(h, Quota(h)) \union added))
  BY <1>6, <1>7, Zenon DEF ShareOut, Within, Quota, Behind
<1> QED
  BY <1>4, <1>8

(* What a series keeps: up to the quota, or one more.                       *)
LEMMA SharesAre ==
  ASSUME NEW h \in Seq(Points), Cardinality(RoutePoints(h)) > MaxRoutes,
         NEW added \in SUBSET Behind(h), NEW k \in RouteKeys
  PROVE  LET doomed == RoutePoints(h) \ (Within(h, Quota(h)) \union added)
             P      == PointsOf(h, k)
             c      == Cardinality(P)
             left   == Cardinality(P \ doomed)
         IN /\ c \in Nat /\ left \in Nat /\ left <= Quota(h) + 1
            /\ (IF c <= Quota(h) THEN c ELSE Quota(h)) <= left
            /\ \A i, j \in P : i \notin doomed /\ i <= j => j \notin doomed
<1> DEFINE q == Quota(h)
           W == Within(h, q)
           P == PointsOf(h, k)
           doomed == RoutePoints(h) \ (W \union added)
           K == P \ doomed
           N == {i \in P : Depth(h, i) <= q}
           M == {i \in P : Depth(h, i) <= q + 1}
<1>q. q \in Nat /\ q + 1 \in Nat
  BY QuotaIs
<1>1. /\ P \subseteq RoutePoints(h) /\ Len(h) \in Nat /\ P \in SUBSET (1..Len(h))
      /\ \A i \in P : Depth(h, i) \in Int
      /\ \A i, j \in P : Depth(h, i) = Depth(h, j) => i = j
      /\ \A i, j \in P : Depth(h, j) <= Depth(h, i) <=> i <= j
  BY RouteDepths, DepthIs
<1>2. \A i \in P : i \in K <=> Depth(h, i) <= q \/ i \in added
  BY <1>1 DEF Within
<1>3. \A i \in added : Depth(h, i) = q + 1
  BY DEF Behind
<1>4. N \in SUBSET K /\ K \in SUBSET M /\ M \in SUBSET (1..Len(h)) /\ K \in SUBSET (1..Len(h))
  <2>1. \A i \in N : i \in K
    BY <1>2
  <2>2. \A i \in K : i \in M
    <3> HIDE DEF K, q
    <3>1. \A i \in P : i \in K => Depth(h, i) <= q + 1
      BY <1>q, <1>1, <1>2, <1>3
    <3> QED
      BY <3>1 DEF K
  <2> HIDE DEF N, K
  <2>3. M \subseteq P
    OBVIOUS
  <2> QED
    BY <1>1, <2>1, <2>2, <2>3
<1>5. /\ Cardinality(P) \in Nat
      /\ Cardinality(N) = IF Cardinality(P) <= q THEN Cardinality(P) ELSE q
      /\ Cardinality(M) = IF Cardinality(P) <= q + 1 THEN Cardinality(P) ELSE q + 1
  BY <1>q, QuotaCounts
<1>6. /\ Cardinality(K) \in Nat /\ Cardinality(N) \in Nat /\ Cardinality(M) \in Nat
      /\ Cardinality(N) <= Cardinality(K) /\ Cardinality(K) <= Cardinality(M)
  <2> HIDE DEF N, K, M
  <2> QED
    BY <1>1, <1>4, FewerPositions
<1>7. ASSUME NEW i \in P, NEW j \in P, i \notin doomed, i <= j PROVE j \notin doomed
  <2>1. Depth(h, j) <= Depth(h, i) /\ i \in K
    BY <1>1, <1>7
  <2>2. Depth(h, i) <= q \/ i \in added
    BY <1>2, <2>1
  <2>3. CASE Depth(h, i) <= q
    <3>1. Depth(h, j) <= q
      BY <1>q, <1>1, <2>1, <2>3
    <3> QED
      BY <1>2, <3>1
  <2>4. CASE i \in added
    <3>1. Depth(h, i) = q + 1
      BY <1>3, <2>4
    <3>2. Depth(h, j) <= q \/ Depth(h, j) = Depth(h, i)
      BY <1>q, <1>1, <2>1, <3>1
    <3>3. CASE Depth(h, j) <= q
      BY <1>2, <3>3
    <3>4. CASE Depth(h, j) = Depth(h, i)
      BY <1>1, <1>7, <3>4
    <3> QED
      BY <3>2, <3>3, <3>4
  <2> QED
    BY <2>2, <2>3, <2>4
<1> HIDE DEF N, M, K, P, q
<1>8. Cardinality(K) <= q + 1 /\ (IF Cardinality(P) <= q THEN Cardinality(P) ELSE q) <= Cardinality(K)
  BY <1>q, <1>5, <1>6
<1> QED
  BY <1>5, <1>6, <1>7, <1>8 DEF K, P, q

(***************************************************************************)
(* Sharing the budget out brings the routes within it, takes points off    *)
(* their old ends only, and off no route that another leaves behind by     *)
(* more than a point.                                                      *)
(***************************************************************************)
FairlyLost(h, r) ==
  \A k \in RouteKeys :
    Cardinality(PointsOf(r, k)) < Cardinality(PointsOf(h, k)) =>
      /\ Cardinality(RoutePoints(r)) = MaxRoutes
      /\ \A other \in RouteKeys :
           Cardinality(PointsOf(r, other)) <= Cardinality(PointsOf(r, k)) + 1

(* The budget is kept, and what goes is old and goes evenly.                *)
LEMMA ShareOutIs ==
  ASSUME NEW h \in Seq(Points), NEW order, Ordered(h, order)
  PROVE  LET r == ShareOut(h, order)
         IN /\ LeftOf(h, r) /\ Cardinality(RoutePoints(r)) <= MaxRoutes
            /\ \A k \in RouteKeys : TailKept(h, r, k, 0)
            /\ \A k \in Ids : SeriesKept(h, r, k)
            /\ FairlyLost(h, r)
<1> DEFINE r == ShareOut(h, order)
<1>n. MaxRoutes \in Nat /\ Cardinality(RoutePoints(h)) \in Nat
  BY RetentionAssumption, RoutesLeft
<1>1. CASE Cardinality(RoutePoints(h)) <= MaxRoutes
  <2>1. r = h
    BY <1>1 DEF ShareOut
  <2>2. \A k : Cardinality(PointsOf(h, k)) \in Nat
    BY Counts
  <2>3. FairlyLost(h, h)
    BY <2>2 DEF FairlyLost
  <2> QED
    BY <1>1, <2>1, <2>3, LeftReflexive, TailSame, SeriesReflexive
<1>2. CASE ~(Cardinality(RoutePoints(h)) <= MaxRoutes)
  <2>1. Cardinality(RoutePoints(h)) > MaxRoutes
    BY <1>n, <1>2
  <2>2. PICK added \in SUBSET Behind(h) :
          /\ Cardinality(added) = MaxRoutes - Cardinality(Within(h, Quota(h)))
          /\ r = Without(h, RoutePoints(h) \ (Within(h, Quota(h)) \union added))
    BY <2>1, ShareOutOver
  <2> DEFINE doomed == RoutePoints(h) \ (Within(h, Quota(h)) \union added)
             Kept(k) == Cardinality(PointsOf(h, k) \ doomed)
             q == Quota(h)
  <2>3. r = Without(h, doomed)
    BY <2>2
  <2>4. LeftOf(h, r)
    BY <2>3, WithoutLeaves
  <2>5. Cardinality(RoutePoints(r)) = MaxRoutes
    <3>1. Cardinality(RoutePoints(h) \ doomed) = MaxRoutes
      BY <2>1, <2>2, BudgetSpent
    <3> HIDE DEF doomed, r
    <3> QED
      BY <2>3, <3>1, RoutesLeft
  <2>6. \A k \in RouteKeys :
          LET c == Cardinality(PointsOf(h, k))
          IN /\ c \in Nat /\ Kept(k) \in Nat /\ Kept(k) <= q + 1
             /\ (IF c <= q THEN c ELSE q) <= Kept(k)
             /\ \A i, j \in PointsOf(h, k) : i \notin doomed /\ i <= j => j \notin doomed
    BY <2>1, SharesAre
  <2>7. \A k : Cardinality(PointsOf(r, k)) = Kept(k)
    <3> HIDE DEF doomed, r
    <3> QED
      BY <2>3, PointsLeft
  <2>8. FairlyLost(h, r)
    <3>q. q \in Nat
      BY <2>1, QuotaIs
    <3> HIDE DEF Kept, q, r
    <3> SUFFICES ASSUME NEW k \in RouteKeys, Kept(k) < Cardinality(PointsOf(h, k)),
                        NEW other \in RouteKeys
                 PROVE  Kept(other) <= Kept(k) + 1
      BY <2>5, <2>7 DEF FairlyLost
    <3>1. /\ Cardinality(PointsOf(h, k)) \in Nat /\ Kept(k) \in Nat
          /\ (IF Cardinality(PointsOf(h, k)) <= q THEN Cardinality(PointsOf(h, k)) ELSE q) <= Kept(k)
      BY <2>6
    <3>2. Kept(other) \in Nat /\ Kept(other) <= q + 1
      BY <2>6
    <3> QED
      BY <3>q, <3>1, <3>2
  <2>9. \A k \in RouteKeys : TailKept(h, r, k, 0)
    <3> HIDE DEF doomed, r, Kept, q
    <3> QED
      BY <2>3, <2>6, TailWithout
  <2>10. ASSUME NEW k \in Ids PROVE SeriesKept(h, r, k)
    <3>1. \A j \in PointsOf(h, k) : j \notin doomed
      BY RouteAssumption DEF PointsOf, RoutePoints
    <3> HIDE DEF doomed, r
    <3> QED
      BY <2>3, <3>1, NewestStays
  <2> HIDE DEF r
  <2>11. Cardinality(RoutePoints(r)) <= MaxRoutes
    BY <1>n, <2>5
  <2> QED
    BY <2>4, <2>8, <2>9, <2>10, <2>11 DEF r
<1> QED
  BY <1>1, <1>2

(* In a transaction ...                                                     *)
LEMMA PruneRoutesIs ==
  ASSUME NEW h \in Seq(Points)
  PROVE  LET r == PruneRoutes(h)
         IN /\ LeftOf(h, r) /\ Cardinality(RoutePoints(r)) <= MaxRoutes
            /\ \A k \in RouteKeys : TailKept(h, r, k, 0)
            /\ \A k \in Ids : SeriesKept(h, r, k)
            /\ FairlyLost(h, r)
<1> DEFINE order == [k \in RouteKeys |-> 0 - KeyOrder[k]]
<1>1. ASSUME NEW k \in RouteKeys PROVE order[k] = 0 - KeyOrder[k] /\ KeyOrder[k] \in Nat
  BY RouteAssumption
<1>2. ASSUME NEW k \in RouteKeys, NEW l \in RouteKeys, order[k] = order[l] PROVE k = l
  <2>1. KeyOrder[k] = KeyOrder[l]
    <3>1. 0 - KeyOrder[k] = 0 - KeyOrder[l] /\ KeyOrder[k] \in Nat /\ KeyOrder[l] \in Nat
      BY <1>1, <1>2
    <3> QED
      BY <3>1
  <2> QED
    BY <2>1, RouteAssumption
<1>3. \A i \in RoutePoints(h) : h[i].id \in RouteKeys
  BY DEF RoutePoints
<1>4. \A k \in RouteKeys : order[k] \in Int
  BY <1>1
<1> HIDE DEF order
<1>5. Ordered(h, order)
  BY <1>2, <1>3, <1>4 DEF Ordered
<1>6. PruneRoutes(h) = ShareOut(h, order)
  BY DEF PruneRoutes, order
<1> QED
  BY <1>5, <1>6, ShareOutIs

(* ... and in a migration.                                                  *)
LEMMA FairShareFair ==
  ASSUME NEW h \in Seq(Points)
  PROVE  LET r == FairShare(h)
         IN /\ LeftOf(h, r) /\ Cardinality(RoutePoints(r)) <= MaxRoutes
            /\ \A k \in RouteKeys : TailKept(h, r, k, 0)
            /\ \A k \in Ids : SeriesKept(h, r, k)
            /\ FairlyLost(h, r)
<1> DEFINE order == [k \in {h[i].id : i \in RoutePoints(h)} |-> Min(PointsOf(h, k))]
<1>1. ASSUME NEW i \in RoutePoints(h)
      PROVE  order[h[i].id] \in PointsOf(h, h[i].id) /\ order[h[i].id] \in Int
  <2>1. PointsOf(h, h[i].id) \in SUBSET Nat /\ i \in PointsOf(h, h[i].id)
    <3>1. PointsOf(h, h[i].id) \in SUBSET (1..Len(h))
      BY DepthIs
    <3> QED
      BY <3>1, RouteDepths
  <2>2. Min(PointsOf(h, h[i].id)) \in PointsOf(h, h[i].id)
    BY <2>1, MinIs
  <2> QED
    BY <2>1, <2>2
<1>2. ASSUME NEW i \in RoutePoints(h), NEW j \in RoutePoints(h), order[h[i].id] = order[h[j].id]
      PROVE  h[i].id = h[j].id
  <2>1. order[h[i].id] \in PointsOf(h, h[i].id) /\ order[h[j].id] \in PointsOf(h, h[j].id)
    BY <1>1
  <2> HIDE DEF order
  <2> QED
    BY <1>2, <2>1 DEF PointsOf
<1> HIDE DEF order
<1>3. Ordered(h, order)
  BY <1>1, <1>2 DEF Ordered
<1>4. FairShare(h) = ShareOut(h, order)
  BY DEF FairShare, order
<1> QED
  BY <1>3, <1>4, ShareOutIs

-----------------------------------------------------------------------------
(* What a compaction does.                                                  *)

(* A sequence that loses nothing is as it was.                              *)
Shortened(h, r) == r \in Seq(Points) /\ Len(r) <= Len(h) /\ (Len(r) >= Len(h) => r = h)

(* A removal that removes nothing changes nothing.                          *)
LEMMA WithoutShortens ==
  ASSUME NEW S, NEW h \in Seq(S), NEW doomed
  PROVE  LET r == Without(h, doomed)
         IN /\ r \in Seq(S) /\ Len(r) <= Len(h)
            /\ Len(r) = Cardinality(DOMAIN h \ doomed)
            /\ Len(r) >= Len(h) => r = h /\ doomed \intersect DOMAIN h = {}
<1> DEFINE r == Without(h, doomed)
           n == Len(h)
           kept == DOMAIN h \ doomed
<1>1. PICK e : Comes(h, doomed, e)
  BY WithoutIs
<1>2. n \in Nat /\ DOMAIN h = 1..n /\ kept \in SUBSET (1..n) /\ r \in Seq(S)
  BY WithoutType
<1>3. Cardinality(1..n) = n
  <2> HIDE DEF n
  <2>1. Cardinality(1..n) = IF 1 > n THEN 0 ELSE n - 1 + 1
    BY <1>2, FS_Interval
  <2> QED
    BY <1>2, <2>1
<1>4. /\ Cardinality(kept) \in Nat /\ Cardinality(kept) <= n
      /\ Cardinality(kept) = n => kept = 1..n
  <2>1. /\ Cardinality(kept) \in Nat /\ Cardinality(kept) <= Cardinality(1..n)
        /\ kept # 1..n => Cardinality(kept) < Cardinality(1..n)
    <3> HIDE DEF kept, n
    <3>1. (1..n) \in SUBSET (1..n)
      OBVIOUS
    <3> QED
      BY <1>2, <3>1, FewerPositions
  <2> HIDE DEF kept, n
  <2> QED
    BY <1>2, <1>3, <2>1
<1>5. Len(r) = Cardinality(kept)
  BY <1>1 DEF Comes
<1>6. ASSUME Len(r) >= n PROVE r = h /\ doomed \intersect DOMAIN h = {}
  <2>1. Cardinality(kept) = n
    <3> HIDE DEF n, kept
    <3> QED
      BY <1>2, <1>4, <1>5, <1>6
  <2>2. kept = 1..n /\ doomed \intersect (1..n) = {}
    <3>1. kept = 1..n
      BY <1>4, <2>1
    <3> QED
      BY <1>2, <3>1
  <2>3. e \in [1..n -> 1..n] /\ DOMAIN r = 1..n /\ r = [k \in 1..n |-> h[e[k]]]
        /\ \A k, l \in 1..n : k < l <=> e[k] < e[l]
    <3>1. /\ DOMAIN r = 1..Cardinality(kept) /\ r = [k \in 1..Cardinality(kept) |-> h[e[k]]]
          /\ e \in [1..Cardinality(kept) -> kept]
          /\ \A k, l \in DOMAIN r : k < l <=> e[k] < e[l]
      BY <1>1 DEF Comes
    <3> HIDE DEF kept, r, n
    <3> QED
      BY <2>1, <2>2, <3>1
  <2>4. ASSUME NEW k \in 1..n PROVE e[k] = k
    <3> DEFINE H == 1..e[k]
    <3>1. e[k] \in 1..n /\ e[k] \in Nat /\ k \in Nat
      BY <1>2, <2>3
    <3>2. H \in SUBSET DOMAIN h /\ H \ doomed = H
      BY <1>2, <2>2, <3>1
    <3>3. Places(h, doomed, e, H) = 1..k
      <4>1. ASSUME NEW l \in 1..n PROVE e[l] \in H <=> l \in 1..k
        <5>1. e[l] \in Nat /\ e[l] >= 1 /\ l \in Nat /\ l >= 1 /\ (k < l <=> e[k] < e[l])
          BY <1>2, <2>3
        <5> QED
          BY <3>1, <5>1
      <4>2. (1..k) \subseteq (1..n)
        BY <1>2
      <4> HIDE DEF H, n, r
      <4> QED
        BY <2>3, <4>1, <4>2 DEF Places, r
    <3>4. Cardinality(1..k) = Cardinality(1..e[k])
      <4>1. Cardinality(Places(h, doomed, e, H)) = Cardinality(H \ doomed)
        <5> HIDE DEF H
        <5> QED
          BY <1>1, <3>2, PlacesCount
      <4> QED
        BY <3>2, <3>3, <4>1
    <3>5. Cardinality(1..k) = k /\ Cardinality(1..e[k]) = e[k]
      BY <3>1, FS_Interval
    <3> QED
      BY <3>4, <3>5
  <2>5. r = [k \in 1..n |-> h[k]]
    <3> HIDE DEF r, n
    <3> QED
      BY <2>3, <2>4
  <2>6. h = [k \in 1..n |-> h[k]]
    OBVIOUS
  <2> QED
    BY <1>2, <2>2, <2>5, <2>6
<1> QED
  BY <1>2, <1>4, <1>5, <1>6

(* Nothing is doomed: nothing goes.                                         *)
LEMMA WithoutNothing ==
  ASSUME NEW S, NEW h \in Seq(S), NEW doomed, doomed \intersect DOMAIN h = {}
  PROVE  Without(h, doomed) = h
<1>1. DOMAIN h \ doomed = 1..Len(h) /\ Len(h) \in Nat
  OBVIOUS
<1>2. Cardinality(1..Len(h)) = Len(h)
  BY <1>1, FS_Interval
<1>3. Len(Without(h, doomed)) = Len(h)
  BY <1>1, <1>2, WithoutShortens
<1>4. Len(Without(h, doomed)) >= Len(h)
  BY <1>1, <1>3
<1> QED
  BY <1>4, WithoutShortens

(* Shortening twice is shortening.                                          *)
LEMMA ShortenedTransitive ==
  ASSUME NEW h \in Seq(Points), NEW r \in Seq(Points), NEW s,
         Shortened(h, r), Shortened(r, s)
  PROVE  Shortened(h, s)
<1>1. /\ s \in Seq(Points) /\ Len(h) \in Nat /\ Len(r) \in Nat /\ Len(s) \in Nat
      /\ Len(r) <= Len(h) /\ Len(s) <= Len(r)
  BY DEF Shortened
<1>2. ASSUME Len(s) >= Len(h) PROVE s = h
  <2>1. Len(r) >= Len(h) /\ Len(s) >= Len(r)
    BY <1>1, <1>2
  <2> QED
    BY <2>1 DEF Shortened
<1>3. Len(s) <= Len(h)
  BY <1>1
<1> QED
  BY <1>1, <1>2, <1>3 DEF Shortened

(* Every pruning of the code shortens.                                      *)
LEMMA Shortens ==
  ASSUME NEW h \in Seq(Points)
  PROVE  /\ \A doomed : Shortened(h, Without(h, doomed))
         /\ \A hits, limit : Shortened(h, EvictOldest(h, hits, limit))
         /\ Shortened(h, FairShare(h))
<1>1. \A doomed : Shortened(h, Without(h, doomed))
  BY WithoutShortens DEF Shortened
<1>2. Shortened(h, h)
  BY DEF Shortened
<1>3. \A hits, limit : Shortened(h, EvictOldest(h, hits, limit))
  BY <1>1, <1>2, Zenon DEF EvictOldest
<1>4. \A order : Shortened(h, ShareOut(h, order))
  BY <1>1, <1>2, Zenon DEF ShareOut
<1> QED
  BY <1>1, <1>3, <1>4 DEF FairShare

(* A series none of whose points is doomed.                                 *)
LEMMA Untouched ==
  ASSUME NEW h \in Seq(Points), NEW doomed, NEW k, PointsOf(h, k) \intersect doomed = {}
  PROVE  LET r == Without(h, doomed)
         IN /\ r \in Seq(Points) /\ TailKept(h, r, k, 0) /\ SeriesKept(h, r, k)
            /\ Cardinality(PointsOf(r, k)) = Cardinality(PointsOf(h, k))
<1>1. PointsOf(h, k) \ doomed = PointsOf(h, k) /\ \A i \in PointsOf(h, k) : i \notin doomed
  OBVIOUS
<1>2. TailKept(h, Without(h, doomed), k, 0)
  BY <1>1, TailWithout
<1>3. SeriesKept(h, Without(h, doomed), k)
  BY <1>1, NewestStays
<1>4. Cardinality(PointsOf(Without(h, doomed), k)) = Cardinality(PointsOf(h, k))
  <2>1. Cardinality(PointsOf(Without(h, doomed), k)) = Cardinality(PointsOf(h, k) \ doomed)
    BY PointsLeft
  <2> QED
    BY <1>1, <2>1, Zenon
<1>5. Without(h, doomed) \in Seq(Points)
  BY WithoutType
<1> QED
  BY <1>2, <1>3, <1>4, <1>5

(***************************************************************************)
(* A compaction keeps the watches, the ends of the series that belong, and *)
(* the ends of the routes, and brings the routes within both caps.         *)
(***************************************************************************)
RouteLost(h, r, k) ==
  LET m == Cardinality(PointsOf(r, k))
  IN m < Cardinality(PointsOf(h, k)) =>
       \/ m = MaxPerRoute
       \/ /\ Cardinality(RoutePoints(r)) = MaxRoutes
          /\ \A other \in RouteKeys : Cardinality(PointsOf(r, other)) <= m + 1

RoutesCapped(h) ==
  /\ Cardinality(RoutePoints(h)) <= MaxRoutes
  /\ \A k \in RouteKeys : Cardinality(PointsOf(h, k)) <= MaxPerRoute

(* A route that is cut to its cap, and shares the budget then.              *)
LEMMA CutThenShared ==
  ASSUME NEW a \in Seq(Points), NEW b \in Seq(Points), NEW c \in Seq(Points), NEW k \in RouteKeys,
         Cardinality(PointsOf(b, k)) < Cardinality(PointsOf(a, k)) =>
           Cardinality(PointsOf(b, k)) = MaxPerRoute,
         LeftOf(b, c), FairlyLost(b, c)
  PROVE  RouteLost(a, c, k)
<1>1. /\ Cardinality(PointsOf(a, k)) \in Nat /\ Cardinality(PointsOf(b, k)) \in Nat
      /\ Cardinality(PointsOf(c, k)) \in Nat
  BY Counts
<1>2. Cardinality(PointsOf(c, k)) <= Cardinality(PointsOf(b, k))
  BY DEF LeftOf
<1>3. Cardinality(PointsOf(c, k)) < Cardinality(PointsOf(b, k)) =>
        /\ Cardinality(RoutePoints(c)) = MaxRoutes
        /\ \A other \in RouteKeys :
             Cardinality(PointsOf(c, other)) <= Cardinality(PointsOf(c, k)) + 1
  BY DEF FairlyLost
<1> QED
  BY <1>1, <1>2, <1>3 DEF RouteLost

(* Of each route at most limit points stay, the newest.                     *)
LEMMA CutSeries ==
  ASSUME NEW h \in Seq(Points), NEW limit \in Nat, NEW doomed, NEW k,
         PointsOf(h, k) \ doomed = {i \in PointsOf(h, k) : Depth(h, i) <= limit}
  PROVE  LET r == Without(h, doomed)
             c == Cardinality(PointsOf(h, k))
         IN /\ r \in Seq(Points) /\ TailKept(h, r, k, 0) /\ SeriesKept(h, r, k)
            /\ Cardinality(PointsOf(r, k)) = IF c <= limit THEN c ELSE limit
<1> DEFINE P == PointsOf(h, k)
<1>1. \A i, j \in P : i \notin doomed /\ i <= j => j \notin doomed
  <2> SUFFICES ASSUME NEW i \in P, NEW j \in P, i \notin doomed, i <= j PROVE j \notin doomed
    OBVIOUS
  <2>1. Depth(h, i) <= limit
    OBVIOUS
  <2>2. Depth(h, j) <= Depth(h, i)
    BY DepthIs
  <2>3. Depth(h, i) \in Int /\ Depth(h, j) \in Int
    BY DepthIs
  <2>4. Depth(h, j) <= limit
    BY <2>1, <2>2, <2>3
  <2> QED
    BY <2>4
<1>2. P \in SUBSET (1..Len(h))
  BY DepthIs
<1>3. \A i, j \in P : i \notin doomed /\ j >= i => j \notin doomed
  <2>1. \A i \in P : i \in Int
    BY <1>2
  <2> HIDE DEF P
  <2> QED
    BY <1>1, <2>1
<1>4. TailKept(h, Without(h, doomed), k, 0)
  BY <1>1, TailWithout
<1>5. SeriesKept(h, Without(h, doomed), k)
  BY <1>3, NewestStays
<1>6. Cardinality(PointsOf(Without(h, doomed), k)) = Cardinality(P \ doomed)
  BY PointsLeft
<1>7. Cardinality({i \in P : Depth(h, i) <= limit})
        = IF Cardinality(P) <= limit THEN Cardinality(P) ELSE limit
  BY QuotaCounts
<1>8. Without(h, doomed) \in Seq(Points)
  BY WithoutType
<1>9. Cardinality(P \ doomed) = IF Cardinality(P) <= limit THEN Cardinality(P) ELSE limit
  BY <1>7, Zenon
<1> QED
  BY <1>4, <1>5, <1>6, <1>8, <1>9

(* Of any generation, also one that is not in order yet.                    *)
LEMMA CompactDoes ==
  ASSUME NEW g \in Generations
  PROVE  LET c == Compact(g)
         IN /\ c \in Generations /\ c.watches = g.watches
            /\ \A l \in DOMAIN c.history : \E i \in DOMAIN g.history : c.history[l] = g.history[i]
            /\ \A k \in Ids :
                 (\A i \in PointsOf(g.history, k) : Belongs(g, g.history[i]))
                   => SeriesKept(g.history, c.history, k)
            /\ \A k \in RouteKeys :
                 TailKept(g.history, c.history, k, 0) /\ RouteLost(g.history, c.history, k)
            /\ RoutesCapped(c.history)
            /\ Shortened(g.history, c.history)
<1> DEFINE h      == g.history
           own    == Without(h, Foreign(g))
           long   == {i \in WatchPoints(own) : Depth(own, i) > MaxPerWatch}
           each   == Without(own, long)
           total  == PruneGlobal(each)
           far    == {i \in RoutePoints(total) : Depth(total, i) > MaxPerRoute}
           routes == Without(total, far)
           fair   == FairShare(routes)
<1>1. h \in Seq(Points) /\ Compact(g) = [g EXCEPT !.history = fair]
  BY DEF Generations, Compact
<1>m. MaxPerWatch \in Nat /\ MaxTotal \in Nat /\ MaxPerRoute \in Nat /\ MaxRoutes \in Nat
  BY RetentionAssumption
<1>k. \A k \in Ids : k \notin RouteKeys
  BY RouteAssumption
<1>2. /\ own \in Seq(Points) /\ Shortened(h, own) /\ LeftOf(h, own)
      /\ \A k \in RouteKeys : /\ TailKept(h, own, k, 0)
                              /\ Cardinality(PointsOf(own, k)) = Cardinality(PointsOf(h, k))
      /\ \A k \in Ids : (\A i \in PointsOf(h, k) : Belongs(g, h[i])) => SeriesKept(h, own, k)
  <2>1. ASSUME NEW k \in RouteKeys PROVE PointsOf(h, k) \intersect Foreign(g) = {}
    BY DEF PointsOf, Foreign, Belongs
  <2>2. ASSUME NEW k \in Ids, \A i \in PointsOf(h, k) : Belongs(g, h[i])
        PROVE  PointsOf(h, k) \intersect Foreign(g) = {}
    BY <2>2 DEF Foreign
  <2>3. Shortened(h, own) /\ LeftOf(h, own) /\ own \in Seq(Points)
    BY <1>1, Shortens, WithoutLeaves, WithoutType
  <2> HIDE DEF h
  <2> QED
    BY <1>1, <2>1, <2>2, <2>3, Untouched
<1> HIDE DEF own
<1>3. /\ each \in Seq(Points) /\ Shortened(own, each) /\ LeftOf(own, each)
      /\ \A k \in RouteKeys : /\ TailKept(own, each, k, 0)
                              /\ Cardinality(PointsOf(each, k)) = Cardinality(PointsOf(own, k))
      /\ \A k \in Ids : SeriesKept(own, each, k)
  <2>1. ASSUME NEW k \in RouteKeys PROVE PointsOf(own, k) \intersect long = {}
    BY DEF PointsOf, WatchPoints, RoutePoints
  <2>2. ASSUME NEW k \in Ids
        PROVE  PointsOf(own, k) \ long = {i \in PointsOf(own, k) : Depth(own, i) <= MaxPerWatch}
    <3>0. \A i \in PointsOf(own, k) : i \in WatchPoints(own) /\ i \in DOMAIN own
      BY <1>k DEF PointsOf, WatchPoints, RoutePoints
    <3>1. \A i \in PointsOf(own, k) : i \in WatchPoints(own) /\ Depth(own, i) \in Int
      <4>1. ASSUME NEW i \in PointsOf(own, k) PROVE Depth(own, i) \in Int
        <5>1. /\ Cardinality(PointsOf(own, k)) \in Nat
              /\ Depth(own, i) \in 1..Cardinality(PointsOf(own, k))
          BY <1>2, DepthIs
        <5> QED
          BY <5>1
      <4> QED
        BY <3>0, <4>1
    <3>2. \A i \in PointsOf(own, k) : i \notin long <=> Depth(own, i) <= MaxPerWatch
      BY <1>m, <3>1
    <3> QED
      BY <3>2
  <2>3. Shortened(own, each) /\ LeftOf(own, each) /\ each \in Seq(Points)
    BY <1>2, Shortens, WithoutLeaves, WithoutType
  <2> HIDE DEF long
  <2> QED
    BY <1>2, <1>m, <2>1, <2>2, <2>3, Untouched, CutSeries
<1> HIDE DEF each
<1>4. /\ total \in Seq(Points) /\ Shortened(each, total) /\ LeftOf(each, total)
      /\ \A k \in RouteKeys : /\ TailKept(each, total, k, 0)
                              /\ Cardinality(PointsOf(total, k)) = Cardinality(PointsOf(each, k))
      /\ \A k \in Ids : SeriesKept(each, total, k)
  <2>1. Shortened(each, total) /\ LeftOf(each, total)
    BY <1>3, Shortens, PruneGlobalIs DEF PruneGlobal
  <2>2. total \in Seq(Points)
    BY <2>1 DEF Shortened
  <2>3. \A k \in Ids : SeriesKept(each, total, k)
    BY <1>3, <1>k, PruneSeries
  <2>4. ASSUME NEW k \in RouteKeys
        PROVE  /\ TailKept(each, total, k, 0)
               /\ Cardinality(PointsOf(total, k)) = Cardinality(PointsOf(each, k))
    <3> DEFINE gone == {i \in WatchPoints(each) :
                          Cardinality({j \in WatchPoints(each) : j >= i}) > MaxTotal}
    <3>1. total = each \/ total = Without(each, gone)
      BY DEF PruneGlobal, EvictOldest
    <3>2. PointsOf(each, k) \intersect gone = {}
      BY DEF PointsOf, WatchPoints, RoutePoints
    <3>3. CASE total = each
      BY <1>3, <3>3, TailSame
    <3>4. CASE total = Without(each, gone)
      <4> HIDE DEF gone, total
      <4> QED
        BY <1>3, <3>2, <3>4, Untouched
    <3> QED
      BY <3>1, <3>3, <3>4
  <2> QED
    BY <2>1, <2>2, <2>3, <2>4
<1> HIDE DEF total
<1>5. /\ routes \in Seq(Points) /\ Shortened(total, routes) /\ LeftOf(total, routes)
      /\ \A k \in RouteKeys :
           LET c == Cardinality(PointsOf(total, k))
           IN /\ TailKept(total, routes, k, 0)
              /\ Cardinality(PointsOf(routes, k)) = IF c <= MaxPerRoute THEN c ELSE MaxPerRoute
      /\ \A k \in Ids : SeriesKept(total, routes, k)
  <2>1. ASSUME NEW k \in Ids PROVE PointsOf(total, k) \intersect far = {}
    BY <1>k DEF PointsOf, RoutePoints
  <2>2. ASSUME NEW k \in RouteKeys
        PROVE  PointsOf(total, k) \ far = {i \in PointsOf(total, k) : Depth(total, i) <= MaxPerRoute}
    <3>0. \A i \in PointsOf(total, k) : i \in RoutePoints(total) /\ i \in DOMAIN total
      BY DEF PointsOf, RoutePoints
    <3>1. \A i \in PointsOf(total, k) : i \in RoutePoints(total) /\ Depth(total, i) \in Int
      <4>1. ASSUME NEW i \in PointsOf(total, k) PROVE Depth(total, i) \in Int
        <5>1. /\ Cardinality(PointsOf(total, k)) \in Nat
              /\ Depth(total, i) \in 1..Cardinality(PointsOf(total, k))
          BY <1>4, DepthIs
        <5> QED
          BY <5>1
      <4> QED
        BY <3>0, <4>1
    <3>2. \A i \in PointsOf(total, k) : i \notin far <=> Depth(total, i) <= MaxPerRoute
      BY <1>m, <3>1
    <3> QED
      BY <3>2
  <2>3. Shortened(total, routes) /\ LeftOf(total, routes) /\ routes \in Seq(Points)
    BY <1>4, Shortens, WithoutLeaves, WithoutType
  <2> HIDE DEF far
  <2> QED
    BY <1>4, <1>m, <2>1, <2>2, <2>3, Untouched, CutSeries
<1> HIDE DEF routes
<1>6. /\ fair \in Seq(Points) /\ Shortened(routes, fair) /\ LeftOf(routes, fair)
      /\ \A k \in RouteKeys : TailKept(routes, fair, k, 0)
      /\ \A k \in Ids : SeriesKept(routes, fair, k)
      /\ Cardinality(RoutePoints(fair)) <= MaxRoutes /\ FairlyLost(routes, fair)
  <2>1. Shortened(routes, fair) /\ LeftOf(routes, fair)
    BY <1>5, Shortens, FairShareFair
  <2>2. fair \in Seq(Points)
    BY <2>1 DEF Shortened
  <2> HIDE DEF fair
  <2> QED
    BY <1>5, <2>1, <2>2, FairShareFair DEF fair
<1> HIDE DEF fair
<1>7. /\ Compact(g) \in Generations /\ Compact(g).watches = g.watches /\ Compact(g).history = fair
  BY <1>1, <1>6, WithHistoryIs
<1> HIDE DEF h
<1>8. Shortened(h, fair) /\ LeftOf(h, fair)
  <2>1. Shortened(h, each) /\ LeftOf(h, each)
    BY <1>1, <1>2, <1>3, ShortenedTransitive, LeftTransitive
  <2>2. Shortened(h, total) /\ LeftOf(h, total)
    BY <1>1, <1>3, <1>4, <2>1, ShortenedTransitive, LeftTransitive
  <2>3. Shortened(h, routes) /\ LeftOf(h, routes)
    BY <1>1, <1>4, <1>5, <2>2, ShortenedTransitive, LeftTransitive
  <2> QED
    BY <1>1, <1>5, <1>6, <2>3, ShortenedTransitive, LeftTransitive
<1>9. ASSUME NEW k \in Ids, \A i \in PointsOf(h, k) : Belongs(g, h[i])
      PROVE  SeriesKept(h, fair, k)
  <2>1. SeriesKept(h, each, k)
    BY <1>2, <1>3, <1>9, SeriesTransitive
  <2>2. SeriesKept(h, total, k)
    BY <1>4, <2>1, SeriesTransitive
  <2>3. SeriesKept(h, routes, k)
    BY <1>5, <2>2, SeriesTransitive
  <2> QED
    BY <1>6, <2>3, SeriesTransitive
<1>10. ASSUME NEW k \in RouteKeys PROVE TailKept(h, fair, k, 0) /\ RouteLost(h, fair, k)
  <2>0. 0 \in Nat
    OBVIOUS
  <2>1. TailKept(h, each, k, 0)
    BY <1>1, <1>2, <1>3, <2>0, TailTransitive
  <2>2. TailKept(h, total, k, 0)
    BY <1>1, <1>3, <1>4, <2>0, <2>1, TailTransitive
  <2>3. TailKept(h, routes, k, 0)
    BY <1>1, <1>4, <1>5, <2>0, <2>2, TailTransitive
  <2>4. TailKept(h, fair, k, 0)
    BY <1>1, <1>5, <1>6, <2>0, <2>3, TailTransitive
  <2>5. Cardinality(PointsOf(total, k)) = Cardinality(PointsOf(h, k))
    BY <1>2, <1>3, <1>4
  <2>6. Cardinality(PointsOf(routes, k)) < Cardinality(PointsOf(h, k)) =>
          Cardinality(PointsOf(routes, k)) = MaxPerRoute
    <3>1. Cardinality(PointsOf(h, k)) \in Nat
      BY <1>1, Counts
    <3> QED
      BY <1>m, <1>5, <2>5, <3>1
  <2>7. RouteLost(h, fair, k)
    BY <1>1, <1>5, <1>6, <2>6, CutThenShared
  <2> QED
    BY <2>4, <2>7
<1>11. RoutesCapped(fair)
  <2>1. ASSUME NEW k \in RouteKeys PROVE Cardinality(PointsOf(fair, k)) <= MaxPerRoute
    <3>1. /\ Cardinality(PointsOf(total, k)) \in Nat /\ Cardinality(PointsOf(routes, k)) \in Nat
          /\ Cardinality(PointsOf(fair, k)) \in Nat
      BY <1>4, <1>5, <1>6, Counts
    <3>2. Cardinality(PointsOf(fair, k)) <= Cardinality(PointsOf(routes, k))
      BY <1>6 DEF LeftOf
    <3> QED
      BY <1>m, <1>5, <3>1, <3>2
  <2> QED
    BY <1>6, <2>1 DEF RoutesCapped
<1> QED
  BY <1>7, <1>8, <1>9, <1>10, <1>11 DEF LeftOf, h

(* A store within the caps, whose points all belong, is left as it is; and  *)
(* one that does not get shorter was such a store.                          *)
LEMMA CompactClean ==
  ASSUME NEW g \in Generations, Owned(g), Capped(g), RoutesCapped(g.history)
  PROVE  Compact(g) = g
<1> DEFINE h    == g.history
           long == {i \in WatchPoints(h) : Depth(h, i) > MaxPerWatch}
           far  == {i \in RoutePoints(h) : Depth(h, i) > MaxPerRoute}
<1>1. h \in Seq(Points) /\ DOMAIN h = 1..Len(h) /\ g = [g EXCEPT !.history = h]
  BY DEF Generations
<1>m. MaxPerWatch \in Nat /\ MaxTotal \in Nat /\ MaxPerRoute \in Nat /\ MaxRoutes \in Nat
  BY RetentionAssumption
<1>2. Without(h, Foreign(g)) = h
  <2>1. Foreign(g) \intersect DOMAIN h = {}
    BY DEF Foreign, Owned
  <2> QED
    BY <1>1, <2>1, WithoutNothing
<1>3. Without(h, long) = h
  <2>1. ASSUME NEW i \in WatchPoints(h) PROVE i \notin long
    <3>1. i \in DOMAIN h /\ h[i].id \notin RouteKeys
      BY DEF WatchPoints, RoutePoints
    <3>2. h[i].id \in IdsOf(g) /\ i \in PointsOf(h, h[i].id)
      BY <3>1 DEF Owned, Belongs, PointsOf
    <3>3. Cardinality(PointsOf(h, h[i].id)) <= MaxPerWatch
      BY <3>2 DEF Capped
    <3>4. /\ Depth(h, i) \in 1..Cardinality(PointsOf(h, h[i].id))
          /\ Cardinality(PointsOf(h, h[i].id)) \in Nat
      <4> HIDE DEF h
      <4> QED
        BY <1>1, <3>2, DepthIs
    <3> QED
      BY <1>m, <3>3, <3>4
  <2>2. long \intersect DOMAIN h = {}
    BY <2>1
  <2> QED
    BY <1>1, <2>2, WithoutNothing
<1>4. PruneGlobal(h) = h
  BY DEF Capped, PruneGlobal, EvictOldest
<1>5. Without(h, far) = h
  <2>1. ASSUME NEW i \in RoutePoints(h) PROVE i \notin far
    <3>1. i \in DOMAIN h /\ h[i].id \in RouteKeys /\ i \in PointsOf(h, h[i].id)
      BY DEF RoutePoints, PointsOf
    <3>2. Cardinality(PointsOf(h, h[i].id)) <= MaxPerRoute
      BY <3>1 DEF RoutesCapped
    <3>3. /\ Depth(h, i) \in 1..Cardinality(PointsOf(h, h[i].id))
          /\ Cardinality(PointsOf(h, h[i].id)) \in Nat
      <4> HIDE DEF h
      <4> QED
        BY <1>1, <3>1, DepthIs
    <3> QED
      BY <1>m, <3>2, <3>3
  <2>2. far \intersect DOMAIN h = {}
    BY <2>1
  <2> QED
    BY <1>1, <2>2, WithoutNothing
<1>6. FairShare(h) = h
  BY DEF RoutesCapped, FairShare, ShareOut
<1>7. Compact(g) = [g EXCEPT !.history = FairShare(h)]
  BY <1>2, <1>3, <1>4, <1>5 DEF Compact
<1> QED
  BY <1>1, <1>6, <1>7

(* A compaction after which as many points are left did nothing: the        *)
(* comparison of lengths by which Migrate decides to skip.                  *)
LEMMA CompactNoShorter ==
  ASSUME NEW g \in Generations, Len(Compact(g).history) >= Len(g.history)
  PROVE  Compact(g) = g
<1>1. /\ Compact(g) \in Generations /\ Compact(g).watches = g.watches
      /\ Shortened(g.history, Compact(g).history)
  BY CompactDoes
<1>2. Compact(g).history = g.history
  BY <1>1 DEF Shortened
<1> HIDE DEF Compact
<1> QED
  BY <1>1, <1>2 DEF Generations

-----------------------------------------------------------------------------
(***************************************************************************)
(* The least and the greatest of some values of a group of positions, none *)
(* of them being 0.                                                        *)
(***************************************************************************)
LEMMA Lowest0Is ==
  ASSUME NEW S \in SUBSET Nat
  PROVE  /\ Lowest0(S) \in Nat
         /\ Lowest0(S) = 0 => S \subseteq {0}
         /\ Lowest0(S) # 0 => Lowest0(S) \in S
         /\ \A x \in S : x # 0 => Lowest0(S) <= x /\ Lowest0(S) > 0
<1> DEFINE T == S \ {0}
<1>1. CASE T = {}
  BY <1>1 DEF Lowest0
<1>2. CASE T # {}
  <2>1. T \in SUBSET Nat
    OBVIOUS
  <2>2. Min(T) \in T /\ \A x \in T : Min(T) <= x
    <3> HIDE DEF T
    <3> QED
      BY <1>2, <2>1, MinIs
  <2>3. Lowest0(S) = Min(T)
    BY <1>2 DEF Lowest0
  <2>4. Min(T) \in S /\ Min(T) \in Nat /\ Min(T) # 0 /\ \A x \in S : x # 0 => Min(T) <= x
    BY <2>2
  <2> HIDE DEF T
  <2> QED
    BY <2>3, <2>4
<1> QED
  BY <1>1, <1>2

(* The highest of some positions' values is one of them, or zero of none.   *)
LEMMA HighestIs ==
  ASSUME NEW n \in Nat, NEW T \in SUBSET (1..n), NEW f \in [T -> Nat]
  PROVE  /\ Highest({f[i] : i \in T}) \in Nat
         /\ Highest({f[i] : i \in T}) = 0 \/ Highest({f[i] : i \in T}) \in {f[i] : i \in T}
<1>1. CASE T = {}
  BY <1>1 DEF Highest
<1>2. CASE T # {}
  <2> DEFINE S == {f[i] : i \in T}
  <2>1. Max(S) \in S
    BY <1>2, GreatestValue
  <2>2. S # {} /\ S \subseteq Nat
    BY <1>2
  <2> HIDE DEF S
  <2>3. Highest(S) = Max(S)
    BY <2>2 DEF Highest
  <2> QED
    BY <2>1, <2>2, <2>3 DEF S
<1> QED
  BY <1>1, <1>2

(***************************************************************************)
(* The watches of one target: they share it, and their group.              *)
(***************************************************************************)
LEMMA GroupIs ==
  ASSUME NEW g \in Generations, NEW i \in DOMAIN g.watches
  PROVE  LET G == GroupOf(g, i)
         IN /\ Len(g.watches) \in Nat /\ DOMAIN g.watches = 1..Len(g.watches)
            /\ G \in SUBSET (1..Len(g.watches)) /\ G # {} /\ i \in G
            /\ \A j \in G : /\ j \in DOMAIN g.watches /\ g.watches[j] \in Watches
                            /\ g.watches[j].target = g.watches[i].target
                            /\ GroupOf(g, j) = G
            /\ \A j \in DOMAIN g.watches :
                 g.watches[j].target = g.watches[i].target => j \in G
<1>1. /\ Len(g.watches) \in Nat /\ DOMAIN g.watches = 1..Len(g.watches)
      /\ \A j \in DOMAIN g.watches : g.watches[j] \in Watches
  BY DEF Generations
<1> QED
  BY <1>1 DEF GroupOf, DedupeKey

(* The oldest creation date of a group is a date.                           *)
LEMMA OldestIs ==
  ASSUME NEW g \in Generations, NEW d \in [Ids -> Dates], NEW group \in SUBSET DOMAIN g.watches
  PROVE  Oldest(g, d, group) \in Nat
<1>1. ASSUME NEW i \in group PROVE d[g.watches[i].id].created \in Nat
  <2>1. g.watches[i] \in Watches
    BY DEF Generations
  <2>2. d[g.watches[i].id] \in Dates
    BY <2>1 DEF Watches
  <2> QED
    BY <2>2 DEF Dates
<1>2. {d[g.watches[i].id].created : i \in group} \in SUBSET Nat
  BY <1>1
<1> QED
  BY <1>2, Lowest0Is DEF Oldest

(***************************************************************************)
(* The survivor is one of the group, and has seen a price if any has.      *)
(***************************************************************************)
LEMMA SurvivorIs ==
  ASSUME NEW g \in Generations, NEW d, NEW group \in SUBSET (1..Len(g.watches)), group # {}
  PROVE  LET s == Survivor(g, d, group)
         IN /\ s \in group
            /\ \A i \in group : g.watches[i].low > 0 => g.watches[s].low > 0
<1> DEFINE Since(i) == Oldest(g, d, {k \in group : k < i})
           R == {i \in group : \A j \in group : j < i => Richer(g, d, i, j, Since(i))}
           s == Survivor(g, d, group)
<1>1. /\ Len(g.watches) \in Nat /\ group \in SUBSET Nat
      /\ \A i \in group : g.watches[i].low \in Nat
  <2>1. /\ Len(g.watches) \in Nat
        /\ \A i \in 1..Len(g.watches) : g.watches[i] \in Watches
    BY DEF Generations
  <2>2. \A w \in Watches : w.low \in Nat
    BY DEF Watches
  <2> QED
    BY <2>1, <2>2
<1>2. s = Max(R)
  BY DEF Survivor
<1> HIDE DEF s
<1>3. PICK m \in group : \A i \in group : m <= i
  BY <1>1, LeastExists
<1>4. m \in R
  BY <1>1, <1>3
<1>5. s \in R /\ \A i \in R : i <= s
  <2>1. R \in SUBSET (1..Len(g.watches)) /\ R # {}
    BY <1>4
  <2> HIDE DEF R
  <2> QED
    BY <1>1, <1>2, <2>1, MaxIs
<1>6. ASSUME NEW i \in group, g.watches[i].low > 0
      PROVE  g.watches[s].low > 0
  <2> DEFINE L == {j \in group : g.watches[j].low > 0}
  <2>1. L \in SUBSET Nat /\ L # {}
    BY <1>1, <1>6
  <2>2. PICK a \in L : \A j \in L : a <= j
    <3> HIDE DEF L
    <3> QED
      BY <2>1, LeastExists
  <2>3. a \in R
    <3>1. ASSUME NEW j \in group, j < a PROVE Richer(g, d, a, j, Since(a))
      <4>1. j \notin L
        BY <1>1, <2>1, <2>2, <3>1
      <4>2. ~(g.watches[j].low > 0) /\ g.watches[a].low > 0
        BY <4>1
      <4> HIDE DEF Since
      <4> QED
        BY <4>2 DEF Richer
    <3> QED
      BY <3>1
  <2>4. CASE s = a
    BY <2>4
  <2>5. CASE s # a
    <3>1. a < s
      <4>1. a <= s /\ a \in Nat /\ s \in Nat
        BY <1>1, <1>5, <2>3
      <4> QED
        BY <2>5, <4>1
    <3>2. Richer(g, d, s, a, Since(s))
      BY <1>5, <3>1
    <3> HIDE DEF Since
    <3> QED
      BY <3>2 DEF Richer
  <2> QED
    BY <2>4, <2>5
<1> QED
  BY <1>5, <1>6 DEF s

(***************************************************************************)
(* The survivor with its group's running state: no member of its currency  *)
(* saw a lower price, and it has one if any member had.                    *)
(***************************************************************************)
LEMMA MergedIs ==
  ASSUME NEW g \in Generations, NEW d, NEW group \in SUBSET (1..Len(g.watches)), group # {}
  PROVE  LET s == Survivor(g, d, group)
             v == Merged(g, d, group)
         IN /\ s \in group /\ s \in Like(g, d, group) /\ Like(g, d, group) \subseteq group
            /\ v \in Watches /\ v.id = g.watches[s].id /\ v.target = g.watches[s].target
            /\ v.cur = g.watches[s].cur
            /\ \A i \in Like(g, d, group) :
                 /\ g.watches[i].cur = v.cur
                 /\ g.watches[i].low > 0 => v.low > 0 /\ v.low <= g.watches[i].low
            /\ (\E i \in group : g.watches[i].low > 0) => v.low > 0
<1> DEFINE s    == Survivor(g, d, group)
           v    == Merged(g, d, group)
           like == Like(g, d, group)
           lows == {g.watches[i].low : i \in like}
<1>1. s \in group /\ \A i \in group : g.watches[i].low > 0 => g.watches[s].low > 0
  BY SurvivorIs
<1>2. like \subseteq group /\ s \in like /\ \A i \in like : g.watches[i].cur = g.watches[s].cur
  BY <1>1 DEF Like
<1>3. /\ Len(g.watches) \in Nat
      /\ \A i \in group : g.watches[i] \in Watches
      /\ \A i \in group : /\ g.watches[i].low \in Nat /\ g.watches[i].base \in Nat
                          /\ g.watches[i].alerted \in Nat
  <2>1. /\ Len(g.watches) \in Nat
        /\ \A i \in 1..Len(g.watches) : g.watches[i] \in Watches
    BY DEF Generations
  <2>2. \A w \in Watches : w.low \in Nat /\ w.base \in Nat /\ w.alerted \in Nat
    BY DEF Watches
  <2> QED
    BY <2>1, <2>2
<1> HIDE DEF s, like
<1>4. /\ Highest({g.watches[i].base : i \in like}) \in Nat
      /\ Highest({g.watches[i].alerted : i \in like}) \in Nat
  <2>1. like \in SUBSET (1..Len(g.watches))
    BY <1>2
  <2> DEFINE f == [i \in like |-> g.watches[i].base]
             a == [i \in like |-> g.watches[i].alerted]
  <2>2. f \in [like -> Nat] /\ a \in [like -> Nat]
    BY <1>2, <1>3
  <2>3. /\ {f[i] : i \in like} = {g.watches[i].base : i \in like}
        /\ {a[i] : i \in like} = {g.watches[i].alerted : i \in like}
    OBVIOUS
  <2> HIDE DEF f, a
  <2>4. Highest({f[i] : i \in like}) \in Nat /\ Highest({a[i] : i \in like}) \in Nat
    BY <1>3, <2>1, <2>2, HighestIs
  <2> QED
    BY <2>3, <2>4
<1>5. /\ Lowest0(lows) \in Nat
      /\ \A x \in lows : x # 0 => Lowest0(lows) <= x /\ Lowest0(lows) > 0
  <2>1. lows \in SUBSET Nat
    BY <1>2, <1>3
  <2> HIDE DEF lows
  <2> QED
    BY <2>1, Lowest0Is
<1>6. v = [g.watches[s] EXCEPT !.low = Lowest0(lows),
                               !.base = Highest({g.watches[i].base : i \in like}),
                               !.alerted = Highest({g.watches[i].alerted : i \in like})]
  BY DEF Merged, s, like
<1> HIDE DEF v
<1>7. \A i \in like : g.watches[i].low # 0 =>
        Lowest0(lows) <= g.watches[i].low /\ Lowest0(lows) > 0
  BY <1>5
<1> HIDE DEF lows
<1>8. /\ v \in Watches /\ v.id = g.watches[s].id /\ v.target = g.watches[s].target
      /\ v.cur = g.watches[s].cur /\ v.low = Lowest0(lows)
  <2>1. g.watches[s] \in Watches
    BY <1>1, <1>3
  <2> QED
    BY <1>4, <1>5, <1>6, <2>1 DEF Watches
<1>9. ASSUME NEW i \in group, g.watches[i].low > 0 PROVE v.low > 0
  <2>1. g.watches[s].low > 0
    BY <1>1, <1>9
  <2> QED
    BY <1>2, <1>3, <1>7, <1>8, <2>1
<1>10. ASSUME NEW i \in like
       PROVE  /\ g.watches[i].cur = v.cur
              /\ g.watches[i].low > 0 => v.low > 0 /\ v.low <= g.watches[i].low
  BY <1>2, <1>7, <1>8
<1> QED
  BY <1>1, <1>2, <1>8, <1>9, <1>10 DEF s, v, like

(***************************************************************************)
(* The watches of a merged store are the survivors, one per group.         *)
(***************************************************************************)
Survives(g, d, i, v) == v = Merged(g, d, GroupOf(g, i))

(* A group's survivor is one of its members; its lowest price is not above  *)
(* that of any it can be compared with, and known if anyone's is.           *)
LEMMA MergedOf ==
  ASSUME NEW g \in Generations, NEW d, NEW i \in DOMAIN g.watches
  PROVE  LET G == GroupOf(g, i)
             s == Survivor(g, d, G)
             v == Merged(g, d, G)
         IN /\ s \in G /\ s \in Like(g, d, G) /\ Like(g, d, G) \subseteq G
            /\ s \in DOMAIN g.watches /\ GroupOf(g, s) = G
            /\ v \in Watches /\ v.id = g.watches[s].id /\ v.target = g.watches[i].target
            /\ v.cur = g.watches[s].cur
            /\ \A j \in Like(g, d, G) :
                 /\ g.watches[j].cur = v.cur
                 /\ g.watches[j].low > 0 => v.low > 0 /\ v.low <= g.watches[j].low
            /\ (\E j \in G : g.watches[j].low > 0) => v.low > 0
<1> DEFINE G == GroupOf(g, i)
<1>1. /\ G \in SUBSET (1..Len(g.watches)) /\ G # {}
      /\ \A j \in G : /\ j \in DOMAIN g.watches /\ g.watches[j].target = g.watches[i].target
                      /\ GroupOf(g, j) = G
  BY GroupIs
<1> HIDE DEF G
<1>2. LET s == Survivor(g, d, G)
          v == Merged(g, d, G)
      IN /\ s \in G /\ s \in Like(g, d, G) /\ Like(g, d, G) \subseteq G
         /\ v \in Watches /\ v.id = g.watches[s].id /\ v.target = g.watches[s].target
         /\ v.cur = g.watches[s].cur
         /\ \A j \in Like(g, d, G) :
              /\ g.watches[j].cur = v.cur
              /\ g.watches[j].low > 0 => v.low > 0 /\ v.low <= g.watches[j].low
         /\ (\E j \in G : g.watches[j].low > 0) => v.low > 0
  BY <1>1, MergedIs
<1> QED
  BY <1>1, <1>2 DEF G

(* One survivor per group; if no watch went, each was a group of its own.   *)
LEMMA CollapsedIs ==
  ASSUME NEW g \in Generations, NEW d
  PROVE  LET c == Collapsed(g, d)
         IN /\ c \in Seq(Watches) /\ Len(c) <= Len(g.watches)
            /\ Len(c) >= Len(g.watches) => Firsts(g) = DOMAIN g.watches
            /\ \E e : /\ \A k \in DOMAIN c : e[k] \in Firsts(g) /\ Survives(g, d, e[k], c[k])
                      /\ \A k, l \in DOMAIN c : e[k] = e[l] => k = l
                      /\ \A i \in Firsts(g) : \E k \in DOMAIN c : e[k] = i
<1> DEFINE n    == Len(g.watches)
           all  == [i \in DOMAIN g.watches |-> Merged(g, d, GroupOf(g, i))]
           gone == DOMAIN g.watches \ Firsts(g)
           c    == Collapsed(g, d)
<1>1. n \in Nat /\ DOMAIN g.watches = 1..n /\ Firsts(g) \subseteq DOMAIN g.watches
  BY DEF Generations, Firsts
<1>2. all \in Seq(Watches) /\ DOMAIN all = DOMAIN g.watches /\ Len(all) = n
  <2>1. \A i \in DOMAIN g.watches : Merged(g, d, GroupOf(g, i)) \in Watches
    BY MergedOf
  <2>2. all = [i \in 1..n |-> all[i]] /\ \A i \in 1..n : all[i] \in Watches
    BY <1>1, <2>1
  <2>3. DOMAIN all = 1..n
    BY <1>1
  <2> HIDE DEF all
  <2>4. all \in Seq(Watches)
    BY <1>1, <2>2, SeqOf
  <2> QED
    BY <1>1, <2>3, <2>4
<1>3. c = Without(all, gone)
  BY DEF Collapsed
<1>4. \A i \in DOMAIN g.watches : all[i] = Merged(g, d, GroupOf(g, i))
  OBVIOUS
<1> HIDE DEF all, c, n
<1>5. PICK e : Comes(all, gone, e)
  BY <1>2, WithoutIs
<1>6. /\ DOMAIN all \ gone = Firsts(g)
      /\ \A k \in DOMAIN c : e[k] \in Firsts(g) /\ c[k] = all[e[k]]
      /\ \A k, l \in DOMAIN c : e[k] = e[l] => k = l
      /\ \A i \in Firsts(g) : \E k \in DOMAIN c : e[k] = i
  <2> DEFINE m == Cardinality(DOMAIN all \ gone)
  <2>1. /\ m \in Nat /\ DOMAIN c = 1..m /\ c = [k \in 1..m |-> all[e[k]]]
        /\ e \in [1..m -> DOMAIN all \ gone]
        /\ \A k, l \in DOMAIN c : k < l <=> e[k] < e[l]
        /\ \A i \in DOMAIN all \ gone : \E k \in DOMAIN c : e[k] = i
    BY <1>3, <1>5 DEF Comes
  <2>2. DOMAIN all \ gone = Firsts(g)
    BY <1>1, <1>2
  <2> HIDE DEF m
  <2>3. \A k \in DOMAIN c : e[k] \in Firsts(g) /\ c[k] = all[e[k]]
    BY <2>1, <2>2
  <2>4. ASSUME NEW k \in DOMAIN c, NEW l \in DOMAIN c, e[k] = e[l] PROVE k = l
    <3>1. k \in Int /\ l \in Int /\ e[k] \in Int
      BY <1>1, <2>1, <2>3
    <3>2. ~(k < l) /\ ~(l < k)
      BY <2>1, <2>4, <3>1
    <3> QED
      BY <3>1, <3>2
  <2> QED
    BY <2>1, <2>2, <2>3, <2>4
<1>7. /\ c \in Seq(Watches) /\ Len(c) <= n
      /\ Len(c) >= n => gone \intersect DOMAIN all = {}
  BY <1>2, <1>3, WithoutShortens
<1>8. Len(c) >= n => Firsts(g) = DOMAIN g.watches
  BY <1>1, <1>2, <1>7
<1>9. \A k \in DOMAIN c : Survives(g, d, e[k], c[k])
  BY <1>1, <1>4, <1>6 DEF Survives
<1> QED
  BY <1>6, <1>7, <1>8, <1>9 DEF c, n

(* A group has one first, and every watch a group.                          *)
LEMMA FirstsAre ==
  ASSUME NEW g \in Generations
  PROVE  /\ \A i \in DOMAIN g.watches : \E f \in Firsts(g) : GroupOf(g, f) = GroupOf(g, i)
         /\ \A f, i \in Firsts(g) : GroupOf(g, f) = GroupOf(g, i) => f = i
<1>1. ASSUME NEW i \in DOMAIN g.watches
      PROVE  \E f \in Firsts(g) : GroupOf(g, f) = GroupOf(g, i)
  <2>1. /\ GroupOf(g, i) \in SUBSET Nat /\ GroupOf(g, i) # {}
        /\ \A j \in GroupOf(g, i) : j \in DOMAIN g.watches /\ GroupOf(g, j) = GroupOf(g, i)
    BY GroupIs
  <2>2. PICK f \in GroupOf(g, i) : \A j \in GroupOf(g, i) : f <= j
    BY <2>1, LeastExists
  <2>3. f \in Firsts(g)
    BY <2>1, <2>2 DEF Firsts
  <2> QED
    BY <2>1, <2>3
<1>2. ASSUME NEW f \in Firsts(g), NEW i \in Firsts(g), GroupOf(g, f) = GroupOf(g, i)
      PROVE  f = i
  <2>1. f \in DOMAIN g.watches /\ i \in DOMAIN g.watches
    BY DEF Firsts
  <2>2. f \in GroupOf(g, i) /\ i \in GroupOf(g, f) /\ f \in Nat /\ i \in Nat
    BY <1>2, <2>1, GroupIs
  <2>3. f <= i /\ i <= f
    BY <2>2 DEF Firsts
  <2> QED
    BY <2>2, <2>3
<1> QED
  BY <1>1, <1>2

(***************************************************************************)
(* One watch per target is left, and one per ID; each group has one.       *)
(***************************************************************************)
LEMMA MergeWatches ==
  ASSUME NEW g \in Generations, OneIdEach(g), NEW d
  PROVE  LET c == Collapsed(g, d)
         IN /\ c \in Seq(Watches)
            /\ \A k \in DOMAIN c : \E i \in DOMAIN g.watches : Survives(g, d, i, c[k])
            /\ \A i \in DOMAIN g.watches : \E k \in DOMAIN c : Survives(g, d, i, c[k])
            /\ \A k, l \in DOMAIN c : c[k].target = c[l].target => k = l
            /\ \A k, l \in DOMAIN c : c[k].id = c[l].id => k = l
<1> DEFINE c == Collapsed(g, d)
<1>1. c \in Seq(Watches)
  BY CollapsedIs
<1>2. PICK e : /\ \A k \in DOMAIN c : e[k] \in Firsts(g) /\ Survives(g, d, e[k], c[k])
               /\ \A k, l \in DOMAIN c : e[k] = e[l] => k = l
               /\ \A i \in Firsts(g) : \E k \in DOMAIN c : e[k] = i
  BY CollapsedIs
<1> HIDE DEF c
<1>3. \A k \in DOMAIN c : e[k] \in DOMAIN g.watches
  BY <1>2 DEF Firsts
<1>4. ASSUME NEW i \in DOMAIN g.watches PROVE \E k \in DOMAIN c : Survives(g, d, i, c[k])
  <2>1. PICK f \in Firsts(g) : GroupOf(g, f) = GroupOf(g, i)
    BY FirstsAre
  <2>2. PICK k \in DOMAIN c : e[k] = f
    BY <1>2
  <2> QED
    BY <1>2, <2>1, <2>2 DEF Survives
<1>5. ASSUME NEW k \in DOMAIN c, NEW l \in DOMAIN c, GroupOf(g, e[k]) = GroupOf(g, e[l])
      PROVE  k = l
  BY <1>2, <1>5, FirstsAre
<1>6. ASSUME NEW k \in DOMAIN c, NEW l \in DOMAIN c, c[k].target = c[l].target
      PROVE  k = l
  <2>1. c[k].target = g.watches[e[k]].target /\ c[l].target = g.watches[e[l]].target
    BY <1>2, <1>3, MergedOf DEF Survives
  <2>2. e[k] \in GroupOf(g, e[l])
    BY <1>3, <1>6, <2>1, GroupIs
  <2> QED
    BY <1>3, <1>5, <2>2, GroupIs
<1>7. ASSUME NEW k \in DOMAIN c, NEW l \in DOMAIN c, c[k].id = c[l].id
      PROVE  k = l
  <2> DEFINE s == Survivor(g, d, GroupOf(g, e[k]))
             t == Survivor(g, d, GroupOf(g, e[l]))
  <2>1. /\ c[k].id = g.watches[s].id /\ s \in DOMAIN g.watches
        /\ GroupOf(g, s) = GroupOf(g, e[k])
        /\ c[l].id = g.watches[t].id /\ t \in DOMAIN g.watches
        /\ GroupOf(g, t) = GroupOf(g, e[l])
    BY <1>2, <1>3, MergedOf DEF Survives
  <2>2. s = t
    BY <1>7, <2>1 DEF OneIdEach
  <2> QED
    BY <1>5, <2>1, <2>2
<1> QED
  BY <1>1, <1>2, <1>3, <1>4, <1>6, <1>7 DEF c

(* The fields of a watch have their types.                                  *)
LEMMA WatchAt ==
  ASSUME NEW g \in Generations, NEW i \in DOMAIN g.watches
  PROVE  LET w == g.watches[i]
         IN /\ w \in Watches /\ w.id \in Ids /\ w.target \in Targets /\ w.cur \in Spellings
            /\ w.low \in Nat
<1>1. g.watches[i] \in Watches
  BY DEF Generations
<1> QED
  BY <1>1 DEF Watches

(***************************************************************************)
(* A point goes to the survivor of its watch's target, or stays.           *)
(***************************************************************************)
LEMMA HeirIs ==
  ASSUME NEW g \in Generations, OneIdEach(g), NEW d, NEW pt \in Points
  PROVE  LET q == Heir(g, d, pt)
         IN /\ q \in Points /\ q.price = pt.price /\ q.cur = pt.cur
            /\ \A i \in DOMAIN g.watches :
                 g.watches[i].id = pt.id /\ i \in Like(g, d, GroupOf(g, i)) =>
                   q = [pt EXCEPT !.id = g.watches[Survivor(g, d, GroupOf(g, i))].id]
            /\ (\A i \in DOMAIN g.watches :
                  g.watches[i].id = pt.id => i \notin Like(g, d, GroupOf(g, i))) => q = pt
<1> DEFINE q == Heir(g, d, pt)
           same == {i \in DOMAIN g.watches :
                      g.watches[i].id = pt.id /\ i \in Like(g, d, GroupOf(g, i))}
           To(i) == [pt EXCEPT !.id = g.watches[Survivor(g, d, GroupOf(g, i))].id]
<1>1. DOMAIN g.watches = 1..Len(g.watches) /\ Len(g.watches) \in Nat
  BY DEF Generations
<1>2. q = IF same = {} THEN pt ELSE To(Min(same))
  BY DEF Heir
<1>3. same \in SUBSET Nat
  BY <1>1
<1>4. \A i, j \in same : i = j
  BY DEF OneIdEach
<1>5. \A i \in same : Min(same) = i
  <2> HIDE DEF same
  <2>1. same # {} => Min(same) \in same
    BY <1>3, MinIs
  <2> QED
    BY <1>4, <2>1
<1>6. \A i \in same : q = To(i)
  BY <1>2, <1>5
<1>7. \A i \in same : To(i) \in Points /\ To(i).price = pt.price /\ To(i).cur = pt.cur
  <2>1. ASSUME NEW i \in same PROVE g.watches[Survivor(g, d, GroupOf(g, i))].id \in Ids
    <3>1. Survivor(g, d, GroupOf(g, i)) \in DOMAIN g.watches
      BY MergedOf
    <3> QED
      BY <3>1, WatchAt
  <2> HIDE DEF same
  <2> QED
    BY <2>1 DEF Points
<1>8. q \in Points /\ q.price = pt.price /\ q.cur = pt.cur
  <2> HIDE DEF same, To
  <2>1. CASE same = {}
    BY <1>2, <2>1
  <2>2. CASE same # {}
    BY <1>6, <1>7, <2>2
  <2> QED
    BY <2>1, <2>2
<1>9. ASSUME NEW i \in DOMAIN g.watches, g.watches[i].id = pt.id, i \in Like(g, d, GroupOf(g, i))
      PROVE  q = To(i)
  BY <1>6, <1>9
<1>10. (\A i \in DOMAIN g.watches :
          g.watches[i].id = pt.id => i \notin Like(g, d, GroupOf(g, i))) => q = pt
  BY <1>2
<1> QED
  BY <1>8, <1>9, <1>10

(***************************************************************************)
(* The survivor's series is those of the members of its currency; the      *)
(* routes' points are as they were.                                        *)
(***************************************************************************)
LEMMA ReassignedIs ==
  ASSUME NEW g \in Generations, OneIdEach(g), NEW d
  PROVE  LET r == Reassigned(g, d)
             h == g.history
         IN /\ r \in Seq(Points) /\ DOMAIN r = DOMAIN h /\ Len(r) = Len(h)
            /\ \A k \in DOMAIN h : r[k] = Heir(g, d, h[k])
            /\ \A k \in RouteKeys : /\ PointsOf(r, k) = PointsOf(h, k)
                                    /\ \A i \in PointsOf(h, k) : r[i] = h[i]
            /\ RoutePoints(r) = RoutePoints(h)
            /\ \A i \in DOMAIN g.watches :
                 LET id == Merged(g, d, GroupOf(g, i)).id
                 IN \A k \in DOMAIN h :
                      r[k].id = id <=> \E j \in Like(g, d, GroupOf(g, i)) : h[k].id = g.watches[j].id
<1> DEFINE r == Reassigned(g, d)
           h == g.history
           L(i) == Like(g, d, GroupOf(g, i))
           S(i) == Survivor(g, d, GroupOf(g, i))
<1>1. h \in Seq(Points) /\ Len(h) \in Nat /\ DOMAIN h = 1..Len(h)
  BY DEF Generations
<1>p. \A k \in DOMAIN h : h[k] \in Points
  BY <1>1
<1>2. DOMAIN r = DOMAIN h /\ \A k \in DOMAIN h : r[k] = Heir(g, d, h[k])
  BY DEF Reassigned
<1>3. r \in Seq(Points) /\ Len(r) = Len(h)
  <2>1. \A k \in 1..Len(h) : r[k] \in Points
    BY <1>1, <1>2, <1>p, HeirIs
  <2>2. r = [k \in 1..Len(h) |-> r[k]]
    BY <1>1 DEF Reassigned
  <2> HIDE DEF r, h
  <2>3. r \in Seq(Points)
    BY <1>1, <2>1, <2>2, SeqOf
  <2> QED
    BY <1>1, <1>2, <2>3
<1> HIDE DEF r, h
<1>4. \A i \in DOMAIN g.watches : g.watches[i] \in Watches /\ g.watches[i].id \in Ids
  BY WatchAt
<1>5. ASSUME NEW k \in DOMAIN h
      PROVE  /\ h[k].id \in RouteKeys => r[k] = h[k]
             /\ r[k].id \in RouteKeys => h[k].id \in RouteKeys
  <2>1. CASE \E i \in DOMAIN g.watches : g.watches[i].id = h[k].id /\ i \in L(i)
    <3>1. PICK i \in DOMAIN g.watches : g.watches[i].id = h[k].id /\ i \in L(i)
      BY <2>1
    <3>2. r[k] = [h[k] EXCEPT !.id = g.watches[S(i)].id]
      BY <1>2, <1>p, <3>1, HeirIs
    <3>3. S(i) \in DOMAIN g.watches
      BY MergedOf
    <3>4. r[k].id = g.watches[S(i)].id
      BY <1>p, <3>2 DEF Points
    <3> QED
      BY <1>4, <3>1, <3>3, <3>4, RouteAssumption
  <2>2. CASE \A i \in DOMAIN g.watches : g.watches[i].id = h[k].id => i \notin L(i)
    BY <1>2, <1>p, <2>2, HeirIs
  <2> QED
    BY <2>1, <2>2
<1>6. ASSUME NEW i \in DOMAIN g.watches, NEW k \in DOMAIN h
      PROVE  r[k].id = Merged(g, d, GroupOf(g, i)).id
               <=> \E j \in L(i) : h[k].id = g.watches[j].id
  <2>1. /\ Merged(g, d, GroupOf(g, i)).id = g.watches[S(i)].id
        /\ S(i) \in DOMAIN g.watches /\ GroupOf(g, S(i)) = GroupOf(g, i)
        /\ S(i) \in L(i) /\ L(i) \subseteq GroupOf(g, i)
    BY MergedOf
  <2>2. ASSUME NEW j \in L(i), h[k].id = g.watches[j].id
        PROVE  r[k].id = g.watches[S(i)].id
    <3>1. j \in DOMAIN g.watches /\ GroupOf(g, j) = GroupOf(g, i)
      BY <2>1, GroupIs
    <3>2. r[k] = [h[k] EXCEPT !.id = g.watches[S(i)].id]
      <4>1. g.watches[j].id = h[k].id /\ j \in L(j) /\ S(j) = S(i)
        BY <2>2, <3>1
      <4>2. r[k] = [h[k] EXCEPT !.id = g.watches[S(j)].id]
        BY <1>2, <1>p, <3>1, <4>1, HeirIs
      <4> QED
        BY <4>1, <4>2
    <3> QED
      BY <1>p, <3>2 DEF Points
  <2>3. ASSUME r[k].id = g.watches[S(i)].id
        PROVE  \E j \in L(i) : h[k].id = g.watches[j].id
    <3>1. CASE \E j \in DOMAIN g.watches : g.watches[j].id = h[k].id /\ j \in L(j)
      <4>1. PICK j \in DOMAIN g.watches : g.watches[j].id = h[k].id /\ j \in L(j)
        BY <3>1
      <4>2. r[k] = [h[k] EXCEPT !.id = g.watches[S(j)].id]
        BY <1>2, <1>p, <4>1, HeirIs
      <4>3. r[k].id = g.watches[S(j)].id
        BY <1>p, <4>2 DEF Points
      <4>4. S(j) \in DOMAIN g.watches /\ GroupOf(g, S(j)) = GroupOf(g, j)
        BY MergedOf
      <4>5. S(j) = S(i)
        BY <2>1, <2>3, <4>3, <4>4 DEF OneIdEach
      <4>6. GroupOf(g, j) = GroupOf(g, i)
        BY <2>1, <4>4, <4>5
      <4> QED
        BY <4>1, <4>6
    <3>2. CASE \A j \in DOMAIN g.watches : g.watches[j].id = h[k].id => j \notin L(j)
      <4>1. r[k] = h[k]
        BY <1>2, <1>p, <3>2, HeirIs
      <4>2. S(i) \in L(S(i))
        BY <2>1
      <4> QED
        BY <2>1, <2>3, <3>2, <4>1, <4>2
    <3> QED
      BY <3>1, <3>2
  <2> QED
    BY <2>1, <2>2, <2>3
<1>7. ASSUME NEW k \in RouteKeys
      PROVE  PointsOf(r, k) = PointsOf(h, k) /\ \A i \in PointsOf(h, k) : r[i] = h[i]
  <2>1. \A i \in DOMAIN h : r[i].id = k <=> h[i].id = k
    BY <1>5
  <2> QED
    BY <1>2, <1>5, <2>1 DEF PointsOf
<1>8. RoutePoints(r) = RoutePoints(h)
  <2>1. \A i \in DOMAIN h : r[i].id \in RouteKeys <=> h[i].id \in RouteKeys
    BY <1>5
  <2> QED
    BY <1>2, <2>1 DEF RoutePoints
<1> QED
  BY <1>2, <1>3, <1>6, <1>7, <1>8 DEF r, h

-----------------------------------------------------------------------------
(***************************************************************************)
(* What a migration makes of a store whose watches have each seen every    *)
(* price that is retained for them.                                        *)
(***************************************************************************)
AllCovered(g) == \A i \in DOMAIN g.watches : Covered(g.history, g.watches[i])

(* A merge leaves one watch per target and per ID, and no series undercuts  *)
(* the lowest price of its watch.                                           *)
LEMMA MergeKeeps ==
  ASSUME NEW g \in Generations, OneIdEach(g), CanonicalTexts(g), AllCovered(g), NEW d
  PROVE  LET p == Merge(g, d)
         IN p \in Generations /\ OneIdEach(p) /\ OneEach(p) /\ Normal(p) /\ AllCovered(p)
<1> DEFINE p == Merge(g, d)
           c == Collapsed(g, d)
           r == Reassigned(g, d)
           h == g.history
<1>1. p.watches = c /\ p.history = r /\ p = [watches |-> c, history |-> r]
  BY DEF Merge
<1>2. /\ c \in Seq(Watches)
      /\ \A k \in DOMAIN c : \E i \in DOMAIN g.watches : Survives(g, d, i, c[k])
      /\ \A k, l \in DOMAIN c : c[k].target = c[l].target => k = l
      /\ \A k, l \in DOMAIN c : c[k].id = c[l].id => k = l
  BY MergeWatches
<1>3. /\ r \in Seq(Points) /\ DOMAIN r = DOMAIN h
      /\ \A k \in DOMAIN h : r[k] = Heir(g, d, h[k])
      /\ \A i \in DOMAIN g.watches :
           LET id == Merged(g, d, GroupOf(g, i)).id
           IN \A k \in DOMAIN h :
                r[k].id = id <=> \E j \in Like(g, d, GroupOf(g, i)) : h[k].id = g.watches[j].id
  BY ReassignedIs
<1> HIDE DEF c, r
<1>4. p \in Generations
  BY <1>1, <1>2, <1>3 DEF Generations
<1>5. \A k \in DOMAIN h : h[k] \in Points /\ r[k].price = h[k].price /\ r[k].cur = h[k].cur
  <2>1. \A k \in DOMAIN h : h[k] \in Points
    BY DEF Generations
  <2> QED
    BY <1>3, <2>1, HeirIs
<1> HIDE DEF p
<1>6. OneIdEach(p) /\ OneEach(p)
  BY <1>1, <1>2 DEF OneIdEach, OneEach, DedupeKey
<1>7. ASSUME NEW k \in DOMAIN c, NEW x \in PointsOf(r, c[k].id)
      PROVE  c[k].low > 0 /\ r[x].cur = c[k].cur /\ c[k].low <= r[x].price
  <2>1. PICK i \in DOMAIN g.watches : Survives(g, d, i, c[k])
    BY <1>2
  <2> DEFINE v    == Merged(g, d, GroupOf(g, i))
             like == Like(g, d, GroupOf(g, i))
  <2>2. c[k] = v /\ x \in DOMAIN h /\ r[x].id = v.id
    BY <1>3, <2>1 DEF Survives, PointsOf
  <2>3. PICK j \in like : h[x].id = g.watches[j].id
    BY <1>3, <2>2
  <2>4. /\ g.watches[j].cur = v.cur /\ v \in Watches
        /\ g.watches[j].low > 0 => v.low > 0 /\ v.low <= g.watches[j].low
        /\ j \in DOMAIN g.watches
    <3>1. like \subseteq GroupOf(g, i) /\ v \in Watches
      BY MergedOf
    <3>2. j \in DOMAIN g.watches
      BY <3>1, GroupIs
    <3> QED
      BY <3>1, <3>2, MergedOf
  <2>5. x \in PointsOf(h, g.watches[j].id)
    BY <2>2, <2>3 DEF PointsOf
  <2>6. g.watches[j].low > 0 /\ h[x].cur = g.watches[j].cur /\ g.watches[j].low <= h[x].price
    BY <2>4, <2>5 DEF AllCovered, Covered
  <2>7. v.low \in Nat /\ g.watches[j].low \in Nat /\ h[x].price \in Nat
    BY <1>5, <2>2, <2>4, WatchAt DEF Watches, Points
  <2> HIDE DEF v, like
  <2>8. r[x].price = h[x].price /\ r[x].cur = h[x].cur
    BY <1>5, <2>2
  <2>9. v.low <= h[x].price
    BY <2>4, <2>6, <2>7
  <2> QED
    BY <2>2, <2>4, <2>6, <2>8, <2>9
<1>8. AllCovered(p)
  BY <1>1, <1>7 DEF AllCovered, Covered
<1>9. Priced(p)
  <2>1. ASSUME NEW x \in DOMAIN r, r[x].id \in IdsOf(p) PROVE HasPrior(WatchOf(p, r[x].id))
    <3>1. PICK k \in DOMAIN c : c[k].id = r[x].id
      BY <1>1, <2>1 DEF IdsOf
    <3>2. WatchOf(p, r[x].id) = c[k]
      BY <1>1, <1>4, <1>6, <3>1, AtPosition
    <3>3. c[k].low > 0
      BY <1>7, <3>1 DEF PointsOf
    <3> QED
      BY <3>2, <3>3 DEF HasPrior
  <2> QED
    BY <1>1, <2>1 DEF Priced
<1>10. CanonicalTexts(p)
  <2>1. ASSUME NEW k \in DOMAIN c PROVE Upper[c[k].cur] = c[k].cur
    <3>1. PICK i \in DOMAIN g.watches : Survives(g, d, i, c[k])
      BY <1>2
    <3>2. /\ c[k].cur = g.watches[Survivor(g, d, GroupOf(g, i))].cur
          /\ Survivor(g, d, GroupOf(g, i)) \in DOMAIN g.watches
      BY <3>1, MergedOf DEF Survives
    <3> QED
      BY <3>2 DEF CanonicalTexts
  <2>2. ASSUME NEW x \in DOMAIN r PROVE Upper[r[x].cur] = r[x].cur
    <3>1. r[x].cur = h[x].cur /\ x \in DOMAIN g.history
      BY <1>3, <1>5
    <3> QED
      BY <3>1 DEF CanonicalTexts
  <2> QED
    BY <1>1, <2>1, <2>2 DEF CanonicalTexts
<1>11. Normal(p)
  BY <1>4, <1>9, <1>10 DEF Normal, Loadable
<1> QED
  BY <1>4, <1>6, <1>8, <1>11 DEF p

(* A point of a watch stays with it through compaction.                     *)
LEMMA CoveredBelong ==
  ASSUME NEW g \in Generations, OneIdEach(g), AllCovered(g), NEW i \in DOMAIN g.watches,
         NEW k \in PointsOf(g.history, g.watches[i].id)
  PROVE  Belongs(g, g.history[k])
<1>1. g.history[k].id = g.watches[i].id /\ k \in DOMAIN g.history
  BY DEF PointsOf
<1>2. g.history[k].cur = g.watches[i].cur
  BY DEF AllCovered, Covered
<1>3. WatchOf(g, g.watches[i].id) = g.watches[i] /\ g.watches[i].id \in IdsOf(g)
  BY AtPosition
<1> QED
  BY <1>1, <1>2, <1>3 DEF Belongs

\* What a migration leaves, and every later operation with it.
Settled(g) == Sound(g) /\ OneEach(g)

(* In a sound generation no point is an orphan.                             *)
LEMMA SoundPlaced ==
  ASSUME NEW g, Sound(g)
  PROVE  Placed(g)
  BY DEF Sound, Owned, Belongs, Placed

(* A compaction of a normal store makes it sound and caps its routes, and   *)
(* keeps the series of its watches.                                         *)
LEMMA CompactCovered ==
  ASSUME NEW g \in Generations, OneIdEach(g), OneEach(g), Normal(g), AllCovered(g)
  PROVE  LET c == Compact(g)
         IN /\ Settled(c) /\ OneIdEach(c) /\ RoutesCapped(c.history) /\ AllCovered(c) /\ Placed(c)
            /\ \A i \in DOMAIN c.watches : SeriesKept(g.history, c.history, c.watches[i].id)
<1> DEFINE c == Compact(g)
<1>1. /\ c \in Generations /\ c.watches = g.watches
      /\ \A l \in DOMAIN c.history : \E i \in DOMAIN g.history : c.history[l] = g.history[i]
      /\ \A k \in Ids :
           (\A i \in PointsOf(g.history, k) : Belongs(g, g.history[i]))
             => SeriesKept(g.history, c.history, k)
      /\ RoutesCapped(c.history)
  BY CompactDoes
<1>2. Sound(c)
  BY CompactSound
<1> HIDE DEF c
<1>3. OneIdEach(c) /\ OneEach(c)
  BY <1>1 DEF OneIdEach, OneEach
<1>4. ASSUME NEW i \in DOMAIN c.watches, NEW x \in PointsOf(c.history, c.watches[i].id)
      PROVE  /\ c.watches[i].low > 0 /\ c.history[x].cur = c.watches[i].cur
             /\ c.watches[i].low <= c.history[x].price
  <2>1. c.history[x].id = c.watches[i].id /\ x \in DOMAIN c.history
    BY DEF PointsOf
  <2>2. PICK y \in DOMAIN g.history : c.history[x] = g.history[y]
    BY <1>1, <2>1
  <2>3. y \in PointsOf(g.history, g.watches[i].id) /\ i \in DOMAIN g.watches
    BY <1>1, <2>1, <2>2 DEF PointsOf
  <2> QED
    BY <1>1, <2>2, <2>3 DEF AllCovered, Covered
<1>5. AllCovered(c)
  BY <1>4 DEF AllCovered, Covered
<1>6. ASSUME NEW i \in DOMAIN c.watches PROVE SeriesKept(g.history, c.history, c.watches[i].id)
  <2>1. \A k \in PointsOf(g.history, c.watches[i].id) : Belongs(g, g.history[k])
    BY <1>1, CoveredBelong
  <2>2. c.watches[i].id \in Ids
    BY <1>1, WatchAt
  <2> QED
    BY <1>1, <2>1, <2>2
<1> QED
  BY <1>1, <1>2, <1>3, <1>5, <1>6, SoundPlaced DEF c, Settled

(***************************************************************************)
(* A store with one watch per target has nothing to merge.                 *)
(***************************************************************************)
LEMMA MergeNothing ==
  ASSUME NEW g \in Generations, OneIdEach(g), OneEach(g), NEW d
  PROVE  Merge(g, d) = g /\ \A i \in DOMAIN g.watches : GroupOf(g, i) = {i}
<1>1. /\ g.watches \in Seq(Watches) /\ g.history \in Seq(Points)
      /\ g = [watches |-> g.watches, history |-> g.history]
  BY DEF Generations
<1>2. ASSUME NEW i \in DOMAIN g.watches
      PROVE  GroupOf(g, i) = {i} /\ Survivor(g, d, {i}) = i /\ Like(g, d, {i}) = {i}
  <2>1. GroupOf(g, i) = {i}
    BY DEF GroupOf, OneEach
  <2>2. Survivor(g, d, {i}) \in {i} /\ Survivor(g, d, {i}) \in Like(g, d, {i})
    BY <2>1, MergedOf
  <2>3. Like(g, d, {i}) \subseteq {i}
    BY DEF Like
  <2> QED
    BY <2>1, <2>2, <2>3
<1>3. \A x \in Nat : Lowest0({x}) = x /\ Highest({x}) = x
  <2>1. ASSUME NEW x \in Nat PROVE Lowest0({x}) = x
    <3>1. {x} \in SUBSET Nat
      OBVIOUS
    <3> QED
      BY <3>1, Lowest0Is
  <2>2. ASSUME NEW x \in Nat PROVE Highest({x}) = x
    BY DEF Highest, Max
  <2> QED
    BY <2>1, <2>2
<1>4. ASSUME NEW i \in DOMAIN g.watches PROVE Merged(g, d, GroupOf(g, i)) = g.watches[i]
  <2> DEFINE w == g.watches[i]
  <2>1. w \in Watches /\ w.low \in Nat /\ w.base \in Nat /\ w.alerted \in Nat
    BY WatchAt DEF Watches
  <2>2. /\ {g.watches[j].low : j \in {i}} = {w.low} /\ {g.watches[j].base : j \in {i}} = {w.base}
        /\ {g.watches[j].alerted : j \in {i}} = {w.alerted}
    OBVIOUS
  <2>3. Merged(g, d, {i}) = [w EXCEPT !.low = w.low, !.base = w.base, !.alerted = w.alerted]
    BY <1>2, <1>3, <2>1, <2>2 DEF Merged
  <2> QED
    BY <1>2, <2>1, <2>3 DEF Watches
<1>5. Collapsed(g, d) = g.watches
  <2>1. DOMAIN g.watches \ Firsts(g) = {}
    <3>1. ASSUME NEW i \in DOMAIN g.watches PROVE i \in Firsts(g)
      <4>1. i \in Nat
        BY <1>1
      <4>2. GroupOf(g, i) = {i}
        BY <1>2
      <4>3. \A j \in GroupOf(g, i) : i <= j
        BY <4>1, <4>2
      <4> QED
        BY <4>3 DEF Firsts
    <3> QED
      BY <3>1
  <2>2. [i \in DOMAIN g.watches |-> Merged(g, d, GroupOf(g, i))] = g.watches
    BY <1>1, <1>4
  <2>3. Collapsed(g, d) = Without(g.watches, {})
    BY <2>1, <2>2 DEF Collapsed
  <2> QED
    BY <1>1, <2>3, WithoutNothing
<1>6. Reassigned(g, d) = g.history
  <2>1. ASSUME NEW k \in DOMAIN g.history PROVE Heir(g, d, g.history[k]) = g.history[k]
    <3> DEFINE pt == g.history[k]
    <3>1. pt \in Points
      BY <1>1
    <3>2. CASE \E i \in DOMAIN g.watches :
                 g.watches[i].id = pt.id /\ i \in Like(g, d, GroupOf(g, i))
      <4>1. PICK i \in DOMAIN g.watches :
                   g.watches[i].id = pt.id /\ i \in Like(g, d, GroupOf(g, i))
        BY <3>2
      <4>2. Heir(g, d, pt) = [pt EXCEPT !.id = g.watches[Survivor(g, d, GroupOf(g, i))].id]
        BY <3>1, <4>1, HeirIs
      <4>3. Heir(g, d, pt) = [pt EXCEPT !.id = pt.id]
        BY <1>2, <4>1, <4>2
      <4> QED
        BY <3>1, <4>3 DEF Points
    <3>3. CASE \A i \in DOMAIN g.watches :
                 g.watches[i].id = pt.id => i \notin Like(g, d, GroupOf(g, i))
      BY <3>1, <3>3, HeirIs
    <3> QED
      BY <3>2, <3>3
  <2> QED
    BY <1>1, <2>1 DEF Reassigned
<1> QED
  BY <1>1, <1>2, <1>5, <1>6 DEF Merge

(***************************************************************************)
(* A migration always leaves the merged and compacted store: one that is   *)
(* not written is that store already.                                      *)
(***************************************************************************)
LEMMA MigrateIs ==
  ASSUME NEW g \in Generations, OneIdEach(g), CanonicalTexts(g), AllCovered(g), NEW d
  PROVE  LET e == MigrateIn(g, d)
         IN /\ e.gen = Compact(Merge(g, d)) /\ e.verdict \in {"save", "skip"}
            /\ e.verdict = "skip" =>
                 /\ OneEach(g)
                 /\ \A i \in DOMAIN g.watches : LatestRenewal(g, d, GroupOf(g, i)) # 0
<1> DEFINE p    == Merge(g, d)
           next == Compact(p)
           e    == MigrateIn(g, d)
           same == /\ ~(Len(next.watches) < Len(g.watches))
                   /\ ~(\E i \in DOMAIN g.watches : LatestRenewal(g, d, GroupOf(g, i)) = 0)
                   /\ ~(Len(next.history) < Len(g.history))
<1>1. e = IF same THEN Skip(g, "clean") ELSE Save(next, "migrated")
  BY DEF MigrateIn
<1>2. p \in Generations
  BY MergeKeeps
<1>3. next.watches = Collapsed(g, d) /\ next \in Generations
  BY <1>2, CompactDoes DEF Merge
<1>4. CASE ~same
  BY <1>1, <1>4 DEF Save
<1>5. CASE same
  <2>1. Len(Collapsed(g, d)) >= Len(g.watches)
    <3>1. Len(Collapsed(g, d)) \in Nat /\ Len(g.watches) \in Nat
      BY CollapsedIs DEF Generations
    <3> QED
      BY <1>3, <1>5, <3>1
  <2>2. Firsts(g) = DOMAIN g.watches
    BY <2>1, CollapsedIs
  <2>3. OneEach(g)
    <3>1. ASSUME NEW i \in DOMAIN g.watches, NEW j \in DOMAIN g.watches,
                 DedupeKey(g.watches[i]) = DedupeKey(g.watches[j])
          PROVE  i = j
      <4>1. i \in GroupOf(g, j)
        BY <3>1 DEF GroupOf
      <4>2. GroupOf(g, i) = GroupOf(g, j)
        BY <4>1, GroupIs
      <4> QED
        BY <2>2, <4>2, FirstsAre
    <3> QED
      BY <3>1 DEF OneEach
  <2>4. p = g
    BY <2>3, MergeNothing
  <2>5. next = g
    <3>1. Len(next.history) >= Len(g.history)
      <4>1. Len(next.history) \in Nat /\ Len(g.history) \in Nat
        BY <1>3 DEF Generations
      <4> QED
        BY <1>5, <4>1
    <3>2. next = Compact(g)
      BY <2>4
    <3> HIDE DEF next, p
    <3> QED
      BY <3>1, <3>2, CompactNoShorter
  <2> QED
    BY <1>1, <1>5, <2>3, <2>5 DEF Skip
<1> QED
  BY <1>4, <1>5

(* The latest renewal of a group is a date.                                 *)
LEMMA RenewalIs ==
  ASSUME NEW g \in Generations, NEW d \in [Ids -> Dates], NEW i \in DOMAIN g.watches
  PROVE  LatestRenewal(g, d, GroupOf(g, i)) \in Nat
<1> DEFINE G == GroupOf(g, i)
           f == [j \in G |-> d[g.watches[j].id].renewed]
<1>1. Len(g.watches) \in Nat /\ G \in SUBSET (1..Len(g.watches)) /\ \A j \in G : j \in DOMAIN g.watches
  BY GroupIs
<1>2. f \in [G -> Nat]
  <2>1. ASSUME NEW j \in G PROVE d[g.watches[j].id].renewed \in Nat
    <3>1. d[g.watches[j].id] \in Dates
      BY <1>1, WatchAt
    <3> QED
      BY <3>1 DEF Dates
  <2> QED
    BY <2>1
<1>3. {f[j] : j \in G} = {d[g.watches[j].id].renewed : j \in G}
  OBVIOUS
<1>4. Highest({f[j] : j \in G}) \in Nat
  <2> HIDE DEF f, G
  <2> QED
    BY <1>1, <1>2, HighestIs
<1> QED
  BY <1>3, <1>4 DEF LatestRenewal

(* After a migration every watch has a date to be renewed from.             *)
LEMMA RedatedIs ==
  ASSUME NEW g \in Generations, OneIdEach(g), NEW d \in [Ids -> Dates], NEW t \in Nat \ {0}
  PROVE  /\ Redated(g, d, t) \in [Ids -> Dates]
         /\ \A i \in DOMAIN g.watches : Redated(g, d, t)[g.watches[i].id].renewed # 0
<1> DEFINE Here(id) == {i \in DOMAIN g.watches : g.watches[i].id = id}
           G(id)    == GroupOf(g, Min(Here(id)))
           New(id)  == LatestRenewal(g, d, G(id))
           f        == Redated(g, d, t)
<1>1. ASSUME NEW id \in Ids
      PROVE  /\ f[id] \in Dates
             /\ Here(id) # {} => f[id].renewed # 0
  <2>1. CASE Here(id) = {}
    BY <2>1 DEF Redated
  <2>2. CASE Here(id) # {}
    <3> DEFINE m == Min(Here(id))
               grp == GroupOf(g, m)
               new == LatestRenewal(g, d, grp)
    <3>1. Here(id) \in SUBSET Nat
      BY DEF Generations
    <3>2. m \in Here(id)
      <4> HIDE DEF Here
      <4> QED
        BY <2>2, <3>1, MinIs
    <3>3. new \in Nat
      BY <3>2, RenewalIs
    <3>4. Oldest(g, d, grp) \in Nat
      BY <3>2, GroupIs, OldestIs
    <3>5. f[id] = [d[id] EXCEPT !.created = Oldest(g, d, grp),
                               !.renewed = IF new = 0 THEN t ELSE new]
      BY <2>2 DEF Redated
    <3>6. d[id] \in Dates
      OBVIOUS
    <3> HIDE DEF new, grp, f
    <3> QED
      BY <3>3, <3>4, <3>5, <3>6 DEF Dates
  <2> QED
    BY <2>1, <2>2
<1>2. f = [id \in Ids |-> f[id]]
  BY DEF Redated
<1>3. \A i \in DOMAIN g.watches : i \in Here(g.watches[i].id) /\ g.watches[i].id \in Ids
  BY WatchAt
<1> HIDE DEF f, Here
<1>4. f \in [Ids -> Dates]
  BY <1>1, <1>2
<1> QED
  BY <1>1, <1>3, <1>4 DEF f

-----------------------------------------------------------------------------
(***************************************************************************)
(* A poll leaves the routes' points alone.                                 *)
(***************************************************************************)
RoutesKept(h, r) ==
  /\ r \in Seq(Points)
  /\ \A k \in RouteKeys : /\ TailKept(h, r, k, 0)
                          /\ Cardinality(PointsOf(r, k)) = Cardinality(PointsOf(h, k))
  /\ Cardinality(RoutePoints(r)) <= Cardinality(RoutePoints(h))

(* Leaving the routes alone twice is leaving them alone.                    *)
LEMMA RoutesKeptTransitive ==
  ASSUME NEW h \in Seq(Points), NEW r, NEW s, RoutesKept(h, r), RoutesKept(r, s)
  PROVE  RoutesKept(h, s)
<1>1. r \in Seq(Points) /\ s \in Seq(Points) /\ 0 \in Nat
  BY DEF RoutesKept
<1>2. /\ Cardinality(RoutePoints(h)) \in Nat /\ Cardinality(RoutePoints(r)) \in Nat
      /\ Cardinality(RoutePoints(s)) \in Nat
  BY <1>1, RoutesLeft
<1>3. \A k \in RouteKeys : TailKept(h, s, k, 0)
  BY <1>1, TailTransitive DEF RoutesKept
<1> QED
  BY <1>1, <1>2, <1>3 DEF RoutesKept

(* Removing other points leaves the routes alone.                           *)
LEMMA WithoutKeepsRoutes ==
  ASSUME NEW h \in Seq(Points), NEW doomed, doomed \intersect RoutePoints(h) = {}
  PROVE  RoutesKept(h, Without(h, doomed))
<1>1. ASSUME NEW k \in RouteKeys PROVE PointsOf(h, k) \intersect doomed = {}
  BY DEF PointsOf, RoutePoints
<1>2. /\ Cardinality(RoutePoints(h)) \in Nat
      /\ Cardinality(RoutePoints(Without(h, doomed))) = Cardinality(RoutePoints(h) \ doomed)
      /\ Cardinality(RoutePoints(h) \ doomed) <= Cardinality(RoutePoints(h))
  BY RoutesLeft
<1>3. Without(h, doomed) \in Seq(Points)
  BY WithoutType
<1> QED
  BY <1>1, <1>2, <1>3, Untouched DEF RoutesKept

(* So does removing none.                                                   *)
LEMMA SameKeepsRoutes ==
  ASSUME NEW h \in Seq(Points)
  PROVE  RoutesKept(h, h)
<1>1. Cardinality(RoutePoints(h)) \in Nat
  BY RoutesLeft
<1> QED
  BY <1>1, TailSame DEF RoutesKept

(* A watch's point, and the pruning that follows it.                        *)
LEMMA GrowingKeepsRoutes ==
  ASSUME NEW h \in Seq(Points), NEW pt \in Points, pt.id \notin RouteKeys
  PROVE  RoutesKept(h, PruneGlobal(PruneWatch(Append(h, pt), pt.id)))
<1> DEFINE a == Append(h, pt)
           b == PruneWatch(a, pt.id)
           c == PruneGlobal(b)
<1>1. a \in Seq(Points) /\ RoutesKept(h, a)
  <2>1. /\ a \in Seq(Points)
        /\ \A k : /\ TailKept(h, a, k, IF k = pt.id THEN 1 ELSE 0)
                  /\ Cardinality(PointsOf(a, k))
                       = Cardinality(PointsOf(h, k)) + IF k = pt.id THEN 1 ELSE 0
    BY TailAppend
  <2>2. ASSUME NEW k \in RouteKeys
        PROVE  TailKept(h, a, k, 0) /\ Cardinality(PointsOf(a, k)) = Cardinality(PointsOf(h, k))
    <3>1. k # pt.id
      OBVIOUS
    <3>2. Cardinality(PointsOf(h, k)) \in Nat
      BY Counts
    <3> HIDE DEF a
    <3> QED
      BY <2>1, <3>1, <3>2
  <2>3. RoutePoints(a) = RoutePoints(h)
    <3>1. /\ Len(h) \in Nat /\ DOMAIN h = 1..Len(h) /\ DOMAIN a = 1..(Len(h) + 1)
          /\ a[Len(h) + 1] = pt /\ \A i \in DOMAIN h : a[i] = h[i]
      OBVIOUS
    <3> HIDE DEF a
    <3> QED
      BY <3>1 DEF RoutePoints
  <2>4. Cardinality(RoutePoints(h)) \in Nat
    BY RoutesLeft
  <2> QED
    BY <2>1, <2>2, <2>3, <2>4 DEF RoutesKept
<1> HIDE DEF a
<1>2. b \in Seq(Points) /\ RoutesKept(a, b)
  <2> DEFINE gone == {i \in PointsOf(a, pt.id) :
                        Cardinality({j \in PointsOf(a, pt.id) : j >= i}) > MaxPerWatch}
  <2>1. b = a \/ b = Without(a, gone)
    BY DEF PruneWatch, EvictOldest
  <2>2. gone \intersect RoutePoints(a) = {}
    BY DEF PointsOf, RoutePoints
  <2> HIDE DEF gone, b
  <2>3. RoutesKept(a, b)
    BY <1>1, <2>1, <2>2, WithoutKeepsRoutes, SameKeepsRoutes
  <2> QED
    BY <2>3 DEF RoutesKept
<1> HIDE DEF b
<1>3. RoutesKept(b, c)
  <2> DEFINE gone == {i \in WatchPoints(b) :
                        Cardinality({j \in WatchPoints(b) : j >= i}) > MaxTotal}
  <2>1. c = b \/ c = Without(b, gone)
    BY DEF PruneGlobal, EvictOldest
  <2>2. gone \intersect RoutePoints(b) = {}
    BY DEF WatchPoints
  <2> HIDE DEF gone, c
  <2> QED
    BY <1>2, <2>1, <2>2, WithoutKeepsRoutes, SameKeepsRoutes
<1>4. RoutesKept(h, b)
  BY <1>1, <1>2, RoutesKeptTransitive
<1>5. RoutesKept(h, c)
  BY <1>3, <1>4, RoutesKeptTransitive
<1> QED
  BY <1>5 DEF a, b, c

(* So does purging a watch.                                                 *)
LEMMA PurgeKeepsRoutes ==
  ASSUME NEW h \in Seq(Points), NEW id, id \notin RouteKeys
  PROVE  RoutesKept(h, Purge(h, id))
<1>1. PointsOf(h, id) \intersect RoutePoints(h) = {}
  BY DEF PointsOf, RoutePoints
<1> QED
  BY <1>1, WithoutKeepsRoutes DEF Purge

\* What a poll of the i-th watch leaves, f being its fold and d its effect.
PollLeaves(g, i, r, f, d) ==
  LET p == d.gen
  IN /\ d.verdict = "save" /\ r.id \in IdsOf(g) /\ WatchOf(g, r.id) = g.watches[i]
     /\ p \in Generations /\ OneIdEach(p) /\ IdsOf(p) = IdsOf(g)
     /\ DOMAIN p.watches = DOMAIN g.watches
     /\ \A x \in DOMAIN g.watches : p.watches[x] = IF x = i THEN f.rec ELSE g.watches[x]
     /\ RoutesKept(g.history, p.history)
     /\ \A x \in DOMAIN p.history :
          \/ f.out.point /\ p.history[x] = Point(r)
          \/ \E y \in DOMAIN g.history : p.history[x] = g.history[y]
     /\ ~f.out.point => p.history = g.history
     /\ f.out.point =>
          \A x \in PointsOf(p.history, r.id) :
            \/ p.history[x] = Point(r)
            \/ /\ ~f.out.purge
               /\ \E y \in PointsOf(g.history, r.id) : p.history[x] = g.history[y]

(***************************************************************************)
(* What a quote that is taken leaves: one watch is replaced, by itself     *)
(* with the quote folded in, and no point appears but the quote's.         *)
(***************************************************************************)
LEMMA RecordLeaves ==
  ASSUME NEW g \in Generations, OneIdEach(g), NEW i \in DOMAIN g.watches,
         NEW price \in Nat \ {0}, NEW cur \in Spellings, NEW r,
         r = [op |-> "record", id |-> g.watches[i].id, key |-> PollKey(g.watches[i]),
              price |-> price, cur |-> cur]
  PROVE  PollLeaves(g, i, r, Fold(g.watches[i], price, cur), RecordIn(g, r))
<1> DEFINE w      == g.watches[i]
           f      == Fold(w, price, cur)
           h      == g.history
           purged == IF f.out.purge THEN Purge(h, r.id) ELSE h
           grown  == IF f.out.point
                     THEN PruneGlobal(PruneWatch(Append(purged, Point(r)), r.id)) ELSE purged
           put    == PutWatch(g, f.rec)
           p      == RecordIn(g, r).gen
<1>1. /\ r.id = w.id /\ r.key = PollKey(w) /\ r.price = price /\ r.cur = cur /\ r.op = "record"
      /\ h \in Seq(Points)
  BY DEF Generations
<1>2. r.id \in IdsOf(g) /\ r.id \in Ids /\ WatchOf(g, r.id) = w /\ w \in Watches
  BY <1>1, AtPosition
<1>3. r.id \notin RouteKeys
  BY <1>2, RouteAssumption
<1>4. RecordIn(g, r) = Save([put EXCEPT !.history = grown], f.out)
  BY <1>1, <1>2 DEF RecordIn
<1>5. RecordIn(g, r).verdict = "save" /\ p = [put EXCEPT !.history = grown]
  BY <1>4 DEF Save
<1>6. /\ Turned(g, p, f.rec) /\ f.rec.id = r.id
      /\ ~f.out.point => p.history = h
      /\ f.out.point =>
           \A x \in PointsOf(p.history, r.id) :
             \/ p.history[x] = Point(r)
             \/ /\ ~f.out.purge
                /\ \E y \in PointsOf(h, r.id) : p.history[x] = h[y]
  <2>0. /\ r.price \in Nat \ {0} /\ r.cur \in Spellings
        /\ r.id \in IdsOf(g) /\ RecordIn(g, r).verdict = "save"
    BY <1>1, <1>2, <1>5
  <2>1. Recorded(g, r, Fold(WatchOf(g, r.id), r.price, r.cur), RecordIn(g, r))
    BY <2>0, RecordDoes
  <2>2. Recorded(g, r, f, RecordIn(g, r))
    BY <1>1, <1>2, <2>1
  <2> HIDE DEF f
  <2> QED
    BY <2>2 DEF Recorded
<1>7. f.rec \in Watches
  BY <1>2, FoldIs
<1>8. Point(r) \in Points /\ Point(r).id = r.id
  BY <1>1, <1>2 DEF Point, Points
<1> HIDE DEF f, p, put, h
<1>9. /\ purged \in Seq(Points) /\ RoutesKept(h, purged)
      /\ \A x \in DOMAIN purged : \E y \in DOMAIN h : purged[x] = h[y]
  <2>1. RoutesKept(h, Purge(h, r.id)) /\ RoutesKept(h, h)
    BY <1>1, <1>3, PurgeKeepsRoutes, SameKeepsRoutes
  <2>2. RoutesKept(h, purged)
    BY <2>1
  <2>3. \A x \in DOMAIN purged : \E y \in DOMAIN h : purged[x] = h[y]
    BY <1>1, PurgeIs
  <2> QED
    BY <2>2, <2>3 DEF RoutesKept
<1> HIDE DEF purged
<1>10. /\ grown \in Seq(Points) /\ RoutesKept(h, grown)
       /\ \A x \in DOMAIN grown : \/ f.out.point /\ grown[x] = Point(r)
                                  \/ \E y \in DOMAIN h : grown[x] = h[y]
  <2>1. CASE ~f.out.point
    BY <1>9, <2>1
  <2>2. CASE f.out.point
    <3> DEFINE a == Append(purged, Point(r))
               b == PruneWatch(a, r.id)
               c == PruneGlobal(b)
    <3>1. grown = c
      BY <2>2
    <3>2. RoutesKept(h, c)
      <4>1. RoutesKept(purged, c)
        BY <1>3, <1>8, <1>9, GrowingKeepsRoutes
      <4> HIDE DEF c
      <4> QED
        BY <1>1, <1>9, <4>1, RoutesKeptTransitive
    <3>3. /\ a \in Seq(Points)
          /\ \A x \in DOMAIN a : a[x] = Point(r) \/ \E y \in DOMAIN purged : a[x] = purged[y]
      BY <1>8, <1>9
    <3> HIDE DEF a
    <3>4. LeftOf(a, b)
      BY <3>3, PruneWatchIs
    <3>5. b \in Seq(Points)
      BY <3>4 DEF LeftOf
    <3> HIDE DEF b
    <3>6. LeftOf(b, c)
      BY <3>5, PruneGlobalIs
    <3>7. LeftOf(a, c)
      BY <3>3, <3>4, <3>6, LeftTransitive
    <3> HIDE DEF c
    <3>8. \A x \in DOMAIN c : \/ c[x] = Point(r) \/ \E y \in DOMAIN h : c[x] = h[y]
      BY <1>9, <3>3, <3>7 DEF LeftOf
    <3>9. c \in Seq(Points)
      BY <3>7 DEF LeftOf
    <3> HIDE DEF grown
    <3> QED
      BY <2>2, <3>1, <3>2, <3>8, <3>9
  <2> QED
    BY <2>1, <2>2
<1> HIDE DEF grown
<1>11. /\ put \in Generations /\ DOMAIN put.watches = DOMAIN g.watches /\ IdsOf(put) = IdsOf(g)
       /\ \A x \in DOMAIN g.watches : put.watches[x] = IF x = i THEN f.rec ELSE g.watches[x]
  <2>1. /\ put \in Generations /\ DOMAIN put.watches = DOMAIN g.watches /\ IdsOf(put) = IdsOf(g)
        /\ \E m : /\ FirstAt(g.watches, f.rec.id, m)
                  /\ \A x \in DOMAIN g.watches :
                       put.watches[x] = IF x = m THEN f.rec ELSE g.watches[x]
    BY <1>2, <1>6, <1>7, PutWatchIs DEF put
  <2>2. PICK m : /\ FirstAt(g.watches, f.rec.id, m)
                 /\ \A x \in DOMAIN g.watches :
                      put.watches[x] = IF x = m THEN f.rec ELSE g.watches[x]
    BY <2>1
  <2>3. m = i
    BY <1>1, <1>6, <2>2 DEF FirstAt, OneIdEach
  <2> QED
    BY <2>1, <2>2, <2>3
<1>12. /\ p \in Generations /\ p.watches = put.watches /\ p.history = grown /\ IdsOf(p) = IdsOf(g)
  BY <1>5, <1>10, <1>11, WithHistoryIs
<1>13. OneIdEach(p)
  BY <1>6 DEF Turned
<1>14. /\ RoutesKept(h, p.history)
       /\ \A x \in DOMAIN p.history : \/ f.out.point /\ p.history[x] = Point(r)
                                      \/ \E y \in DOMAIN h : p.history[x] = h[y]
  BY <1>10, <1>12
<1>15. /\ p.watches = put.watches /\ DOMAIN p.watches = DOMAIN g.watches
       /\ \A x \in DOMAIN g.watches : p.watches[x] = IF x = i THEN f.rec ELSE g.watches[x]
  BY <1>11, <1>12
<1>16. /\ RecordIn(g, r).verdict = "save" /\ r.id \in IdsOf(g) /\ WatchOf(g, r.id) = w
       /\ p \in Generations /\ OneIdEach(p) /\ IdsOf(p) = IdsOf(g)
  BY <1>2, <1>5, <1>12, <1>13
<1>17. /\ ~f.out.point => p.history = h
       /\ f.out.point =>
            \A x \in PointsOf(p.history, r.id) :
              \/ p.history[x] = Point(r)
              \/ /\ ~f.out.purge
                 /\ \E y \in PointsOf(h, r.id) : p.history[x] = h[y]
  BY <1>6
<1> QED
  BY <1>14, <1>15, <1>16, <1>17 DEF PollLeaves, f, h, p

(***************************************************************************)
(* A watch goes on having seen the prices retained for it: a quote taken   *)
(* in another currency than its points' purges them.                       *)
(***************************************************************************)
LEMMA FoldCovers ==
  ASSUME NEW w \in Watches, NEW price \in Nat \ {0},
         NEW cur \in IF w.cur = NoCur THEN Codes ELSE {w.cur}
  PROVE  LET f == Fold(w, price, cur)
         IN /\ f.rec \in Watches /\ f.rec.id = w.id /\ f.rec.cur \in {w.cur, cur}
            /\ cur \in Spellings /\ (Upper[w.cur] = w.cur => Upper[cur] = cur)
            /\ ~f.out.point => f.rec.cur = w.cur /\ f.rec.low = w.low
            /\ f.out.point => f.rec.cur = cur /\ f.rec.low > 0 /\ f.rec.low <= price
            /\ f.out.point /\ ~f.out.purge /\ w.low > 0 => w.cur = cur /\ f.rec.low <= w.low
<1> DEFINE f == Fold(w, price, cur)
<1>1. cur \in Spellings /\ (Upper[w.cur] = w.cur => Upper[cur] = cur) /\ cur # NoCur
  BY CurrencyAssumption DEF Watches
<1>2. /\ f.rec \in Watches /\ f.rec.id = w.id
      /\ \/ /\ ~f.out.point /\ ~f.out.purge
            /\ f.rec.cur = w.cur /\ f.rec.low = w.low
         \/ /\ f.out.point /\ f.out.purge = Changed(w, cur)
            /\ f.rec.cur = cur /\ f.rec.low = Lowest(w, price, cur)
  BY <1>1, FoldIs
<1> HIDE DEF f
<1>3. w.low \in Nat
  BY DEF Watches
<1>4. Lowest(w, price, cur) > 0 /\ Lowest(w, price, cur) <= price
  BY <1>3 DEF Lowest
<1>5. ~Changed(w, cur) /\ w.low > 0 => w.cur = cur /\ Lowest(w, price, cur) <= w.low
  BY <1>1, <1>3 DEF Changed, Mismatch, HasPrior, Lowest
<1> QED
  BY <1>1, <1>2, <1>4, <1>5 DEF f

(* A poll of a watch keeps the store in order, and a sound one sound, and   *)
(* leaves the routes alone (MutateAndRecordPrice).                          *)
LEMMA PollKeeps ==
  ASSUME NEW g \in Generations, OneIdEach(g), CanonicalTexts(g), AllCovered(g), Placed(g),
         NEW i \in DOMAIN g.watches, NEW price \in Nat \ {0},
         NEW cur \in IF g.watches[i].cur = NoCur THEN Codes ELSE {g.watches[i].cur},
         NEW r,
         r = [op |-> "record", id |-> g.watches[i].id, key |-> PollKey(g.watches[i]),
              price |-> price, cur |-> cur]
  PROVE  LET p == RecordIn(g, r).gen
         IN /\ p \in Generations /\ OneIdEach(p) /\ CanonicalTexts(p) /\ AllCovered(p)
            /\ Placed(p) /\ IdsOf(p) = IdsOf(g) /\ RoutesKept(g.history, p.history)
            /\ Settled(g) => Settled(p)
<1> DEFINE w == g.watches[i]
           f == Fold(w, price, cur)
           p == RecordIn(g, r).gen
           h == g.history
<1>1. w \in Watches
  BY WatchAt
<1>2. /\ f.rec \in Watches /\ f.rec.id = w.id /\ f.rec.cur \in {w.cur, cur}
      /\ cur \in Spellings /\ (Upper[w.cur] = w.cur => Upper[cur] = cur)
      /\ ~f.out.point => f.rec.cur = w.cur /\ f.rec.low = w.low
      /\ f.out.point => f.rec.cur = cur /\ f.rec.low > 0 /\ f.rec.low <= price
      /\ f.out.point /\ ~f.out.purge /\ w.low > 0 => w.cur = cur /\ f.rec.low <= w.low
  BY <1>1, FoldCovers
<1>c. cur \in Spellings
  BY <1>2
<1>l. PollLeaves(g, i, r, f, RecordIn(g, r))
  BY <1>c, RecordLeaves
<1>3. /\ RecordIn(g, r).verdict = "save" /\ r.id \in IdsOf(g) /\ WatchOf(g, r.id) = w
      /\ p \in Generations /\ OneIdEach(p) /\ IdsOf(p) = IdsOf(g)
      /\ DOMAIN p.watches = DOMAIN g.watches
      /\ \A x \in DOMAIN g.watches : p.watches[x] = IF x = i THEN f.rec ELSE g.watches[x]
      /\ RoutesKept(h, p.history)
      /\ \A x \in DOMAIN p.history :
           \/ f.out.point /\ p.history[x] = Point(r)
           \/ \E y \in DOMAIN h : p.history[x] = h[y]
      /\ ~f.out.point => p.history = h
      /\ f.out.point =>
           \A x \in PointsOf(p.history, r.id) :
             \/ p.history[x] = Point(r)
             \/ /\ ~f.out.purge
                /\ \E y \in PointsOf(h, r.id) : p.history[x] = h[y]
  <2> HIDE DEF f
  <2> QED
    BY <1>l DEF PollLeaves
<1>4. /\ r.id = w.id /\ r.price = price /\ r.cur = cur /\ r.op = "record"
      /\ Point(r) = [id |-> w.id, price |-> price, cur |-> cur]
      /\ h \in Seq(Points)
  BY DEF Point, Generations
<1>5. \A y \in DOMAIN h : h[y] \in Points /\ Upper[h[y].cur] = h[y].cur
  BY <1>4 DEF CanonicalTexts
<1>6. Upper[w.cur] = w.cur /\ Upper[cur] = cur
  BY <1>2 DEF CanonicalTexts
<1> HIDE DEF f, p
<1>7. CanonicalTexts(p)
  <2>1. ASSUME NEW x \in DOMAIN p.watches PROVE Upper[p.watches[x].cur] = p.watches[x].cur
    BY <1>2, <1>3, <1>6 DEF CanonicalTexts
  <2>2. ASSUME NEW x \in DOMAIN p.history PROVE Upper[p.history[x].cur] = p.history[x].cur
    BY <1>3, <1>4, <1>5, <1>6
  <2> QED
    BY <2>1, <2>2 DEF CanonicalTexts
<1>8. Placed(p)
  <2>1. ASSUME NEW x \in DOMAIN p.history PROVE p.history[x].id \in IdsOf(p) \union RouteKeys
    BY <1>3, <1>4 DEF Placed
  <2> QED
    BY <2>1 DEF Placed
<1>9. AllCovered(p)
  <2>1. ASSUME NEW k \in DOMAIN p.watches, NEW x \in PointsOf(p.history, p.watches[k].id)
        PROVE  /\ p.watches[k].low > 0 /\ p.history[x].cur = p.watches[k].cur
               /\ p.watches[k].low <= p.history[x].price
    <3>1. x \in DOMAIN p.history /\ p.history[x].id = p.watches[k].id
      BY DEF PointsOf
    <3>2. CASE k # i
      <4>1. p.watches[k] = g.watches[k] /\ k \in DOMAIN g.watches
        BY <1>3, <3>2
      <4>2. g.watches[k].id # w.id
        BY <3>2, <4>1 DEF OneIdEach
      <4>3. PICK y \in DOMAIN h : p.history[x] = h[y]
        BY <1>3, <1>4, <3>1, <4>1, <4>2
      <4>4. y \in PointsOf(h, g.watches[k].id)
        BY <3>1, <4>1, <4>3 DEF PointsOf
      <4> QED
        BY <4>1, <4>3, <4>4 DEF AllCovered, Covered
    <3>3. CASE k = i /\ ~f.out.point
      <4>1. p.history = h /\ p.watches[k] = f.rec
        BY <1>3, <3>3
      <4>2. x \in PointsOf(h, w.id)
        BY <1>2, <3>1, <4>1 DEF PointsOf
      <4>3. w.low > 0 /\ h[x].cur = w.cur /\ w.low <= h[x].price
        BY <4>2 DEF AllCovered, Covered
      <4> QED
        BY <1>2, <3>3, <4>1, <4>3
    <3>4. CASE k = i /\ f.out.point
      <4>1. p.watches[k] = f.rec /\ x \in PointsOf(p.history, r.id)
        BY <1>2, <1>3, <1>4, <3>1, <3>4 DEF PointsOf
      <4>2. CASE p.history[x] = Point(r)
        BY <1>2, <1>4, <3>4, <4>1, <4>2
      <4>3. CASE ~f.out.purge /\ \E y \in PointsOf(h, r.id) : p.history[x] = h[y]
        <5>1. PICK y \in PointsOf(h, w.id) : p.history[x] = h[y]
          BY <1>4, <4>3
        <5>2. w.low > 0 /\ h[y].cur = w.cur /\ w.low <= h[y].price /\ y \in DOMAIN h
          BY DEF AllCovered, Covered, PointsOf
        <5>3. w.low \in Nat /\ f.rec.low \in Nat /\ h[y].price \in Nat
          BY <1>1, <1>2, <1>5, <5>2 DEF Watches, Points
        <5>4. f.rec.cur = cur /\ f.rec.low > 0 /\ w.cur = cur /\ f.rec.low <= w.low
          BY <1>2, <3>4, <4>3, <5>2
        <5>5. f.rec.low <= h[y].price
          BY <5>2, <5>3, <5>4
        <5> QED
          BY <4>1, <5>1, <5>2, <5>4, <5>5
      <4> QED
        BY <1>3, <3>4, <4>1, <4>2, <4>3
    <3> QED
      BY <3>2, <3>3, <3>4
  <2> QED
    BY <2>1 DEF AllCovered, Covered
<1>10. Settled(g) => Settled(p)
  <2>1. SUFFICES ASSUME Sound(g), OneEach(g) PROVE Sound(p) /\ OneEach(p)
    BY DEF Settled
  <2>2. Normal(g)
    BY <2>1, SoundNormal
  <2>3. Askable(r)
    BY <1>2, <1>4, <1>6 DEF Askable
  <2> QED
    BY <1>3, <1>4, <2>1, <2>2, <2>3, RecordKeeps DEF p
<1> QED
  BY <1>3, <1>7, <1>8, <1>9, <1>10 DEF p

(***************************************************************************)
(* A search adds a point to its route: the watches' points stay, and the   *)
(* routes pay for it fairly.                                               *)
(***************************************************************************)
LEMMA ObservedRoutes ==
  ASSUME NEW h \in Seq(Points), NEW pt \in Points, pt.id \in RouteKeys
  PROVE  LET c == PruneRoutes(PruneRoute(Append(h, pt), pt.id))
         IN /\ c \in Seq(Points)
            /\ \A x \in DOMAIN c : c[x] = pt \/ \E y \in DOMAIN h : c[x] = h[y]
            /\ Cardinality(WatchPoints(c)) <= Cardinality(WatchPoints(h))
            /\ \A id : id # pt.id => Cardinality(PointsOf(c, id)) <= Cardinality(PointsOf(h, id))
            /\ \A k \in RouteKeys : \E n \in {0, 1} :
                 /\ TailKept(h, c, k, n)
                 /\ LET m == Cardinality(PointsOf(c, k))
                    IN m < Cardinality(PointsOf(h, k)) + n =>
                         \/ m = MaxPerRoute
                         \/ /\ Cardinality(RoutePoints(c)) = MaxRoutes
                            /\ \A other \in RouteKeys : Cardinality(PointsOf(c, other)) <= m + 1
            /\ RoutesCapped(h) => RoutesCapped(c)
<1> DEFINE a == Append(h, pt)
           b == PruneRoute(a, pt.id)
           c == PruneRoutes(b)
           N(k) == IF k = pt.id THEN 1 ELSE 0
<1>m. MaxPerRoute \in Nat /\ MaxRoutes \in Nat
  BY RetentionAssumption
<1>1. /\ a \in Seq(Points)
      /\ \A k : /\ TailKept(h, a, k, N(k))
                /\ Cardinality(PointsOf(a, k)) = Cardinality(PointsOf(h, k)) + N(k)
  BY TailAppend
<1>2. /\ \A x \in DOMAIN a : a[x] = pt \/ \E y \in DOMAIN h : a[x] = h[y]
      /\ WatchPoints(a) = WatchPoints(h)
  <2>1. /\ Len(h) \in Nat /\ DOMAIN h = 1..Len(h) /\ DOMAIN a = 1..(Len(h) + 1)
        /\ a[Len(h) + 1] = pt /\ \A i \in DOMAIN h : a[i] = h[i]
    OBVIOUS
  <2> HIDE DEF a
  <2>2. \A x \in DOMAIN a : x = Len(h) + 1 \/ x \in DOMAIN h
    BY <2>1
  <2>3. Len(h) + 1 \notin DOMAIN h
    BY <2>1
  <2> QED
    BY <2>1, <2>2, <2>3 DEF WatchPoints, RoutePoints
<1> HIDE DEF a
<1>3. /\ b \in Seq(Points) /\ LeftOf(a, b)
      /\ \A k \in RouteKeys :
           /\ TailKept(a, b, k, 0)
           /\ Cardinality(PointsOf(b, k)) < Cardinality(PointsOf(a, k)) =>
                Cardinality(PointsOf(b, k)) = MaxPerRoute
      /\ Cardinality(PointsOf(b, pt.id)) <= MaxPerRoute
  <2> DEFINE hits == PointsOf(a, pt.id)
             gone == {i \in hits : Cardinality({j \in hits : j >= i}) > MaxPerRoute}
  <2>1. CASE Cardinality(hits) <= MaxPerRoute
    <3>1. b = a
      BY <2>1 DEF PruneRoute, EvictOldest
    <3>2. \A k \in RouteKeys : /\ TailKept(a, a, k, 0)
                               /\ ~(Cardinality(PointsOf(a, k)) < Cardinality(PointsOf(a, k)))
      BY <1>1, TailSame, Counts
    <3> HIDE DEF b
    <3> QED
      BY <1>1, <2>1, <3>1, <3>2, LeftReflexive
  <2>2. CASE ~(Cardinality(hits) <= MaxPerRoute)
    <3>1. b = Without(a, gone)
      BY <2>2 DEF PruneRoute, EvictOldest
    <3>2. PointsOf(a, pt.id) \ gone = {i \in PointsOf(a, pt.id) : Depth(a, i) <= MaxPerRoute}
      <4>1. ASSUME NEW i \in hits PROVE i \notin gone <=> Depth(a, i) <= MaxPerRoute
        <5>1. a[i].id = pt.id
          BY DEF PointsOf
        <5>2. Depth(a, i) = Cardinality({j \in hits : j >= i})
          BY <5>1 DEF Depth
        <5>3. Depth(a, i) \in 1..Cardinality(PointsOf(a, pt.id)) /\ Cardinality(PointsOf(a, pt.id)) \in Nat
          BY <1>1, DepthIs
        <5> QED
          BY <1>m, <5>2, <5>3
      <4> QED
        BY <4>1
    <3>3. \A k : k # pt.id => PointsOf(a, k) \intersect gone = {}
      BY DEF PointsOf
    <3> HIDE DEF gone, b, hits
    <3>4. LeftOf(a, b) /\ b \in Seq(Points)
      BY <1>1, <3>1, WithoutLeaves, WithoutType
    <3>5. /\ TailKept(a, b, pt.id, 0)
          /\ Cardinality(PointsOf(b, pt.id))
               = IF Cardinality(PointsOf(a, pt.id)) <= MaxPerRoute
                 THEN Cardinality(PointsOf(a, pt.id)) ELSE MaxPerRoute
      BY <1>1, <1>m, <3>1, <3>2, CutSeries
    <3>6. ASSUME NEW k \in RouteKeys, k # pt.id
          PROVE  TailKept(a, b, k, 0) /\ Cardinality(PointsOf(b, k)) = Cardinality(PointsOf(a, k))
      BY <1>1, <3>1, <3>3, <3>6, Untouched
    <3>7. \A k : Cardinality(PointsOf(a, k)) \in Nat
      BY <1>1, Counts
    <3>8. Cardinality(PointsOf(b, pt.id)) = MaxPerRoute
      BY <2>2, <3>5 DEF hits
    <3>9. ASSUME NEW k \in RouteKeys
          PROVE  /\ TailKept(a, b, k, 0)
                 /\ Cardinality(PointsOf(b, k)) < Cardinality(PointsOf(a, k)) =>
                      Cardinality(PointsOf(b, k)) = MaxPerRoute
      <4>1. CASE k = pt.id
        BY <3>5, <3>8, <4>1
      <4>2. CASE k # pt.id
        BY <3>6, <3>7, <4>2
      <4> QED
        BY <4>1, <4>2
    <3> QED
      BY <1>m, <3>4, <3>8, <3>9
  <2> QED
    BY <2>1, <2>2
<1> HIDE DEF b
<1>4. /\ LeftOf(b, c) /\ Cardinality(RoutePoints(c)) <= MaxRoutes
      /\ \A k \in RouteKeys : TailKept(b, c, k, 0)
      /\ FairlyLost(b, c)
  BY <1>3, PruneRoutesIs
<1> HIDE DEF c
<1>5. c \in Seq(Points) /\ LeftOf(a, c)
  <2>1. LeftOf(a, c)
    BY <1>1, <1>3, <1>4, LeftTransitive
  <2> QED
    BY <2>1 DEF LeftOf
<1>6. /\ \A x \in DOMAIN c : c[x] = pt \/ \E y \in DOMAIN h : c[x] = h[y]
      /\ Cardinality(WatchPoints(c)) <= Cardinality(WatchPoints(h))
  BY <1>2, <1>5 DEF LeftOf
<1>7. \A id : id # pt.id => Cardinality(PointsOf(c, id)) <= Cardinality(PointsOf(h, id))
  <2>1. ASSUME NEW id, id # pt.id
        PROVE  Cardinality(PointsOf(c, id)) <= Cardinality(PointsOf(h, id))
    <3>1. Cardinality(PointsOf(h, id)) \in Nat
      BY Counts
    <3>2. Cardinality(PointsOf(a, id)) = Cardinality(PointsOf(h, id))
      BY <1>1, <2>1, <3>1
    <3> QED
      BY <1>5, <3>2 DEF LeftOf
  <2> QED
    BY <2>1
<1>8. ASSUME NEW k \in RouteKeys
      PROVE  \E n \in {0, 1} :
               /\ TailKept(h, c, k, n)
               /\ LET m == Cardinality(PointsOf(c, k))
                  IN m < Cardinality(PointsOf(h, k)) + n =>
                       \/ m = MaxPerRoute
                       \/ /\ Cardinality(RoutePoints(c)) = MaxRoutes
                          /\ \A other \in RouteKeys : Cardinality(PointsOf(c, other)) <= m + 1
  <2>1. N(k) \in {0, 1} /\ N(k) \in Nat
    OBVIOUS
  <2>2. TailKept(h, a, k, N(k)) /\ Cardinality(PointsOf(a, k)) = Cardinality(PointsOf(h, k)) + N(k)
    BY <1>1
  <2> HIDE DEF N
  <2>3. TailKept(h, b, k, N(k))
    BY <1>1, <1>3, <2>1, <2>2, TailTransitive
  <2>4. TailKept(h, c, k, N(k))
    BY <1>3, <1>4, <1>5, <2>1, <2>3, TailTransitive
  <2>5. RouteLost(a, c, k)
    BY <1>1, <1>3, <1>4, <1>5, CutThenShared
  <2> QED
    BY <2>1, <2>2, <2>4, <2>5 DEF RouteLost
<1>9. ASSUME RoutesCapped(h) PROVE RoutesCapped(c)
  <2>1. ASSUME NEW k \in RouteKeys PROVE Cardinality(PointsOf(c, k)) <= MaxPerRoute
    <3>1. /\ Cardinality(PointsOf(c, k)) \in Nat /\ Cardinality(PointsOf(h, k)) \in Nat
          /\ Cardinality(PointsOf(b, k)) \in Nat
      BY <1>3, <1>5, Counts
    <3>2. CASE k = pt.id
      <4>1. Cardinality(PointsOf(c, k)) <= Cardinality(PointsOf(b, k))
        BY <1>4 DEF LeftOf
      <4> QED
        BY <1>3, <1>m, <3>1, <3>2, <4>1
    <3>3. CASE k # pt.id
      <4>1. Cardinality(PointsOf(h, k)) <= MaxPerRoute
        BY <1>9 DEF RoutesCapped
      <4> QED
        BY <1>7, <1>m, <3>1, <3>3, <4>1
    <3> QED
      BY <3>2, <3>3
  <2> QED
    BY <1>4, <2>1 DEF RoutesCapped
<1> QED
  BY <1>5, <1>6, <1>7, <1>8, <1>9 DEF a, b, c

(* An observation keeps the store in order, and a sound one sound; a route  *)
(* has it at its end or has paid for it (RecordObservation).                *)
LEMMA ObserveKeeps ==
  ASSUME NEW g \in Generations, OneIdEach(g), CanonicalTexts(g), AllCovered(g), Placed(g),
         NEW r, r.id \in RouteKeys, r.price \in Nat \ {0}, r.cur \in Spellings,
         Upper[r.cur] = r.cur
  PROVE  LET p == ObserveIn(g, r).gen
         IN /\ p \in Generations /\ OneIdEach(p) /\ CanonicalTexts(p) /\ AllCovered(p)
            /\ Placed(p) /\ IdsOf(p) = IdsOf(g)
            /\ \A k \in RouteKeys : \E n \in {0, 1} :
                 /\ TailKept(g.history, p.history, k, n)
                 /\ LET m == Cardinality(PointsOf(p.history, k))
                    IN m < Cardinality(PointsOf(g.history, k)) + n =>
                         \/ m = MaxPerRoute
                         \/ /\ Cardinality(RoutePoints(p.history)) = MaxRoutes
                            /\ \A other \in RouteKeys :
                                 Cardinality(PointsOf(p.history, other)) <= m + 1
            /\ RoutesCapped(g.history) => RoutesCapped(p.history)
            /\ Settled(g) => Settled(p)
<1> DEFINE h  == g.history
           pt == Point(r)
           c  == PruneRoutes(PruneRoute(Append(h, pt), pt.id))
           q  == [g EXCEPT !.history = c]
           p  == ObserveIn(g, r).gen
           Paid(s) ==
             \A k \in RouteKeys : \E n \in {0, 1} :
               /\ TailKept(h, s, k, n)
               /\ LET m == Cardinality(PointsOf(s, k))
                  IN m < Cardinality(PointsOf(h, k)) + n =>
                       \/ m = MaxPerRoute
                       \/ /\ Cardinality(RoutePoints(s)) = MaxRoutes
                          /\ \A other \in RouteKeys : Cardinality(PointsOf(s, other)) <= m + 1
           Fine(x) ==
             /\ x \in Generations /\ OneIdEach(x) /\ CanonicalTexts(x) /\ AllCovered(x)
             /\ Placed(x) /\ IdsOf(x) = IdsOf(g) /\ Paid(x.history)
             /\ RoutesCapped(h) => RoutesCapped(x.history)
             /\ Settled(g) => Settled(x)
<1>1. h \in Seq(Points) /\ \A k \in DOMAIN h : h[k] \in Points
  BY DEF Generations
<1>2. pt \in Points /\ pt.id = r.id /\ pt.cur = r.cur
  BY DEF Point, Points
<1>3. p = g \/ p = q
  BY <1>2 DEF ObserveIn, Skip, Save
<1> HIDE DEF p, pt
<1>4. Paid(h)
  <2>1. ASSUME NEW k \in RouteKeys
        PROVE  /\ TailKept(h, h, k, 0)
               /\ ~(Cardinality(PointsOf(h, k)) < Cardinality(PointsOf(h, k)) + 0)
    BY <1>1, TailSame, Counts
  <2>2. 0 \in {0, 1}
    OBVIOUS
  <2> HIDE DEF h
  <2> QED
    BY <2>1, <2>2
<1>5. Fine(g)
  <2> HIDE DEF Paid
  <2> QED
    BY <1>4
<1>6. Fine(q)
  <2>1. /\ c \in Seq(Points)
        /\ \A x \in DOMAIN c : c[x] = pt \/ \E y \in DOMAIN h : c[x] = h[y]
        /\ Cardinality(WatchPoints(c)) <= Cardinality(WatchPoints(h))
        /\ \A id : id # pt.id => Cardinality(PointsOf(c, id)) <= Cardinality(PointsOf(h, id))
        /\ Paid(c)
        /\ RoutesCapped(h) => RoutesCapped(c)
    BY <1>1, <1>2, ObservedRoutes
  <2> HIDE DEF c, Paid
  <2>2. /\ q \in Generations /\ q.watches = g.watches /\ q.history = c /\ IdsOf(q) = IdsOf(g)
        /\ \A id : WatchOf(q, id) = WatchOf(g, id)
        /\ \A s : Belongs(q, s) = Belongs(g, s)
    BY <2>1, WithHistoryIs
  <2> HIDE DEF q
  <2>3. \A x \in DOMAIN c :
          \/ c[x].id \in RouteKeys /\ c[x].cur = r.cur
          \/ \E y \in DOMAIN h : c[x] = h[y]
    BY <1>2, <2>1
  <2>4. OneIdEach(q)
    BY <2>2 DEF OneIdEach
  <2>5. CanonicalTexts(q)
    BY <2>2, <2>3 DEF CanonicalTexts
  <2>6. Placed(q)
    BY <2>2, <2>3 DEF Placed
  <2>7. AllCovered(q)
    <3>1. ASSUME NEW k \in DOMAIN g.watches, NEW x \in PointsOf(c, g.watches[k].id)
          PROVE  /\ g.watches[k].low > 0 /\ c[x].cur = g.watches[k].cur
                 /\ g.watches[k].low <= c[x].price
      <4>1. x \in DOMAIN c /\ c[x].id = g.watches[k].id
        BY DEF PointsOf
      <4>2. c[x].id \notin RouteKeys
        BY <4>1, WatchAt, RouteAssumption
      <4>3. PICK y \in DOMAIN h : c[x] = h[y]
        BY <2>3, <4>1, <4>2
      <4>4. y \in PointsOf(h, g.watches[k].id)
        BY <4>1, <4>3 DEF PointsOf
      <4> QED
        BY <4>3, <4>4 DEF AllCovered, Covered
    <3> QED
      BY <2>2, <3>1 DEF AllCovered, Covered
  <2>8. ASSUME Settled(g) PROVE Settled(q)
    <3>1. OneEach(q)
      BY <2>2, <2>8 DEF Settled, OneEach
    <3>2. Priced(q)
      <4>1. ASSUME NEW x \in DOMAIN c, c[x].id \in IdsOf(g) PROVE HasPrior(WatchOf(g, c[x].id))
        <5>1. c[x].id \notin RouteKeys
          BY <4>1, WatchOfIs, RouteAssumption
        <5>2. PICK y \in DOMAIN h : c[x] = h[y]
          BY <2>3, <5>1
        <5> QED
          BY <2>8, <4>1, <5>2 DEF Settled, Sound, Loadable, Priced
      <4> QED
        BY <2>2, <4>1 DEF Priced
    <3>3. Owned(q)
      <4>1. ASSUME NEW x \in DOMAIN c PROVE Belongs(g, c[x])
        <5>1. CASE c[x].id \in RouteKeys
          BY <5>1 DEF Belongs
        <5>2. CASE c[x].id \notin RouteKeys
          <6>1. PICK y \in DOMAIN h : c[x] = h[y]
            BY <2>3, <5>2
          <6> QED
            BY <2>8, <6>1 DEF Settled, Sound, Owned
        <5> QED
          BY <5>1, <5>2
      <4> QED
        BY <2>2, <4>1 DEF Owned
    <3>4. Capped(q)
      <4>1. /\ Cardinality(WatchPoints(c)) \in Nat /\ Cardinality(WatchPoints(h)) \in Nat
            /\ \A id : Cardinality(PointsOf(c, id)) \in Nat /\ Cardinality(PointsOf(h, id)) \in Nat
        BY <1>1, <2>1, Counts
      <4>2. MaxTotal \in Nat /\ MaxPerWatch \in Nat
        BY RetentionAssumption
      <4>3. Cardinality(WatchPoints(c)) <= MaxTotal
        <5>1. Cardinality(WatchPoints(h)) <= MaxTotal
          BY <2>8 DEF Settled, Sound, Capped
        <5> QED
          BY <2>1, <4>1, <4>2, <5>1
      <4>4. ASSUME NEW id \in IdsOf(g) PROVE Cardinality(PointsOf(c, id)) <= MaxPerWatch
        <5>1. id # r.id
          BY WatchOfIs, RouteAssumption
        <5>2. Cardinality(PointsOf(h, id)) <= MaxPerWatch
          BY <2>8 DEF Settled, Sound, Capped
        <5> QED
          BY <1>2, <2>1, <4>1, <4>2, <5>1, <5>2
      <4> QED
        BY <2>2, <4>3, <4>4 DEF Capped
    <3> QED
      BY <2>2, <2>5, <3>1, <3>2, <3>3, <3>4 DEF Settled, Sound, Loadable
  <2> QED
    BY <2>1, <2>2, <2>4, <2>5, <2>6, <2>7, <2>8
<1> HIDE DEF Fine, q
<1>7. Fine(p)
  BY <1>3, <1>5, <1>6
<1> QED
  BY <1>7 DEF Fine, Paid, p

(***************************************************************************)
(* A migration leaves the routes their newest points.                      *)
(***************************************************************************)
LEMMA MigrateRoutes ==
  ASSUME NEW g \in Generations, OneIdEach(g), CanonicalTexts(g), AllCovered(g), NEW d
  PROVE  LET c == Compact(Merge(g, d)).history
         IN \A k \in RouteKeys : TailKept(g.history, c, k, 0) /\ RouteLost(g.history, c, k)
<1> DEFINE h == g.history
           p == Merge(g, d)
           r == Reassigned(g, d)
           c == Compact(p).history
<1>1. p \in Generations /\ p.history = r
  BY MergeKeeps DEF Merge
<1>2. /\ \A k \in RouteKeys : TailKept(r, c, k, 0) /\ RouteLost(r, c, k)
      /\ c \in Seq(Points)
  BY <1>1, CompactDoes DEF Generations
<1>3. \A k \in RouteKeys : PointsOf(r, k) = PointsOf(h, k) /\ \A i \in PointsOf(h, k) : r[i] = h[i]
  BY ReassignedIs
<1> HIDE DEF r, p, c
<1>4. ASSUME NEW k \in RouteKeys PROVE TailKept(h, c, k, 0) /\ RouteLost(h, c, k)
  <2>1. PointsOf(r, k) = PointsOf(h, k)
    BY <1>3
  <2>2. \A i \in PointsOf(h, k) : r[i] = h[i] /\ Depth(r, i) = Depth(h, i)
    <3>1. ASSUME NEW i \in PointsOf(h, k) PROVE r[i] = h[i] /\ Depth(r, i) = Depth(h, i)
      <4>1. r[i] = h[i] /\ h[i].id = k /\ r[i].id = k
        BY <1>3 DEF PointsOf
      <4> QED
        BY <2>1, <4>1 DEF Depth
    <3> QED
      BY <3>1
  <2>3. TailKept(h, c, k, 0)
    BY <1>2, <2>1, <2>2 DEF TailKept
  <2>4. RouteLost(h, c, k)
    BY <1>2, <2>1 DEF RouteLost
  <2> QED
    BY <2>3, <2>4
<1> QED
  BY <1>4 DEF c, p

-----------------------------------------------------------------------------
(***************************************************************************)
(* The inductive invariant.  A store is in order if every retained point   *)
(* is a route's or of a watch that has seen its price; a migrated one is   *)
(* sound besides, within the route caps, and all its watches have a date   *)
(* of renewal, so that a second migration finds nothing to do.             *)
(***************************************************************************)
InOrder(g, d) ==
  /\ g \in Generations /\ d \in [Ids -> Dates]
  /\ OneIdEach(g) /\ CanonicalTexts(g) /\ Placed(g) /\ AllCovered(g)

Clean(g, d) ==
  /\ Settled(g) /\ RoutesCapped(g.history)
  /\ \A id \in IdsOf(g) : d[id].renewed # 0

IInv ==
  /\ InOrder(gen, dates) /\ now \in Nat \ {0} /\ migrated \in BOOLEAN
  /\ migrated => Clean(gen, dates)

\* What a step may do to the routes' points, as QuietRoutesKept says it.
RoutesPay(h, s) ==
  \A k \in RouteKeys : \E n \in {0, 1} :
    /\ TailKept(h, s, k, n)
    /\ LET m == Cardinality(PointsOf(s, k))
       IN m < Cardinality(PointsOf(h, k)) + n =>
            \/ m = MaxPerRoute
            \/ /\ Cardinality(RoutePoints(s)) = MaxRoutes
               /\ \A other \in RouteKeys : Cardinality(PointsOf(s, other)) <= m + 1

(* Who leaves the routes alone does to them what QuietRoutesKept allows.    *)
LEMMA KeptPays ==
  ASSUME NEW h \in Seq(Points), NEW s, RoutesKept(h, s)
  PROVE  RoutesPay(h, s) /\ (RoutesCapped(h) => RoutesCapped(s))
<1>1. s \in Seq(Points)
  BY DEF RoutesKept
<1>2. /\ Cardinality(RoutePoints(h)) \in Nat /\ Cardinality(RoutePoints(s)) \in Nat
      /\ \A k : Cardinality(PointsOf(h, k)) \in Nat /\ Cardinality(PointsOf(s, k)) \in Nat
  BY <1>1, RoutesLeft, Counts
<1>3. RoutesPay(h, s)
  <2>1. ASSUME NEW k \in RouteKeys
        PROVE  /\ TailKept(h, s, k, 0)
               /\ ~(Cardinality(PointsOf(s, k)) < Cardinality(PointsOf(h, k)) + 0)
    BY <1>2 DEF RoutesKept
  <2>2. 0 \in {0, 1}
    OBVIOUS
  <2> QED
    BY <2>1, <2>2 DEF RoutesPay
<1>4. RoutesCapped(h) => RoutesCapped(s)
  BY <1>2, RetentionAssumption DEF RoutesCapped, RoutesKept
<1> QED
  BY <1>3, <1>4

(* A loss as CompactDoes allows it is one that QuietRoutesKept allows.      *)
LEMMA LostPays ==
  ASSUME NEW h \in Seq(Points), NEW s \in Seq(Points),
         \A k \in RouteKeys : TailKept(h, s, k, 0) /\ RouteLost(h, s, k)
  PROVE  RoutesPay(h, s)
<1>1. ASSUME NEW k \in RouteKeys
      PROVE  /\ TailKept(h, s, k, 0)
             /\ LET m == Cardinality(PointsOf(s, k))
                IN m < Cardinality(PointsOf(h, k)) + 0 =>
                     \/ m = MaxPerRoute
                     \/ /\ Cardinality(RoutePoints(s)) = MaxRoutes
                        /\ \A other \in RouteKeys : Cardinality(PointsOf(s, other)) <= m + 1
  <2>1. Cardinality(PointsOf(h, k)) \in Nat
    BY Counts
  <2> QED
    BY <2>1 DEF RouteLost
<1>2. 0 \in {0, 1}
  OBVIOUS
<1> QED
  BY <1>1, <1>2 DEF RoutesPay

\* What a poll of w records, and when.
Quote(w, price, cur) ==
  [op |-> "record", id |-> w.id, key |-> PollKey(w), price |-> price, cur |-> cur]

Checked(d, id, t) == [d EXCEPT ![id].checked = t]

(* A poll keeps the store in order and a migrated one clean, and takes no   *)
(* point of a route.                                                        *)
LEMMA PollDoes ==
  ASSUME NEW g, NEW d, InOrder(g, d), NEW i \in DOMAIN g.watches, NEW price \in Nat \ {0},
         NEW cur \in IF g.watches[i].cur = NoCur THEN Codes ELSE {g.watches[i].cur},
         NEW t \in Nat
  PROVE  LET p == RecordIn(g, Quote(g.watches[i], price, cur)).gen
             e == Checked(d, g.watches[i].id, t)
         IN /\ InOrder(p, e) /\ (Clean(g, d) => Clean(p, e))
            /\ RoutesPay(g.history, p.history)
<1> DEFINE r == Quote(g.watches[i], price, cur)
           p == RecordIn(g, r).gen
           e == Checked(d, g.watches[i].id, t)
<1>r. r = [op |-> "record", id |-> g.watches[i].id, key |-> PollKey(g.watches[i]),
           price |-> price, cur |-> cur]
  BY DEF Quote
<1> HIDE DEF r
<1>1. /\ p \in Generations /\ OneIdEach(p) /\ CanonicalTexts(p) /\ AllCovered(p)
      /\ Placed(p) /\ IdsOf(p) = IdsOf(g) /\ RoutesKept(g.history, p.history)
      /\ Settled(g) => Settled(p)
  BY <1>r, PollKeeps DEF InOrder
<1> HIDE DEF p
<1>2. g.history \in Seq(Points) /\ g \in Generations /\ d \in [Ids -> Dates]
  BY DEF InOrder, Generations
<1>3. /\ RoutesPay(g.history, p.history)
      /\ RoutesCapped(g.history) => RoutesCapped(p.history)
  BY <1>1, <1>2, KeptPays
<1>4. e \in [Ids -> Dates] /\ \A id \in Ids : e[id].renewed = d[id].renewed
  <2> DEFINE x == g.watches[i].id
             n == [d[x] EXCEPT !.checked = t]
  <2>1. x \in Ids
    BY <1>2, WatchAt
  <2>2. d[x] \in Dates
    BY <1>2, <2>1
  <2>3. n \in Dates /\ n.renewed = d[x].renewed
    BY <2>2 DEF Dates
  <2>4. e = [d EXCEPT ![x] = n]
    BY DEF Checked
  <2> HIDE DEF n, x, e
  <2> QED
    BY <1>2, <2>1, <2>3, <2>4
<1>5. IdsOf(g) \subseteq Ids
  BY <1>2, WatchOfIs
<1> HIDE DEF e
<1> QED
  BY <1>1, <1>2, <1>3, <1>4, <1>5 DEF InOrder, Clean, p, r, e

(* A search keeps the store in order and a migrated one clean, and takes of *)
(* the routes what the caps allow.                                          *)
LEMMA ObserveDoes ==
  ASSUME NEW g, NEW d, InOrder(g, d), NEW r, r.id \in RouteKeys, r.price \in Nat \ {0},
         r.cur \in Spellings, Upper[r.cur] = r.cur
  PROVE  LET p == ObserveIn(g, r).gen
         IN /\ InOrder(p, d) /\ (Clean(g, d) => Clean(p, d))
            /\ RoutesPay(g.history, p.history)
<1> DEFINE p == ObserveIn(g, r).gen
<1>1. /\ p \in Generations /\ OneIdEach(p) /\ CanonicalTexts(p) /\ AllCovered(p)
      /\ Placed(p) /\ IdsOf(p) = IdsOf(g)
      /\ RoutesPay(g.history, p.history)
      /\ RoutesCapped(g.history) => RoutesCapped(p.history)
      /\ Settled(g) => Settled(p)
  BY ObserveKeeps DEF InOrder, RoutesPay
<1> HIDE DEF p
<1> QED
  BY <1>1 DEF InOrder, Clean, p

(* The IDs of a merged store's watches are those of some that were there.   *)
LEMMA MergeIds ==
  ASSUME NEW g \in Generations, OneIdEach(g), NEW d
  PROVE  \A k \in DOMAIN Collapsed(g, d) : Collapsed(g, d)[k].id \in IdsOf(g)
<1>1. ASSUME NEW k \in DOMAIN Collapsed(g, d) PROVE Collapsed(g, d)[k].id \in IdsOf(g)
  <2>1. PICK i \in DOMAIN g.watches : Survives(g, d, i, Collapsed(g, d)[k])
    BY MergeWatches
  <2>2. /\ Survivor(g, d, GroupOf(g, i)) \in DOMAIN g.watches
        /\ Collapsed(g, d)[k].id = g.watches[Survivor(g, d, GroupOf(g, i))].id
    BY <2>1, MergedOf DEF Survives
  <2> QED
    BY <2>2 DEF IdsOf
<1> QED
  BY <1>1

(* With one watch per target the latest renewal is the watch's own.         *)
LEMMA OneRenewal ==
  ASSUME NEW g \in Generations, OneIdEach(g), OneEach(g), NEW d \in [Ids -> Dates],
         NEW i \in DOMAIN g.watches
  PROVE  LatestRenewal(g, d, GroupOf(g, i)) = d[g.watches[i].id].renewed
<1>1. GroupOf(g, i) = {i}
  BY MergeNothing
<1>2. {d[g.watches[j].id].renewed : j \in {i}} = {d[g.watches[i].id].renewed}
  OBVIOUS
<1>3. d[g.watches[i].id].renewed \in Nat
  <2>1. d[g.watches[i].id] \in Dates
    BY WatchAt
  <2> QED
    BY <2>1 DEF Dates
<1>4. \A x \in Nat : Highest({x}) = x
  BY DEF Highest, Max
<1> QED
  BY <1>1, <1>2, <1>3, <1>4 DEF LatestRenewal

(***************************************************************************)
(* A migration puts any store in order into the clean state, and finds     *)
(* nothing to do in a clean one.                                           *)
(***************************************************************************)
LEMMA MigrateDoes ==
  ASSUME NEW g, NEW d, InOrder(g, d), NEW t \in Nat \ {0}
  PROVE  LET e == MigrateIn(g, d)
             f == IF e.verdict = "save" THEN Redated(g, d, t) ELSE d
         IN /\ e.gen = Compact(Merge(g, d)) /\ InOrder(e.gen, f) /\ Clean(e.gen, f)
            /\ RoutesPay(g.history, e.gen.history)
<1> DEFINE e == MigrateIn(g, d)
           f == IF e.verdict = "save" THEN Redated(g, d, t) ELSE d
           m == Merge(g, d)
           c == Compact(m)
<1>1. /\ g \in Generations /\ OneIdEach(g) /\ CanonicalTexts(g) /\ AllCovered(g)
      /\ d \in [Ids -> Dates] /\ g.history \in Seq(Points)
  BY DEF InOrder, Generations
<1>2. /\ e.gen = c /\ e.verdict \in {"save", "skip"}
      /\ e.verdict = "skip" =>
           OneEach(g) /\ \A i \in DOMAIN g.watches : LatestRenewal(g, d, GroupOf(g, i)) # 0
  BY <1>1, MigrateIs
<1>3. m \in Generations /\ OneIdEach(m) /\ OneEach(m) /\ Normal(m) /\ AllCovered(m)
  BY <1>1, MergeKeeps
<1>4. c \in Generations /\ c.watches = Collapsed(g, d)
  BY <1>3, CompactDoes DEF Merge
<1>5. \A k \in RouteKeys : TailKept(g.history, c.history, k, 0) /\ RouteLost(g.history, c.history, k)
  BY <1>1, MigrateRoutes
<1> HIDE DEF m, e
<1>6. Settled(c) /\ OneIdEach(c) /\ RoutesCapped(c.history) /\ AllCovered(c) /\ Placed(c)
  BY <1>3, CompactCovered
<1> HIDE DEF c
<1>7. RoutesPay(g.history, c.history)
  <2>1. c.history \in Seq(Points)
    BY <1>4 DEF Generations
  <2> QED
    BY <1>1, <1>5, <2>1, LostPays
<1>8. \A id \in IdsOf(c) : \E i \in DOMAIN g.watches : id = g.watches[i].id
  BY <1>1, <1>4, MergeIds DEF IdsOf
<1>9. f \in [Ids -> Dates] /\ \A i \in DOMAIN g.watches : f[g.watches[i].id].renewed # 0
  <2>1. CASE e.verdict = "save"
    BY <1>1, <2>1, RedatedIs
  <2>2. CASE e.verdict = "skip"
    BY <1>1, <1>2, <2>2, OneRenewal
  <2> QED
    BY <1>2, <2>1, <2>2
<1> HIDE DEF f
<1>10. InOrder(c, f)
  BY <1>4, <1>6, <1>9 DEF InOrder, Settled, Sound
<1>11. Clean(c, f)
  BY <1>6, <1>8, <1>9 DEF Clean
<1> QED
  BY <1>2, <1>7, <1>10, <1>11 DEF e, f, c, m

(* A second migration of a clean store does nothing.                        *)
LEMMA CleanSkips ==
  ASSUME NEW g, NEW d, InOrder(g, d), Clean(g, d)
  PROVE  MigrateIn(g, d).verdict = "skip" /\ OneEach(g)
<1>1. /\ g \in Generations /\ OneIdEach(g) /\ d \in [Ids -> Dates]
      /\ OneEach(g) /\ Owned(g) /\ Capped(g) /\ RoutesCapped(g.history)
  BY DEF InOrder, Clean, Settled, Sound, Loadable
<1>2. Compact(Merge(g, d)) = g
  BY <1>1, MergeNothing, CompactClean
<1>3. \A i \in DOMAIN g.watches : LatestRenewal(g, d, GroupOf(g, i)) # 0
  BY <1>1, OneRenewal DEF Clean, IdsOf
<1>4. Len(g.watches) \in Nat /\ Len(g.history) \in Nat
  BY <1>1 DEF Generations
<1>5. /\ ~(Len(Compact(Merge(g, d)).watches) < Len(g.watches))
      /\ ~(Len(Compact(Merge(g, d)).history) < Len(g.history))
  BY <1>2, <1>4
<1>6. MigrateIn(g, d) = Skip(g, "clean")
  BY <1>3, <1>5 DEF MigrateIn
<1> QED
  BY <1>1, <1>6 DEF Skip

(* A store that was not migrated yet is in order.                           *)
LEMMA IInit == Init => IInv
<1> SUFFICES ASSUME Init PROVE IInv
  OBVIOUS
<1>1. PICK s \in InitStores : gen = s.gen /\ dates = s.dates
  BY DEF Init
<1>2. /\ s.gen \in Generations /\ s.dates \in [Ids -> Dates]
      /\ OneIdEach(s.gen) /\ CanonicalTexts(s.gen) /\ Placed(s.gen)
      /\ \A i \in DOMAIN s.gen.watches : Covered(s.gen.history, s.gen.watches[i])
  BY StartAssumption
<1>3. InOrder(gen, dates)
  BY <1>1, <1>2 DEF InOrder, AllCovered
<1>4. now \in Nat \ {0}
  BY DEF Init
<1>5. migrated = FALSE
  BY DEF Init
<1>6. migrated \in BOOLEAN /\ ~migrated
  BY <1>5
<1> QED
  BY <1>3, <1>4, <1>6 DEF IInv

(***************************************************************************)
(* A step keeps the invariant, and the routes pay for it fairly.           *)
(***************************************************************************)
LEMMA IStep == IInv /\ [Next]_vars => IInv' /\ RoutesPay(gen.history, gen'.history)
<1> SUFFICES ASSUME IInv, [Next]_vars PROVE IInv' /\ RoutesPay(gen.history, gen'.history)
  OBVIOUS
<1>1. InOrder(gen, dates) /\ now \in Nat \ {0} /\ migrated \in BOOLEAN
      /\ (migrated => Clean(gen, dates))
  BY DEF IInv
<1>2. ASSUME NEW i \in DOMAIN gen.watches, Poll(i)
      PROVE  IInv' /\ RoutesPay(gen.history, gen'.history)
  <2> DEFINE w == gen.watches[i]
  <2>1. PICK price \in Prices, cur \in (IF w.cur = NoCur THEN Codes ELSE {w.cur}) :
          gen' = RecordIn(gen, [op |-> "record", id |-> w.id, key |-> PollKey(w),
                                price |-> price, cur |-> cur]).gen
    BY <1>2 DEF Poll
  <2>2. dates' = [dates EXCEPT ![w.id].checked = now] /\ now' = now + 1 /\ migrated' = migrated
    BY <1>2 DEF Poll
  <2>3. price \in Nat \ {0} /\ now \in Nat
    BY <1>1, StartAssumption
  <2> DEFINE p == RecordIn(gen, Quote(w, price, cur)).gen
             e == Checked(dates, w.id, now)
  <2>4. gen' = p /\ dates' = e
    BY <2>1, <2>2 DEF Quote, Checked
  <2>5. /\ InOrder(p, e) /\ (Clean(gen, dates) => Clean(p, e))
        /\ RoutesPay(gen.history, p.history)
    BY <1>1, <2>3, PollDoes
  <2> HIDE DEF p, e, w
  <2>6. now' \in Nat \ {0} /\ migrated' \in BOOLEAN
    BY <1>1, <2>2
  <2>7. InOrder(gen', dates') /\ RoutesPay(gen.history, gen'.history)
    BY <2>4, <2>5
  <2>8. migrated' => Clean(gen', dates')
    BY <1>1, <2>2, <2>4, <2>5
  <2> QED
    BY <2>6, <2>7, <2>8 DEF IInv
<1>3. ASSUME NEW o \in Sightings, Observe(o)
      PROVE  IInv' /\ RoutesPay(gen.history, gen'.history)
  <2>1. PICK soon \in BOOLEAN :
          gen' = ObserveIn(gen, [id |-> o.id, price |-> o.price, cur |-> Upper[o.cur],
                                 soon |-> soon]).gen
    BY <1>3 DEF Observe
  <2>2. now' = now + 1 /\ dates' = dates /\ migrated' = migrated
    BY <1>3 DEF Observe
  <2> DEFINE r == [id |-> o.id, price |-> o.price, cur |-> Upper[o.cur], soon |-> soon]
  <2>3. /\ r.id \in RouteKeys /\ r.price \in Nat \ {0} /\ r.cur \in Spellings
        /\ Upper[r.cur] = r.cur
    BY StartAssumption, Uppered
  <2> HIDE DEF r
  <2>4. /\ InOrder(gen', dates) /\ (Clean(gen, dates) => Clean(gen', dates))
        /\ RoutesPay(gen.history, gen'.history)
    BY <1>1, <2>1, <2>3, ObserveDoes DEF r
  <2> QED
    BY <1>1, <2>2, <2>4 DEF IInv
<1>4. ASSUME Migrate
      PROVE  IInv' /\ RoutesPay(gen.history, gen'.history)
  <2>1. /\ gen' = MigrateIn(gen, dates).gen /\ migrated' = TRUE /\ now' = now
        /\ dates' = IF MigrateIn(gen, dates).verdict = "save"
                    THEN Redated(gen, dates, now) ELSE dates
    BY <1>4 DEF Migrate
  <2>2. /\ InOrder(gen', dates') /\ Clean(gen', dates')
        /\ RoutesPay(gen.history, gen'.history)
    BY <1>1, <2>1, MigrateDoes
  <2> QED
    BY <1>1, <2>1, <2>2 DEF IInv
<1>5. ASSUME UNCHANGED vars
      PROVE  IInv' /\ RoutesPay(gen.history, gen'.history)
  <2>1. gen' = gen /\ dates' = dates /\ now' = now /\ migrated' = migrated
    BY <1>5 DEF vars
  <2>2. gen.history \in Seq(Points)
    BY <1>1 DEF InOrder, Generations
  <2>3. RoutesPay(gen.history, gen.history)
    BY <2>2, SameKeepsRoutes, KeptPays
  <2> QED
    BY <1>1, <2>1, <2>3 DEF IInv
<1> QED
  BY <1>2, <1>3, <1>4, <1>5 DEF Next

(* The store is in order at all times, and clean once it has been migrated. *)
THEOREM MigrationInvariant == Spec => []IInv
<1>1. IInv /\ [Next]_vars => IInv'
  BY IStep
<1> QED
  BY IInit, <1>1, PTL DEF Spec

(***************************************************************************)
(* After a migration a second one has nothing to do, whatever is polled    *)
(* and searched between the two.                                           *)
(***************************************************************************)
THEOREM MigratesOnce == Spec => []CleanStaysClean
<1>1. IInv => CleanStaysClean
  BY CleanSkips DEF IInv, CleanStaysClean
<1> QED
  BY <1>1, MigrationInvariant, PTL

(***************************************************************************)
(* Every retained point is a route's or of a watch whose lowest price is   *)
(* not above it, through merges of the points of several watches.          *)
(***************************************************************************)
THEOREM LowIsLowest == Spec => []LowCoversSeries
<1>1. IInv => LowCoversSeries
  BY DEF IInv, InOrder, AllCovered, LowCoversSeries
<1> QED
  BY <1>1, MigrationInvariant, PTL

(***************************************************************************)
(* No search, poll or migration takes a route's points but its oldest, and *)
(* those only at its cap or when no route is left with two more.           *)
(***************************************************************************)
THEOREM QuietRoutesAreKept == Spec => QuietRoutesKept
<1>1. IInv /\ [Next]_vars =>
        \A k \in RouteKeys :
          LET Left(h, key) == Cardinality(PointsOf(h, key))
              m            == Left(gen'.history, k)
          IN \E new \in {0, 1} :
               /\ m <= Left(gen.history, k) + new
               /\ \A i \in PointsOf(gen.history, k), j \in PointsOf(gen'.history, k) :
                    Depth(gen'.history, j) = Depth(gen.history, i) + new =>
                      gen'.history[j] = gen.history[i]
               /\ m < Left(gen.history, k) + new =>
                    \/ m = MaxPerRoute
                    \/ /\ Cardinality(RoutePoints(gen'.history)) = MaxRoutes
                       /\ \A other \in RouteKeys : Left(gen'.history, other) <= m + 1
  BY IStep DEF RoutesPay, TailKept
<1> QED
  BY <1>1, MigrationInvariant, PTL DEF Spec, QuietRoutesKept

\* The j-th of c's watches keeps the newest observations of g's, as
\* ObservationsSurvive says it.
Outlives(g, c, j) ==
  LET v     == c.watches[j]
      group == {i \in DOMAIN g.watches : DedupeKey(g.watches[i]) = DedupeKey(v)}
      like  == {i \in group : g.watches[i].cur = v.cur}
      old   == UNION {PointsOf(g.history, g.watches[i].id) : i \in like}
      new   == PointsOf(c.history, v.id)
  IN /\ (\E i \in group : g.watches[i].low > 0) => v.low > 0
     /\ old # {} /\ new # {} =>
          c.history[Max(new)] = [g.history[Max(old)] EXCEPT !.id = v.id]

(***************************************************************************)
(* The survivor has a price if any member had, and the newest point that   *)
(* is left of it is the newest of all members of its currency.             *)
(***************************************************************************)
LEMMA MigrationKeepsNewest ==
  ASSUME NEW g, NEW d, InOrder(g, d), NEW j \in DOMAIN Compact(Merge(g, d)).watches
  PROVE  Outlives(g, Compact(Merge(g, d)), j)
<1> DEFINE m     == Merge(g, d)
           c     == Compact(m)
           v     == c.watches[j]
           group == {i \in DOMAIN g.watches : DedupeKey(g.watches[i]) = DedupeKey(v)}
           like  == {i \in group : g.watches[i].cur = v.cur}
           old   == UNION {PointsOf(g.history, g.watches[i].id) : i \in like}
           new   == PointsOf(c.history, v.id)
           h     == g.history
           r     == Reassigned(g, d)
<1>1. /\ g \in Generations /\ OneIdEach(g) /\ CanonicalTexts(g) /\ AllCovered(g)
      /\ h \in Seq(Points)
  BY DEF InOrder, Generations
<1>2. m \in Generations /\ OneIdEach(m) /\ OneEach(m) /\ Normal(m) /\ AllCovered(m)
  BY <1>1, MergeKeeps
<1>3. m.watches = Collapsed(g, d) /\ m.history = r
  BY DEF Merge
<1>4. c.watches = Collapsed(g, d)
  BY <1>2, <1>3, CompactDoes
<1>5. SeriesKept(r, c.history, v.id)
  BY <1>2, <1>3, CompactCovered
<1>6. PICK i \in DOMAIN g.watches : Survives(g, d, i, v)
  BY <1>1, <1>4, MergeWatches
<1> DEFINE G == GroupOf(g, i)
           L == Like(g, d, G)
<1> HIDE DEF m, c
<1>7. /\ v = Merged(g, d, G) /\ v \in Watches /\ v.target = g.watches[i].target
      /\ v.cur = g.watches[Survivor(g, d, G)].cur
      /\ (\E x \in G : g.watches[x].low > 0) => v.low > 0
  BY <1>1, <1>6, MergedOf DEF Survives
<1>8. group = G
  BY <1>7 DEF GroupOf, DedupeKey
<1>9. like = L
  BY <1>7, <1>8 DEF Like
<1>10. /\ DOMAIN r = DOMAIN h /\ r \in Seq(Points)
       /\ \A k \in DOMAIN h : r[k] = Heir(g, d, h[k])
       /\ \A k \in DOMAIN h : r[k].id = v.id <=> \E x \in L : h[k].id = g.watches[x].id
  BY <1>1, <1>7, ReassignedIs
<1> HIDE DEF r, L, G, v, h
<1>11. PointsOf(r, v.id) = old
  BY <1>9, <1>10 DEF PointsOf, h
<1>12. ASSUME old # {}, new # {}
       PROVE  c.history[Max(new)] = [h[Max(old)] EXCEPT !.id = v.id]
  <2>1. c.history[Max(new)] = r[Max(old)]
    BY <1>5, <1>11, <1>12 DEF SeriesKept
  <2>2. Max(old) \in DOMAIN h /\ r[Max(old)].id = v.id
    <3>1. PointsOf(r, v.id) # {}
      BY <1>11, <1>12
    <3>2. Max(PointsOf(r, v.id)) \in PointsOf(r, v.id)
      BY <1>10, <3>1, SeriesMax
    <3> HIDE DEF old
    <3> QED
      BY <1>10, <1>11, <3>2 DEF PointsOf
  <2> DEFINE k == Max(old)
  <2> HIDE DEF k, old
  <2>3. k \in DOMAIN h /\ r[k].id = v.id /\ r[k] = Heir(g, d, h[k])
    BY <1>10, <2>2 DEF k
  <2>4. h[k] \in Points
    BY <1>1, <2>3
  <2>5. r[k] \in Points /\ r[k].price = h[k].price /\ r[k].cur = h[k].cur
    BY <1>1, <2>3, <2>4, HeirIs
  <2>6. r[k] = [h[k] EXCEPT !.id = v.id]
    BY <2>3, <2>4, <2>5 DEF Points
  <2> QED
    BY <2>1, <2>6 DEF k
<1>13. (\E x \in group : g.watches[x].low > 0) => v.low > 0
  BY <1>7, <1>8
<1> QED
  BY <1>12, <1>13 DEF c, v, h, m, Outlives

(* A migration loses no observation that its survivor can use, whichever    *)
(* duplicates it merges (collapseDuplicatesLocked).                         *)
THEOREM ObservationsOutlive == Spec => ObservationsSurvive
<1>1. ASSUME IInv, [Next]_vars, ~UNCHANGED vars, migrated', now' = now
      PROVE  \A j \in DOMAIN gen'.watches : Outlives(gen, gen', j)
  <2>1. InOrder(gen, dates) /\ now \in Nat \ {0}
    BY <1>1 DEF IInv
  <2>2. now' # now + 1
    BY <1>1, <2>1
  <2>3. Migrate
    BY <1>1, <2>2 DEF Next, Poll, Observe
  <2>4. gen' = Compact(Merge(gen, dates))
    BY <2>1, <2>3, MigrateDoes DEF Migrate
  <2>5. \A j \in DOMAIN Compact(Merge(gen, dates)).watches :
          Outlives(gen, Compact(Merge(gen, dates)), j)
    BY <2>1, MigrationKeepsNewest
  <2> QED
    BY <2>4, <2>5
<1>2. IInv /\ [Next]_vars =>
        [migrated' /\ now' = now => \A j \in DOMAIN gen'.watches : Outlives(gen, gen', j)]_vars
  BY <1>1
<1>3. IInv /\ [Next]_vars =>
        [migrated' /\ now' = now =>
           \A j \in DOMAIN gen'.watches :
             LET v     == gen'.watches[j]
                 group == {i \in DOMAIN gen.watches : DedupeKey(gen.watches[i]) = DedupeKey(v)}
                 like  == {i \in group : gen.watches[i].cur = v.cur}
                 old   == UNION {PointsOf(gen.history, gen.watches[i].id) : i \in like}
                 new   == PointsOf(gen'.history, v.id)
             IN /\ (\E i \in group : gen.watches[i].low > 0) => v.low > 0
                /\ old # {} /\ new # {} =>
                     gen'.history[Max(new)] = [gen.history[Max(old)] EXCEPT !.id = v.id]]_vars
  BY <1>2 DEF Outlives
<1> QED
  BY <1>3, MigrationInvariant, PTL DEF Spec, ObservationsSurvive
=============================================================================
