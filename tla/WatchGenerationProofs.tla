------------------------ MODULE WatchGenerationProofs ------------------------
(***************************************************************************)
(* What the operations on a generation do to it, for any caps, currencies  *)
(* and points.                                                             *)
(***************************************************************************)
EXTENDS WatchGeneration, FiniteSetTheorems, FunctionTheorems, TLAPS

-----------------------------------------------------------------------------
(* Sets of positions.                                                       *)

(* Among natural numbers there is a least one.                              *)
LEMMA LeastExists ==
  ASSUME NEW S \in SUBSET Nat, S # {}
  PROVE  \E m \in S : \A i \in S : m <= i
<1>1. IsWellFoundedOn(OpToRel(<, Nat), Nat)
  BY NatLessThanWellFounded
<1>2. PICK m \in S : \A i \in S : ~(<<i, m>> \in OpToRel(<, Nat))
  BY <1>1, WFMin, Zenon
<1>3. \A i \in S : ~(i < m)
  BY <1>2 DEF OpToRel
<1> QED
  BY <1>3

(* Min picks the least one.                                                 *)
LEMMA MinIs ==
  ASSUME NEW S \in SUBSET Nat, S # {}
  PROVE  Min(S) \in S /\ \A i \in S : Min(S) <= i
  BY LeastExists DEF Min

(* A finite set of natural numbers has a greatest one.                      *)
LEMMA MaxIs ==
  ASSUME NEW n \in Nat, NEW S \in SUBSET (1..n), S # {}
  PROVE  Max(S) \in S /\ \A i \in S : i <= Max(S)
<1> DEFINE T == {k \in Nat : \A i \in S : i <= k}
<1>1. n \in T
  OBVIOUS
<1>2. PICK m \in T : \A k \in T : m <= k
  BY <1>1, LeastExists
<1>3. m \in S
  <2> SUFFICES ASSUME m \notin S PROVE FALSE
    OBVIOUS
  <2>1. m # 0
    <3>1. PICK s \in S : TRUE
      OBVIOUS
    <3> QED
      BY <1>2, <3>1
  <2>2. m - 1 \in T
    BY <1>2, <2>1
  <2> QED
    BY <1>2, <2>2
<1> QED
  BY <1>2, <1>3 DEF Max

(* Positions of a sequence are finitely many.                               *)
LEMMA PositionsFinite ==
  ASSUME NEW n \in Nat, NEW S \in SUBSET (1..n)
  PROVE  IsFiniteSet(S) /\ Cardinality(S) \in Nat
<1>1. IsFiniteSet(1..n)
  BY FS_Interval
<1> QED
  BY <1>1, FS_Subset, FS_CardinalityType

(* A set of positions has no more members than one that contains it.        *)
LEMMA FewerPositions ==
  ASSUME NEW n \in Nat, NEW S \in SUBSET (1..n), NEW T \in SUBSET S
  PROVE  /\ Cardinality(S) \in Nat /\ Cardinality(T) \in Nat
         /\ Cardinality(T) <= Cardinality(S)
         /\ T # S => Cardinality(T) < Cardinality(S)
<1>1. IsFiniteSet(S) /\ Cardinality(S) \in Nat
  BY PositionsFinite
<1>2. /\ IsFiniteSet(T) /\ Cardinality(T) <= Cardinality(S)
      /\ Cardinality(S) = Cardinality(T) => S = T
  BY <1>1, FS_Subset
<1>3. Cardinality(T) \in Nat
  BY <1>2, FS_CardinalityType
<1> QED
  BY <1>1, <1>2, <1>3

-----------------------------------------------------------------------------
(***************************************************************************)
(* Without(h, doomed) is h at the positions kept, in their order: an       *)
(* increasing e names for each place in the result the place it came from. *)
(***************************************************************************)
Comes(h, doomed, e) ==
  LET kept == DOMAIN h \ doomed
      r    == Without(h, doomed)
  IN /\ Cardinality(kept) \in Nat
     /\ Len(r) = Cardinality(kept) /\ DOMAIN r = 1..Cardinality(kept)
     /\ r = [k \in 1..Cardinality(kept) |-> h[e[k]]]
     /\ e \in [1..Cardinality(kept) -> kept]
     /\ \A k, l \in DOMAIN r : k < l <=> e[k] < e[l]
     /\ \A i \in kept : \E k \in DOMAIN r : e[k] = i

(* There is such an e for every removal.                                    *)
LEMMA WithoutIs ==
  ASSUME NEW S, NEW h \in Seq(S), NEW doomed
  PROVE  \E e : Comes(h, doomed, e)
<1> DEFINE n       == Len(h)
           kept    == DOMAIN h \ doomed
           Rank(i) == Cardinality({j \in kept : j <= i})
           c       == Cardinality(kept)
           rank    == [i \in kept |-> Rank(i)]
           e       == [k \in 1..c |-> CHOOSE i \in kept : Rank(i) = k]
<1>1. n \in Nat /\ DOMAIN h = 1..n /\ kept \in SUBSET (1..n)
  OBVIOUS
<1>2. IsFiniteSet(kept) /\ c \in Nat
  BY <1>1, PositionsFinite
<1>3. \A i \in kept : Rank(i) \in 1..c
  <2> SUFFICES ASSUME NEW i \in kept PROVE Rank(i) \in 1..c
    OBVIOUS
  <2> DEFINE T == {j \in kept : j <= i}
  <2>1. Cardinality(T) \in Nat /\ Cardinality(T) <= c
    BY <1>1, FewerPositions
  <2>2. i \in T
    BY <1>1
  <2>3. Cardinality(T) # 0
    <3>1. IsFiniteSet(T)
      BY <1>2, FS_Subset
    <3> QED
      BY <2>2, <3>1, FS_EmptySet
  <2> QED
    BY <1>2, <2>1, <2>3
<1>4. \A i, j \in kept : i < j => Rank(i) < Rank(j)
  <2> SUFFICES ASSUME NEW i \in kept, NEW j \in kept, i < j
               PROVE  Rank(i) < Rank(j)
    OBVIOUS
  <2> DEFINE T == {k \in kept : k <= i}
             U == {k \in kept : k <= j}
  <2>1. T \in SUBSET U /\ T # U /\ U \in SUBSET (1..n)
    BY <1>1
  <2> HIDE DEF T, U
  <2>2. Cardinality(T) < Cardinality(U)
    BY <1>1, <2>1, FewerPositions
  <2> QED
    BY <2>2 DEF T, U
<1>5. rank \in Injection(kept, 1..c)
  <2>1. rank \in [kept -> 1..c]
    BY <1>3
  <2>2. \A i, j \in kept : rank[i] = rank[j] => i = j
    <3> SUFFICES ASSUME NEW i \in kept, NEW j \in kept, i # j
                 PROVE  rank[i] # rank[j]
      OBVIOUS
    <3>1. i < j \/ j < i
      BY <1>1
    <3>2. Rank(i) # Rank(j)
      <4> HIDE DEF Rank
      <4> QED
        BY <1>2, <1>3, <1>4, <3>1
    <3> QED
      BY <3>2
  <2> HIDE DEF rank
  <2> QED
    BY <2>1, <2>2, Fun_IsInj
<1>6. \A k \in 1..c : \E i \in kept : Rank(i) = k
  <2>1. IsFiniteSet(1..c) /\ Cardinality(1..c) = c
    BY <1>2, FS_Interval
  <2>2. rank \in Surjection(kept, 1..c)
    <3> HIDE DEF rank
    <3> QED
      BY <1>5, <2>1, FS_Injection
  <2>3. \A k \in 1..c : \E i \in kept : rank[i] = k
    <3> HIDE DEF rank
    <3> QED
      BY <2>2 DEF Surjection
  <2> QED
    BY <2>3
<1>7. \A k \in 1..c : e[k] \in kept /\ Rank(e[k]) = k
  <2> HIDE DEF Rank, kept
  <2> QED
    BY <1>6
<1>o. /\ \A i \in kept : i \in Int
      /\ \A k \in 1..c : k \in Int /\ e[k] \in Int
  <2>1. \A i \in kept : i \in Int
    BY <1>1
  <2> HIDE DEF kept, e, Rank
  <2> QED
    BY <1>2, <1>7, <2>1
<1>8. \A k, l \in 1..c : k < l <=> e[k] < e[l]
  <2> HIDE DEF Rank, e, kept, c
  <2> QED
    BY <1>o, <1>4, <1>7
<1>9. \A i \in kept : e[Rank(i)] = i
  <2> HIDE DEF Rank, e, kept, c
  <2> QED
    BY <1>o, <1>3, <1>4, <1>7
<1>10. Without(h, doomed) = [k \in 1..c |-> h[e[k]]]
  BY DEF Without
<1>11. Comes(h, doomed, e)
  <2>1. DOMAIN Without(h, doomed) = 1..c /\ Len(Without(h, doomed)) = c
    BY <1>2, <1>10
  <2>2. e \in [1..c -> kept]
    BY <1>7
  <2>3. \A i \in kept : \E k \in 1..c : e[k] = i
    BY <1>3, <1>9
  <2> HIDE DEF Rank, e
  <2> QED
    BY <1>2, <1>8, <1>10, <2>1, <2>2, <2>3 DEF Comes
<1> QED
  BY <1>11

(* What is kept is as it was.                                               *)
LEMMA WithoutType ==
  ASSUME NEW S, NEW h \in Seq(S), NEW doomed
  PROVE  /\ Without(h, doomed) \in Seq(S)
         /\ \A k \in DOMAIN Without(h, doomed) :
              \E i \in DOMAIN h \ doomed : Without(h, doomed)[k] = h[i]
<1>1. PICK e : Comes(h, doomed, e)
  BY WithoutIs
<1> DEFINE c == Cardinality(DOMAIN h \ doomed)
<1>2. /\ c \in Nat /\ e \in [1..c -> DOMAIN h \ doomed]
      /\ Without(h, doomed) = [k \in 1..c |-> h[e[k]]]
  BY <1>1 DEF Comes
<1> HIDE DEF c
<1>3. \A k \in 1..c : h[e[k]] \in S /\ e[k] \in DOMAIN h \ doomed
  BY <1>2
<1> QED
  BY <1>2, <1>3

(* The places that come from a set of positions are as many as those kept.  *)
Places(h, doomed, e, H) == {k \in DOMAIN Without(h, doomed) : e[k] \in H}

(* For e maps them one to one onto the kept positions of H.                 *)
LEMMA PlacesCount ==
  ASSUME NEW S, NEW h \in Seq(S), NEW doomed, NEW e, Comes(h, doomed, e),
         NEW H \in SUBSET DOMAIN h
  PROVE  Cardinality(Places(h, doomed, e, H)) = Cardinality(H \ doomed)
<1> DEFINE D == DOMAIN Without(h, doomed)
           A == {k \in D : e[k] \in H}
           B == H \ doomed
           f == [k \in A |-> e[k]]
           c == Cardinality(DOMAIN h \ doomed)
<1>1. /\ c \in Nat /\ D = 1..c /\ e \in [D -> DOMAIN h \ doomed]
      /\ \A k, l \in D : k < l <=> e[k] < e[l]
      /\ \A i \in DOMAIN h \ doomed : \E k \in D : e[k] = i
  BY DEF Comes
<1>2. IsFiniteSet(A)
  <2>1. A \in SUBSET (1..c)
    BY <1>1
  <2> QED
    BY <1>1, <2>1, PositionsFinite
<1>3. f \in [A -> B]
  BY <1>1
<1>4. \A k, l \in A : f[k] = f[l] => k = l
  <2>1. \A k \in D : k \in Int /\ e[k] \in Int
    <3>1. \A i \in DOMAIN h : i \in Int
      OBVIOUS
    <3> HIDE DEF D, c
    <3> QED
      BY <1>1, <3>1
  <2> SUFFICES ASSUME NEW k \in A, NEW l \in A, f[k] = f[l] PROVE k = l
    OBVIOUS
  <2>2. e[k] = e[l] /\ k \in D /\ l \in D
    OBVIOUS
  <2> HIDE DEF D, A, f, c
  <2> QED
    BY <1>1, <2>1, <2>2
<1>5. \A i \in B : \E k \in A : f[k] = i
  BY <1>1
<1>6. f \in Bijection(A, B)
  <2> HIDE DEF A, B, f
  <2> QED
    BY <1>3, <1>4, <1>5, Fun_IsInj, Fun_IsSurj DEF Bijection
<1> QED
  BY <1>2, <1>6, FS_Bijection DEF ExistsBijection, Places

(***************************************************************************)
(* Of the points of a series, and of those of all watches, as many remain  *)
(* as are not doomed.                                                      *)
(***************************************************************************)
LEMMA PointsLeft ==
  ASSUME NEW h \in Seq(Points), NEW doomed, NEW id
  PROVE  /\ Cardinality(PointsOf(Without(h, doomed), id))
              = Cardinality(PointsOf(h, id) \ doomed)
         /\ Cardinality(WatchPoints(Without(h, doomed)))
              = Cardinality(WatchPoints(h) \ doomed)
<1>1. PICK e : Comes(h, doomed, e)
  BY WithoutIs
<1> DEFINE r == Without(h, doomed)
<1>2. \A k \in DOMAIN r : e[k] \in DOMAIN h /\ r[k] = h[e[k]]
  BY <1>1 DEF Comes
<1>3. PointsOf(r, id) = Places(h, doomed, e, PointsOf(h, id))
  BY <1>2 DEF PointsOf, Places
<1>4. WatchPoints(r) = Places(h, doomed, e, WatchPoints(h))
  BY <1>2 DEF WatchPoints, RoutePoints, Places
<1>5. PointsOf(h, id) \in SUBSET DOMAIN h /\ WatchPoints(h) \in SUBSET DOMAIN h
  BY DEF PointsOf, WatchPoints
<1>6. Cardinality(PointsOf(r, id)) = Cardinality(PointsOf(h, id) \ doomed)
  BY <1>1, <1>3, <1>5, PlacesCount
<1>7. Cardinality(WatchPoints(r)) = Cardinality(WatchPoints(h) \ doomed)
  BY <1>1, <1>4, <1>5, PlacesCount
<1> QED
  BY <1>6, <1>7

(***************************************************************************)
(* Of hits, the limit newest are within the limit, and with a point every  *)
(* newer one is.                                                           *)
(***************************************************************************)
Newest(hits, limit) == {i \in hits : ~(Cardinality({j \in hits : j >= i}) > limit)}

(* Newest takes no more hits than the limit, and with one all newer ones.   *)
LEMMA NewestFit ==
  ASSUME NEW n \in Nat, NEW hits \in SUBSET (1..n), NEW limit \in Nat
  PROVE  /\ Cardinality(Newest(hits, limit)) <= limit
         /\ \A i \in Newest(hits, limit), j \in hits :
              j >= i => j \in Newest(hits, limit)
<1> DEFINE N == Newest(hits, limit)
           From(i) == {j \in hits : j >= i}
<1>1. N \in SUBSET (1..n) /\ N \subseteq hits
  BY DEF Newest
<1>2. \A i \in N : Cardinality(From(i)) \in Nat /\ Cardinality(From(i)) <= limit
  <2> SUFFICES ASSUME NEW i \in N PROVE Cardinality(From(i)) \in Nat /\ Cardinality(From(i)) <= limit
    OBVIOUS
  <2>1. Cardinality(From(i)) \in Nat
    BY PositionsFinite
  <2>2. ~(Cardinality(From(i)) > limit)
    BY DEF Newest
  <2> HIDE DEF From
  <2> QED
    BY <2>1, <2>2
<1>3. Cardinality(N) <= limit
  <2>1. CASE N = {}
    BY <2>1, FS_EmptySet
  <2>2. CASE N # {}
    <3>1. PICK m \in N : \A i \in N : m <= i
      <4>1. N \in SUBSET Nat
        BY <1>1
      <4> HIDE DEF N
      <4> QED
        BY <2>2, <4>1, LeastExists
    <3>2. N \in SUBSET From(m) /\ From(m) \in SUBSET (1..n)
      BY <1>1, <3>1
    <3> HIDE DEF N, From
    <3>3. Cardinality(N) <= Cardinality(From(m)) /\ Cardinality(N) \in Nat
      BY <3>2, FewerPositions
    <3> QED
      BY <1>2, <3>1, <3>3
  <2> QED
    BY <2>1, <2>2
<1>4. ASSUME NEW i \in N, NEW j \in hits, j >= i PROVE j \in N
  <2>1. From(j) \in SUBSET From(i) /\ From(i) \in SUBSET (1..n)
    <3>1. i \in Int /\ \A k \in hits : k \in Int
      BY <1>1
    <3>2. \A k \in hits : k >= j => k >= i
      <4> HIDE DEF N
      <4> QED
        BY <1>4, <3>1
    <3> QED
      BY <3>2
  <2> HIDE DEF From
  <2>2. Cardinality(From(j)) <= Cardinality(From(i)) /\ Cardinality(From(j)) \in Nat
    BY <2>1, FewerPositions
  <2>3. ~(Cardinality(From(j)) > limit)
    BY <1>2, <2>2
  <2> QED
    BY <2>3 DEF Newest, From
<1> QED
  BY <1>3, <1>4

-----------------------------------------------------------------------------
(* The watches of a generation.                                             *)

\* m is the position of the first watch called id.
FirstAt(ws, id, m) ==
  /\ m \in DOMAIN ws /\ ws[m].id = id
  /\ \A i \in DOMAIN ws : ws[i].id = id => m <= i

(* An ID that occurs has a first watch.                                     *)
LEMMA FirstExists ==
  ASSUME NEW g \in Generations, NEW id \in IdsOf(g)
  PROVE  \E m : FirstAt(g.watches, id, m)
<1> DEFINE S == {i \in DOMAIN g.watches : g.watches[i].id = id}
<1>1. S \in SUBSET Nat /\ S # {}
  BY DEF Generations, IdsOf
<1>2. PICK m \in S : \A i \in S : m <= i
  <2> HIDE DEF S
  <2> QED
    BY <1>1, LeastExists
<1> QED
  BY <1>2 DEF FirstAt

(* It is the watch that WatchOf finds.                                      *)
LEMMA FirstIs ==
  ASSUME NEW g \in Generations, NEW id, NEW m, FirstAt(g.watches, id, m)
  PROVE  /\ Min(Positions(g, LAMBDA w : w.id = id)) = m
         /\ WatchOf(g, id) = g.watches[m]
         /\ id \in IdsOf(g)
<1> DEFINE S == {i \in DOMAIN g.watches : g.watches[i].id = id}
<1>1. S \in SUBSET Nat /\ S # {} /\ m \in S /\ \A i \in S : m <= i
  BY DEF Generations, FirstAt
<1>2. Min(S) = m
  <2> HIDE DEF S
  <2>1. Min(S) \in S /\ \A i \in S : Min(S) <= i
    BY <1>1, MinIs
  <2>2. Min(S) \in Nat /\ m \in Nat /\ Min(S) <= m /\ m <= Min(S)
    BY <1>1, <2>1
  <2> QED
    BY <2>2
<1>3. Positions(g, LAMBDA w : w.id = id) = S
  BY DEF Positions
<1> QED
  BY <1>1, <1>2, <1>3 DEF WatchOf, FirstAt, IdsOf

(* A stored watch is found under its ID.                                    *)
LEMMA WatchOfIs ==
  ASSUME NEW g \in Generations, NEW id \in IdsOf(g)
  PROVE  /\ WatchOf(g, id) \in Watches /\ WatchOf(g, id).id = id /\ id \in Ids
         /\ \E m : FirstAt(g.watches, id, m) /\ WatchOf(g, id) = g.watches[m]
<1>1. PICK m : FirstAt(g.watches, id, m)
  BY FirstExists
<1>2. WatchOf(g, id) = g.watches[m]
  BY <1>1, FirstIs
<1>3. g.watches[m] \in Watches /\ g.watches[m].id = id
  BY <1>1 DEF FirstAt, Generations
<1>4. id \in Ids
  BY <1>3 DEF Watches
<1> QED
  BY <1>1, <1>2, <1>3, <1>4

(* Replacing the watch at one position, under its ID.                       *)
Replaced(g, m, w) == [g EXCEPT !.watches[m] = w]

\* In p the watch at m is w.
ReplacedAt(g, m, w, p) ==
  /\ p \in Generations /\ p.history = g.history
  /\ p.watches = [g.watches EXCEPT ![m] = w]
  /\ DOMAIN p.watches = DOMAIN g.watches
  /\ \A i \in DOMAIN g.watches : p.watches[i] = IF i = m THEN w ELSE g.watches[i]
  /\ IdsOf(p) = IdsOf(g)
  /\ \A id \in IdsOf(g) :
       WatchOf(p, id) = IF FirstAt(g.watches, id, m) THEN w ELSE WatchOf(g, id)

(* Writing a record back under its own ID moves no other watch.             *)
LEMMA PutAtIs ==
  ASSUME NEW g \in Generations, NEW m \in DOMAIN g.watches, NEW w \in Watches,
         w.id = g.watches[m].id
  PROVE  ReplacedAt(g, m, w, Replaced(g, m, w))
<1> DEFINE p == Replaced(g, m, w)
<1>1. /\ g.watches \in Seq(Watches) /\ g.history \in Seq(Points)
      /\ g = [watches |-> g.watches, history |-> g.history]
  BY DEF Generations
<1>2. p = [watches |-> [g.watches EXCEPT ![m] = w], history |-> g.history]
  <2> DEFINE ws == [g.watches EXCEPT ![m] = w]
  <2>1. p = [g EXCEPT !.watches = ws]
    BY Zenon DEF Replaced
  <2> HIDE DEF ws
  <2>2. p = [watches |-> ws, history |-> g.history]
    BY <1>1, <2>1
  <2> QED
    BY <2>2 DEF ws
<1> HIDE DEF p
<1>3. p \in Generations
  BY <1>1, <1>2 DEF Generations
<1>4. /\ DOMAIN p.watches = DOMAIN g.watches
      /\ \A i \in DOMAIN g.watches : p.watches[i].id = g.watches[i].id
      /\ \A i \in DOMAIN g.watches : p.watches[i] = IF i = m THEN w ELSE g.watches[i]
  BY <1>1, <1>2
<1>5. IdsOf(p) = IdsOf(g)
  BY <1>4 DEF IdsOf
<1>6. ASSUME NEW id \in IdsOf(g)
      PROVE  WatchOf(p, id) = IF FirstAt(g.watches, id, m) THEN w ELSE WatchOf(g, id)
  <2>1. PICK n : FirstAt(g.watches, id, n) /\ WatchOf(g, id) = g.watches[n]
    BY WatchOfIs
  <2>2. FirstAt(p.watches, id, n)
    BY <1>4, <2>1 DEF FirstAt
  <2>3. WatchOf(p, id) = p.watches[n]
    BY <1>3, <2>2, FirstIs
  <2>4. FirstAt(g.watches, id, m) <=> n = m
    <3>1. \A i \in DOMAIN g.watches : i \in Int
      BY <1>1
    <3> QED
      BY <2>1, <3>1 DEF FirstAt
  <2> QED
    BY <1>4, <2>1, <2>3, <2>4 DEF FirstAt
<1>7. p.history = g.history /\ p.watches = [g.watches EXCEPT ![m] = w]
  BY <1>2
<1> QED
  BY <1>3, <1>4, <1>5, <1>6, <1>7 DEF ReplacedAt, p

(* Putting a watch back changes the record under its ID and nothing else.   *)
LEMMA PutWatchIs ==
  ASSUME NEW g \in Generations, NEW w \in Watches, w.id \in IdsOf(g)
  PROVE  LET p == PutWatch(g, w)
         IN /\ p \in Generations /\ p.history = g.history
            /\ IdsOf(p) = IdsOf(g)
            /\ \A id \in IdsOf(g) : WatchOf(p, id) = IF id = w.id THEN w ELSE WatchOf(g, id)
            /\ DOMAIN p.watches = DOMAIN g.watches
            /\ \E m : /\ FirstAt(g.watches, w.id, m)
                      /\ \A i \in DOMAIN g.watches :
                           p.watches[i] = IF i = m THEN w ELSE g.watches[i]
<1> DEFINE p == PutWatch(g, w)
<1>1. PICK m : FirstAt(g.watches, w.id, m)
  BY FirstExists
<1>2. p = Replaced(g, m, w)
  BY <1>1, FirstIs, Zenon DEF PutWatch, Replaced
<1>3. m \in DOMAIN g.watches /\ w.id = g.watches[m].id
  BY <1>1 DEF FirstAt
<1>4. /\ p \in Generations /\ p.history = g.history
      /\ DOMAIN p.watches = DOMAIN g.watches
      /\ \A i \in DOMAIN g.watches : p.watches[i] = IF i = m THEN w ELSE g.watches[i]
      /\ IdsOf(p) = IdsOf(g)
      /\ \A id \in IdsOf(g) :
           WatchOf(p, id) = IF FirstAt(g.watches, id, m) THEN w ELSE WatchOf(g, id)
  <2>1. ReplacedAt(g, m, w, p)
    BY <1>2, <1>3, PutAtIs
  <2> HIDE DEF p
  <2> QED
    BY <2>1 DEF ReplacedAt
<1>5. \A id : FirstAt(g.watches, id, m) <=> id = w.id
  BY <1>1 DEF FirstAt
<1> HIDE DEF p
<1>6. \A id \in IdsOf(g) : WatchOf(p, id) = IF id = w.id THEN w ELSE WatchOf(g, id)
  BY <1>4, <1>5
<1> QED
  BY <1>1, <1>4, <1>6 DEF p

(* Another history under the same watches.                                  *)
LEMMA WithHistoryIs ==
  ASSUME NEW g \in Generations, NEW h \in Seq(Points)
  PROVE  LET p == [g EXCEPT !.history = h]
         IN /\ p \in Generations /\ p.watches = g.watches /\ p.history = h
            /\ IdsOf(p) = IdsOf(g)
            /\ \A id : WatchOf(p, id) = WatchOf(g, id)
            /\ \A q : Belongs(p, q) = Belongs(g, q)
<1> DEFINE p == [g EXCEPT !.history = h]
<1>1. p = [watches |-> g.watches, history |-> h] /\ g.watches \in Seq(Watches)
  BY DEF Generations
<1>2. p \in Generations /\ p.watches = g.watches /\ p.history = h
  BY <1>1 DEF Generations
<1> HIDE DEF p
<1>3. IdsOf(p) = IdsOf(g) /\ \A id : WatchOf(p, id) = WatchOf(g, id)
  BY <1>2 DEF IdsOf, WatchOf, Positions
<1>4. \A q : Belongs(p, q) = Belongs(g, q)
  BY <1>3 DEF Belongs
<1> QED
  BY <1>2, <1>3, <1>4 DEF p

(* A new watch goes to the end, behind any that has its ID.                 *)
LEMMA AppendedIs ==
  ASSUME NEW g \in Generations, NEW w \in Watches
  PROVE  LET p == [g EXCEPT !.watches = Append(@, w)]
         IN /\ p \in Generations /\ p.history = g.history
            /\ p.watches = Append(g.watches, w)
            /\ IdsOf(p) = IdsOf(g) \union {w.id}
            /\ \A id \in IdsOf(g) : WatchOf(p, id) = WatchOf(g, id)
<1> DEFINE p == [g EXCEPT !.watches = Append(@, w)]
           n == Len(g.watches)
<1>1. /\ g.watches \in Seq(Watches) /\ g.history \in Seq(Points)
      /\ g = [watches |-> g.watches, history |-> g.history]
  BY DEF Generations
<1>2. p = [watches |-> Append(g.watches, w), history |-> g.history]
  <2> DEFINE a == Append(g.watches, w)
  <2>1. p = [g EXCEPT !.watches = a]
    OBVIOUS
  <2> HIDE DEF a, p
  <2>2. p = [watches |-> a, history |-> g.history]
    BY <1>1, <2>1
  <2> QED
    BY <2>2 DEF a
<1>3. p \in Generations
  BY <1>1, <1>2 DEF Generations
<1> HIDE DEF p
<1>4. /\ n \in Nat /\ DOMAIN g.watches = 1..n /\ DOMAIN p.watches = 1..(n + 1)
      /\ p.watches[n + 1] = w
      /\ \A i \in 1..n : p.watches[i] = g.watches[i]
  BY <1>1, <1>2
<1>5. IdsOf(p) = IdsOf(g) \union {w.id}
  <2>1. ASSUME NEW i \in 1..(n + 1) PROVE p.watches[i].id \in IdsOf(g) \union {w.id}
    BY <1>4 DEF IdsOf
  <2>2. ASSUME NEW i \in 1..n PROVE g.watches[i].id \in IdsOf(p)
    <3>1. i \in DOMAIN p.watches /\ p.watches[i].id = g.watches[i].id
      BY <1>4
    <3> QED
      BY <3>1 DEF IdsOf
  <2>3. w.id \in IdsOf(p)
    <3>1. n + 1 \in DOMAIN p.watches
      BY <1>4
    <3> QED
      BY <1>4, <3>1 DEF IdsOf
  <2> QED
    BY <1>4, <2>1, <2>2, <2>3 DEF IdsOf
<1>6. ASSUME NEW id \in IdsOf(g) PROVE WatchOf(p, id) = WatchOf(g, id)
  <2>1. PICK m : FirstAt(g.watches, id, m) /\ WatchOf(g, id) = g.watches[m]
    BY WatchOfIs
  <2>2. FirstAt(p.watches, id, m)
    BY <1>4, <2>1 DEF FirstAt
  <2>3. WatchOf(p, id) = p.watches[m]
    BY <1>3, <2>2, FirstIs
  <2> QED
    BY <1>4, <2>1, <2>3 DEF FirstAt
<1> QED
  BY <1>2, <1>3, <1>5, <1>6 DEF p

(* Removing a watch leaves the others, in their order.                      *)
Removed(g, id, h) ==
  [watches |-> Without(g.watches, Positions(g, LAMBDA w : w.id = id)), history |-> h]

(* Dropping every record of an ID leaves the others, in order.              *)
LEMMA RemovedIs ==
  ASSUME NEW g \in Generations, NEW id, NEW h \in Seq(Points)
  PROVE  LET p == Removed(g, id, h)
         IN /\ p \in Generations
            /\ IdsOf(p) = IdsOf(g) \ {id}
            /\ \A x \in IdsOf(p) : WatchOf(p, x) = WatchOf(g, x)
            /\ \A k \in DOMAIN p.watches :
                 \E i \in DOMAIN g.watches : p.watches[k] = g.watches[i]
            /\ OneEach(g) => OneEach(p)
            /\ OneIdEach(g) => OneIdEach(p)
<1> DEFINE doomed == Positions(g, LAMBDA w : w.id = id)
           p == [watches |-> Without(g.watches, doomed), history |-> h]
           n == Cardinality(DOMAIN g.watches \ doomed)
<1>1. g.watches \in Seq(Watches) /\ \A i \in DOMAIN g.watches : i \in doomed <=> g.watches[i].id = id
  BY DEF Generations, Positions
<1> HIDE DEF doomed
<1>2. PICK e : Comes(g.watches, doomed, e)
  BY <1>1, WithoutIs
<1>3. /\ n \in Nat /\ DOMAIN p.watches = 1..n /\ e \in [1..n -> DOMAIN g.watches \ doomed]
      /\ \A k \in 1..n : p.watches[k] = g.watches[e[k]]
      /\ \A k, l \in 1..n : k < l <=> e[k] < e[l]
      /\ \A i \in DOMAIN g.watches \ doomed : \E k \in 1..n : e[k] = i
  BY <1>2 DEF Comes
<1>4. p \in Generations
  BY <1>1, WithoutType DEF Generations
<1>i. /\ \A i \in DOMAIN g.watches : i \in Int
      /\ \A k \in 1..n : k \in Int /\ e[k] \in Int /\ e[k] \in DOMAIN g.watches \ doomed
  <2>1. \A i \in DOMAIN g.watches : i \in Int
    BY <1>1
  <2> HIDE DEF n
  <2> QED
    BY <1>3, <2>1
<1> HIDE DEF p, n
<1>5. IdsOf(p) = IdsOf(g) \ {id}
  <2>1. ASSUME NEW k \in 1..n PROVE p.watches[k].id \in IdsOf(g) \ {id}
    BY <1>1, <1>3, <1>i DEF IdsOf
  <2>2. ASSUME NEW i \in DOMAIN g.watches, g.watches[i].id # id
        PROVE  g.watches[i].id \in IdsOf(p)
    <3>1. PICK k \in 1..n : e[k] = i
      BY <1>1, <1>3, <2>2
    <3> QED
      BY <1>3, <3>1 DEF IdsOf
  <2>3. IdsOf(p) = {p.watches[k].id : k \in 1..n}
    BY <1>3 DEF IdsOf
  <2>4. IdsOf(p) \subseteq IdsOf(g) \ {id}
    BY <2>1, <2>3
  <2>5. IdsOf(g) \ {id} \subseteq IdsOf(p)
    BY <2>2 DEF IdsOf
  <2> QED
    BY <2>4, <2>5
<1>6. ASSUME NEW x \in IdsOf(p) PROVE WatchOf(p, x) = WatchOf(g, x)
  <2>1. PICK m : FirstAt(g.watches, x, m) /\ WatchOf(g, x) = g.watches[m]
    BY <1>5, WatchOfIs
  <2>2. m \in DOMAIN g.watches \ doomed
    BY <1>1, <1>5, <2>1 DEF FirstAt
  <2>3. PICK k \in 1..n : e[k] = m
    BY <1>3, <2>2
  <2>4. FirstAt(p.watches, x, k)
    <3>1. ASSUME NEW l \in 1..n, p.watches[l].id = x PROVE k <= l
      <4>1. g.watches[e[l]].id = x
        BY <1>3, <3>1
      <4>2. m <= e[l]
        BY <1>i, <2>1, <4>1 DEF FirstAt
      <4>3. ~(l < k)
        BY <1>3, <1>i, <2>3, <4>2
      <4> QED
        BY <1>i, <4>3
    <3>2. k \in DOMAIN p.watches /\ p.watches[k].id = x
      BY <1>3, <2>1, <2>3 DEF FirstAt
    <3> QED
      BY <1>3, <3>1, <3>2 DEF FirstAt
  <2>5. WatchOf(p, x) = p.watches[k]
    BY <1>4, <2>4, FirstIs
  <2> QED
    BY <1>3, <2>1, <2>3, <2>5
<1>7. \A k \in DOMAIN p.watches : \E i \in DOMAIN g.watches : p.watches[k] = g.watches[i]
  BY <1>3, <1>i
<1>8. ASSUME OneEach(g) PROVE OneEach(p)
  <2> SUFFICES ASSUME NEW k \in 1..n, NEW l \in 1..n, k # l
               PROVE  DedupeKey(p.watches[k]) # DedupeKey(p.watches[l])
    BY <1>3 DEF OneEach
  <2>1. e[k] # e[l]
    BY <1>3, <1>i
  <2> QED
    BY <1>3, <1>8, <1>i, <2>1 DEF OneEach
<1>9. ASSUME OneIdEach(g) PROVE OneIdEach(p)
  <2> SUFFICES ASSUME NEW k \in 1..n, NEW l \in 1..n, k # l
               PROVE  p.watches[k].id # p.watches[l].id
    BY <1>3 DEF OneIdEach
  <2>1. e[k] # e[l]
    BY <1>3, <1>i
  <2> QED
    BY <1>3, <1>9, <1>i, <2>1 DEF OneIdEach
<1> QED
  BY <1>4, <1>5, <1>6, <1>7, <1>8, <1>9 DEF p, doomed, Removed

-----------------------------------------------------------------------------
(* What the bookkeeping does to a record.                                   *)

Wished == [target : Targets, cur : Spellings, below : Nat, pct : Nat, abs : Nat]

(* Upper-casing a currency text twice is upper-casing it once.              *)
LEMMA Uppered ==
  \A s \in Spellings : Upper[s] \in Spellings /\ Upper[Upper[s]] = Upper[s]
  BY CurrencyAssumption

(* A watch is born with its wish's target and a canonical currency.         *)
LEMMA NewWatchIs ==
  ASSUME NEW id \in Ids, NEW wish \in Wished
  PROVE  LET v == NewWatch(id, wish)
         IN v \in Watches /\ v.id = id /\ v.target = wish.target /\ Upper[v.cur] = v.cur
  BY CurrencyAssumption, Uppered DEF NewWatch, Watches, Wished

\* A record whose thresholds are set is otherwise the same.
SetThresholds(w, below, pct, abs, kept) ==
  [w EXCEPT !.below = below, !.pct = pct, !.abs = abs, !.cleared = kept]

(* Such a record has these thresholds and everything else of w's.           *)
LEMMA ThresholdsSet ==
  ASSUME NEW w \in Watches, NEW below \in Nat, NEW pct \in Nat, NEW abs \in Nat,
         NEW kept \in BOOLEAN
  PROVE  LET v == SetThresholds(w, below, pct, abs, kept)
         IN /\ v \in Watches /\ v.id = w.id /\ v.target = w.target
            /\ v.cur = w.cur /\ v.last = w.last /\ v.low = w.low
            /\ v.base = w.base /\ v.alerted = w.alerted
            /\ v.pend = w.pend /\ v.polls = w.polls
            /\ v.pct = pct /\ v.abs = abs /\ v.cleared = kept
  BY DEF SetThresholds, Watches

\* What a re-watch leaves of a record whose currency it moves, and what the
\* user's wish then adds.
Forgotten(w, wish) ==
  [w EXCEPT !.cur = Upper[wish.cur], !.last = 0, !.low = 0,
            !.base = 0, !.alerted = 0, !.below = 0, !.abs = 0,
            !.cleared = w.cleared \/ (w.abs > 0 /\ w.pct <= 0)]

Renewed(w, wish) ==
  [w EXCEPT !.below   = IF wish.below > 0 THEN wish.below ELSE @,
            !.pct     = IF wish.pct > 0 THEN wish.pct ELSE @,
            !.abs     = IF wish.abs > 0 THEN wish.abs ELSE @,
            !.cleared = @ /\ wish.pct <= 0 /\ wish.abs <= 0]

(* A re-watch is the one after the other if the currency moves, else the    *)
(* second alone.                                                            *)
LEMMA ApplyIntentSplits ==
  ASSUME NEW w, NEW wish
  PROVE  /\ CurrencyMoves(w, wish) => ApplyIntent(w, wish) = Renewed(Forgotten(w, wish), wish)
         /\ ~CurrencyMoves(w, wish) => ApplyIntent(w, wish) = Renewed(w, wish)
<1>1. ApplyIntent(w, wish) =
        Renewed(IF CurrencyMoves(w, wish) THEN Forgotten(w, wish) ELSE w, wish)
  BY DEF ApplyIntent, Renewed, Forgotten
<1> QED
  BY <1>1

(* With the currency go the mark, the last alert and the absolute drop;     *)
(* that it was the only threshold for drops is remembered.                  *)
LEMMA ForgottenIs ==
  ASSUME NEW w \in Watches, NEW wish \in Wished
  PROVE  LET v == Forgotten(w, wish)
         IN /\ v \in Watches /\ v.id = w.id /\ v.target = w.target
            /\ v.cur = Upper[wish.cur] /\ v.pct = w.pct /\ v.abs = 0
            /\ v.base = 0 /\ v.alerted = 0 /\ v.pend = w.pend /\ v.polls = w.polls
            /\ v.cleared <=> w.cleared \/ (w.abs > 0 /\ w.pct <= 0)
<1>1. Upper[wish.cur] \in Spellings
  BY Uppered DEF Wished
<1> QED
  BY <1>1 DEF Forgotten, Watches

(* A wish overrides the thresholds that it names, and naming one forgets    *)
(* that an earlier one was cleared.                                         *)
LEMMA RenewedIs ==
  ASSUME NEW w \in Watches, NEW wish \in Wished
  PROVE  LET v == Renewed(w, wish)
         IN /\ v \in Watches /\ v.id = w.id /\ v.target = w.target
            /\ v.cur = w.cur /\ v.last = w.last /\ v.low = w.low
            /\ v.base = w.base /\ v.alerted = w.alerted
            /\ v.pend = w.pend /\ v.polls = w.polls
            /\ v.pct = (IF wish.pct > 0 THEN wish.pct ELSE w.pct)
            /\ v.abs = (IF wish.abs > 0 THEN wish.abs ELSE w.abs)
            /\ v.cleared <=> w.cleared /\ wish.pct <= 0 /\ wish.abs <= 0
<1> DEFINE below == IF wish.below > 0 THEN wish.below ELSE w.below
           pct   == IF wish.pct > 0 THEN wish.pct ELSE w.pct
           abs   == IF wish.abs > 0 THEN wish.abs ELSE w.abs
           kept  == w.cleared /\ wish.pct <= 0 /\ wish.abs <= 0
<1>1. below \in Nat /\ pct \in Nat /\ abs \in Nat
  BY DEF Watches, Wished
<1>2. Renewed(w, wish) = SetThresholds(w, below, pct, abs, kept)
  BY DEF Renewed, SetThresholds
<1>3. kept \in BOOLEAN
  OBVIOUS
<1> HIDE DEF below, pct, abs, kept
<1>4. LET v == Renewed(w, wish)
      IN /\ v \in Watches /\ v.id = w.id /\ v.target = w.target
         /\ v.cur = w.cur /\ v.last = w.last /\ v.low = w.low
         /\ v.base = w.base /\ v.alerted = w.alerted
         /\ v.pend = w.pend /\ v.polls = w.polls
         /\ v.pct = pct /\ v.abs = abs /\ v.cleared = kept
  BY <1>1, <1>2, <1>3, ThresholdsSet
<1> QED
  BY <1>4 DEF pct, abs, kept

(* A re-watch forgets the prices only with their currency.                  *)
LEMMA ApplyIntentIs ==
  ASSUME NEW w \in Watches, NEW wish \in Wished
  PROVE  LET v == ApplyIntent(w, wish)
         IN /\ v \in Watches /\ v.id = w.id /\ v.target = w.target
            /\ CurrencyMoves(w, wish) => v.cur = Upper[wish.cur]
            /\ ~CurrencyMoves(w, wish) => v.cur = w.cur /\ v.last = w.last /\ v.low = w.low
<1>1. CASE CurrencyMoves(w, wish)
  BY <1>1, ApplyIntentSplits, ForgottenIs, RenewedIs
<1>2. CASE ~CurrencyMoves(w, wish)
  BY <1>2, ApplyIntentSplits, RenewedIs
<1> QED
  BY <1>1, <1>2

(* An edit touches neither identity nor prices.                             *)
LEMMA ApplyUpdateIs ==
  ASSUME NEW w \in Watches, NEW u, DOMAIN u \subseteq UpdateFields,
         \A f \in DOMAIN u : u[f] \in Nat
  PROVE  LET v == ApplyUpdate(w, u)
         IN /\ v \in Watches /\ v.id = w.id /\ v.target = w.target
            /\ v.cur = w.cur /\ v.last = w.last /\ v.low = w.low
<1> DEFINE below == IF "below" \in DOMAIN u THEN u.below ELSE w.below
           pct   == IF "pct" \in DOMAIN u THEN u.pct ELSE w.pct
           abs   == IF "abs" \in DOMAIN u THEN u.abs ELSE w.abs
           kept  == w.cleared /\ DOMAIN u \intersect {"pct", "abs"} = {}
<1>1. below \in Nat /\ pct \in Nat /\ abs \in Nat
  BY DEF Watches
<1>2. ApplyUpdate(w, u) = SetThresholds(w, below, pct, abs, kept)
  BY DEF ApplyUpdate, SetThresholds
<1>3. kept \in BOOLEAN
  OBVIOUS
<1> HIDE DEF below, pct, abs, kept
<1> QED
  BY <1>1, <1>2, <1>3, ThresholdsSet

\* A record with a quote in it.
LEMMA ObservedIs ==
  ASSUME NEW w \in Watches, NEW price \in Nat \ {0}, NEW cur \in Spellings
  PROVE  LET o == Observed(w, price, cur)
         IN /\ o \in Watches /\ o.id = w.id /\ o.target = w.target
            /\ o.cur = cur /\ o.last = price /\ o.low = Lowest(w, price, cur)
            /\ o.below = (IF Mismatch(w, cur) THEN 0 ELSE w.below)
            /\ o.abs = Threshold(w, cur).abs
            /\ o.base = AlertState(w, cur).base /\ o.alerted = AlertState(w, cur).alerted
            /\ o.pct = w.pct /\ o.cleared = w.cleared /\ o.pend = w.pend
<1> DEFINE low     == Lowest(w, price, cur)
           below   == IF Mismatch(w, cur) THEN 0 ELSE w.below
           abs     == Threshold(w, cur).abs
           base    == AlertState(w, cur).base
           alerted == AlertState(w, cur).alerted
<1>1. low \in Nat
  BY DEF Lowest, Watches
<1>2. below \in Nat /\ abs \in Nat
  BY DEF Threshold, Watches
<1>3. base \in Nat /\ alerted \in Nat
  BY DEF AlertState, Watches
<1> DEFINE o == Observed(w, price, cur)
<1>4. o = [w EXCEPT !.last = price, !.cur = cur, !.low = low, !.below = below,
                    !.abs = abs, !.base = base, !.alerted = alerted]
  BY DEF Observed
<1>p. price \in Nat
  OBVIOUS
<1> HIDE DEF low, below, abs, base, alerted, o
<1>5. /\ o \in Watches /\ o.id = w.id /\ o.target = w.target
      /\ o.cur = cur /\ o.last = price /\ o.low = low /\ o.below = below
      /\ o.abs = abs /\ o.base = base /\ o.alerted = alerted
      /\ o.pct = w.pct /\ o.cleared = w.cleared /\ o.pend = w.pend
  BY <1>p, <1>1, <1>2, <1>3, <1>4 DEF Watches
<1> QED
  BY <1>5 DEF low, below, abs, base, alerted, o

(***************************************************************************)
(* A quote is either set aside, or it becomes the last price in its        *)
(* currency, and the former points go when the currency changed.           *)
(***************************************************************************)
LEMMA FoldIs ==
  ASSUME NEW w \in Watches, NEW price \in Nat \ {0}, NEW cur \in Spellings
  PROVE  LET f == Fold(w, price, cur)
         IN /\ f.rec \in Watches /\ f.rec.id = w.id /\ f.rec.target = w.target
            /\ \/ /\ ~f.out.point /\ ~f.out.purge
                  /\ f.rec.cur = w.cur /\ f.rec.last = w.last /\ f.rec.low = w.low
               \/ /\ f.out.point /\ f.out.purge = Changed(w, cur)
                  /\ f.rec.cur = cur /\ f.rec.last = price
                  /\ f.rec.low = Lowest(w, price, cur)
<1>1. ASSUME NEW v \in Watches
      PROVE  LET o == Observed(v, price, cur)
             IN /\ o \in Watches /\ o.id = v.id /\ o.target = v.target
                /\ o.cur = cur /\ o.last = price /\ o.low = Lowest(v, price, cur)
  BY ObservedIs
<1> DEFINE v == Pended(w, cur)
<1>2. /\ v \in Watches /\ v.id = w.id /\ v.target = w.target
      /\ v.cur = w.cur /\ v.last = w.last /\ v.low = w.low
  <2>1. CASE Changed(w, cur)
    <3>1. Dissent(w, cur) \in Nat
      BY DEF Dissent, Watches
    <3>2. v = [w EXCEPT !.pend = cur, !.polls = Dissent(w, cur)]
      BY <2>1 DEF Pended
    <3> HIDE DEF v
    <3> QED
      BY <3>1, <3>2 DEF Watches
  <2>2. CASE ~Changed(w, cur)
    BY <2>2, CurrencyAssumption DEF Pended, Watches
  <2> QED
    BY <2>1, <2>2
<1> HIDE DEF v
<1>3. Lowest(v, price, cur) = Lowest(w, price, cur)
  BY <1>2 DEF Lowest, Changed, Mismatch, HasPrior
<1>4. CASE IsRoom(w)
  BY <1>1, <1>4 DEF Fold, FoldRoom, Signals
<1>5. CASE ~IsRoom(w) /\ Unconfirmed(w, cur)
  <2>1. Fold(w, price, cur) = [rec |-> v, out |-> Suspicious(w)]
    BY <1>5 DEF Fold, FoldFlight, v
  <2> QED
    BY <1>2, <2>1 DEF Suspicious
<1>6. CASE ~IsRoom(w) /\ ~Unconfirmed(w, cur)
  <2> DEFINE o == Observed(v, price, cur)
             s == AlertState(w, cur)
             e == IF Suspended(w, cur) THEN s ELSE Evaluate(s, price, Threshold(w, cur))
             f == Fold(w, price, cur)
  <2>1. f.rec = [o EXCEPT !.cleared = Cleared(w, cur), !.base = e.base, !.alerted = e.alerted]
    BY <1>6, Zenon DEF Fold, FoldFlight, v
  <2>2. f.out.point /\ f.out.purge = Changed(w, cur)
    BY <1>6 DEF Fold, FoldFlight, Signals
  <2>3. s.base \in Nat /\ s.alerted \in Nat /\ s = [base |-> s.base, alerted |-> s.alerted]
    BY DEF AlertState, Watches
  <2>4. e.base \in Nat /\ e.alerted \in Nat
    <3> HIDE DEF s
    <3> QED
      BY <2>3 DEF Evaluate
  <2>5. Cleared(w, cur) \in BOOLEAN
    BY DEF Cleared, Watches, Mismatch
  <2>6. /\ o \in Watches /\ o.id = w.id /\ o.target = w.target
        /\ o.cur = cur /\ o.last = price /\ o.low = Lowest(w, price, cur)
    BY <1>1, <1>2, <1>3
  <2> HIDE DEF o, s, e, f
  <2>7. /\ f.rec \in Watches /\ f.rec.id = w.id /\ f.rec.target = w.target
        /\ f.rec.cur = cur /\ f.rec.last = price /\ f.rec.low = Lowest(w, price, cur)
    BY <2>1, <2>4, <2>5, <2>6 DEF Watches
  <2> QED
    BY <2>2, <2>7 DEF f
<1> QED
  BY <1>4, <1>5, <1>6

-----------------------------------------------------------------------------
(* What pruning leaves of a history.                                        *)

\* Of h is left r: points of h, and of each kind no more than there were.
LeftOf(h, r) ==
  /\ r \in Seq(Points)
  /\ \A k \in DOMAIN r : \E i \in DOMAIN h : r[k] = h[i]
  /\ Cardinality(WatchPoints(r)) <= Cardinality(WatchPoints(h))
  /\ \A id : Cardinality(PointsOf(r, id)) <= Cardinality(PointsOf(h, id))

(* Points of any kind can be counted.                                       *)
LEMMA Counts ==
  ASSUME NEW h \in Seq(Points)
  PROVE  /\ Cardinality(WatchPoints(h)) \in Nat
         /\ \A id : Cardinality(PointsOf(h, id)) \in Nat
<1>1. Len(h) \in Nat /\ DOMAIN h = 1..Len(h)
  OBVIOUS
<1>2. WatchPoints(h) \in SUBSET (1..Len(h))
  BY <1>1 DEF WatchPoints
<1>3. \A id : PointsOf(h, id) \in SUBSET (1..Len(h))
  BY <1>1 DEF PointsOf
<1> QED
  BY <1>1, <1>2, <1>3, PositionsFinite

(* A history is what is left of itself.                                     *)
LEMMA LeftReflexive ==
  ASSUME NEW h \in Seq(Points)
  PROVE  LeftOf(h, h)
  BY Counts DEF LeftOf

(* What is left of what was left is left of the whole.                      *)
LEMMA LeftTransitive ==
  ASSUME NEW h \in Seq(Points), NEW r, NEW s, LeftOf(h, r), LeftOf(r, s)
  PROVE  LeftOf(h, s)
<1>1. /\ s \in Seq(Points) /\ r \in Seq(Points)
      /\ Cardinality(WatchPoints(s)) <= Cardinality(WatchPoints(r))
      /\ Cardinality(WatchPoints(r)) <= Cardinality(WatchPoints(h))
  BY DEF LeftOf
<1>2. Cardinality(WatchPoints(s)) <= Cardinality(WatchPoints(h))
  BY <1>1, Counts
<1>3. ASSUME NEW id PROVE Cardinality(PointsOf(s, id)) <= Cardinality(PointsOf(h, id))
  <2>1. /\ Cardinality(PointsOf(s, id)) <= Cardinality(PointsOf(r, id))
        /\ Cardinality(PointsOf(r, id)) <= Cardinality(PointsOf(h, id))
    BY DEF LeftOf
  <2> QED
    BY <1>1, <2>1, Counts
<1>4. \A k \in DOMAIN s : \E i \in DOMAIN h : s[k] = h[i]
  BY DEF LeftOf
<1> QED
  BY <1>1, <1>2, <1>3, <1>4 DEF LeftOf

(* Removing positions leaves a part.                                        *)
LEMMA WithoutLeaves ==
  ASSUME NEW h \in Seq(Points), NEW doomed
  PROVE  LeftOf(h, Without(h, doomed))
<1> DEFINE r == Without(h, doomed)
<1>1. r \in Seq(Points) /\ \A k \in DOMAIN r : \E i \in DOMAIN h : r[k] = h[i]
  BY WithoutType
<1>2. Len(h) \in Nat /\ DOMAIN h = 1..Len(h)
  OBVIOUS
<1>3. Cardinality(WatchPoints(r)) <= Cardinality(WatchPoints(h))
  <2>1. WatchPoints(h) \in SUBSET (1..Len(h))
    BY <1>2 DEF WatchPoints
  <2>2. Cardinality(WatchPoints(h) \ doomed) <= Cardinality(WatchPoints(h))
    BY <1>2, <2>1, FewerPositions
  <2> QED
    BY <2>2, PointsLeft
<1>4. ASSUME NEW id PROVE Cardinality(PointsOf(r, id)) <= Cardinality(PointsOf(h, id))
  <2>1. PointsOf(h, id) \in SUBSET (1..Len(h))
    BY <1>2 DEF PointsOf
  <2>2. Cardinality(PointsOf(h, id) \ doomed) <= Cardinality(PointsOf(h, id))
    BY <1>2, <2>1, FewerPositions
  <2> QED
    BY <2>2, PointsLeft
<1> QED
  BY <1>1, <1>3, <1>4 DEF LeftOf

(* Purging a series leaves no point of it.                                  *)
LEMMA PurgeIs ==
  ASSUME NEW h \in Seq(Points), NEW id
  PROVE  /\ LeftOf(h, Purge(h, id))
         /\ \A k \in DOMAIN Purge(h, id) :
              \E i \in DOMAIN h : Purge(h, id)[k] = h[i] /\ h[i].id # id
<1>1. \A k \in DOMAIN Purge(h, id) :
        \E i \in DOMAIN h \ PointsOf(h, id) : Purge(h, id)[k] = h[i]
  BY WithoutType DEF Purge
<1> QED
  BY <1>1, WithoutLeaves DEF Purge, PointsOf

(* EvictOldest brings what it is aimed at within the limit.                 *)
LEMMA EvictOldestIs ==
  ASSUME NEW h \in Seq(Points), NEW limit \in Nat, NEW hits \in SUBSET DOMAIN h
  PROVE  LET r == EvictOldest(h, hits, limit)
         IN /\ LeftOf(h, r)
            /\ \A id : hits = PointsOf(h, id) => Cardinality(PointsOf(r, id)) <= limit
            /\ hits = WatchPoints(h) => Cardinality(WatchPoints(r)) <= limit
<1> DEFINE r == EvictOldest(h, hits, limit)
           doomed == {i \in hits : Cardinality({j \in hits : j >= i}) > limit}
<1>1. CASE Cardinality(hits) <= limit
  BY <1>1, LeftReflexive DEF EvictOldest
<1>2. CASE ~(Cardinality(hits) <= limit)
  <2>1. r = Without(h, doomed)
    BY <1>2 DEF EvictOldest
  <2>2. hits \ doomed = Newest(hits, limit)
    BY DEF Newest
  <2>3. Cardinality(hits \ doomed) <= limit
    <3>1. Len(h) \in Nat /\ hits \in SUBSET (1..Len(h))
      OBVIOUS
    <3> HIDE DEF doomed
    <3> QED
      BY <2>2, <3>1, NewestFit
  <2> HIDE DEF doomed, r
  <2>4. LeftOf(h, r)
    BY <2>1, WithoutLeaves
  <2>5. ASSUME NEW id, hits = PointsOf(h, id) PROVE Cardinality(PointsOf(r, id)) <= limit
    BY <2>1, <2>3, <2>5, PointsLeft
  <2>6. hits = WatchPoints(h) => Cardinality(WatchPoints(r)) <= limit
    BY <2>1, <2>3, PointsLeft
  <2> QED
    BY <2>4, <2>5, <2>6 DEF r
<1> QED
  BY <1>1, <1>2

(* The global cap leaves a part, and holds afterwards (pruneGlobalWatchTx). *)
LEMMA PruneGlobalIs ==
  ASSUME NEW h \in Seq(Points)
  PROVE  LeftOf(h, PruneGlobal(h)) /\ Cardinality(WatchPoints(PruneGlobal(h))) <= MaxTotal
  BY RetentionAssumption, EvictOldestIs DEF PruneGlobal, WatchPoints

(* The cap of a series leaves a part, and holds for it (pruneSeriesTx).     *)
LEMMA PruneWatchIs ==
  ASSUME NEW h \in Seq(Points), NEW id
  PROVE  /\ LeftOf(h, PruneWatch(h, id))
         /\ Cardinality(PointsOf(PruneWatch(h, id), id)) <= MaxPerWatch
<1>1. MaxPerWatch \in Nat
  BY RetentionAssumption
<1>2. PointsOf(h, id) \in SUBSET DOMAIN h
  BY DEF PointsOf
<1> QED
  BY <1>1, <1>2, EvictOldestIs DEF PruneWatch

(* The budget of the routes leaves a part (pruneGlobalRouteLocked).         *)
LEMMA FairShareIs ==
  ASSUME NEW h \in Seq(Points)
  PROVE  LeftOf(h, FairShare(h))
  BY WithoutLeaves, LeftReflexive DEF FairShare, ShareOut

-----------------------------------------------------------------------------
(***************************************************************************)
(* Every operation keeps a generation normal -- it loads and its texts are  *)
(* canonical -- and a sound one sound.                                      *)
(***************************************************************************)
Normal(g) == Loadable(g) /\ CanonicalTexts(g)

\* Every retained point may stay under the watches of g.
Tidy(g) == \A k \in DOMAIN g.history :
             /\ Upper[g.history[k].cur] = g.history[k].cur
             /\ g.history[k].id \in IdsOf(g) => HasPrior(WatchOf(g, g.history[k].id))

\* The caps, with no series at all behind the ID of nobody.
LEMMA SoundIs ==
  ASSUME NEW g \in Generations
  PROVE  /\ Normal(g) <=>
              Tidy(g) /\ \A i \in DOMAIN g.watches : Upper[g.watches[i].cur] = g.watches[i].cur
         /\ Sound(g) <=> Normal(g) /\ Owned(g) /\ Capped(g)
  BY DEF Normal, Loadable, Sound, CanonicalTexts, Priced, Tidy

(* Upper-casing the currency of a watch changes nothing else of it.         *)
LEMMA UpperedWatch ==
  ASSUME NEW w \in Watches
  PROVE  LET v == [w EXCEPT !.cur = Upper[@]]
         IN /\ v \in Watches /\ v.id = w.id /\ v.target = w.target
            /\ v.last = w.last /\ v.low = w.low /\ Upper[v.cur] = v.cur
  BY Uppered DEF Watches

(* A function on 1..n with values in S is a sequence over S.                *)
LEMMA SeqOf ==
  ASSUME NEW S, NEW n \in Nat, NEW f, f = [i \in 1..n |-> f[i]], \A i \in 1..n : f[i] \in S
  PROVE  f \in Seq(S)
<1> DEFINE F == [i \in 1..n |-> f[i]]
<1>1. F \in [1..n -> S]
  OBVIOUS
<1>2. F \in Seq(S)
  BY <1>1
<1> QED
  BY <1>2

(* Watch IDs and routes are told apart.                                     *)
LEMMA OwnedOnly ==
  ASSUME NEW g \in Generations, Owned(g), NEW k \in DOMAIN g.history,
         g.history[k].id \in Ids
  PROVE  g.history[k].id \in IdsOf(g)
  BY RouteAssumption DEF Owned, Belongs

(* What is loaded is normal and has the IDs and places of what was read.    *)
LEMMA CanonicalLoads ==
  ASSUME NEW g, Loadable(g)
  PROVE  /\ Normal(Canonical(g))
         /\ OneEach(g) => OneEach(Canonical(g))
         /\ IdsOf(Canonical(g)) = IdsOf(g)
         /\ DOMAIN Canonical(g).history = DOMAIN g.history
         /\ \A k \in DOMAIN g.history : Canonical(g).history[k].id = g.history[k].id
<1> DEFINE p == Canonical(g)
<1>1. /\ g \in Generations /\ g.watches \in Seq(Watches) /\ g.history \in Seq(Points)
  BY DEF Loadable, Generations
<1>2. /\ DOMAIN p.watches = DOMAIN g.watches /\ DOMAIN p.history = DOMAIN g.history
      /\ \A i \in DOMAIN g.watches : p.watches[i] = [g.watches[i] EXCEPT !.cur = Upper[@]]
      /\ \A k \in DOMAIN g.history : p.history[k] = [g.history[k] EXCEPT !.cur = Upper[@]]
  BY DEF Canonical
<1>3. ASSUME NEW i \in DOMAIN g.watches
      PROVE  /\ p.watches[i] \in Watches /\ p.watches[i].id = g.watches[i].id
             /\ p.watches[i].target = g.watches[i].target
             /\ p.watches[i].last = g.watches[i].last /\ p.watches[i].low = g.watches[i].low
             /\ Upper[p.watches[i].cur] = p.watches[i].cur
  <2>1. g.watches[i] \in Watches
    BY <1>1
  <2>2. p.watches[i] = [g.watches[i] EXCEPT !.cur = Upper[@]]
    BY <1>2
  <2> HIDE DEF p
  <2> QED
    BY <2>1, <2>2, UpperedWatch
<1>4. ASSUME NEW k \in DOMAIN g.history
      PROVE  /\ p.history[k] \in Points /\ p.history[k].id = g.history[k].id
             /\ Upper[p.history[k].cur] = p.history[k].cur
  <2>1. g.history[k] \in Points
    BY <1>1
  <2>2. p.history[k] = [g.history[k] EXCEPT !.cur = Upper[@]]
    BY <1>2
  <2> HIDE DEF p
  <2> QED
    BY <2>1, <2>2, Uppered DEF Points
<1>5. p \in Generations
  <2>1. p.watches \in Seq(Watches) /\ p.history \in Seq(Points)
    <3>1. /\ Len(g.watches) \in Nat /\ DOMAIN g.watches = 1..Len(g.watches)
          /\ Len(g.history) \in Nat /\ DOMAIN g.history = 1..Len(g.history)
      BY <1>1
    <3>2. /\ p.watches = [i \in DOMAIN g.watches |-> p.watches[i]]
          /\ p.history = [i \in DOMAIN g.history |-> p.history[i]]
      BY DEF Canonical
    <3> HIDE DEF p
    <3>3. p.watches \in Seq(Watches)
      BY <1>3, <3>1, <3>2, SeqOf
    <3>4. p.history \in Seq(Points)
      BY <1>4, <3>1, <3>2, SeqOf
    <3> QED
      BY <3>3, <3>4
  <2>2. p = [watches |-> p.watches, history |-> p.history]
    BY DEF Canonical
  <2> HIDE DEF p
  <2> QED
    BY <2>1, <2>2 DEF Generations
<1> HIDE DEF p
<1>6. IdsOf(p) = IdsOf(g)
  BY <1>2, <1>3 DEF IdsOf
<1>7. ASSUME NEW id \in IdsOf(g), HasPrior(WatchOf(g, id)) PROVE HasPrior(WatchOf(p, id))
  <2>1. PICK n : FirstAt(g.watches, id, n) /\ WatchOf(g, id) = g.watches[n]
    BY <1>1, WatchOfIs
  <2>2. FirstAt(p.watches, id, n)
    BY <1>2, <1>3, <2>1 DEF FirstAt
  <2>3. WatchOf(p, id) = p.watches[n]
    BY <1>5, <2>2, FirstIs
  <2> QED
    BY <1>3, <1>7, <2>1, <2>3 DEF FirstAt, HasPrior
<1>8. Tidy(p)
  BY <1>2, <1>4, <1>6, <1>7 DEF Loadable, Priced, Tidy
<1>9. OneEach(g) => OneEach(p)
  BY <1>2, <1>3 DEF OneEach, DedupeKey
<1>10. Normal(p)
  BY <1>2, <1>3, <1>5, <1>8, SoundIs
<1> QED
  BY <1>2, <1>4, <1>6, <1>9, <1>10 DEF p

(* A sound generation reads as it is stored.                                *)
LEMMA CanonicalOfSound ==
  ASSUME NEW g, Sound(g)
  PROVE  Canonical(g) = g
<1>1. /\ g.watches \in Seq(Watches) /\ g.history \in Seq(Points)
      /\ g = [watches |-> g.watches, history |-> g.history]
  BY DEF Sound, Loadable, Generations
<1>2. \A i \in DOMAIN g.watches : [g.watches[i] EXCEPT !.cur = Upper[@]] = g.watches[i]
  <2> SUFFICES ASSUME NEW i \in DOMAIN g.watches
               PROVE  [g.watches[i] EXCEPT !.cur = Upper[@]] = g.watches[i]
    OBVIOUS
  <2>1. g.watches[i] \in Watches /\ Upper[g.watches[i].cur] = g.watches[i].cur
    BY <1>1 DEF Sound, CanonicalTexts
  <2> QED
    BY <2>1 DEF Watches
<1>3. \A k \in DOMAIN g.history : [g.history[k] EXCEPT !.cur = Upper[@]] = g.history[k]
  <2> SUFFICES ASSUME NEW k \in DOMAIN g.history
               PROVE  [g.history[k] EXCEPT !.cur = Upper[@]] = g.history[k]
    OBVIOUS
  <2>1. g.history[k] \in Points /\ Upper[g.history[k].cur] = g.history[k].cur
    BY <1>1 DEF Sound, CanonicalTexts
  <2> QED
    BY <2>1 DEF Points
<1>4. [i \in DOMAIN g.watches |-> [g.watches[i] EXCEPT !.cur = Upper[@]]] = g.watches
  BY <1>1, <1>2
<1>5. [k \in DOMAIN g.history |-> [g.history[k] EXCEPT !.cur = Upper[@]]] = g.history
  BY <1>1, <1>3
<1> QED
  BY <1>1, <1>4, <1>5 DEF Canonical

(***************************************************************************)
(* An operation that only takes points away keeps a generation normal and  *)
(* sound, when each watch with points had them before and has the currency *)
(* it had or none, and when no watch goes without its points.              *)
(***************************************************************************)
LEMMA TakingKeeps ==
  ASSUME NEW g, Normal(g), NEW p \in Generations, LeftOf(g.history, p.history),
         \A i \in DOMAIN p.watches : Upper[p.watches[i].cur] = p.watches[i].cur,
         \A k \in DOMAIN p.history :
           LET id == p.history[k].id
           IN /\ id \in IdsOf(p) =>
                   /\ id \in IdsOf(g)
                   /\ WatchOf(p, id).cur \in {NoCur, WatchOf(g, id).cur}
                   /\ HasPrior(WatchOf(g, id)) => HasPrior(WatchOf(p, id))
              /\ id \in IdsOf(g) => id \in IdsOf(p)
  PROVE  Normal(p) /\ (Sound(g) => Sound(p))
<1>1. g \in Generations /\ Tidy(g)
  BY SoundIs DEF Normal, Loadable
<1>2. \A k \in DOMAIN p.history : \E i \in DOMAIN g.history : p.history[k] = g.history[i]
  BY DEF LeftOf
<1>3. Tidy(p)
  <2> SUFFICES ASSUME NEW k \in DOMAIN p.history
               PROVE  /\ Upper[p.history[k].cur] = p.history[k].cur
                      /\ p.history[k].id \in IdsOf(p) => HasPrior(WatchOf(p, p.history[k].id))
    BY DEF Tidy
  <2>1. PICK i \in DOMAIN g.history : p.history[k] = g.history[i]
    BY <1>2
  <2> QED
    BY <1>1, <2>1 DEF Tidy
<1>4. Normal(p)
  BY <1>3, SoundIs
<1>5. ASSUME Owned(g) PROVE Owned(p)
  <2> SUFFICES ASSUME NEW k \in DOMAIN p.history PROVE Belongs(p, p.history[k])
    BY DEF Owned
  <2>1. PICK i \in DOMAIN g.history : p.history[k] = g.history[i]
    BY <1>2
  <2>2. Belongs(g, p.history[k])
    BY <1>5, <2>1 DEF Owned
  <2> QED
    BY <2>2 DEF Belongs
<1>6. ASSUME Capped(g) PROVE Capped(p)
  <2>1. p.history \in Seq(Points) /\ g.history \in Seq(Points)
    BY <1>1 DEF Generations
  <2>2. Cardinality(WatchPoints(p.history)) <= MaxTotal
    <3>1. /\ Cardinality(WatchPoints(p.history)) <= Cardinality(WatchPoints(g.history))
          /\ Cardinality(WatchPoints(g.history)) <= MaxTotal
      BY <1>6 DEF LeftOf, Capped
    <3> QED
      BY <2>1, <3>1, Counts, RetentionAssumption
  <2>3. ASSUME NEW id \in IdsOf(p) PROVE Cardinality(PointsOf(p.history, id)) <= MaxPerWatch
    <3>1. CASE id \in IdsOf(g)
      <4>1. /\ Cardinality(PointsOf(p.history, id)) <= Cardinality(PointsOf(g.history, id))
            /\ Cardinality(PointsOf(g.history, id)) <= MaxPerWatch
        BY <1>6, <3>1 DEF LeftOf, Capped
      <4> QED
        BY <2>1, <4>1, Counts, RetentionAssumption
    <3>2. CASE id \notin IdsOf(g)
      <4>1. PointsOf(p.history, id) = {}
        BY <2>3, <3>2 DEF PointsOf
      <4> QED
        BY <4>1, FS_EmptySet, RetentionAssumption
    <3> QED
      BY <3>1, <3>2
  <2> QED
    BY <2>2, <2>3 DEF Capped
<1> QED
  BY <1>1, <1>4, <1>5, <1>6, SoundIs

(* A point of a watch that has seen a price, in the watch's currency, may   *)
(* be added: the pruning that follows keeps the caps.                       *)
LEMMA GrowingKeeps ==
  ASSUME NEW g, Normal(g), NEW pt \in Points, pt.id \in IdsOf(g),
         HasPrior(WatchOf(g, pt.id)), Upper[pt.cur] = pt.cur,
         WatchOf(g, pt.id).cur = pt.cur
  PROVE  LET p == [g EXCEPT !.history = PruneGlobal(PruneWatch(Append(@, pt), pt.id))]
         IN Normal(p) /\ (Sound(g) => Sound(p)) /\ p.watches = g.watches
<1> DEFINE a == Append(g.history, pt)
           b == PruneWatch(a, pt.id)
           h == PruneGlobal(b)
           p == [g EXCEPT !.history = h]
           n == Len(g.history)
<1>1. g \in Generations /\ Tidy(g) /\ g.history \in Seq(Points)
  BY SoundIs DEF Normal, Loadable, Generations
<1>2. /\ n \in Nat /\ DOMAIN g.history = 1..n /\ a \in Seq(Points) /\ DOMAIN a = 1..(n + 1)
      /\ a[n + 1] = pt /\ \A i \in 1..n : a[i] = g.history[i]
  BY <1>1
<1> HIDE DEF a
<1>3. LeftOf(a, b) /\ Cardinality(PointsOf(b, pt.id)) <= MaxPerWatch
  BY <1>2, PruneWatchIs
<1> HIDE DEF b
<1>4. b \in Seq(Points) /\ LeftOf(b, h) /\ Cardinality(WatchPoints(h)) <= MaxTotal
  BY <1>3, PruneGlobalIs DEF LeftOf
<1> HIDE DEF h
<1>5. LeftOf(a, h) /\ h \in Seq(Points)
  <2>1. LeftOf(a, h)
    BY <1>2, <1>3, <1>4, LeftTransitive
  <2> QED
    BY <1>4, <2>1 DEF LeftOf
<1>6. /\ p \in Generations /\ p.watches = g.watches /\ p.history = h
      /\ IdsOf(p) = IdsOf(g)
      /\ \A id : WatchOf(p, id) = WatchOf(g, id)
      /\ \A q : Belongs(p, q) = Belongs(g, q)
  BY <1>1, <1>5, WithHistoryIs
<1>7. ASSUME NEW k \in DOMAIN h
      PROVE  h[k] = pt \/ \E i \in DOMAIN g.history : h[k] = g.history[i]
  <2>1. PICK i \in DOMAIN a : h[k] = a[i]
    BY <1>5 DEF LeftOf
  <2> QED
    BY <1>2, <2>1
<1> HIDE DEF p
<1>8. Normal(p)
  <2>1. Tidy(p)
    <3> SUFFICES ASSUME NEW k \in DOMAIN h
                 PROVE  /\ Upper[h[k].cur] = h[k].cur
                        /\ h[k].id \in IdsOf(g) => HasPrior(WatchOf(g, h[k].id))
      BY <1>6 DEF Tidy
    <3> QED
      BY <1>1, <1>7 DEF Tidy
  <2>2. \A i \in DOMAIN p.watches : Upper[p.watches[i].cur] = p.watches[i].cur
    BY <1>6 DEF Normal, CanonicalTexts
  <2> QED
    BY <1>6, <2>1, <2>2, SoundIs
<1>9. ASSUME Sound(g) PROVE Sound(p)
  <2>1. Owned(g) /\ Capped(g)
    BY <1>9 DEF Sound
  <2>2. Owned(p)
    <3> SUFFICES ASSUME NEW k \in DOMAIN h PROVE Belongs(g, h[k])
      BY <1>6 DEF Owned
    <3>1. Belongs(g, pt)
      BY DEF Belongs
    <3> QED
      BY <1>7, <2>1, <3>1 DEF Owned
  <2>3. ASSUME NEW id \in IdsOf(p) PROVE Cardinality(PointsOf(h, id)) <= MaxPerWatch
    <3>1. CASE id = pt.id
      <4>1. /\ Cardinality(PointsOf(h, id)) <= Cardinality(PointsOf(b, id))
            /\ Cardinality(PointsOf(b, id)) <= MaxPerWatch
        BY <1>3, <1>4, <3>1 DEF LeftOf
      <4> QED
        BY <1>4, <1>5, <4>1, Counts, RetentionAssumption
    <3>2. CASE id # pt.id
      <4>1. PointsOf(a, id) = PointsOf(g.history, id)
        BY <1>2, <3>2 DEF PointsOf
      <4>2. /\ Cardinality(PointsOf(h, id)) <= Cardinality(PointsOf(g.history, id))
            /\ Cardinality(PointsOf(g.history, id)) <= MaxPerWatch
        BY <1>5, <1>6, <2>1, <2>3, <4>1 DEF LeftOf, Capped
      <4> QED
        BY <1>1, <1>5, <4>2, Counts, RetentionAssumption
    <3> QED
      BY <3>1, <3>2
  <2>4. Capped(p)
    BY <1>4, <1>6, <2>3 DEF Capped
  <2> QED
    BY <1>6, <1>8, <2>2, <2>4, SoundIs
<1> QED
  BY <1>6, <1>8, <1>9 DEF p, h, b, a

(***************************************************************************)
(* Store.Add: a new watch finds no points behind its ID, and a re-watch in *)
(* another currency forgets the prices together with the points.           *)
(***************************************************************************)
LEMMA AddKeeps ==
  ASSUME NEW g, Normal(g), NEW r, r.op = "add", Askable(r), Unused(g, r)
  PROVE  LET p == AddTo(g, r).gen
         IN /\ Normal(p) /\ (Sound(g) => Sound(p)) /\ (OneEach(g) => OneEach(p))
            /\ IdsOf(p) \subseteq IdsOf(g) \union {r.id}
<1> DEFINE same == Positions(g, LAMBDA w : DedupeKey(w) = r.wish.target)
           p == AddTo(g, r).gen
<1>1. /\ g \in Generations /\ g.history \in Seq(Points)
      /\ g.watches \in Seq(Watches)
      /\ Tidy(g) /\ \A i \in DOMAIN g.watches : Upper[g.watches[i].cur] = g.watches[i].cur
  BY SoundIs DEF Normal, Loadable, Generations
<1>2. r.id \in Ids /\ r.wish \in Wished
  BY DEF Askable, Wished
<1>3. same = {i \in DOMAIN g.watches : g.watches[i].target = r.wish.target}
  BY DEF Positions, DedupeKey
<1>4. CASE same = {}
  <2> DEFINE v == NewWatch(r.id, r.wish)
             q == [g EXCEPT !.watches = Append(@, v)]
  <2>1. p = q
    BY <1>4 DEF AddTo, Save
  <2>2. v \in Watches /\ v.id = r.id /\ v.target = r.wish.target /\ Upper[v.cur] = v.cur
    BY <1>2, NewWatchIs
  <2> HIDE DEF v
  <2>3. /\ q \in Generations /\ q.history = g.history
        /\ q.watches = Append(g.watches, v)
        /\ IdsOf(q) = IdsOf(g) \union {v.id}
        /\ \A id \in IdsOf(g) : WatchOf(q, id) = WatchOf(g, id)
    BY <1>1, <2>2, AppendedIs
  <2> HIDE DEF q, p, same
  <2>4. /\ Len(g.watches) \in Nat /\ DOMAIN q.watches = 1..(Len(g.watches) + 1)
        /\ DOMAIN g.watches = 1..Len(g.watches)
        /\ q.watches[Len(g.watches) + 1] = v
        /\ \A i \in 1..Len(g.watches) : q.watches[i] = g.watches[i]
    BY <1>1, <2>3
  <2>5. \A i \in DOMAIN q.watches : Upper[q.watches[i].cur] = q.watches[i].cur
    BY <1>1, <2>2, <2>4
  <2>6. ASSUME OneEach(g) PROVE OneEach(q)
    <3> DEFINE n == Len(g.watches)
    <3>1. \A i \in 1..n : q.watches[i].target # v.target
      BY <1>3, <1>4, <2>2, <2>4
    <3>2. \A i, j \in 1..n : q.watches[i].target = q.watches[j].target => i = j
      BY <2>4, <2>6 DEF OneEach, DedupeKey
    <3>3. n \in Nat /\ DOMAIN q.watches = 1..(n + 1) /\ q.watches[n + 1] = v
      BY <2>4
    <3> HIDE DEF n
    <3>4. \A i \in 1..(n + 1) : i \in 1..n \/ i = n + 1
      BY <3>3
    <3> QED
      BY <3>1, <3>2, <3>3, <3>4 DEF OneEach, DedupeKey
  <2>7. LeftOf(g.history, q.history)
    BY <1>1, <2>3, LeftReflexive
  <2>8. \A k \in DOMAIN q.history :
          LET id == q.history[k].id
          IN /\ id \in IdsOf(q) =>
                  /\ id \in IdsOf(g)
                  /\ WatchOf(q, id).cur \in {NoCur, WatchOf(g, id).cur}
                  /\ HasPrior(WatchOf(g, id)) => HasPrior(WatchOf(q, id))
             /\ id \in IdsOf(g) => id \in IdsOf(q)
    BY <2>2, <2>3 DEF Unused
  <2>9. Normal(q) /\ (Sound(g) => Sound(q))
    BY <2>3, <2>5, <2>7, <2>8, TakingKeeps
  <2> QED
    BY <2>1, <2>2, <2>3, <2>6, <2>9 DEF p
<1>5. CASE same # {}
  <2> DEFINE m == Min(same)
             old == g.watches[m]
             v == ApplyIntent(old, r.wish)
             next == [g EXCEPT !.watches[m] = v]
  <2>1. p = IF CurrencyMoves(old, r.wish)
            THEN [next EXCEPT !.history = Purge(@, old.id)] ELSE next
    BY <1>5 DEF AddTo, Save
  <2>2. m \in DOMAIN g.watches
    <3>i. \A i \in DOMAIN g.watches : i \in Nat
      BY <1>1
    <3> HIDE DEF same
    <3>1. same \in SUBSET Nat
      BY <1>3, <3>i
    <3>2. m \in same
      BY <1>5, <3>1, MinIs
    <3> QED
      BY <1>3, <3>2
  <2> HIDE DEF m, p
  <2>3. old \in Watches /\ Upper[old.cur] = old.cur
    BY <1>1, <2>2
  <2> HIDE DEF old
  <2>4. /\ v \in Watches /\ v.id = old.id /\ v.target = old.target
        /\ CurrencyMoves(old, r.wish) => v.cur = Upper[r.wish.cur]
        /\ ~CurrencyMoves(old, r.wish) =>
             v.cur = old.cur /\ v.last = old.last /\ v.low = old.low
    BY <1>2, <2>3, ApplyIntentIs
  <2>5. Upper[v.cur] = v.cur
    BY <1>2, <2>3, <2>4, Uppered DEF Wished
  <2> HIDE DEF v
  <2>n. next = Replaced(g, m, v)
    BY DEF Replaced
  <2> HIDE DEF next
  <2>6. /\ next \in Generations /\ next.history = g.history
        /\ DOMAIN next.watches = DOMAIN g.watches
        /\ \A i \in DOMAIN g.watches : next.watches[i] = IF i = m THEN v ELSE g.watches[i]
        /\ IdsOf(next) = IdsOf(g)
        /\ \A id \in IdsOf(g) :
             WatchOf(next, id) = IF FirstAt(g.watches, id, m) THEN v ELSE WatchOf(g, id)
    <3>1. v.id = g.watches[m].id
      BY <2>4 DEF old
    <3>2. ReplacedAt(g, m, v, next)
      BY <1>1, <2>2, <2>4, <2>n, <3>1, PutAtIs
    <3> QED
      BY <3>2 DEF ReplacedAt
  <2>7. \A i \in DOMAIN next.watches : Upper[next.watches[i].cur] = next.watches[i].cur
    BY <1>1, <2>5, <2>6
  <2>8. OneEach(g) => OneEach(next)
    BY <1>1, <2>4, <2>6 DEF OneEach, DedupeKey, old
  <2>9. ASSUME NEW id \in IdsOf(g), FirstAt(g.watches, id, m)
        PROVE  WatchOf(g, id) = old /\ id = old.id
    <3>1. WatchOf(g, id) = g.watches[m]
      BY <1>1, <2>9, FirstIs
    <3> QED
      BY <2>9, <3>1 DEF old, FirstAt
  <2>10. CASE CurrencyMoves(old, r.wish)
    <3> DEFINE h == Purge(g.history, old.id)
    <3>1. /\ LeftOf(g.history, h)
          /\ \A k \in DOMAIN h : \E i \in DOMAIN g.history : h[k] = g.history[i] /\ h[k].id # old.id
      BY <1>1, PurgeIs
    <3>2. p = [next EXCEPT !.history = h]
      BY <2>1, <2>6, <2>10
    <3> HIDE DEF h
    <3>3. /\ p \in Generations /\ p.watches = next.watches /\ p.history = h
          /\ IdsOf(p) = IdsOf(next)
          /\ \A id : WatchOf(p, id) = WatchOf(next, id)
      BY <2>6, <3>1, <3>2, WithHistoryIs DEF LeftOf
    <3>4. \A k \in DOMAIN p.history :
            LET id == p.history[k].id
            IN /\ id \in IdsOf(p) =>
                    /\ id \in IdsOf(g)
                    /\ WatchOf(p, id).cur \in {NoCur, WatchOf(g, id).cur}
                    /\ HasPrior(WatchOf(g, id)) => HasPrior(WatchOf(p, id))
               /\ id \in IdsOf(g) => id \in IdsOf(p)
      BY <2>6, <2>9, <3>1, <3>3
    <3>5. /\ OneEach(g) => OneEach(p)
          /\ \A i \in DOMAIN p.watches : Upper[p.watches[i].cur] = p.watches[i].cur
      BY <2>7, <2>8, <3>3 DEF OneEach
    <3>6. LeftOf(g.history, p.history)
      BY <3>1, <3>3
    <3>7. Normal(p) /\ (Sound(g) => Sound(p))
      BY <3>3, <3>4, <3>5, <3>6, TakingKeeps
    <3> QED
      BY <2>6, <3>3, <3>5, <3>7 DEF p
  <2>11. CASE ~CurrencyMoves(old, r.wish)
    <3>1. p = next
      BY <2>1, <2>11
    <3>2. \A k \in DOMAIN p.history :
            LET id == p.history[k].id
            IN /\ id \in IdsOf(p) =>
                    /\ id \in IdsOf(g)
                    /\ WatchOf(p, id).cur \in {NoCur, WatchOf(g, id).cur}
                    /\ HasPrior(WatchOf(g, id)) => HasPrior(WatchOf(p, id))
               /\ id \in IdsOf(g) => id \in IdsOf(p)
      BY <2>4, <2>6, <2>9, <2>11, <3>1 DEF HasPrior
    <3>3. LeftOf(g.history, p.history)
      BY <1>1, <2>6, <3>1, LeftReflexive
    <3>4. Normal(p) /\ (Sound(g) => Sound(p))
      BY <2>6, <2>7, <3>1, <3>2, <3>3, TakingKeeps
    <3> QED
      BY <2>6, <2>8, <3>1, <3>4 DEF p
  <2> QED
    BY <2>10, <2>11
<1> QED
  BY <1>4, <1>5

(* Store.Remove: the points go with the watch.                              *)
LEMMA RemoveKeeps ==
  ASSUME NEW g, Normal(g), NEW r, r.id \in IdsOf(g)
  PROVE  LET p == RemoveFrom(g, r).gen
         IN /\ Normal(p) /\ (Sound(g) => Sound(p)) /\ (OneEach(g) => OneEach(p))
            /\ IdsOf(p) \subseteq IdsOf(g)
<1> DEFINE p == RemoveFrom(g, r).gen
           h == Purge(g.history, r.id)
<1>1. /\ g \in Generations /\ g.history \in Seq(Points)
      /\ Tidy(g) /\ \A i \in DOMAIN g.watches : Upper[g.watches[i].cur] = g.watches[i].cur
  BY SoundIs DEF Normal, Loadable, Generations
<1>2. p = Removed(g, r.id, h) /\ p.history = h
  BY DEF RemoveFrom, Save, Removed
<1>3. /\ LeftOf(g.history, h) /\ h \in Seq(Points)
      /\ \A k \in DOMAIN h : \E i \in DOMAIN g.history : h[k] = g.history[i] /\ h[k].id # r.id
  <2>1. /\ LeftOf(g.history, h)
        /\ \A k \in DOMAIN h : \E i \in DOMAIN g.history : h[k] = g.history[i] /\ h[k].id # r.id
    BY <1>1, PurgeIs
  <2> QED
    BY <2>1 DEF LeftOf
<1> HIDE DEF p, h
<1>4. /\ p \in Generations
      /\ IdsOf(p) = IdsOf(g) \ {r.id}
      /\ \A x \in IdsOf(p) : WatchOf(p, x) = WatchOf(g, x)
      /\ \A k \in DOMAIN p.watches :
           \E i \in DOMAIN g.watches : p.watches[k] = g.watches[i]
      /\ OneEach(g) => OneEach(p)
  BY <1>1, <1>2, <1>3, RemovedIs
<1>5. p.history = h
  BY <1>2
<1>6. \A k \in DOMAIN p.watches : Upper[p.watches[k].cur] = p.watches[k].cur
  BY <1>1, <1>4
<1>7. \A k \in DOMAIN p.history :
        LET id == p.history[k].id
        IN /\ id \in IdsOf(p) =>
                /\ id \in IdsOf(g)
                /\ WatchOf(p, id).cur \in {NoCur, WatchOf(g, id).cur}
                /\ HasPrior(WatchOf(g, id)) => HasPrior(WatchOf(p, id))
           /\ id \in IdsOf(g) => id \in IdsOf(p)
  BY <1>3, <1>4, <1>5
<1>8. LeftOf(g.history, p.history)
  BY <1>3, <1>5
<1>9. Normal(p) /\ (Sound(g) => Sound(p))
  BY <1>4, <1>6, <1>7, <1>8, TakingKeeps
<1> QED
  BY <1>4, <1>9 DEF p

(* A watch put back with its target, in canonical text, keeps them one each.*)
LEMMA PutBack ==
  ASSUME NEW g, Normal(g), NEW w \in Watches, w.id \in IdsOf(g),
         w.target = WatchOf(g, w.id).target, Upper[w.cur] = w.cur
  PROVE  LET p == PutWatch(g, w)
         IN /\ OneEach(g) => OneEach(p)
            /\ \A i \in DOMAIN p.watches : Upper[p.watches[i].cur] = p.watches[i].cur
<1> DEFINE p == PutWatch(g, w)
<1>1. g \in Generations
      /\ \A i \in DOMAIN g.watches : Upper[g.watches[i].cur] = g.watches[i].cur
  BY SoundIs DEF Normal, Loadable
<1>2. DOMAIN p.watches = DOMAIN g.watches
  BY <1>1, PutWatchIs
<1>3. PICK m : /\ FirstAt(g.watches, w.id, m)
               /\ \A i \in DOMAIN g.watches : p.watches[i] = IF i = m THEN w ELSE g.watches[i]
  BY <1>1, PutWatchIs
<1> HIDE DEF p
<1>4. g.watches[m].target = w.target
  BY <1>1, <1>3, FirstIs
<1>5. OneEach(g) => OneEach(p)
  BY <1>1, <1>2, <1>3, <1>4 DEF OneEach, DedupeKey
<1>6. \A i \in DOMAIN p.watches : Upper[p.watches[i].cur] = p.watches[i].cur
  BY <1>1, <1>2, <1>3
<1> QED
  BY <1>5, <1>6 DEF p

(* A stored watch is canonical and, when it has points, priced.             *)
LEMMA NormalWatch ==
  ASSUME NEW g, Normal(g), NEW id \in IdsOf(g)
  PROVE  /\ WatchOf(g, id) \in Watches /\ WatchOf(g, id).id = id
         /\ Upper[WatchOf(g, id).cur] = WatchOf(g, id).cur
<1>1. g \in Generations /\ \A i \in DOMAIN g.watches : Upper[g.watches[i].cur] = g.watches[i].cur
  BY SoundIs DEF Normal, Loadable
<1>2. PICK m : FirstAt(g.watches, id, m) /\ WatchOf(g, id) = g.watches[m]
  BY <1>1, WatchOfIs
<1> QED
  BY <1>1, <1>2, WatchOfIs DEF FirstAt

(* Store.UpdateWatch.                                                       *)
LEMMA UpdateKeeps ==
  ASSUME NEW g, Normal(g), NEW r, r.op = "update", Askable(r), r.id \in IdsOf(g)
  PROVE  LET p == PutWatch(g, ApplyUpdate(WatchOf(g, r.id), r.set))
         IN /\ Normal(p) /\ (Sound(g) => Sound(p)) /\ (OneEach(g) => OneEach(p))
            /\ IdsOf(p) \subseteq IdsOf(g)
<1> DEFINE w == WatchOf(g, r.id)
           v == ApplyUpdate(w, r.set)
           p == PutWatch(g, v)
<1>1. g \in Generations /\ g.history \in Seq(Points)
  BY DEF Normal, Loadable, Generations
<1>2. w \in Watches /\ w.id = r.id /\ Upper[w.cur] = w.cur
  BY NormalWatch
<1>3. DOMAIN r.set \subseteq UpdateFields /\ \A f \in DOMAIN r.set : r.set[f] \in Nat
  BY DEF Askable
<1>4. /\ v \in Watches /\ v.id = w.id /\ v.target = w.target
      /\ v.cur = w.cur /\ v.last = w.last /\ v.low = w.low
  <2> HIDE DEF w
  <2> QED
    BY <1>2, <1>3, ApplyUpdateIs
<1> HIDE DEF v
<1>5. /\ p \in Generations /\ p.history = g.history
      /\ IdsOf(p) = IdsOf(g)
      /\ \A id \in IdsOf(g) : WatchOf(p, id) = IF id = v.id THEN v ELSE WatchOf(g, id)
  BY <1>1, <1>2, <1>4, PutWatchIs
<1>6. /\ OneEach(g) => OneEach(p)
      /\ \A i \in DOMAIN p.watches : Upper[p.watches[i].cur] = p.watches[i].cur
  BY <1>2, <1>4, PutBack
<1>7. \A id \in IdsOf(g) :
        /\ WatchOf(p, id).cur = WatchOf(g, id).cur
        /\ HasPrior(WatchOf(g, id)) => HasPrior(WatchOf(p, id))
  BY <1>2, <1>4, <1>5 DEF HasPrior
<1> HIDE DEF p
<1>8. LeftOf(g.history, p.history)
  BY <1>1, <1>5, LeftReflexive
<1>9. \A k \in DOMAIN p.history :
        LET id == p.history[k].id
        IN /\ id \in IdsOf(p) =>
                /\ id \in IdsOf(g)
                /\ WatchOf(p, id).cur \in {NoCur, WatchOf(g, id).cur}
                /\ HasPrior(WatchOf(g, id)) => HasPrior(WatchOf(p, id))
           /\ id \in IdsOf(g) => id \in IdsOf(p)
  BY <1>5, <1>7
<1>10. Normal(p) /\ (Sound(g) => Sound(p))
  BY <1>5, <1>6, <1>8, <1>9, TakingKeeps
<1> QED
  BY <1>5, <1>6, <1>10 DEF p, v

(***************************************************************************)
(* MutateAndRecordPrice: a quote that changes the currency takes the       *)
(* former points away before its own is added, and a quote in the same     *)
(* currency as the watch, or one for a watch without points, changes       *)
(* nothing the retained points rely on.                                    *)
(***************************************************************************)
LEMMA RecordKeeps ==
  ASSUME NEW g, Normal(g), NEW r, r.op = "record", Askable(r), r.id \in IdsOf(g),
         RecordIn(g, r).verdict = "save"
  PROVE  LET p == RecordIn(g, r).gen
         IN /\ Normal(p) /\ (Sound(g) => Sound(p)) /\ (OneEach(g) => OneEach(p))
            /\ IdsOf(p) \subseteq IdsOf(g)
<1> DEFINE w      == WatchOf(g, r.id)
           f      == Fold(w, r.price, r.cur)
           purged == IF f.out.purge THEN Purge(g.history, r.id) ELSE g.history
           grown  == IF f.out.point
                     THEN PruneGlobal(PruneWatch(Append(purged, Point(r)), r.id))
                     ELSE purged
           put    == PutWatch(g, f.rec)
           q      == [put EXCEPT !.history = purged]
           p      == [put EXCEPT !.history = grown]
<1>1. /\ g \in Generations /\ g.history \in Seq(Points) /\ Tidy(g)
      /\ r.price \in Nat \ {0} /\ r.cur \in Spellings /\ Upper[r.cur] = r.cur
  BY SoundIs DEF Normal, Loadable, Generations, Askable
<1>2. w \in Watches /\ w.id = r.id /\ Upper[w.cur] = w.cur
  BY NormalWatch
<1>3. RecordIn(g, r).gen = p
  BY DEF RecordIn, Save, Skip
<1>4. /\ f.rec \in Watches /\ f.rec.id = r.id /\ f.rec.target = w.target
      /\ \/ /\ ~f.out.point /\ ~f.out.purge
            /\ f.rec.cur = w.cur /\ f.rec.last = w.last /\ f.rec.low = w.low
         \/ /\ f.out.point /\ f.out.purge = Changed(w, r.cur)
            /\ f.rec.cur = r.cur /\ f.rec.last = r.price
  <2> HIDE DEF w
  <2> QED
    BY <1>1, <1>2, FoldIs
<1> HIDE DEF f
<1>5. /\ put \in Generations /\ put.history = g.history
      /\ IdsOf(put) = IdsOf(g)
      /\ \A id \in IdsOf(g) : WatchOf(put, id) = IF id = r.id THEN f.rec ELSE WatchOf(g, id)
  BY <1>1, <1>4, PutWatchIs
<1>6. /\ OneEach(g) => OneEach(put)
      /\ \A i \in DOMAIN put.watches : Upper[put.watches[i].cur] = put.watches[i].cur
  <2>1. Upper[f.rec.cur] = f.rec.cur
    BY <1>1, <1>2, <1>4
  <2> QED
    BY <1>4, <2>1, PutBack
<1> HIDE DEF put
<1>7. /\ purged \in Seq(Points) /\ LeftOf(g.history, purged)
      /\ \A k \in DOMAIN purged : \E i \in DOMAIN g.history :
           purged[k] = g.history[i] /\ (f.out.purge => purged[k].id # r.id)
  <2>1. CASE f.out.purge
    <3> DEFINE h == Purge(g.history, r.id)
    <3>1. /\ LeftOf(g.history, h)
          /\ \A k \in DOMAIN h : \E i \in DOMAIN g.history : h[k] = g.history[i] /\ h[k].id # r.id
      BY <1>1, PurgeIs
    <3>2. purged = h
      BY <2>1
    <3> HIDE DEF h, purged
    <3> QED
      BY <3>1, <3>2 DEF LeftOf
  <2>2. CASE ~f.out.purge
    BY <1>1, <2>2, LeftReflexive
  <2> QED
    BY <2>1, <2>2
<1> HIDE DEF purged
<1>8. /\ q \in Generations /\ q.watches = put.watches /\ q.history = purged
      /\ IdsOf(q) = IdsOf(g)
      /\ \A id : WatchOf(q, id) = WatchOf(put, id)
  BY <1>5, <1>7, WithHistoryIs
<1>9. q.history = purged /\ p = IF f.out.point
           THEN [q EXCEPT !.history = PruneGlobal(PruneWatch(Append(@, Point(r)), r.id))]
           ELSE q
  BY <1>5, <1>8 DEF Generations
<1> HIDE DEF q, p
<1>10. Normal(q) /\ (Sound(g) => Sound(q))
  <2>1. ASSUME NEW k \in DOMAIN q.history, q.history[k].id \in IdsOf(g)
        PROVE  LET id == q.history[k].id
               IN /\ WatchOf(q, id).cur \in {NoCur, WatchOf(g, id).cur}
                  /\ HasPrior(WatchOf(g, id)) => HasPrior(WatchOf(q, id))
    <3> DEFINE id == q.history[k].id
    <3>1. PICK i \in DOMAIN g.history :
            q.history[k] = g.history[i] /\ (f.out.purge => id # r.id)
      BY <1>7, <1>8
    <3>2. HasPrior(WatchOf(g, id))
      BY <1>1, <2>1, <3>1 DEF Tidy
    <3>3. CASE id # r.id
      BY <1>5, <1>8, <2>1, <3>3
    <3>4. CASE id = r.id
      <4>1. ~f.out.purge /\ WatchOf(q, id) = f.rec /\ WatchOf(g, id) = w
        BY <1>5, <1>8, <3>1, <3>4
      <4>2. CASE ~f.out.point
        BY <1>4, <3>2, <4>1, <4>2 DEF HasPrior
      <4>3. CASE f.out.point
        <5>1. ~Mismatch(w, r.cur) /\ f.rec.cur = r.cur /\ f.rec.last = r.price
          BY <1>4, <3>2, <4>1, <4>3 DEF Changed
        <5>2. r.cur = NoCur \/ r.cur = w.cur
          BY <3>2, <4>1, <5>1 DEF Mismatch
        <5> QED
          BY <1>1, <4>1, <5>1, <5>2 DEF HasPrior
      <4> QED
        BY <4>2, <4>3
    <3> QED
      BY <3>3, <3>4
  <2>2. \A i \in DOMAIN q.watches : Upper[q.watches[i].cur] = q.watches[i].cur
    BY <1>6, <1>8
  <2>3. LeftOf(g.history, q.history)
    BY <1>7, <1>8
  <2>4. \A k \in DOMAIN q.history :
          LET id == q.history[k].id
          IN /\ id \in IdsOf(q) =>
                  /\ id \in IdsOf(g)
                  /\ WatchOf(q, id).cur \in {NoCur, WatchOf(g, id).cur}
                  /\ HasPrior(WatchOf(g, id)) => HasPrior(WatchOf(q, id))
             /\ id \in IdsOf(g) => id \in IdsOf(q)
    BY <1>8, <2>1
  <2> QED
    BY <1>8, <2>2, <2>3, <2>4, TakingKeeps
<1>o. OneEach(g) => OneEach(q)
  BY <1>6, <1>8 DEF OneEach
<1>11. CASE ~f.out.point
  BY <1>3, <1>8, <1>9, <1>10, <1>11, <1>o
<1>12. CASE f.out.point
  <2> DEFINE pt == Point(r)
  <2>1. /\ pt \in Points /\ pt.id = r.id /\ pt.cur = r.cur
    BY <1>1, <1>2 DEF Points, Point, Watches
  <2>2. HasPrior(WatchOf(q, r.id)) /\ WatchOf(q, r.id).cur = r.cur
    BY <1>1, <1>4, <1>5, <1>8, <1>12 DEF HasPrior
  <2>3. p = [q EXCEPT !.history = PruneGlobal(PruneWatch(Append(@, pt), pt.id))]
    BY <1>9, <1>12, <2>1
  <2> HIDE DEF pt
  <2>4. Normal(p) /\ (Sound(q) => Sound(p)) /\ p.watches = q.watches
    BY <1>1, <1>8, <1>10, <2>1, <2>2, <2>3, GrowingKeeps
  <2>5. IdsOf(p) = IdsOf(g)
    BY <1>8, <2>4 DEF IdsOf
  <2>6. OneEach(g) => OneEach(p)
    BY <1>o, <2>4 DEF OneEach
  <2> QED
    BY <1>3, <1>10, <2>4, <2>5, <2>6
<1> QED
  BY <1>11, <1>12

(* Every transaction's effect.                                              *)
LEMMA EffectKeeps ==
  ASSUME NEW g, Normal(g), NEW r, Askable(r), Unused(g, r), Effect(g, r).verdict = "save"
  PROVE  LET p == Effect(g, r).gen
         IN /\ Normal(p) /\ (Sound(g) => Sound(p)) /\ (OneEach(g) => OneEach(p))
            /\ IdsOf(p) \subseteq IF r.op = "add" THEN IdsOf(g) \union {r.id} ELSE IdsOf(g)
<1>1. CASE r.op = "add"
  BY <1>1, AddKeeps DEF Effect
<1>2. CASE r.op = "remove"
  <2>1. Effect(g, r) = RemoveFrom(g, r)
    BY <1>2 DEF Effect
  <2>2. r.id \in IdsOf(g)
    BY <2>1 DEF RemoveFrom, Skip
  <2> QED
    BY <1>2, <2>1, <2>2, RemoveKeeps
<1>3. CASE r.op = "update"
  <2>1. Effect(g, r) = UpdateIn(g, r)
    BY <1>3 DEF Effect
  <2>2. /\ r.id \in IdsOf(g)
        /\ Effect(g, r).gen = PutWatch(g, ApplyUpdate(WatchOf(g, r.id), r.set))
    BY <2>1 DEF UpdateIn, Fail, Save
  <2> QED
    BY <1>3, <2>2, UpdateKeeps
<1>4. CASE r.op = "record"
  <2>1. Effect(g, r) = RecordIn(g, r)
    BY <1>4 DEF Effect
  <2>2. r.id \in IdsOf(g)
    BY <2>1 DEF RecordIn, Fail
  <2> QED
    BY <1>4, <2>1, <2>2, RecordKeeps
<1> QED
  BY <1>1, <1>2, <1>3, <1>4 DEF Askable

(* A sound generation has no points left under an ID that nobody has.       *)
LEMMA SoundUnused ==
  ASSUME NEW g, Sound(g), NEW r, Askable(r)
  PROVE  Unused(g, r)
<1>1. g \in Generations /\ Owned(g)
  BY DEF Sound, Loadable
<1>2. ASSUME r.op = "add", NEW k \in DOMAIN g.history, g.history[k].id = r.id
      PROVE  r.id \in IdsOf(g)
  <2>1. r.id \in Ids
    BY <1>2 DEF Askable
  <2> QED
    BY <1>1, <1>2, <2>1, OwnedOnly
<1> QED
  BY <1>2 DEF Unused

(* The generation of an empty directory is sound.                           *)
LEMMA EmptySound == Sound(Empty) /\ Normal(Empty) /\ IdsOf(Empty) = {} /\ Empty.history = <<>>
<1>1. Empty.watches = <<>> /\ Empty.history = <<>> /\ IdsOf(Empty) = {}
  BY DEF Empty, IdsOf
<1>2. Empty \in Generations
  BY DEF Empty, Generations
<1>3. OneEach(Empty) /\ Tidy(Empty) /\ Owned(Empty)
  BY <1>1 DEF OneEach, Tidy, Owned
<1>4. Capped(Empty)
  <2>1. WatchPoints(Empty.history) = {}
    BY <1>1 DEF WatchPoints
  <2> QED
    BY <1>1, <2>1, FS_EmptySet, RetentionAssumption DEF Capped
<1> QED
  BY <1>1, <1>2, <1>3, <1>4, SoundIs

(* In memory, compaction makes a normal generation sound.                  *)
LEMMA CompactSound ==
  ASSUME NEW g, Normal(g)
  PROVE  /\ Sound(Compact(g)) /\ IdsOf(Compact(g)) = IdsOf(g)
         /\ Compact(g).watches = g.watches
<1> DEFINE own    == Without(g.history, Foreign(g))
           long   == {i \in WatchPoints(own) : Depth(own, i) > MaxPerWatch}
           each   == Without(own, long)
           total  == PruneGlobal(each)
           far    == {i \in RoutePoints(total) : Depth(total, i) > MaxPerRoute}
           routes == Without(total, far)
           h      == FairShare(routes)
           p      == [g EXCEPT !.history = h]
<1>1. g \in Generations /\ g.history \in Seq(Points) /\ Tidy(g)
  BY SoundIs DEF Normal, Loadable, Generations
<1>2. Compact(g) = p
  BY DEF Compact
<1>3. /\ LeftOf(g.history, own) /\ own \in Seq(Points)
      /\ \A k \in DOMAIN own : Belongs(g, own[k])
  <2>1. LeftOf(g.history, own)
    BY <1>1, WithoutLeaves
  <2>2. \A k \in DOMAIN own : \E i \in DOMAIN g.history \ Foreign(g) : own[k] = g.history[i]
    BY <1>1, WithoutType
  <2> HIDE DEF own
  <2> QED
    BY <2>1, <2>2 DEF LeftOf, Foreign
<1> HIDE DEF own
<1>4. /\ LeftOf(own, each) /\ each \in Seq(Points)
      /\ \A id \in IdsOf(g) : Cardinality(PointsOf(each, id)) <= MaxPerWatch
  <2>1. LeftOf(own, each)
    BY <1>3, WithoutLeaves
  <2>2. ASSUME NEW id \in IdsOf(g) PROVE Cardinality(PointsOf(each, id)) <= MaxPerWatch
    <3>1. id \notin RouteKeys
      BY <1>1, <2>2, WatchOfIs, RouteAssumption
    <3>2. PointsOf(own, id) \ long = Newest(PointsOf(own, id), MaxPerWatch)
      <4>1. ASSUME NEW i \in PointsOf(own, id)
            PROVE  i \in long <=> Cardinality({j \in PointsOf(own, id) : j >= i}) > MaxPerWatch
        <5>1. i \in WatchPoints(own) /\ own[i].id = id
          BY <3>1, <4>1 DEF PointsOf, WatchPoints, RoutePoints
        <5>2. i \in long <=> Depth(own, i) > MaxPerWatch
          BY <5>1
        <5> QED
          BY <5>1, <5>2 DEF Depth
      <4> HIDE DEF long
      <4> QED
        BY <4>1 DEF Newest
    <3>3. Len(own) \in Nat /\ PointsOf(own, id) \in SUBSET (1..Len(own))
      <4>1. Len(own) \in Nat /\ DOMAIN own = 1..Len(own)
        BY <1>3
      <4> QED
        BY <4>1 DEF PointsOf
    <3>4. Cardinality(Newest(PointsOf(own, id), MaxPerWatch)) <= MaxPerWatch
      BY <3>3, NewestFit, RetentionAssumption
    <3> HIDE DEF long
    <3>5. Cardinality(PointsOf(Without(own, long), id)) = Cardinality(PointsOf(own, id) \ long)
      BY <1>3, PointsLeft, Zenon
    <3> QED
      BY <3>2, <3>4, <3>5
  <2> HIDE DEF each
  <2> QED
    BY <2>1, <2>2 DEF LeftOf
<1> HIDE DEF each
<1>5. /\ LeftOf(each, total) /\ total \in Seq(Points)
      /\ Cardinality(WatchPoints(total)) <= MaxTotal
  <2>1. LeftOf(each, total) /\ Cardinality(WatchPoints(total)) <= MaxTotal
    BY <1>4, PruneGlobalIs
  <2> HIDE DEF total
  <2> QED
    BY <2>1 DEF LeftOf
<1> HIDE DEF total
<1>6. LeftOf(total, routes) /\ routes \in Seq(Points)
  <2>1. LeftOf(total, routes)
    BY <1>5, WithoutLeaves
  <2> HIDE DEF routes
  <2> QED
    BY <2>1 DEF LeftOf
<1> HIDE DEF routes
<1>7. LeftOf(total, h) /\ h \in Seq(Points)
  <2>1. LeftOf(routes, h)
    BY <1>6, FairShareIs
  <2> HIDE DEF h
  <2>2. LeftOf(total, h)
    BY <1>5, <1>6, <2>1, LeftTransitive
  <2> QED
    BY <2>2 DEF LeftOf
<1> HIDE DEF h
<1>8. LeftOf(each, h)
  BY <1>4, <1>5, <1>7, LeftTransitive
<1>9. LeftOf(own, h)
  BY <1>3, <1>4, <1>8, LeftTransitive
<1>10. LeftOf(g.history, h)
  BY <1>1, <1>3, <1>9, LeftTransitive
<1>11. /\ p \in Generations /\ p.watches = g.watches /\ p.history = h
       /\ IdsOf(p) = IdsOf(g)
       /\ \A id : WatchOf(p, id) = WatchOf(g, id)
       /\ \A q : Belongs(p, q) = Belongs(g, q)
  BY <1>1, <1>7, WithHistoryIs
<1> HIDE DEF p
<1>12. Normal(p)
  <2>1. \A i \in DOMAIN p.watches : Upper[p.watches[i].cur] = p.watches[i].cur
    BY <1>1, <1>11, SoundIs
  <2>2. Tidy(p)
    <3>1. \A k \in DOMAIN h : \E i \in DOMAIN g.history : h[k] = g.history[i]
      BY <1>10 DEF LeftOf
    <3> QED
      BY <1>1, <1>11, <3>1 DEF Tidy
  <2> QED
    BY <1>11, <2>1, <2>2, SoundIs
<1>13. Owned(p)
  <2>1. \A k \in DOMAIN h : \E i \in DOMAIN own : h[k] = own[i]
    BY <1>9 DEF LeftOf
  <2> QED
    BY <1>3, <1>11, <2>1 DEF Owned
<1>14. Capped(p)
  <2>1. Cardinality(WatchPoints(h)) <= MaxTotal
    <3>1. Cardinality(WatchPoints(h)) <= Cardinality(WatchPoints(total))
      BY <1>7 DEF LeftOf
    <3> QED
      BY <1>5, <1>7, <3>1, Counts, RetentionAssumption
  <2>2. ASSUME NEW id \in IdsOf(g) PROVE Cardinality(PointsOf(h, id)) <= MaxPerWatch
    <3>1. Cardinality(PointsOf(h, id)) <= Cardinality(PointsOf(each, id))
      BY <1>8 DEF LeftOf
    <3>2. Cardinality(PointsOf(each, id)) <= MaxPerWatch
      BY <1>4
    <3> QED
      BY <1>4, <1>7, <3>1, <3>2, Counts, RetentionAssumption
  <2> QED
    BY <1>11, <2>1, <2>2 DEF Capped
<1> QED
  BY <1>2, <1>11, <1>12, <1>13, <1>14, SoundIs

(* What is sound is normal.                                                 *)
LEMMA SoundNormal ==
  ASSUME NEW g, Sound(g)
  PROVE  Normal(g)
  BY DEF Sound, Normal

-----------------------------------------------------------------------------
(***************************************************************************)
(* What pruning leaves of one series: points of it, with the newest among  *)
(* them unless none is left.                                               *)
(***************************************************************************)
SeriesKept(h, r, k) ==
  /\ \A i \in PointsOf(r, k) : \E j \in PointsOf(h, k) : r[i] = h[j]
  /\ PointsOf(r, k) # {} =>
       PointsOf(h, k) # {} /\ r[Max(PointsOf(r, k))] = h[Max(PointsOf(h, k))]

(* Max is the position of a series' newest point.                           *)
LEMMA SeriesMax ==
  ASSUME NEW h \in Seq(Points), NEW k, PointsOf(h, k) # {}
  PROVE  /\ Max(PointsOf(h, k)) \in PointsOf(h, k)
         /\ \A i \in PointsOf(h, k) : i <= Max(PointsOf(h, k))
         /\ \A m \in PointsOf(h, k) :
              (\A i \in PointsOf(h, k) : i <= m) => m = Max(PointsOf(h, k))
<1>1. Len(h) \in Nat /\ DOMAIN h = 1..Len(h)
  OBVIOUS
<1>2. PointsOf(h, k) \in SUBSET (1..Len(h))
  BY <1>1 DEF PointsOf
<1>3. /\ Max(PointsOf(h, k)) \in PointsOf(h, k)
      /\ \A i \in PointsOf(h, k) : i <= Max(PointsOf(h, k))
  BY <1>1, <1>2, MaxIs
<1>4. \A i \in PointsOf(h, k) : i \in Int
  BY <1>2
<1> QED
  BY <1>3, <1>4

(* A series untouched is kept.                                              *)
LEMMA SeriesReflexive ==
  ASSUME NEW h, NEW k
  PROVE  SeriesKept(h, h, k)
  BY DEF SeriesKept

(* Pruning twice keeps what pruning keeps.                                  *)
LEMMA SeriesTransitive ==
  ASSUME NEW h, NEW r, NEW s, NEW k, SeriesKept(h, r, k), SeriesKept(r, s, k)
  PROVE  SeriesKept(h, s, k)
<1>1. ASSUME NEW i \in PointsOf(s, k) PROVE \E j \in PointsOf(h, k) : s[i] = h[j]
  <2>1. PICK l \in PointsOf(r, k) : s[i] = r[l]
    BY DEF SeriesKept
  <2>2. PICK j \in PointsOf(h, k) : r[l] = h[j]
    BY DEF SeriesKept
  <2> QED
    BY <2>1, <2>2
<1> QED
  BY <1>1 DEF SeriesKept

(* When with a point every newer one of its series stays, the newest does.  *)
LEMMA NewestStays ==
  ASSUME NEW h \in Seq(Points), NEW doomed, NEW k,
         \A i, j \in PointsOf(h, k) : i \notin doomed /\ j >= i => j \notin doomed
  PROVE  SeriesKept(h, Without(h, doomed), k)
<1> DEFINE r == Without(h, doomed)
           n == Cardinality(DOMAIN h \ doomed)
<1>1. PICK e : Comes(h, doomed, e)
  BY WithoutIs
<1>2. /\ n \in Nat /\ DOMAIN r = 1..n /\ e \in [1..n -> DOMAIN h \ doomed]
      /\ \A i \in 1..n : r[i] = h[e[i]]
      /\ \A i, j \in 1..n : i < j <=> e[i] < e[j]
      /\ \A i \in DOMAIN h \ doomed : \E j \in 1..n : e[j] = i
  BY <1>1 DEF Comes
<1>3. r \in Seq(Points)
  BY WithoutType
<1>i. \A i \in DOMAIN h : i \in Int
  OBVIOUS
<1> HIDE DEF r, n
<1>4. \A i \in 1..n : i \in Int /\ e[i] \in Int /\ e[i] \in DOMAIN h /\ e[i] \notin doomed
  BY <1>2, <1>i
<1>5. \A i \in PointsOf(r, k) : i \in 1..n /\ e[i] \in PointsOf(h, k) /\ r[i] = h[e[i]]
  BY <1>2, <1>4 DEF PointsOf
<1>6. ASSUME PointsOf(r, k) # {}
      PROVE  PointsOf(h, k) # {} /\ r[Max(PointsOf(r, k))] = h[Max(PointsOf(h, k))]
  <2> DEFINE m == Max(PointsOf(h, k))
  <2>1. PICK i \in PointsOf(r, k) : TRUE
    BY <1>6
  <2>2. PointsOf(h, k) # {}
    BY <1>5, <2>1
  <2>3. m \in PointsOf(h, k) /\ \A j \in PointsOf(h, k) : j <= m
    BY <2>2, SeriesMax
  <2> HIDE DEF m
  <2>4. m \in Int /\ m \in DOMAIN h /\ h[m].id = k /\ m >= e[i]
    <3>1. m \in DOMAIN h /\ h[m].id = k
      BY <2>3 DEF PointsOf
    <3> QED
      BY <1>i, <1>4, <1>5, <2>1, <2>3, <3>1
  <2>5. m \notin doomed
    BY <1>4, <1>5, <2>1, <2>3, <2>4
  <2>6. PICK j \in 1..n : e[j] = m
    BY <1>2, <2>4, <2>5
  <2>7. j \in PointsOf(r, k) /\ r[j] = h[m]
    BY <1>2, <2>4, <2>6 DEF PointsOf
  <2>8. ASSUME NEW l \in PointsOf(r, k) PROVE l <= j
    <3>1. e[l] <= m /\ l \in 1..n
      BY <1>5, <2>3
    <3>2. ~(e[j] < e[l])
      BY <1>4, <2>4, <2>6, <3>1
    <3> QED
      BY <1>2, <1>4, <3>1, <3>2
  <2>9. j = Max(PointsOf(r, k))
    BY <1>3, <1>6, <2>7, <2>8, SeriesMax
  <2> QED
    BY <2>2, <2>7, <2>9 DEF m
<1> QED
  BY <1>5, <1>6 DEF SeriesKept, r

(* A purge takes the one series and no point of another.                    *)
LEMMA PurgeSeries ==
  ASSUME NEW h \in Seq(Points), NEW id
  PROVE  /\ PointsOf(Purge(h, id), id) = {}
         /\ \A k : k # id => SeriesKept(h, Purge(h, id), k)
<1>1. PointsOf(Purge(h, id), id) = {}
  BY PurgeIs DEF PointsOf
<1>2. ASSUME NEW k, k # id PROVE SeriesKept(h, Purge(h, id), k)
  <2>1. \A i \in PointsOf(h, k) : i \notin PointsOf(h, id)
    BY <1>2 DEF PointsOf
  <2> QED
    BY <2>1, NewestStays DEF Purge
<1> QED
  BY <1>1, <1>2

(* EvictOldest takes the oldest of a set, so of a series within it as well. *)
LEMMA EvictOldestSeries ==
  ASSUME NEW h \in Seq(Points), NEW limit \in Nat, NEW hits \in SUBSET DOMAIN h,
         NEW k, PointsOf(h, k) \subseteq hits \/ PointsOf(h, k) \intersect hits = {}
  PROVE  SeriesKept(h, EvictOldest(h, hits, limit), k)
<1> DEFINE doomed == {i \in hits : Cardinality({j \in hits : j >= i}) > limit}
<1>1. CASE Cardinality(hits) <= limit
  BY <1>1, SeriesReflexive DEF EvictOldest
<1>2. CASE ~(Cardinality(hits) <= limit)
  <2>1. EvictOldest(h, hits, limit) = Without(h, doomed)
    BY <1>2 DEF EvictOldest
  <2>2. hits \ doomed = Newest(hits, limit) /\ doomed \subseteq hits
    BY DEF Newest
  <2>3. Len(h) \in Nat /\ hits \in SUBSET (1..Len(h))
    OBVIOUS
  <2>4. \A i \in Newest(hits, limit), j \in hits : j >= i => j \in Newest(hits, limit)
    BY <2>3, NewestFit
  <2> HIDE DEF doomed
  <2>5. \A i, j \in PointsOf(h, k) : i \notin doomed /\ j >= i => j \notin doomed
    <3>1. CASE PointsOf(h, k) \subseteq hits
      BY <2>2, <2>4, <3>1
    <3>2. CASE PointsOf(h, k) \intersect hits = {}
      BY <2>2, <3>2
    <3> QED
      BY <3>1, <3>2
  <2> QED
    BY <2>1, <2>5, NewestStays
<1> QED
  BY <1>1, <1>2

(* The cap of one series keeps every series, and the global cap every       *)
(* watch's.                                                                 *)
LEMMA PruneSeries ==
  ASSUME NEW h \in Seq(Points), NEW id, NEW k
  PROVE  /\ SeriesKept(h, PruneWatch(h, id), k)
         /\ k \notin RouteKeys => SeriesKept(h, PruneGlobal(h), k)
<1>1. SeriesKept(h, PruneWatch(h, id), k)
  <2>1. /\ PointsOf(h, id) \in SUBSET DOMAIN h
        /\ PointsOf(h, k) \subseteq PointsOf(h, id)
             \/ PointsOf(h, k) \intersect PointsOf(h, id) = {}
    BY DEF PointsOf
  <2> QED
    BY <2>1, RetentionAssumption, EvictOldestSeries DEF PruneWatch
<1>2. ASSUME k \notin RouteKeys PROVE SeriesKept(h, PruneGlobal(h), k)
  <2>1. WatchPoints(h) \in SUBSET DOMAIN h /\ PointsOf(h, k) \subseteq WatchPoints(h)
    BY <1>2 DEF WatchPoints, RoutePoints, PointsOf
  <2> QED
    BY <2>1, RetentionAssumption, EvictOldestSeries DEF PruneGlobal
<1> QED
  BY <1>1, <1>2

(* An appended point is the newest of its series, and touches no other.     *)
LEMMA AppendSeries ==
  ASSUME NEW h \in Seq(Points), NEW pt \in Points
  PROVE  LET a == Append(h, pt)
         IN /\ a \in Seq(Points)
            /\ \A k : k # pt.id => SeriesKept(h, a, k)
            /\ a[Max(PointsOf(a, pt.id))] = pt
            /\ \A i \in PointsOf(a, pt.id) :
                 a[i] = pt \/ \E j \in PointsOf(h, pt.id) : a[i] = h[j]
<1> DEFINE a == Append(h, pt)
           n == Len(h)
<1>1. /\ n \in Nat /\ DOMAIN h = 1..n /\ a \in Seq(Points) /\ DOMAIN a = 1..(n + 1)
      /\ a[n + 1] = pt /\ \A i \in 1..n : a[i] = h[i]
  OBVIOUS
<1> HIDE DEF a, n
<1>2. \A i \in 1..(n + 1) : i \in 1..n \/ i = n + 1
  BY <1>1
<1>3. ASSUME NEW k, k # pt.id PROVE SeriesKept(h, a, k)
  <2>1. PointsOf(a, k) = PointsOf(h, k)
    BY <1>1, <1>2, <1>3 DEF PointsOf
  <2>2. \A i \in PointsOf(h, k) : a[i] = h[i]
    BY <1>1 DEF PointsOf
  <2>3. PointsOf(h, k) # {} => Max(PointsOf(h, k)) \in PointsOf(h, k)
    BY SeriesMax
  <2> QED
    BY <2>1, <2>2, <2>3 DEF SeriesKept
<1>4. n + 1 = Max(PointsOf(a, pt.id))
  <2>1. n + 1 \in PointsOf(a, pt.id)
    BY <1>1 DEF PointsOf
  <2>2. \A i \in PointsOf(a, pt.id) : i <= n + 1
    BY <1>1 DEF PointsOf
  <2> QED
    BY <1>1, <2>1, <2>2, SeriesMax
<1>5. \A i \in PointsOf(a, pt.id) :
        a[i] = pt \/ \E j \in PointsOf(h, pt.id) : a[i] = h[j]
  BY <1>1, <1>2 DEF PointsOf
<1> QED
  BY <1>1, <1>3, <1>4, <1>5 DEF a
-----------------------------------------------------------------------------
(* What an operation does to the one watch it is about, and to the others.  *)

(* IDs are not shared, so that a watch is found where it stands.            *)
LEMMA AtPosition ==
  ASSUME NEW g \in Generations, OneIdEach(g), NEW i \in DOMAIN g.watches
  PROVE  LET id == g.watches[i].id
         IN /\ id \in IdsOf(g) /\ id \in Ids
            /\ WatchOf(g, id) = g.watches[i] /\ g.watches[i] \in Watches
            /\ Min(Positions(g, LAMBDA w : w.id = id)) = i
<1> DEFINE id == g.watches[i].id
<1>1. FirstAt(g.watches, id, i)
  <2>1. \A j \in DOMAIN g.watches : g.watches[j].id = id => i = j
    BY DEF OneIdEach
  <2>2. i \in Nat
    BY DEF Generations
  <2> QED
    BY <2>1, <2>2 DEF FirstAt
<1>2. g.watches[i] \in Watches
  BY DEF Generations
<1>3. id \in Ids
  BY <1>2 DEF Watches
<1> QED
  BY <1>1, <1>2, <1>3, FirstIs

\* p is g with v for the watch of its ID, or with v in addition.
Turned(g, p, v) ==
  /\ p \in Generations /\ OneIdEach(p)
  /\ IdsOf(p) = IdsOf(g) \union {v.id} /\ WatchOf(p, v.id) = v
  /\ \A x \in IdsOf(g) \ {v.id} :
       WatchOf(p, x) = WatchOf(g, x) /\ SeriesKept(g.history, p.history, x)

(* Writing a record back turns its watch and leaves the others.             *)
LEMMA PutTurns ==
  ASSUME NEW g \in Generations, OneIdEach(g), NEW v \in Watches, v.id \in IdsOf(g),
         NEW h \in Seq(Points), \A x \in IdsOf(g) \ {v.id} : SeriesKept(g.history, h, x)
  PROVE  LET p == [PutWatch(g, v) EXCEPT !.history = h] IN Turned(g, p, v) /\ p.history = h
<1> DEFINE put == PutWatch(g, v)
           p   == [put EXCEPT !.history = h]
<1>1. /\ put \in Generations /\ IdsOf(put) = IdsOf(g)
      /\ \A id \in IdsOf(g) : WatchOf(put, id) = IF id = v.id THEN v ELSE WatchOf(g, id)
      /\ DOMAIN put.watches = DOMAIN g.watches
      /\ \E m : /\ FirstAt(g.watches, v.id, m)
                /\ \A i \in DOMAIN g.watches :
                     put.watches[i] = IF i = m THEN v ELSE g.watches[i]
  BY PutWatchIs
<1> HIDE DEF put
<1>2. /\ p \in Generations /\ p.watches = put.watches /\ p.history = h
      /\ IdsOf(p) = IdsOf(put) /\ \A id : WatchOf(p, id) = WatchOf(put, id)
  BY <1>1, WithHistoryIs
<1> HIDE DEF p
<1>3. \A i \in DOMAIN g.watches : put.watches[i].id = g.watches[i].id
  BY <1>1 DEF FirstAt
<1>4. OneIdEach(p)
  BY <1>1, <1>2, <1>3 DEF OneIdEach
<1> QED
  BY <1>1, <1>2, <1>4 DEF Turned, p, put

(* An edit touches one record and no point.                                 *)
LEMMA UpdateDoes ==
  ASSUME NEW g \in Generations, OneIdEach(g), NEW v \in Watches, v.id \in IdsOf(g)
  PROVE  Turned(g, PutWatch(g, v), v) /\ PutWatch(g, v).history = g.history
<1> DEFINE put == PutWatch(g, v)
           p   == [put EXCEPT !.history = g.history]
<1>1. put \in Generations /\ put.history = g.history
  BY PutWatchIs
<1>2. g.history \in Seq(Points)
  BY DEF Generations
<1>3. Turned(g, p, v)
  BY <1>2, SeriesReflexive, PutTurns
<1>4. p = put
  <2> HIDE DEF put
  <2> QED
    BY <1>1 DEF Generations
<1> QED
  BY <1>1, <1>3, <1>4

(***************************************************************************)
(* A re-watch lands on the target's watch, or makes one under a new ID;    *)
(* only a change of currency costs the watch its points.                   *)
(***************************************************************************)
Landed(g, wish) == Positions(g, LAMBDA w : DedupeKey(w) = wish.target)

(* A wish for a target that nobody watches makes a watch.                   *)
LEMMA AddMakes ==
  ASSUME NEW g \in Generations, OneIdEach(g), NEW r, r.id \in Ids, r.wish \in Wished,
         r.id \notin IdsOf(g), Landed(g, r.wish) = {}
  PROVE  LET p == AddTo(g, r).gen
         IN Turned(g, p, NewWatch(r.id, r.wish)) /\ p.history = g.history
<1> DEFINE v == NewWatch(r.id, r.wish)
           p == [g EXCEPT !.watches = Append(@, v)]
<1>1. AddTo(g, r).gen = p
  BY DEF AddTo, Save, Landed
<1>2. v \in Watches /\ v.id = r.id
  BY NewWatchIs
<1> HIDE DEF v
<1>3. /\ p \in Generations /\ p.history = g.history
      /\ p.watches = Append(g.watches, v)
      /\ IdsOf(p) = IdsOf(g) \union {v.id}
      /\ \A id \in IdsOf(g) : WatchOf(p, id) = WatchOf(g, id)
  BY <1>2, AppendedIs
<1> HIDE DEF p
<1>4. g.watches \in Seq(Watches)
  BY DEF Generations
<1> DEFINE n == Len(g.watches)
<1>5. /\ n \in Nat /\ DOMAIN p.watches = 1..(n + 1) /\ DOMAIN g.watches = 1..n
      /\ p.watches[n + 1] = v /\ \A i \in 1..n : p.watches[i] = g.watches[i]
  BY <1>3, <1>4
<1> HIDE DEF n
<1>6. \A i \in 1..n : p.watches[i].id # v.id
  BY <1>2, <1>5 DEF IdsOf
<1>7. OneIdEach(p)
  <2>1. \A i \in 1..(n + 1) : i \in 1..n \/ i = n + 1
    BY <1>5
  <2> QED
    BY <1>5, <1>6, <2>1 DEF OneIdEach
<1>8. WatchOf(p, v.id) = v
  <2>1. n + 1 \in DOMAIN p.watches
    BY <1>5
  <2> QED
    BY <1>3, <1>5, <1>7, <2>1, AtPosition
<1> QED
  BY <1>1, <1>3, <1>7, <1>8, SeriesReflexive DEF Turned, v

(* A wish for a watched target renews the first such watch, and purges its  *)
(* series if the currency moves.                                            *)
LEMMA AddRenews ==
  ASSUME NEW g \in Generations, OneIdEach(g), NEW r, r.wish \in Wished,
         Landed(g, r.wish) # {}
  PROVE  LET p   == AddTo(g, r).gen
             m   == Min(Landed(g, r.wish))
             old == g.watches[m]
         IN /\ m \in DOMAIN g.watches /\ old \in Watches /\ old.id \in IdsOf(g)
            /\ WatchOf(g, old.id) = old
            /\ Turned(g, p, ApplyIntent(old, r.wish))
            /\ CurrencyMoves(old, r.wish) => PointsOf(p.history, old.id) = {}
            /\ ~CurrencyMoves(old, r.wish) => p.history = g.history
<1> DEFINE same == Landed(g, r.wish)
           m    == Min(same)
           old  == g.watches[m]
           v    == ApplyIntent(old, r.wish)
           next == [g EXCEPT !.watches[m] = v]
           p    == AddTo(g, r).gen
<1>1. p = IF CurrencyMoves(old, r.wish)
          THEN [next EXCEPT !.history = Purge(@, old.id)] ELSE next
  BY Zenon DEF AddTo, Save, Landed
<1>2. m \in DOMAIN g.watches
  <2>1. same \in SUBSET Nat /\ same \subseteq DOMAIN g.watches
    BY DEF Generations, Landed, Positions
  <2>2. same # {}
    OBVIOUS
  <2> HIDE DEF same
  <2> QED
    BY <2>1, <2>2, MinIs
<1> HIDE DEF m
<1>3. /\ old \in Watches /\ old.id \in IdsOf(g) /\ WatchOf(g, old.id) = old
      /\ Min(Positions(g, LAMBDA w : w.id = old.id)) = m
  BY <1>2, AtPosition
<1>4. v \in Watches /\ v.id = old.id
  BY <1>3, ApplyIntentIs
<1>5. next = PutWatch(g, v)
  <2> HIDE DEF v
  <2>1. Min({i \in DOMAIN g.watches : g.watches[i].id = v.id}) = m
    BY <1>3, <1>4 DEF Positions
  <2> QED
    BY <2>1, Zenon DEF PutWatch, Positions
<1>6. Turned(g, next, v) /\ next.history = g.history
  BY <1>3, <1>4, <1>5, UpdateDoes
<1>7. CASE ~CurrencyMoves(old, r.wish)
  BY <1>1, <1>2, <1>3, <1>6, <1>7 DEF m
<1>8. CASE CurrencyMoves(old, r.wish)
  <2> DEFINE h == Purge(g.history, old.id)
             q == [PutWatch(g, v) EXCEPT !.history = h]
  <2>1. g.history \in Seq(Points)
    BY DEF Generations
  <2>2. h \in Seq(Points) /\ PointsOf(h, old.id) = {}
        /\ \A k : k # old.id => SeriesKept(g.history, h, k)
    <3>1. LeftOf(g.history, h)
      BY <2>1, PurgeIs
    <3> QED
      BY <2>1, <3>1, PurgeSeries DEF LeftOf
  <2>3. p = q
    BY <1>1, <1>5, <1>6, <1>8
  <2> HIDE DEF h, v
  <2>4. Turned(g, q, v) /\ q.history = h
    BY <1>3, <1>4, <2>2, PutTurns
  <2> QED
    BY <1>2, <1>3, <1>8, <2>2, <2>3, <2>4 DEF v, m
<1> QED
  BY <1>7, <1>8

(* A removal takes one watch with its points.                               *)
LEMMA RemoveDoes ==
  ASSUME NEW g \in Generations, OneIdEach(g), NEW r, r.id \in IdsOf(g)
  PROVE  LET p == RemoveFrom(g, r).gen
         IN /\ p \in Generations /\ OneIdEach(p) /\ IdsOf(p) = IdsOf(g) \ {r.id}
            /\ \A x \in IdsOf(p) :
                 WatchOf(p, x) = WatchOf(g, x) /\ SeriesKept(g.history, p.history, x)
<1> DEFINE p == RemoveFrom(g, r).gen
           h == Purge(g.history, r.id)
<1>1. g.history \in Seq(Points)
  BY DEF Generations
<1>2. p = Removed(g, r.id, h) /\ p.history = h
  BY DEF RemoveFrom, Save, Removed
<1>3. h \in Seq(Points) /\ \A k : k # r.id => SeriesKept(g.history, h, k)
  <2>1. LeftOf(g.history, h)
    BY <1>1, PurgeIs
  <2> QED
    BY <1>1, <2>1, PurgeSeries DEF LeftOf
<1> HIDE DEF p, h
<1>4. /\ p \in Generations
      /\ IdsOf(p) = IdsOf(g) \ {r.id}
      /\ \A x \in IdsOf(p) : WatchOf(p, x) = WatchOf(g, x)
      /\ OneIdEach(p)
  BY <1>2, <1>3, RemovedIs
<1> QED
  BY <1>2, <1>3, <1>4 DEF p

(* A point appended to a watch's series is its newest, whatever was pruned. *)
LEMMA GrownSeries ==
  ASSUME NEW h \in Seq(Points), NEW pt \in Points, pt.id \in Ids
  PROVE  LET grown == PruneGlobal(PruneWatch(Append(h, pt), pt.id))
         IN /\ grown \in Seq(Points)
            /\ \A k \in Ids \ {pt.id} : SeriesKept(h, grown, k)
            /\ PointsOf(grown, pt.id) # {} => grown[Max(PointsOf(grown, pt.id))] = pt
            /\ \A i \in PointsOf(grown, pt.id) :
                 grown[i] = pt \/ \E j \in PointsOf(h, pt.id) : grown[i] = h[j]
<1> DEFINE a == Append(h, pt)
           b == PruneWatch(a, pt.id)
           c == PruneGlobal(b)
<1>1. /\ a \in Seq(Points)
      /\ \A k : k # pt.id => SeriesKept(h, a, k)
      /\ a[Max(PointsOf(a, pt.id))] = pt
      /\ \A i \in PointsOf(a, pt.id) :
           a[i] = pt \/ \E j \in PointsOf(h, pt.id) : a[i] = h[j]
  BY AppendSeries
<1> HIDE DEF a
<1>2. b \in Seq(Points) /\ \A k : SeriesKept(a, b, k)
  <2>1. LeftOf(a, b)
    BY <1>1, PruneWatchIs
  <2> QED
    BY <1>1, <2>1, PruneSeries DEF LeftOf
<1> HIDE DEF b
<1>3. c \in Seq(Points) /\ \A k \in Ids : SeriesKept(b, c, k)
  <2>1. LeftOf(b, c)
    BY <1>2, PruneGlobalIs
  <2>2. \A k \in Ids : k \notin RouteKeys
    BY RouteAssumption
  <2> QED
    BY <1>2, <2>1, <2>2, PruneSeries DEF LeftOf
<1> HIDE DEF c
<1>4. SeriesKept(a, c, pt.id)
  BY <1>2, <1>3, SeriesTransitive
<1>5. \A k \in Ids \ {pt.id} : SeriesKept(h, c, k)
  <2> SUFFICES ASSUME NEW k \in Ids \ {pt.id} PROVE SeriesKept(h, c, k)
    OBVIOUS
  <2>1. SeriesKept(h, a, k) /\ SeriesKept(a, b, k) /\ SeriesKept(b, c, k)
    BY <1>1, <1>2, <1>3
  <2>2. SeriesKept(h, b, k)
    BY <2>1, SeriesTransitive
  <2> QED
    BY <2>1, <2>2, SeriesTransitive
<1>6. PointsOf(c, pt.id) # {} => c[Max(PointsOf(c, pt.id))] = pt
  BY <1>1, <1>4 DEF SeriesKept
<1>7. \A i \in PointsOf(c, pt.id) : \E j \in PointsOf(a, pt.id) : c[i] = a[j]
  BY <1>4 DEF SeriesKept
<1>8. \A i \in PointsOf(c, pt.id) :
        c[i] = pt \/ \E j \in PointsOf(h, pt.id) : c[i] = h[j]
  BY <1>1, <1>7
<1> QED
  BY <1>3, <1>5, <1>6, <1>8 DEF a, b, c

\* What a quote that was accepted has done, f being its fold and d its effect.
Recorded(g, r, f, d) ==
  /\ PollKey(WatchOf(g, r.id)) = r.key /\ d.out = f.out /\ f.rec.id = r.id
  /\ Turned(g, d.gen, f.rec)
  /\ ~f.out.point => d.gen.history = g.history
  /\ f.out.point =>
       /\ PointsOf(d.gen.history, r.id) # {} =>
            d.gen.history[Max(PointsOf(d.gen.history, r.id))] = Point(r)
       /\ \A i \in PointsOf(d.gen.history, r.id) :
            \/ d.gen.history[i] = Point(r)
            \/ /\ ~f.out.purge
               /\ \E j \in PointsOf(g.history, r.id) : d.gen.history[i] = g.history[j]

(***************************************************************************)
(* A quote that is not stale is folded into the stored record, which joins *)
(* the committed series, and what is left of the series is named.          *)
(***************************************************************************)
LEMMA RecordDoes ==
  ASSUME NEW g \in Generations, OneIdEach(g), NEW r, r.id \in IdsOf(g),
         r.price \in Nat \ {0}, r.cur \in Spellings, RecordIn(g, r).verdict = "save"
  PROVE  Recorded(g, r, Fold(WatchOf(g, r.id), r.price, r.cur), RecordIn(g, r))
<1> DEFINE w      == WatchOf(g, r.id)
           f      == Fold(w, r.price, r.cur)
           purged == IF f.out.purge THEN Purge(g.history, r.id) ELSE g.history
           grown  == PruneGlobal(PruneWatch(Append(purged, Point(r)), r.id))
           h      == IF f.out.point THEN grown ELSE purged
           p      == [PutWatch(g, f.rec) EXCEPT !.history = h]
           pt     == Point(r)
<1>1. PollKey(w) = r.key /\ RecordIn(g, r).out = f.out /\ RecordIn(g, r).gen = p
  BY DEF RecordIn, Save, Skip
<1>2. w \in Watches /\ w.id = r.id /\ r.id \in Ids
  BY WatchOfIs
<1>3. /\ f.rec \in Watches /\ f.rec.id = r.id
      /\ ~f.out.point => ~f.out.purge
  <2> HIDE DEF w
  <2> QED
    BY <1>2, FoldIs
<1> HIDE DEF f, w
<1>4. g.history \in Seq(Points) /\ IdsOf(g) \subseteq Ids
  BY WatchOfIs DEF Generations
<1>5. /\ purged \in Seq(Points)
      /\ \A k : k # r.id => SeriesKept(g.history, purged, k)
      /\ f.out.purge => PointsOf(purged, r.id) = {}
      /\ ~f.out.purge => purged = g.history
  <2>1. CASE f.out.purge
    <3>1. LeftOf(g.history, Purge(g.history, r.id))
      BY <1>4, PurgeIs
    <3> QED
      BY <1>4, <2>1, <3>1, PurgeSeries DEF LeftOf
  <2>2. CASE ~f.out.purge
    BY <1>4, <2>2, SeriesReflexive
  <2> QED
    BY <2>1, <2>2
<1> HIDE DEF purged
<1>6. pt \in Points /\ pt.id = r.id
  BY <1>2 DEF Point, Points
<1>7. grown = PruneGlobal(PruneWatch(Append(purged, pt), pt.id))
  BY <1>6
<1> HIDE DEF grown, pt
<1>8. /\ grown \in Seq(Points)
      /\ \A k \in Ids \ {pt.id} : SeriesKept(purged, grown, k)
      /\ PointsOf(grown, pt.id) # {} => grown[Max(PointsOf(grown, pt.id))] = pt
      /\ \A i \in PointsOf(grown, pt.id) :
           grown[i] = pt \/ \E j \in PointsOf(purged, pt.id) : grown[i] = purged[j]
  <2>1. purged \in Seq(Points) /\ pt \in Points /\ pt.id \in Ids
    BY <1>2, <1>5, <1>6
  <2> DEFINE bigger == PruneGlobal(PruneWatch(Append(purged, pt), pt.id))
  <2>2. /\ bigger \in Seq(Points)
        /\ \A k \in Ids \ {pt.id} : SeriesKept(purged, bigger, k)
        /\ PointsOf(bigger, pt.id) # {} => bigger[Max(PointsOf(bigger, pt.id))] = pt
        /\ \A i \in PointsOf(bigger, pt.id) :
             bigger[i] = pt \/ \E j \in PointsOf(purged, pt.id) : bigger[i] = purged[j]
    BY <2>1, GrownSeries
  <2>3. grown = bigger
    BY <1>7
  <2> HIDE DEF bigger
  <2> QED
    BY <2>2, <2>3
<1>9. h \in Seq(Points)
  BY <1>5, <1>8
<1>10. \A x \in IdsOf(g) \ {r.id} : SeriesKept(g.history, h, x)
  <2> SUFFICES ASSUME NEW x \in IdsOf(g) \ {r.id} PROVE SeriesKept(g.history, h, x)
    OBVIOUS
  <2>1. SeriesKept(g.history, purged, x)
    BY <1>5
  <2>2. SeriesKept(purged, grown, x)
    BY <1>4, <1>6, <1>8
  <2>3. SeriesKept(g.history, grown, x)
    BY <2>1, <2>2, SeriesTransitive
  <2> QED
    BY <2>1, <2>3
<1>11. ~f.out.point => h = g.history
  BY <1>3, <1>5
<1>12. f.out.point => h = grown
  OBVIOUS
<1> HIDE DEF h
<1>13. Turned(g, p, f.rec) /\ p.history = h
  BY <1>3, <1>9, <1>10, PutTurns
<1> HIDE DEF p
<1>14. f.out.point =>
         /\ PointsOf(h, r.id) # {} => h[Max(PointsOf(h, r.id))] = pt
         /\ \A i \in PointsOf(h, r.id) :
              \/ h[i] = pt
              \/ ~f.out.purge /\ \E j \in PointsOf(g.history, r.id) : h[i] = g.history[j]
  BY <1>5, <1>6, <1>8, <1>12
<1>15. LET d == RecordIn(g, r) IN d.out = f.out /\ d.gen = p /\ PollKey(w) = r.key
  BY <1>1
<1>16. Recorded(g, r, f, RecordIn(g, r))
  BY <1>3, <1>11, <1>13, <1>14, <1>15 DEF Recorded, pt, w
<1> QED
  BY <1>16 DEF w, f
=============================================================================
