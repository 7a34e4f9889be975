------------------------- MODULE DashboardDataLemmas -------------------------
(* What the operators of DashboardData compute, for every sequence: the     *)
(* ordering of a finite set, selection, slice and sort, and the flattening  *)
(* of a list of lists.                                                      *)
EXTENDS DashboardData, FiniteSetTheorems, FunctionTheorems, SequenceTheorems, TLAPS

(***************************************************************************)
(* Induction.  The induction theorems of the library take the induction    *)
(* predicate as an operator, which no prover here can instantiate.  Over   *)
(* the natural numbers a set serves instead, by the well-foundedness of    *)
(* strict inclusion among the finite sets 1..n.                            *)
(***************************************************************************)

\* A set of natural numbers that is not empty has a least member.
LEMMA LeastNat ==
  ASSUME NEW D \in SUBSET Nat, D # {}
  PROVE  \E n \in D : \A m \in D : n <= m
<1> DEFINE T == {1..n : n \in D}
<1>1. T \subseteq FiniteSubsetsOf(Nat) /\ T # {}
  <2>1. \A n \in D : 1..n \in SUBSET Nat /\ IsFiniteSet(1..n)
    BY FS_Interval
  <2>. QED  BY <2>1 DEF FiniteSubsetsOf
<1>2. IsWellFoundedOn(StrictSubsetOrdering(Nat), FiniteSubsetsOf(Nat))
  BY FS_StrictSubsetOrderingWellFounded
<1>3. PICK x \in T : \A y \in T : ~ (<<y, x>> \in StrictSubsetOrdering(Nat))
  <2> HIDE DEF T
  <2>. QED  BY <1>1, <1>2, WFMin, Zenon
<1>4. PICK n \in D : x = 1..n
  OBVIOUS
<1>5. ASSUME NEW m \in D, m < n PROVE FALSE
  <2>1. 1..m \subseteq 1..n /\ 1..m \in SUBSET Nat /\ 1..n \in SUBSET Nat
    BY <1>5
  <2>2. n \in 1..n /\ n \notin 1..m
    BY <1>5
  <2>3. 1..m \in T /\ <<1..m, 1..n>> \in StrictSubsetOrdering(Nat)
    BY <2>1, <2>2 DEF StrictSubsetOrdering
  <2>. QED  BY <1>3, <1>4, <2>3
<1>. QED  BY <1>5

\* A set that holds 0 and with each number its successor holds all.
LEMMA NatSet ==
  ASSUME NEW D \in SUBSET Nat, 0 \in D, \A n \in D : n + 1 \in D
  PROVE  D = Nat
<1>. SUFFICES ASSUME D # Nat PROVE FALSE
  OBVIOUS
<1>1. PICK n \in Nat \ D : \A m \in Nat \ D : n <= m
  BY LeastNat
<1>2. n - 1 \in Nat /\ n - 1 \notin D
  BY <1>1
<1>. QED  BY <1>1, <1>2

\* Sets a one-to-one correspondence relates have the same size.
LEMMA SameSize ==
  ASSUME NEW A, NEW B, IsFiniteSet(B), NEW f \in [A -> B],
         \A a, b \in A : f[a] = f[b] => a = b,
         \A b \in B : \E a \in A : f[a] = b
  PROVE  IsFiniteSet(A) /\ Cardinality(A) = Cardinality(B)
<1>1. f \in Injection(A, B) /\ f \in Surjection(A, B)
  BY Fun_IsInj, Fun_IsSurj
<1>. QED  BY <1>1, FS_Injection

\* A set counted up to n has n members.
LEMMA CountedUp ==
  ASSUME NEW n \in Nat, NEW P, NEW f \in Bijection(1..n, P)
  PROVE  IsFiniteSet(P) /\ Cardinality(P) = n
<1>1. ExistsBijection(1..n, P)
  BY DEF ExistsBijection
<1>2. IsFiniteSet(1..n) /\ Cardinality(1..n) = n
  BY FS_Interval
<1>. QED  BY <1>1, <1>2, FS_Bijection

(***************************************************************************)
(* Arranged.                                                               *)
(***************************************************************************)

\* upto[p] holds p and what is before it in a total order of P.
OrderedBy(P, upto) ==
  /\ upto \in [P -> SUBSET P]
  /\ \A p \in P : p \in upto[p]
  /\ \A p, q \in P : p \in upto[q] \/ q \in upto[p]
  /\ \A p, q \in P : p \in upto[q] /\ q \in upto[p] => p = q
  /\ \A p, q \in P : p \in upto[q] => upto[p] \subseteq upto[q]

LEMMA ArrangedInOrder ==
  ASSUME NEW P, IsFiniteSet(P), NEW upto, OrderedBy(P, upto)
  PROVE  LET order == Arranged(upto)
         IN  /\ order \in Bijection(1..Cardinality(P), P)
             /\ \A k \in 1..Cardinality(P) : Cardinality(upto[order[k]]) = k
             /\ \A k, l \in 1..Cardinality(P) : k <= l => order[k] \in upto[order[l]]
<1> DEFINE n == Cardinality(P)
           order == Arranged(upto)
           rank == [p \in P |-> Cardinality(upto[p])]
<1>1. n \in Nat
  BY FS_CardinalityType
<1>2. order = [k \in 1..n |-> CHOOSE p \in P : Cardinality(upto[p]) = k]
  <2>1. DOMAIN upto = P
    BY DEF OrderedBy
  <2>. QED  BY <2>1 DEF Arranged
<1>3. \A p \in P : IsFiniteSet(upto[p]) /\ rank[p] \in 1..n
  <2>. TAKE p \in P
  <2>1. upto[p] \in SUBSET P /\ p \in upto[p]
    BY DEF OrderedBy
  <2>2. IsFiniteSet(upto[p]) /\ Cardinality(upto[p]) <= n
    BY <2>1, FS_Subset
  <2>3. Cardinality(upto[p]) \in Nat /\ Cardinality(upto[p]) # 0
    BY <2>1, <2>2, FS_CardinalityType, FS_EmptySet
  <2>. QED  BY <1>1, <2>2, <2>3
<1>4. \A p, q \in P : p \in upto[q] /\ rank[p] = rank[q] => p = q
  <2>. SUFFICES ASSUME NEW p \in P, NEW q \in P, p \in upto[q], rank[p] = rank[q]
                PROVE  p = q
    OBVIOUS
  <2>1. upto[p] \in SUBSET upto[q]
    BY DEF OrderedBy
  <2>2. upto[q] = upto[p]
    BY <1>3, <2>1, FS_Subset
  <2>. QED  BY <2>2 DEF OrderedBy
<1>5. \A p, q \in P : rank[p] = rank[q] => p = q
  BY <1>4 DEF OrderedBy
<1>6. rank \in Injection(P, 1..n)
  <2>1. rank \in [P -> 1..n]
    BY <1>3
  <2>. QED  BY <1>5, <2>1, Fun_IsInj
<1>7. rank \in Surjection(P, 1..n)
  BY <1>1, <1>6, FS_Injection, FS_Interval
<1>8. \A k \in 1..n : order[k] \in P /\ rank[order[k]] = k
  <2>. TAKE k \in 1..n
  <2>1. \E p \in P : rank[p] = k
    BY <1>7 DEF Surjection
  <2>2. \E p \in P : Cardinality(upto[p]) = k
    BY <2>1
  <2>3. order[k] = CHOOSE p \in P : Cardinality(upto[p]) = k
    <3>. HIDE DEF order
    <3>. QED  BY <1>2
  <2>. QED  BY <2>2, <2>3
<1>9. order \in Bijection(1..n, P)
  <2>1. order \in [1..n -> P]
    <3>. HIDE DEF order
    <3>. QED  BY <1>2, <1>8
  <2>2. \A k, l \in 1..n : order[k] = order[l] => k = l
    BY <1>8
  <2>3. \A p \in P : \E k \in 1..n : order[k] = p
    <3>. TAKE p \in P
    <3>1. rank[p] \in 1..n
      BY <1>3
    <3>2. order[rank[p]] = p
      BY <1>5, <1>8, <3>1
    <3>. QED  BY <3>1, <3>2
  <2>. HIDE DEF order, n
  <2>. QED  BY <2>1, <2>2, <2>3, Fun_IsBij
<1>10. \A k, l \in 1..n : k <= l => order[k] \in upto[order[l]]
  <2>. SUFFICES ASSUME NEW k \in 1..n, NEW l \in 1..n, k <= l,
                       order[l] \in upto[order[k]]
                PROVE  order[k] = order[l]
    BY <1>8 DEF OrderedBy
  <2>1. upto[order[l]] \in SUBSET upto[order[k]]
    BY <1>8 DEF OrderedBy
  <2>2. rank[order[l]] <= rank[order[k]]
    BY <1>3, <1>8, <2>1, FS_Subset
  <2>3. l = k
    BY <1>1, <1>8, <2>2
  <2>. QED  BY <2>3
<1>. QED  BY <1>8, <1>9, <1>10

(***************************************************************************)
(* ElementsAt, LastOf and SortByTime.                                      *)
(***************************************************************************)

LEMMA UpToIsOrder ==
  ASSUME NEW P \in SUBSET Nat
  PROVE  OrderedBy(P, [j \in P |-> {i \in P : i <= j}])
<1> DEFINE upto == [j \in P |-> {i \in P : i <= j}]
<1>1. upto \in [P -> SUBSET P]
  OBVIOUS
<1>2. \A p, q \in P : p \in upto[q] <=> p <= q
  OBVIOUS
<1>3. \A p, q \in P : p \in upto[q] => upto[p] \subseteq upto[q]
  <2>. TAKE p, q \in P
  <2>1. ASSUME p <= q, NEW i \in P, i <= p
        PROVE  i <= q
    BY <2>1
  <2>. QED  BY <1>2, <2>1
<1>4. OrderedBy(P, upto)
  <2>. HIDE DEF upto
  <2>. QED  BY <1>1, <1>2, <1>3 DEF OrderedBy
<1>. QED  BY <1>4

LEMMA ElementsAtInOrder ==
  ASSUME NEW positions \in SUBSET Nat, IsFiniteSet(positions), NEW s
  PROVE  \E at \in Bijection(1..Cardinality(positions), positions) :
           /\ ElementsAt(s, positions) = [k \in 1..Cardinality(positions) |-> s[at[k]]]
           /\ \A k \in 1..Cardinality(positions) :
                Cardinality({i \in positions : i <= at[k]}) = k
<1> DEFINE upto == [j \in positions |-> {i \in positions : i <= j}]
           order == Arranged(upto)
<1>1. OrderedBy(positions, upto)
  BY UpToIsOrder
<1>2. /\ order \in Bijection(1..Cardinality(positions), positions)
      /\ \A k \in 1..Cardinality(positions) : Cardinality(upto[order[k]]) = k
  <2>. HIDE DEF upto
  <2>. QED  BY <1>1, ArrangedInOrder
<1>3. ElementsAt(s, positions) = [k \in 1..Cardinality(positions) |-> s[order[k]]]
  BY Zenon DEF ElementsAt
<1>4. \A k \in 1..Cardinality(positions) : order[k] \in positions
  <2>. HIDE DEF order
  <2>. QED  BY <1>2 DEF Bijection, Injection
<1>5. \A k \in 1..Cardinality(positions) :
        Cardinality({i \in positions : i <= order[k]}) = k
  <2>. HIDE DEF order
  <2>. QED  BY <1>2, <1>4
<1>. HIDE DEF order
<1>. QED  BY <1>2, <1>3, <1>5

\* LastOf drops d elements from the front.
LEMMA LastOfProperties ==
  ASSUME NEW S, NEW s \in Seq(S), NEW n \in Nat
  PROVE  /\ LastOf(s, n) \in Seq(S)
         /\ \E d \in Nat :
              /\ Len(LastOf(s, n)) = Len(s) - d
              /\ Len(s) < n => Len(s) - d = Len(s)
              /\ ~(Len(s) < n) => Len(s) - d = n
              /\ \A i \in 1..(Len(s) - d) : LastOf(s, n)[i] = s[d + i]
<1>1. PICK d \in Nat : d = IF Len(s) > n THEN Len(s) - n ELSE 0
  <2>1. Len(s) > n => Len(s) - n \in Nat
    OBVIOUS
  <2>2. (IF Len(s) > n THEN Len(s) - n ELSE 0) \in Nat
    BY <2>1
  <2>. QED  BY <2>2, Zenon
<1>2. Len(s) \in Nat /\ d <= Len(s)
  BY <1>1
<1>3. \A i \in (d + 1)..Len(s) : s[i] \in S
  OBVIOUS
<1>4. LastOf(s, n) = SubSeq(s, d + 1, Len(s))
  BY <1>1 DEF LastOf
<1>5. /\ SubSeq(s, d + 1, Len(s)) \in Seq(S)
      /\ Len(SubSeq(s, d + 1, Len(s))) = IF d + 1 <= Len(s) THEN Len(s) - (d + 1) + 1 ELSE 0
      /\ \A i \in 1..(Len(s) - (d + 1) + 1) : SubSeq(s, d + 1, Len(s))[i] = s[(d + 1) + i - 1]
  <2> DEFINE e == d + 1
  <2>1. e \in Int /\ Len(s) \in Int
    BY <1>2
  <2>2. \A i \in e..Len(s) : s[i] \in S
    BY <1>3
  <2>3. /\ SubSeq(s, e, Len(s)) \in Seq(S)
        /\ Len(SubSeq(s, e, Len(s))) = IF e <= Len(s) THEN Len(s) - e + 1 ELSE 0
        /\ \A i \in 1..(Len(s) - e + 1) : SubSeq(s, e, Len(s))[i] = s[e + i - 1]
    <3>. HIDE DEF e
    <3>. QED  BY <2>1, <2>2, SubSeqProperties
  <2>. QED  BY <2>3, Zenon
<1>6. \A i \in 1..(Len(s) - d) : /\ i \in 1..(Len(s) - (d + 1) + 1)
                                /\ (d + 1) + i - 1 = d + i
  BY <1>2
<1>7. \A i \in 1..(Len(s) - d) : LastOf(s, n)[i] = s[d + i]
  <2>. TAKE i \in 1..(Len(s) - d)
  <2>1. SubSeq(s, d + 1, Len(s))[i] = s[(d + 1) + i - 1]
    BY <1>5, <1>6
  <2>. QED  BY <1>4, <1>6, <2>1
<1>8. Len(LastOf(s, n)) = Len(s) - d
  <2>1. CASE d + 1 <= Len(s)
    <3>1. Len(LastOf(s, n)) = Len(s) - (d + 1) + 1
      BY <1>4, <1>5, <2>1
    <3>. QED  BY <1>2, <3>1
  <2>2. CASE d = Len(s)
    <3>1. ~(d + 1 <= Len(s)) /\ Len(s) - d = 0
      BY <1>2, <2>2
    <3>. QED  BY <1>4, <1>5, <3>1
  <2>. QED  BY <1>2, <2>1, <2>2
<1>9. LastOf(s, n) \in Seq(S)
  BY <1>4, <1>5
<1>10. (Len(s) < n => Len(s) - d = Len(s)) /\ (~(Len(s) < n) => Len(s) - d = n)
  BY <1>1, <1>2
<1>. QED  BY <1>7, <1>8, <1>9, <1>10

LEMMA LastOfDrops ==
  \A S : \A s \in Seq(S), n \in Nat :
    /\ LastOf(s, n) \in Seq(S)
    /\ \E d \in Nat :
         /\ Len(LastOf(s, n)) = Len(s) - d
         /\ Len(s) < n => Len(s) - d = Len(s)
         /\ ~(Len(s) < n) => Len(s) - d = n
         /\ \A i \in 1..(Len(s) - d) : LastOf(s, n)[i] = s[d + i]
BY LastOfProperties, Zenon

LEMMA SortInOrder ==
  ASSUME NEW n \in Nat, NEW points, DOMAIN points = 1..n,
         \A i \in 1..n : points[i].x \in Nat
  PROVE  \E at \in Bijection(1..n, 1..n) :
           /\ SortByTime(points) = [k \in 1..n |-> points[at[k]]]
           /\ \A k, l \in 1..n : k <= l => points[at[k]].x <= points[at[l]].x
           /\ (\A i, j \in 1..n : points[i].x = points[j].x) => \A k \in 1..n : at[k] = k
<1> DEFINE upto == [j \in DOMAIN points |->
                      {i \in DOMAIN points :
                         \/ points[i].x < points[j].x
                         \/ points[i].x = points[j].x /\ i <= j}]
           order == Arranged(upto)
           X(i) == points[i].x
<1>. HIDE DEF X
<1>1. IsFiniteSet(1..n) /\ Cardinality(1..n) = n
  BY FS_Interval
<1>2. OrderedBy(1..n, upto)
  <2>1. upto \in [1..n -> SUBSET (1..n)]
    OBVIOUS
  <2>2. \A p, q \in 1..n : p \in upto[q] <=> X(p) < X(q) \/ (X(p) = X(q) /\ p <= q)
    BY DEF X
  <2>3. \A p \in 1..n : X(p) \in Nat
    BY DEF X
  <2>. HIDE DEF upto
  <2>4. \A p, q \in 1..n : p \in upto[q] => upto[p] \subseteq upto[q]
    <3>. SUFFICES ASSUME NEW p \in 1..n, NEW q \in 1..n, p \in upto[q], NEW i \in upto[p]
                  PROVE  i \in upto[q]
      OBVIOUS
    <3>1. i \in 1..n
      BY <2>1
    <3>. QED  BY <2>2, <2>3, <3>1
  <2>5. \A p, q \in 1..n : p \in upto[q] \/ q \in upto[p]
    BY <2>2, <2>3
  <2>6. \A p, q \in 1..n : p \in upto[q] /\ q \in upto[p] => p = q
    BY <2>2, <2>3
  <2>7. \A p \in 1..n : p \in upto[p]
    BY <2>2
  <2>. QED  BY <2>1, <2>4, <2>5, <2>6, <2>7 DEF OrderedBy
<1>3. /\ order \in Bijection(1..n, 1..n)
      /\ \A k \in 1..n : Cardinality(upto[order[k]]) = k
      /\ \A k, l \in 1..n : k <= l => order[k] \in upto[order[l]]
  <2>. HIDE DEF upto
  <2>. QED  BY <1>1, <1>2, ArrangedInOrder
<1>4. SortByTime(points) = [k \in 1..n |-> points[order[k]]]
  <2>1. SortByTime(points) = [k \in DOMAIN points |-> points[order[k]]]
    BY Zenon DEF SortByTime
  <2>. HIDE DEF order
  <2>. QED  BY <2>1
<1>5. \A k \in 1..n : order[k] \in 1..n
  <2>. HIDE DEF order
  <2>. QED  BY <1>3 DEF Bijection, Injection
<1>6. \A k, l \in 1..n : k <= l => points[order[k]].x <= points[order[l]].x
  <2>. HIDE DEF order
  <2>1. \A i, j \in 1..n : i \in upto[j] => points[i].x <= points[j].x
    OBVIOUS
  <2>. QED  BY <1>3, <1>5, <2>1
<1>7. ASSUME \A i, j \in 1..n : points[i].x = points[j].x, NEW k \in 1..n
      PROVE  order[k] = k
  <2>1. order[k] \in 1..n /\ Cardinality(upto[order[k]]) = k
    BY <1>3, <1>5
  <2>. HIDE DEF order
  <2>2. upto[order[k]] = 1..order[k]
    <3>1. upto[order[k]] = {i \in 1..n : i <= order[k]}
      BY <1>7, <2>1
    <3>2. \A m \in 1..n : {i \in 1..n : i <= m} = 1..m
      OBVIOUS
    <3>. QED  BY <2>1, <3>1, <3>2
  <2>3. Cardinality(1..order[k]) = order[k]
    <3>1. \A m \in 1..n : Cardinality(1..m) = m
      BY FS_Interval
    <3>. QED  BY <2>1, <3>1
  <2>. QED  BY <2>1, <2>2, <2>3
<1>. HIDE DEF order
<1>. QED  BY <1>3, <1>4, <1>6, <1>7
(***************************************************************************)
(* FlattenSeq.  The positions of the flat list correspond one to one to    *)
(* the positions in the lists, <<which list, which place in it>>.          *)
(***************************************************************************)

Cells(ss, n) == {c \in (1..n) \X Nat : c[2] \in 1..Len(ss[c[1]])}

\* F says where in flat the first n lists of ss went.
PlacedBy(F, ss, n, flat) ==
  /\ F \in [Cells(ss, n) -> 1..Len(flat)]
  /\ \A c, e \in Cells(ss, n) : F[c] = F[e] => c = e
  /\ \A k \in 1..Len(flat) : \E c \in Cells(ss, n) : F[c] = k
  /\ \A c \in Cells(ss, n) : flat[F[c]] = ss[c[1]][c[2]]

\* The recursive function FlattenSeq chooses exists.
LEMMA FlattenExists ==
  ASSUME NEW ss, Len(ss) \in Nat
  PROVE  \E f : f = [i \in 1..Len(ss) |-> IF i = 1 THEN ss[i] ELSE f[i - 1] \o ss[i]]
<1> DEFINE Solves(f, m) == f = [i \in 1..m |-> IF i = 1 THEN ss[i] ELSE f[i - 1] \o ss[i]]
           D == {m \in Nat : \E f : Solves(f, m)}
<1>1. 0 \in D
  <2>1. Solves([i \in 1..0 |-> 0], 0)
    OBVIOUS
  <2>. HIDE DEF Solves
  <2>. QED  BY <2>1
<1>2. ASSUME NEW m \in D PROVE m + 1 \in D
  <2>1. PICK f : Solves(f, m)
    OBVIOUS
  <2> DEFINE step(i, h) == IF i = 1 THEN ss[i] ELSE h[i - 1] \o ss[i]
             g == [i \in 1..(m + 1) |-> IF i = m + 1 THEN step(i, f) ELSE f[i]]
  <2>2. m \in Nat
    OBVIOUS
  <2>3. \A i \in 1..m : f[i] = step(i, f)
    BY <2>1
  <2>4. \A i \in 1..(m + 1) : i # 1 => i - 1 \in 1..m /\ g[i - 1] = f[i - 1]
    BY <2>2
  <2>5. \A i \in 1..(m + 1) : step(i, g) = step(i, f)
    BY <2>4
  <2>6. \A i \in 1..(m + 1) : g[i] = step(i, f)
    <3>1. \A i \in 1..(m + 1) : i # m + 1 => i \in 1..m
      BY <2>2
    <3>. HIDE DEF step
    <3>. QED  BY <2>3, <3>1
  <2>7. g = [i \in 1..(m + 1) |-> step(i, g)]
    <3>1. \A i \in 1..(m + 1) : g[i] = step(i, g)
      <4>. HIDE DEF g, step
      <4>. QED  BY <2>5, <2>6
    <3>2. g = [i \in 1..(m + 1) |-> g[i]]
      <4>. HIDE DEF step
      <4>. QED  OBVIOUS
    <3>. HIDE DEF g, step
    <3>. QED  BY <3>1, <3>2
  <2>8. Solves(g, m + 1)
    BY <2>7, Zenon
  <2>. HIDE DEF g, Solves
  <2>. QED  BY <2>2, <2>8
<1>3. Len(ss) \in D
  <2>. HIDE DEF D
  <2>1. D \in SUBSET Nat
    BY DEF D
  <2>. QED  BY <1>1, <1>2, <2>1, NatSet
<1>. QED  BY <1>3

LEMMA ConcatPlaced ==
  ASSUME NEW S, NEW ss \in Seq(Seq(S)), NEW m \in Nat, m + 1 \in 1..Len(ss),
         NEW flat \in Seq(S), NEW F, PlacedBy(F, ss, m, flat)
  PROVE  \E G : PlacedBy(G, ss, m + 1, flat \o ss[m + 1])
<1> DEFINE G == [c \in Cells(ss, m + 1) |->
                   IF c[1] = m + 1 THEN Len(flat) + c[2] ELSE F[c]]
           all == flat \o ss[m + 1]
<1>1. /\ ss[m + 1] \in Seq(S) /\ Len(flat) \in Nat /\ Len(ss[m + 1]) \in Nat
      /\ Len(all) = Len(flat) + Len(ss[m + 1])
  OBVIOUS
<1>2. \A k \in 1..Len(flat) : k \in 1..Len(all) /\ all[k] = flat[k]
  BY <1>1, ConcatProperties
<1>3. \A j \in 1..Len(ss[m + 1]) :
        Len(flat) + j \in 1..Len(all) /\ all[Len(flat) + j] = ss[m + 1][j]
  <2>. TAKE j \in 1..Len(ss[m + 1])
  <2>1. Len(flat) + j \in 1..(Len(flat) + Len(ss[m + 1])) /\ ~(Len(flat) + j <= Len(flat))
    BY <1>1
  <2>2. Len(flat) + j - Len(flat) = j
    BY <1>1
  <2>. QED  BY <1>1, <2>1, <2>2, ConcatProperties
<1>4. \A c \in Cells(ss, m + 1) :
        /\ c[1] = m + 1 => c[2] \in 1..Len(ss[m + 1])
        /\ c[1] # m + 1 => c \in Cells(ss, m)
  BY DEF Cells
<1>5. \A c \in Cells(ss, m) : c \in Cells(ss, m + 1) /\ c[1] # m + 1 /\ F[c] \in 1..Len(flat)
  <2>1. \A c \in Cells(ss, m) : c \in Cells(ss, m + 1) /\ c[1] # m + 1
    <3>1. \A i \in 1..m : i \in 1..(m + 1) /\ i # m + 1
      OBVIOUS
    <3>. QED  BY <3>1 DEF Cells
  <2>. QED  BY <2>1 DEF PlacedBy
<1>6. \A j \in 1..Len(ss[m + 1]) : <<m + 1, j>> \in Cells(ss, m + 1)
  BY DEF Cells
<1>7. G \in [Cells(ss, m + 1) -> 1..Len(all)]
  <2>. HIDE DEF all
  <2>. QED  BY <1>2, <1>3, <1>4, <1>5
<1>8. ASSUME NEW c \in Cells(ss, m + 1), NEW e \in Cells(ss, m + 1), G[c] = G[e]
      PROVE  c = e
  <2>1. c = <<c[1], c[2]>> /\ e = <<e[1], e[2]>>
    BY DEF Cells
  <2>2. CASE c[1] = m + 1 /\ e[1] = m + 1
    <3>1. c[2] = e[2]
      BY <1>1, <1>4, <1>8, <2>2
    <3>. QED  BY <2>1, <2>2, <3>1
  <2>3. CASE c[1] # m + 1 /\ e[1] # m + 1
    BY <1>4, <1>8, <2>3 DEF PlacedBy
  <2>4. CASE c[1] = m + 1 /\ e[1] # m + 1
    BY <1>1, <1>4, <1>5, <1>8, <2>4
  <2>5. CASE c[1] # m + 1 /\ e[1] = m + 1
    BY <1>1, <1>4, <1>5, <1>8, <2>5
  <2>. QED  BY <2>2, <2>3, <2>4, <2>5
<1>9. ASSUME NEW k \in 1..Len(all)
      PROVE  \E c \in Cells(ss, m + 1) : G[c] = k
  <2>1. CASE k \in 1..Len(flat)
    <3>1. PICK c \in Cells(ss, m) : F[c] = k
      BY <2>1 DEF PlacedBy
    <3>. QED  BY <1>5, <3>1
  <2>2. CASE k \notin 1..Len(flat)
    <3>1. k - Len(flat) \in 1..Len(ss[m + 1]) /\ Len(flat) + (k - Len(flat)) = k
      BY <1>1, <2>2
    <3>2. G[<<m + 1, k - Len(flat)>>] = k
      BY <1>6, <3>1
    <3>. QED  BY <1>6, <3>1, <3>2
  <2>. QED  BY <2>1, <2>2
<1>10. ASSUME NEW c \in Cells(ss, m + 1)
       PROVE  all[G[c]] = ss[c[1]][c[2]]
  <2>1. CASE c[1] = m + 1
    <3>. HIDE DEF all
    <3>. QED  BY <1>3, <1>4, <2>1
  <2>2. CASE c[1] # m + 1
    <3>. HIDE DEF all
    <3>1. flat[F[c]] = ss[c[1]][c[2]]
      BY <1>4, <2>2 DEF PlacedBy
    <3>. QED  BY <1>2, <1>4, <1>5, <2>2, <3>1
  <2>. QED  BY <2>1, <2>2
<1>11. PlacedBy(G, ss, m + 1, all)
  <2>. HIDE DEF G, all
  <2>. QED  BY <1>7, <1>8, <1>9, <1>10 DEF PlacedBy
<1>. QED  BY <1>11, Zenon

LEMMA FlattenPlaces ==
  ASSUME NEW S, NEW ss \in Seq(Seq(S))
  PROVE  /\ FlattenSeq(ss) \in Seq(S)
         /\ \E F : PlacedBy(F, ss, Len(ss), FlattenSeq(ss))
<1>1. CASE Len(ss) = 0
  <2>1. ss = << >> /\ FlattenSeq(ss) = ss
    BY <1>1 DEF FlattenSeq
  <2>2. Cells(ss, Len(ss)) = {}
    BY <1>1 DEF Cells
  <2>3. PlacedBy([c \in {} |-> 0], ss, Len(ss), FlattenSeq(ss))
    BY <1>1, <2>1, <2>2 DEF PlacedBy
  <2>4. FlattenSeq(ss) \in Seq(S)
    BY <2>1, EmptySeq, Zenon
  <2>. QED  BY <2>3, <2>4, Zenon
<1>2. CASE Len(ss) # 0
  <2> DEFINE n == Len(ss)
             f == CHOOSE h : h = [i \in 1..n |-> IF i = 1 THEN ss[i] ELSE h[i - 1] \o ss[i]]
             D == {m \in Nat : m + 1 \in 1..n =>
                                  /\ f[m + 1] \in Seq(S)
                                  /\ \E F : PlacedBy(F, ss, m + 1, f[m + 1])}
  <2>1. n \in Nat /\ n # 0 /\ \A i \in 1..n : ss[i] \in Seq(S)
    BY <1>2
  <2>2. FlattenSeq(ss) = f[n]
    BY <1>2, Zenon DEF FlattenSeq
  <2>3. f = [i \in 1..n |-> IF i = 1 THEN ss[i] ELSE f[i - 1] \o ss[i]]
    BY <2>1, FlattenExists, Zenon
  <2>. HIDE DEF f
  <2>4. 1 \in 1..n => f[1] = ss[1]
    BY <2>3
  <2>5. \A i \in 1..n : i # 1 => f[i] = f[i - 1] \o ss[i]
    BY <2>3
  <2>6. PlacedBy([c \in Cells(ss, 1) |-> c[2]], ss, 1, ss[1])
    <3>1. \A c \in Cells(ss, 1) : c = <<1, c[2]>> /\ c[1] = 1 /\ c[2] \in 1..Len(ss[1])
      BY DEF Cells
    <3>2. \A j \in 1..Len(ss[1]) : <<1, j>> \in Cells(ss, 1)
      BY <2>1 DEF Cells
    <3>. QED  BY <3>1, <3>2 DEF PlacedBy
  <2>7. 0 \in D
    BY <2>1, <2>4, <2>6
  <2>8. ASSUME NEW m \in D PROVE m + 1 \in D
    <3>1. SUFFICES ASSUME (m + 1) + 1 \in 1..n
                   PROVE  /\ f[(m + 1) + 1] \in Seq(S)
                          /\ \E F : PlacedBy(F, ss, (m + 1) + 1, f[(m + 1) + 1])
      OBVIOUS
    <3>2. /\ m \in Nat /\ m + 1 \in 1..n /\ m + 1 \in Nat
          /\ (m + 1) + 1 # 1 /\ ((m + 1) + 1) - 1 = m + 1
      BY <2>1, <3>1
    <3>3. f[m + 1] \in Seq(S) /\ \E F : PlacedBy(F, ss, m + 1, f[m + 1])
      BY <3>2
    <3>4. f[(m + 1) + 1] = f[m + 1] \o ss[(m + 1) + 1]
      BY <2>5, <3>1, <3>2
    <3>5. f[(m + 1) + 1] \in Seq(S)
      BY <2>1, <3>1, <3>3, <3>4
    <3>6. \E G : PlacedBy(G, ss, (m + 1) + 1, f[(m + 1) + 1])
      BY <3>1, <3>2, <3>3, <3>4, ConcatPlaced
    <3>. QED  BY <3>5, <3>6
  <2>9. n - 1 \in D
    <3>. HIDE DEF D
    <3>1. D \in SUBSET Nat
      BY DEF D
    <3>2. D = Nat
      BY <2>7, <2>8, <3>1, NatSet
    <3>. QED  BY <2>1, <3>2
  <2>10. (n - 1) + 1 = n /\ n \in 1..n
    BY <2>1
  <2>. QED  BY <2>2, <2>9, <2>10
<1>. QED  BY <1>1, <1>2

\* s holds the elements of t that are in Mine, one by one, in some order.
Selects(s, t, Mine) ==
  \E G \in Bijection(1..Len(s), {j \in 1..Len(t) : t[j] \in Mine}) :
    \A k \in 1..Len(s) : s[k] = t[G[k]]

\* N holds the lists of L at some positions; there, and only there, are
\* elements of Mine.
SelectsLists(N, L, Mine, positions, at) ==
  /\ positions \in SUBSET (1..Len(L))
  /\ \A i \in 1..Len(L) : \A j \in 1..Len(L[i]) : L[i][j] \in Mine <=> i \in positions
  /\ at \in Bijection(1..Len(N), positions)
  /\ \A k \in 1..Len(N) : N[k] = L[at[k]]

LEMMA FlattenSelected ==
  ASSUME NEW S, NEW L \in Seq(Seq(S)), NEW N \in Seq(Seq(S)),
         NEW Mine, NEW positions, NEW at, SelectsLists(N, L, Mine, positions, at)
  PROVE  Selects(FlattenSeq(N), FlattenSeq(L), Mine)
<1> DEFINE flatL == FlattenSeq(L)
           flatN == FlattenSeq(N)
           inL == Cells(L, Len(L))
           inN == Cells(N, Len(N))
           mine == {j \in 1..Len(flatL) : flatL[j] \in Mine}
<1>1. PICK C : PlacedBy(C, L, Len(L), flatL)
  BY FlattenPlaces
<1>2. PICK B : PlacedBy(B, N, Len(N), flatN)
  BY FlattenPlaces
<1>3. /\ \A k \in 1..Len(N) : at[k] \in positions /\ at[k] \in 1..Len(L)
      /\ \A k, l \in 1..Len(N) : at[k] = at[l] => k = l
      /\ \A p \in positions : \E k \in 1..Len(N) : at[k] = p
      /\ \A k \in 1..Len(N) : N[k] = L[at[k]]
  BY DEF SelectsLists, Bijection, Injection, Surjection, IsInjective
<1>4. \A i \in 1..Len(L) : \A j \in 1..Len(L[i]) : L[i][j] \in Mine <=> i \in positions
  BY DEF SelectsLists
<1> DEFINE cell == [k \in 1..Len(flatN) |-> CHOOSE c \in inN : B[c] = k]
           moved == [k \in 1..Len(flatN) |-> <<at[cell[k][1]], cell[k][2]>>]
           G == [k \in 1..Len(flatN) |-> C[moved[k]]]
<1>5. \A k \in 1..Len(flatN) : cell[k] \in inN /\ B[cell[k]] = k
  BY <1>2 DEF PlacedBy
<1>6. \A c \in inN : B[c] \in 1..Len(flatN) /\ cell[B[c]] = c
  <2>. TAKE c \in inN
  <2>1. B[c] \in 1..Len(flatN)
    BY <1>2 DEF PlacedBy
  <2>. HIDE DEF cell, inN, flatN
  <2>2. cell[B[c]] \in inN /\ B[cell[B[c]]] = B[c]
    BY <1>5, <2>1
  <2>. QED  BY <1>2, <2>1, <2>2 DEF PlacedBy, inN
<1>7. \A k \in 1..Len(flatN) :
        /\ cell[k][1] \in 1..Len(N) /\ cell[k][2] \in 1..Len(N[cell[k][1]])
        /\ cell[k] = <<cell[k][1], cell[k][2]>>
  <2>1. \A c \in inN : c[1] \in 1..Len(N) /\ c[2] \in 1..Len(N[c[1]]) /\ c = <<c[1], c[2]>>
    BY DEF Cells
  <2>. HIDE DEF cell, inN
  <2>. QED  BY <1>5, <2>1
<1>8. \A i \in 1..Len(L) : \A j \in 1..Len(L[i]) : <<i, j>> \in inL
  BY DEF Cells
<1>9. \A k \in 1..Len(flatN) :
        /\ moved[k] \in inL /\ moved[k][1] = at[cell[k][1]] /\ moved[k][2] = cell[k][2]
        /\ at[cell[k][1]] \in positions /\ N[cell[k][1]] = L[at[cell[k][1]]]
  <2>. TAKE k \in 1..Len(flatN)
  <2> DEFINE i == cell[k][1]
             j == cell[k][2]
  <2>1. moved[k] = <<at[i], j>>
    <3>. HIDE DEF cell
    <3>. QED  OBVIOUS
  <2>2. i \in 1..Len(N) /\ j \in 1..Len(N[i])
    BY <1>7
  <2>3. at[i] \in positions /\ at[i] \in 1..Len(L) /\ N[i] = L[at[i]]
    <3>. HIDE DEF i
    <3>. QED  BY <1>3, <2>2
  <2>4. <<at[i], j>> \in inL
    <3>. HIDE DEF i, j, inL
    <3>. QED  BY <1>8, <2>2, <2>3
  <2>. HIDE DEF moved, inL, cell
  <2>. QED  BY <2>1, <2>3, <2>4
<1>. HIDE DEF cell, inN, inL, flatN, flatL
<1>10. \A k \in 1..Len(flatN) :
        /\ G[k] \in 1..Len(flatL) /\ flatL[G[k]] = flatN[k] /\ flatL[G[k]] \in Mine
  <2>. TAKE k \in 1..Len(flatN)
  <2> DEFINE i == cell[k][1]
             j == cell[k][2]
  <2>1. G[k] = C[moved[k]] /\ G[k] \in 1..Len(flatL) /\ flatL[G[k]] = L[at[i]][j]
    <3>1. G[k] = C[moved[k]]
      <4>. HIDE DEF moved
      <4>. QED  OBVIOUS
    <3>2. moved[k] \in inL /\ moved[k][1] = at[i] /\ moved[k][2] = j
      BY <1>9
    <3>. HIDE DEF moved, G
    <3>3. C[moved[k]] \in 1..Len(flatL)
      BY <1>1, <3>2 DEF PlacedBy, inL
    <3>4. flatL[C[moved[k]]] = L[moved[k][1]][moved[k][2]]
      BY <1>1, <3>2 DEF PlacedBy, inL
    <3>. QED  BY <3>1, <3>2, <3>3, <3>4
  <2>2. flatN[k] = N[i][j]
    BY <1>2, <1>5 DEF PlacedBy, inN
  <2>3. i \in 1..Len(N) /\ at[i] \in positions /\ N[i] = L[at[i]] /\ j \in 1..Len(L[at[i]])
    BY <1>3, <1>7
  <2>4. L[at[i]][j] \in Mine
    <3>1. at[i] \in 1..Len(L)
      BY <1>3, <2>3
    <3>. HIDE DEF i, j
    <3>. QED  BY <1>4, <2>3, <3>1
  <2>. HIDE DEF G, i, j
  <2>. QED  BY <2>1, <2>2, <2>3, <2>4
<1>11. ASSUME NEW k \in 1..Len(flatN), NEW l \in 1..Len(flatN), G[k] = G[l]
       PROVE  k = l
  <2>1. moved[k] = moved[l]
    <3>1. moved[k] \in inL /\ moved[l] \in inL /\ C[moved[k]] = C[moved[l]]
      BY <1>9, <1>11
    <3>. HIDE DEF moved
    <3>. QED  BY <1>1, <3>1 DEF PlacedBy, inL
  <2>2. at[cell[k][1]] = at[cell[l][1]] /\ cell[k][2] = cell[l][2]
    BY <2>1
  <2>3. cell[k][1] = cell[l][1]
    <3>1. cell[k][1] \in 1..Len(N) /\ cell[l][1] \in 1..Len(N)
      BY <1>7
    <3>2. \A a, b \in 1..Len(N) : at[a] = at[b] => a = b
      BY <1>3
    <3> DEFINE a == cell[k][1]
               b == cell[l][1]
    <3>3. a \in 1..Len(N) /\ b \in 1..Len(N) /\ at[a] = at[b]
      BY <2>2, <3>1, Zenon
    <3>. HIDE DEF a, b
    <3>4. a = b
      BY <3>2, <3>3, Zenon
    <3>. QED  BY <3>4 DEF a, b
  <2>4. <<cell[k][1], cell[k][2]>> = <<cell[l][1], cell[l][2]>>
    BY <2>2, <2>3
  <2>5. cell[k] = cell[l]
    BY <1>7, <2>4, Zenon
  <2>. QED  BY <1>5, <2>5
<1>12. ASSUME NEW j \in mine
       PROVE  \E k \in 1..Len(flatN) : G[k] = j
  <2>1. PICK e \in inL : C[e] = j
    BY <1>1 DEF PlacedBy, inL
  <2>2. e[1] \in 1..Len(L) /\ e[2] \in 1..Len(L[e[1]]) /\ e = <<e[1], e[2]>>
    BY DEF inL, Cells
  <2>3. flatL[j] = L[e[1]][e[2]]
    BY <1>1, <2>1 DEF PlacedBy, inL
  <2>4. e[1] \in positions
    BY <1>4, <2>2, <2>3
  <2>5. PICK q \in 1..Len(N) : at[q] = e[1]
    BY <1>3, <2>4
  <2>6. <<q, e[2]>> \in inN
    <3>1. N[q] = L[at[q]]
      BY <1>3
    <3>2. N[q] = L[e[1]]
      BY <2>5, <3>1, Zenon
    <3>3. e[2] \in Nat
      BY <2>2
    <3>. QED  BY <2>2, <3>2, <3>3 DEF inN, Cells
  <2> DEFINE k == B[<<q, e[2]>>]
  <2>7. k \in 1..Len(flatN) /\ cell[k] = <<q, e[2]>>
    BY <1>6, <2>6
  <2>8. moved[k] = e
    <3>. HIDE DEF k
    <3>1. moved[k] = <<at[cell[k][1]], cell[k][2]>>
      BY <2>7
    <3>2. cell[k][1] = q /\ cell[k][2] = e[2]
      BY <2>7
    <3>3. moved[k] = <<e[1], e[2]>>
      BY <2>5, <3>1, <3>2
    <3>. QED  BY <2>2, <3>3, Zenon
  <2>. HIDE DEF k, moved
  <2>. QED  BY <2>1, <2>7, <2>8
<1>13. G \in Bijection(1..Len(flatN), mine)
  <2>1. G \in [1..Len(flatN) -> mine]
    BY <1>10
  <2>. HIDE DEF G, mine
  <2>. QED  BY <1>11, <1>12, <2>1, Fun_IsBij
<1>. HIDE DEF G
<1>14. \E H \in Bijection(1..Len(flatN), mine) :
         \A k \in 1..Len(flatN) : flatN[k] = flatL[H[k]]
  BY <1>10, <1>13
<1>. QED  BY <1>14, Zenon DEF flatN, flatL, Selects
==============================================================================
