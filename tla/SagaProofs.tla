---------------------------- MODULE SagaProofs ----------------------------
(***************************************************************************)
(* What the saga runner owes, for every set of receipts and every bound:   *)
(* no compensation commits more often than its operation was performed,    *)
(* an effect that stands is owed, and an obligation that claims a receipt  *)
(* finds one.                                                              *)
(*                                                                         *)
(* The argument counts: each operation performed is owed once, in what was *)
(* captured or in the obligations, until it is reversed.  The first part   *)
(* is about counting the members of a sequence.                            *)
(***************************************************************************)
EXTENDS Saga, FiniteSetTheorems, FunctionTheorems, TLAPS

-----------------------------------------------------------------------------
(* Counting.                                                                *)

\* How often r occurs in the whole of s.
Times(s, r) == Occurs(s, r, DOMAIN s)

\* A receipt occurs at finitely many of finitely many positions.
LEMMA OccursFinite ==
    ASSUME NEW s, NEW r, NEW P, IsFiniteSet(P)
    PROVE  /\ IsFiniteSet({i \in P : s[i] = r})
           /\ Occurs(s, r, P) \in Nat
<1>1. {i \in P : s[i] = r} \in SUBSET P
  OBVIOUS
<1>2. IsFiniteSet({i \in P : s[i] = r})
  BY <1>1, FS_Subset
<1> QED
  BY <1>2, FS_CardinalityType DEF Occurs

\* A sequence has finitely many positions.
LEMMA TimesNat ==
    ASSUME NEW S, NEW s \in Seq(S), NEW r
    PROVE  /\ IsFiniteSet(DOMAIN s)
           /\ Times(s, r) \in Nat
<1>1. DOMAIN s = 1..Len(s) /\ Len(s) \in Nat
  OBVIOUS
<1>2. IsFiniteSet(1..Len(s))
  BY <1>1, FS_Interval
<1> QED
  BY <1>1, <1>2, OccursFinite DEF Times

\* Positions that are told apart are counted apart.
LEMMA OccursSplit ==
    ASSUME NEW s, NEW r, NEW P, NEW Q, IsFiniteSet(P), IsFiniteSet(Q),
           P \cap Q = {}
    PROVE  Occurs(s, r, P \cup Q) = Occurs(s, r, P) + Occurs(s, r, Q)
<1> DEFINE A == {i \in P : s[i] = r}
           B == {i \in Q : s[i] = r}
<1>1. IsFiniteSet(A) /\ IsFiniteSet(B)
  BY OccursFinite
<1>2. {i \in P \cup Q : s[i] = r} = A \cup B
  OBVIOUS
<1>3. A \cap B = {}
  OBVIOUS
<1>4. Cardinality(A \cap B) = 0
  BY <1>3, FS_EmptySet
<1>5. Cardinality(A) \in Nat /\ Cardinality(B) \in Nat
  BY <1>1, FS_CardinalityType
<1> HIDE DEF A, B
<1>6. Cardinality(A \cup B) = Cardinality(A) + Cardinality(B) - Cardinality(A \cap B)
  BY <1>1, FS_Union
<1>7. Cardinality(A \cup B) = Cardinality(A) + Cardinality(B)
  BY <1>4, <1>5, <1>6
<1> QED
  BY <1>2, <1>7 DEF Occurs, A, B

\* More positions never count less.
LEMMA OccursGrows ==
    ASSUME NEW s, NEW r, NEW Q, IsFiniteSet(Q), NEW P \in SUBSET Q
    PROVE  Occurs(s, r, P) <= Occurs(s, r, Q)
<1>1. IsFiniteSet({i \in Q : s[i] = r})
  BY OccursFinite
<1>2. {i \in P : s[i] = r} \in SUBSET {i \in Q : s[i] = r}
  OBVIOUS
<1> QED
  BY <1>1, <1>2, FS_Subset DEF Occurs

\* A bijection of positions that keeps the receipts keeps the count.
LEMMA OccursMoved ==
    ASSUME NEW s, NEW t, NEW r, NEW P, NEW Q, IsFiniteSet(P),
           NEW f \in Bijection(P, Q), \A i \in P : s[i] = t[f[i]]
    PROVE  Occurs(s, r, P) = Occurs(t, r, Q)
<1> DEFINE A == {i \in P : s[i] = r}
           B == {j \in Q : t[j] = r}
           g == [i \in A |-> f[i]]
<1>1. f \in [P -> Q]
      /\ (\A a, b \in P : f[a] = f[b] => a = b)
      /\ (\A j \in Q : \E i \in P : f[i] = j)
  BY DEF Bijection, Injection, Surjection, IsInjective
<1>2. g \in [A -> B]
  BY <1>1
<1>3. \A a, b \in A : g[a] = g[b] => a = b
  BY <1>1
<1>4. \A j \in B : \E i \in A : g[i] = j
  <2> SUFFICES ASSUME NEW j \in B PROVE \E i \in A : g[i] = j
    OBVIOUS
  <2>1. PICK i \in P : f[i] = j
    BY <1>1
  <2>2. i \in A
    BY <2>1
  <2> QED
    BY <2>1, <2>2
<1>5. g \in Bijection(A, B)
  BY <1>2, <1>3, <1>4 DEF Bijection, Injection, Surjection, IsInjective
<1>6. IsFiniteSet(A)
  BY OccursFinite
<1> HIDE DEF A, B, g
<1>7. Cardinality(B) = Cardinality(A)
  BY <1>5, <1>6, FS_Bijection DEF ExistsBijection
<1> QED
  BY <1>7 DEF Occurs, A, B

\* w holds u, and v behind it.
Joined(u, v, w) ==
    /\ Len(w) = Len(u) + Len(v)
    /\ \A i \in 1..Len(u) : w[i] = u[i]
    /\ \A i \in 1..Len(v) : w[Len(u) + i] = v[i]

\* ... and counts both.
LEMMA TimesJoined ==
    ASSUME NEW S, NEW u \in Seq(S), NEW v \in Seq(S), NEW w \in Seq(S),
           NEW r, Joined(u, v, w)
    PROVE  Times(w, r) = Times(u, r) + Times(v, r)
<1> DEFINE P == 1..Len(u)
           Q == (Len(u) + 1)..(Len(u) + Len(v))
           f == [i \in 1..Len(v) |-> Len(u) + i]
<1> USE DEF Joined
<1>1. Len(u) \in Nat /\ Len(v) \in Nat
  OBVIOUS
<1>2. DOMAIN w = P \cup Q /\ P \cap Q = {} /\ DOMAIN u = P /\ DOMAIN v = 1..Len(v)
  BY <1>1
<1>3. IsFiniteSet(P) /\ IsFiniteSet(Q) /\ IsFiniteSet(1..Len(v))
  BY <1>1, FS_Interval
<1>4. Occurs(w, r, P) = Times(u, r)
  <2>1. {i \in P : w[i] = r} = {i \in P : u[i] = r}
    OBVIOUS
  <2> QED
    BY <1>2, <2>1 DEF Times, Occurs
<1>5. f \in Bijection(1..Len(v), Q)
  <2>1. f \in [1..Len(v) -> Q]
    BY <1>1
  <2>2. \A a, b \in 1..Len(v) : f[a] = f[b] => a = b
    BY <1>1
  <2>3. \A j \in Q : \E i \in 1..Len(v) : f[i] = j
    <3> SUFFICES ASSUME NEW j \in Q PROVE \E i \in 1..Len(v) : f[i] = j
      OBVIOUS
    <3>1. j - Len(u) \in 1..Len(v) /\ f[j - Len(u)] = j
      BY <1>1
    <3> QED
      BY <3>1
  <2> QED
    BY <2>1, <2>2, <2>3 DEF Bijection, Injection, Surjection, IsInjective
<1>6. \A i \in 1..Len(v) : v[i] = w[f[i]]
  OBVIOUS
<1> HIDE DEF f, Q, P
<1>7. Times(v, r) = Occurs(w, r, Q)
  BY <1>2, <1>3, <1>5, <1>6, OccursMoved, SMTT(30) DEF Times
<1>8. Occurs(w, r, P \cup Q) = Occurs(w, r, P) + Occurs(w, r, Q)
  BY <1>2, <1>3, OccursSplit
<1> QED
  BY <1>2, <1>4, <1>7, <1>8 DEF Times

\* A sequence of one receipt, and the empty one.
LEMMA TimesOne ==
    ASSUME NEW x, NEW r
    PROVE  /\ Times(<<x>>, r) = IF x = r THEN 1 ELSE 0
           /\ Times(<<>>, r) = 0
<1>1. {i \in DOMAIN <<x>> : <<x>>[i] = r} = IF x = r THEN {1} ELSE {}
  OBVIOUS
<1>2. {i \in DOMAIN <<>> : <<>>[i] = r} = {}
  OBVIOUS
<1>3. Cardinality({1}) = 1 /\ Cardinality({}) = 0
  BY FS_Singleton, FS_EmptySet
<1> QED
  BY <1>1, <1>2, <1>3 DEF Times, Occurs

-----------------------------------------------------------------------------
(* The members of a sequence at some of its positions.                      *)

\* The rank of a position orders the positions.
LEMMA Ranked ==
    ASSUME NEW P \in SUBSET Nat, IsFiniteSet(P)
    PROVE  [i \in P |-> Rank(P, i)] \in Bijection(P, 1..Cardinality(P))
<1> DEFINE below(i) == {j \in P : j <= i}
           g == [i \in P |-> Rank(P, i)]
           n == Cardinality(P)
<1>1. n \in Nat
  BY FS_CardinalityType
<1>2. ASSUME NEW i \in P
      PROVE  /\ IsFiniteSet(below(i)) /\ Rank(P, i) = Cardinality(below(i))
             /\ Rank(P, i) \in 1..n
  <2>1. below(i) \in SUBSET P /\ i \in below(i)
    OBVIOUS
  <2>2. IsFiniteSet(below(i)) /\ Cardinality(below(i)) <= n
    BY <2>1, FS_Subset
  <2>3. Cardinality(below(i)) \in Nat
    BY <2>2, FS_CardinalityType
  <2>4. Cardinality(below(i)) # 0
    BY <2>1, <2>2, FS_EmptySet
  <2> QED
    BY <1>1, <2>2, <2>3, <2>4 DEF Rank
<1>3. ASSUME NEW i \in P, NEW j \in P, i < j
      PROVE  Rank(P, i) # Rank(P, j)
  <2>0. i \in Nat /\ j \in Nat
    OBVIOUS
  <2>1. below(i) \in SUBSET below(j) /\ below(i) # below(j)
    <3>1. j \in below(j) /\ j \notin below(i)
      BY <1>3, <2>0
    <3>2. \A k \in P : k <= i => k <= j
      BY <1>3, <2>0
    <3> QED
      BY <3>1, <3>2
  <2>2. IsFiniteSet(below(j)) /\ Rank(P, i) = Cardinality(below(i))
        /\ Rank(P, j) = Cardinality(below(j))
    BY <1>2
  <2> QED
    BY <2>1, <2>2, FS_Subset
<1>4. ASSUME NEW i \in P, NEW j \in P, Rank(P, i) = Rank(P, j)
      PROVE  i = j
  <2>1. i \in Nat /\ j \in Nat
    OBVIOUS
  <2>2. ~(i < j) /\ ~(j < i)
    BY <1>3, <1>4
  <2> QED
    BY <2>1, <2>2
<1>5. g \in Injection(P, 1..n)
  <2>1. g \in [P -> 1..n]
    BY <1>2
  <2>2. \A i, j \in P : g[i] = g[j] => i = j
    BY <1>4
  <2> QED
    BY <2>1, <2>2 DEF Injection, IsInjective
<1>6. IsFiniteSet(1..n) /\ Cardinality(1..n) = n
  BY <1>1, FS_Interval
<1> HIDE DEF g, n
<1>7. g \in Surjection(P, 1..n)
  BY <1>5, <1>6, FS_Injection DEF n
<1> QED
  BY <1>5, <1>7 DEF Bijection, g, n

\* The k-th of the positions P.
Place(P, k) == CHOOSE i \in P : Rank(P, i) = k

\* Places and positions correspond one to one.
LEMMA Placed ==
    ASSUME NEW P \in SUBSET Nat, IsFiniteSet(P)
    PROVE  [k \in 1..Cardinality(P) |-> Place(P, k)] \in Bijection(1..Cardinality(P), P)
<1> DEFINE g == [i \in P |-> Rank(P, i)]
           n == Cardinality(P)
           f == [k \in 1..n |-> Place(P, k)]
<1>1. /\ g \in [P -> 1..n]
      /\ \A i, j \in P : g[i] = g[j] => i = j
      /\ \A k \in 1..n : \E i \in P : g[i] = k
  <2>1. g \in Bijection(P, 1..n)
    BY Ranked
  <2> HIDE DEF g, n
  <2> QED
    BY <2>1 DEF Bijection, Injection, Surjection, IsInjective
<1>2. ASSUME NEW k \in 1..n
      PROVE  f[k] \in P /\ g[f[k]] = k
  <2>1. \E i \in P : Rank(P, i) = k
    BY <1>1
  <2>2. Place(P, k) \in P /\ Rank(P, Place(P, k)) = k
    BY <2>1 DEF Place
  <2> QED
    BY <2>2
<1>3. f \in [1..n -> P]
  BY <1>2
<1>4. \A k, l \in 1..n : f[k] = f[l] => k = l
  <2> HIDE DEF f, g
  <2> QED
    BY <1>2
<1>5. \A i \in P : \E k \in 1..n : f[k] = i
  <2> HIDE DEF f, g
  <2> SUFFICES ASSUME NEW i \in P PROVE \E k \in 1..n : f[k] = i
    OBVIOUS
  <2>1. g[i] \in 1..n
    BY <1>1
  <2>2. f[g[i]] \in P /\ g[f[g[i]]] = g[i]
    BY <1>2, <2>1
  <2> QED
    BY <1>1, <2>1, <2>2
<1> HIDE DEF f
<1>6. f \in Bijection(1..n, P)
  BY <1>3, <1>4, <1>5 DEF Bijection, Injection, Surjection, IsInjective
<1> QED
  BY <1>6 DEF f

\* The members at P make a sequence, each of them is one of s at a position of
\* P, and each receipt occurs in it as often as in s at P.
LEMMA AtPositions ==
    ASSUME NEW S, NEW s \in Seq(S), NEW P \in SUBSET DOMAIN s
    PROVE  /\ At(s, P) \in Seq(S)
           /\ \A k \in DOMAIN At(s, P) : \E i \in P : At(s, P)[k] = s[i]
           /\ At(s, P) = <<>> <=> P = {}
           /\ Len(At(s, P)) = Cardinality(P)
           /\ \A k \in 1..Cardinality(P) : Place(P, k) \in P /\ At(s, P)[k] = s[Place(P, k)]
           /\ \A r : Times(At(s, P), r) = Occurs(s, r, P)
<1> DEFINE n == Cardinality(P)
           f == [k \in 1..n |-> Place(P, k)]
           a == At(s, P)
<1>1. IsFiniteSet(P) /\ P \in SUBSET Nat
  <2>1. IsFiniteSet(DOMAIN s) /\ DOMAIN s = 1..Len(s)
    BY TimesNat
  <2> QED
    BY <2>1, FS_Subset
<1>2. n \in Nat /\ (n = 0 <=> P = {})
  BY <1>1, FS_CardinalityType, FS_EmptySet
<1>3. f \in Bijection(1..n, P)
  BY <1>1, Placed
<1>4. /\ f \in [1..n -> P]
      /\ \A k \in 1..n : Place(P, k) \in P
  <2>1. f \in [1..n -> P]
    <3> HIDE DEF f
    <3> QED
      BY <1>3 DEF Bijection, Injection
  <2> QED
    BY <2>1
<1>5. a = [k \in 1..n |-> s[Place(P, k)]]
  BY DEF At, Place
<1>6. \A i \in P : s[i] \in S
  OBVIOUS
<1>7. a \in Seq(S) /\ Len(a) = n /\ DOMAIN a = 1..n
  <2>1. a \in [1..n -> S]
    BY <1>4, <1>5, <1>6
  <2> HIDE DEF a, n
  <2>2. a \in Seq(S)
    BY <1>2, <2>1
  <2>3. DOMAIN a = 1..n
    BY <2>1
  <2> QED
    BY <1>2, <2>2, <2>3
<1>8. \A k \in 1..n : a[k] = s[Place(P, k)]
  BY <1>5
<1>9. \A k \in 1..n : a[k] = s[f[k]]
  BY <1>8
<1>10. IsFiniteSet(1..n)
  BY <1>2, FS_Interval
<1>11. ASSUME NEW r PROVE Times(a, r) = Occurs(s, r, P)
  <2> HIDE DEF a, f, n
  <2> QED
    BY <1>3, <1>7, <1>9, <1>10, OccursMoved DEF Times
<1>12. a = <<>> <=> P = {}
  <2> HIDE DEF a, f, n
  <2> QED
    BY <1>2, <1>7
<1> QED
  BY <1>4, <1>7, <1>8, <1>11, <1>12

-----------------------------------------------------------------------------
(* Obligations and their receipts.                                          *)

\* The receipts of obligations, at the same positions.
LEMMA AtomsShape ==
    ASSUME NEW c \in Seq(Obligations)
    PROVE  /\ Atoms(c) \in Seq(Receipts) /\ Len(Atoms(c)) = Len(c)
           /\ DOMAIN Atoms(c) = DOMAIN c /\ DOMAIN c = 1..Len(c)
           /\ \A i \in DOMAIN c : Atoms(c)[i] = c[i].atom
<1>1. \A i \in DOMAIN c : c[i].atom \in Receipts
  <2>1. \A i \in DOMAIN c : c[i] \in Obligations
    OBVIOUS
  <2> QED
    BY <2>1 DEF Obligations
<1>2. DOMAIN c = 1..Len(c) /\ Len(c) \in Nat
  OBVIOUS
<1>3. Atoms(c) \in [1..Len(c) -> Receipts]
  BY <1>1, <1>2 DEF Atoms
<1> QED
  BY <1>2, <1>3 DEF Atoms

\* The obligations for captured receipts.
LEMMA OwingShape ==
    ASSUME NEW s \in Seq(Receipts), NEW b \in BOOLEAN
    PROVE  /\ Owing(s, b) \in Seq(Obligations) /\ Len(Owing(s, b)) = Len(s)
           /\ \A i \in 1..Len(s) : Owing(s, b)[i] = [atom |-> s[i], journalled |-> b]
           /\ \A i \in 1..Len(s) : Owing(s, b)[i].atom = s[i] /\ Owing(s, b)[i].journalled = b
           /\ Atoms(Owing(s, b)) = s
<1>1. DOMAIN s = 1..Len(s) /\ Len(s) \in Nat
  OBVIOUS
<1>2. Owing(s, b) \in [1..Len(s) -> Obligations]
  BY <1>1 DEF Owing, Obligations
<1>3. Owing(s, b) \in Seq(Obligations)
  BY <1>1, <1>2
<1>4. \A i \in 1..Len(s) : Owing(s, b)[i] = [atom |-> s[i], journalled |-> b]
  BY <1>1 DEF Owing
<1>5. Len(Owing(s, b)) = Len(s)
  BY <1>1, <1>2
<1>6. Atoms(Owing(s, b)) = s
  <2>1. Atoms(Owing(s, b)) \in Seq(Receipts) /\ Len(Atoms(Owing(s, b))) = Len(s)
        /\ \A i \in 1..Len(s) : Atoms(Owing(s, b))[i] = s[i]
    <3>1. \A i \in 1..Len(s) : Owing(s, b)[i].atom = s[i]
      BY <1>1 DEF Owing
    <3>2. DOMAIN Owing(s, b) = 1..Len(s)
      BY <1>3, <1>5
    <3> QED
      BY <1>3, <1>5, <3>1, <3>2, AtomsShape
  <2> QED
    BY <2>1
<1>7. \A i \in 1..Len(s) : Owing(s, b)[i].atom = s[i] /\ Owing(s, b)[i].journalled = b
  BY <1>1 DEF Owing
<1> QED
  BY <1>3, <1>4, <1>5, <1>6, <1>7

\* Obligations recorded behind others leave these in place.
LEMMA Recorded ==
    ASSUME NEW c \in Seq(Obligations), NEW d \in Seq(Obligations)
    PROVE  /\ c \o d \in Seq(Obligations) /\ Len(c \o d) = Len(c) + Len(d)
           /\ \A i \in 1..Len(c) : (c \o d)[i] = c[i]
           /\ \A i \in 1..Len(d) : (c \o d)[Len(c) + i] = d[i]
OBVIOUS

\* ... and are counted with them.
LEMMA TimesRecorded ==
    ASSUME NEW c \in Seq(Obligations), NEW d \in Seq(Obligations), NEW r
    PROVE  Times(Atoms(c \o d), r) = Times(Atoms(c), r) + Times(Atoms(d), r)
<1>1. c \o d \in Seq(Obligations) /\ Len(c \o d) = Len(c) + Len(d)
  OBVIOUS
<1>2. \A i \in 1..Len(c) : (c \o d)[i] = c[i]
  OBVIOUS
<1>3. \A i \in 1..Len(d) : (c \o d)[Len(c) + i] = d[i]
  OBVIOUS
<1> DEFINE u == Atoms(c)
           v == Atoms(d)
           w == Atoms(c \o d)
<1>4. /\ u \in Seq(Receipts) /\ v \in Seq(Receipts) /\ w \in Seq(Receipts)
      /\ Len(u) = Len(c) /\ Len(v) = Len(d) /\ Len(w) = Len(u) + Len(v)
  BY <1>1, AtomsShape
<1>5. /\ \A i \in 1..Len(c) : u[i] = c[i].atom
      /\ \A i \in 1..Len(d) : v[i] = d[i].atom
      /\ \A i \in 1..(Len(c) + Len(d)) : w[i] = (c \o d)[i].atom
  BY <1>1, AtomsShape
<1>6. \A i \in 1..Len(u) : w[i] = u[i]
  <2> HIDE DEF u, v, w
  <2> QED
    BY <1>2, <1>4, <1>5
<1>7. \A i \in 1..Len(v) : w[Len(u) + i] = v[i]
  <2> HIDE DEF u, v, w
  <2>1. Len(u) \in Nat /\ Len(v) \in Nat
    BY <1>4
  <2>2. \A i \in 1..Len(v) : Len(u) + i \in 1..(Len(c) + Len(d))
    BY <1>4, <2>1
  <2> QED
    BY <1>3, <1>4, <1>5, <2>2, ZenonT(60)
<1> HIDE DEF u, v, w
<1>8. Times(w, r) = Times(u, r) + Times(v, r)
  <2>1. u \in Seq(Receipts) /\ v \in Seq(Receipts) /\ w \in Seq(Receipts)
    BY <1>4
  <2>2. Len(w) = Len(u) + Len(v)
    BY <1>4
  <2>3. Joined(u, v, w)
    BY <2>2, <1>6, <1>7 DEF Joined
  <2> QED
    BY <2>1, <2>3, TimesJoined
<1> QED
  BY <1>8 DEF u, v, w

\* The obligations at some positions have the receipts at these positions.
LEMMA TimesAt ==
    ASSUME NEW c \in Seq(Obligations), NEW P \in SUBSET DOMAIN c, NEW r
    PROVE  Times(Atoms(At(c, P)), r) = Occurs(Atoms(c), r, P)
<1>1. /\ Atoms(c) \in Seq(Receipts) /\ DOMAIN Atoms(c) = DOMAIN c
      /\ \A i \in DOMAIN c : Atoms(c)[i] = c[i].atom
  BY AtomsShape
<1>2. /\ At(c, P) \in Seq(Obligations) /\ Len(At(c, P)) = Cardinality(P)
      /\ \A k \in 1..Cardinality(P) : Place(P, k) \in P /\ At(c, P)[k] = c[Place(P, k)]
  BY AtPositions
<1>3. /\ At(Atoms(c), P) \in Seq(Receipts) /\ Len(At(Atoms(c), P)) = Cardinality(P)
      /\ \A k \in 1..Cardinality(P) : At(Atoms(c), P)[k] = Atoms(c)[Place(P, k)]
      /\ Times(At(Atoms(c), P), r) = Occurs(Atoms(c), r, P)
  BY <1>1, AtPositions
<1>4. Atoms(At(c, P)) \in Seq(Receipts) /\ Len(Atoms(At(c, P))) = Cardinality(P)
  BY <1>2, AtomsShape
<1>5. \A k \in 1..Cardinality(P) : Atoms(At(c, P))[k] = At(Atoms(c), P)[k]
  BY <1>1, <1>2, <1>3, AtomsShape
<1>6. Atoms(At(c, P)) = At(Atoms(c), P)
  BY <1>3, <1>4, <1>5
<1> QED
  BY <1>3, <1>6

-----------------------------------------------------------------------------
(* The inductive invariant.                                                 *)

\* A step that was rolled back, and that nobody has judged yet.
Unrecorded == pc = "after" /\ Len(committed) = start

\* How often r is owed by an obligation, and by a captured receipt: while the
\* body of a step runs, and until its obligations, or the receipts of what
\* survived, are written.
Owes(r) == Times(Atoms(committed), r)
Held(r) == IF pc \in {"body", "persist"} \/ Unrecorded THEN Times(pending, r) ELSE 0

\* The effects of the engine do not survive a step that was rolled back.
Survives(r) == IF Unrecorded /\ r \notin Host THEN 0 ELSE Held(r)

\* What the locals of the operation say of the obligations: those of a step
\* lie behind start, and the plan lists the latest first.
PhaseInv ==
    /\ pc \notin {"body", "after", "persist"} => pending = <<>>
    /\ pc = "body" => start = Len(committed)
    /\ pc = "after" =>
          \/ Len(committed) = start
          \/ /\ Len(committed) = start + Len(pending)
             /\ \A i \in 1..Len(pending) : committed[start + i].atom = pending[i]
    /\ pc = "preflight" => start <= Len(committed)
    /\ pc = "undo" =>
          /\ Len(committed) = start + Len(plan)
          /\ \A k \in 1..Len(plan) : plan[k].atom = committed[Len(committed) + 1 - k].atom

\* While a step runs, whatever it captured stands.
BodyInv == pc = "body" => \A r \in Receipts : Times(pending, r) <= standing[r]

ShapeInv == TypeOK /\ PhaseInv /\ BodyInv

\* Every operation performed is owed at most once, until it is reversed.
LedgerInv ==
    \A r \in Receipts : reversed[r] + Owes(r) + Held(r) <= performed[r]

\* Every effect that stands is owed, but for those let go.
StandingInv ==
    \A r \in Receipts : standing[r] <= Owes(r) + Survives(r) + forgotten[r]

\* A step of the plan that takes a receipt.
Taken(r) == [atom |-> r, stored |-> TRUE]

\* The plan takes the receipt of every journalled obligation of the pass.
PlanInv ==
    pc = "undo" =>
        \A k \in 1..Len(plan) :
            committed[Len(committed) + 1 - k].journalled => plan[k].stored

\* Each journalled obligation has a receipt, but for those of a step that has
\* not been judged, and so has each step of the plan that takes one.
Claimed(r) == Occurs(committed, Journalled(r), IF pc = "after" THEN 1..start ELSE DOMAIN committed)

StoredInv ==
    ~tampered =>
        \A r \in Receipts :
            /\ Claimed(r) <= receipts[r] + astray[r]
            /\ pc = "undo" => Times(plan, Taken(r)) <= receipts[r]

\* An operation that was begun on a failed runner is a rollback.
CallInv == pc # "idle" => ~failed \/ by = "rollback"

-----------------------------------------------------------------------------
(* Bags of receipts.                                                        *)

\* Captured receipts are added one by one.
LEMMA WithCounts ==
    ASSUME NEW bag \in [Receipts -> Nat], NEW s \in Seq(Receipts)
    PROVE  /\ With(bag, s) \in [Receipts -> Nat]
           /\ \A r \in Receipts : With(bag, s)[r] = bag[r] + Times(s, r)
<1>1. \A r \in Receipts : Times(s, r) \in Nat
  BY TimesNat
<1>2. With(bag, s) = [r \in Receipts |-> bag[r] + Times(s, r)]
  BY DEF With, Times
<1> QED
  BY <1>1, <1>2

\* What a bag holds can be taken out of it.
LEMMA WithoutCounts ==
    ASSUME NEW bag \in [Receipts -> Nat], NEW s \in Seq(Receipts),
           NEW P \in SUBSET DOMAIN s,
           \A r \in Receipts : Times(s, r) <= bag[r]
    PROVE  /\ Without(bag, s, P) \in [Receipts -> Nat]
           /\ \A r \in Receipts : /\ Without(bag, s, P)[r] = bag[r] - Occurs(s, r, P)
                                  /\ Without(bag, s, P)[r] <= bag[r]
<1>1. ASSUME NEW r \in Receipts
      PROVE  /\ Occurs(s, r, P) \in Nat /\ Times(s, r) \in Nat
             /\ Occurs(s, r, P) <= Times(s, r)
  <2>1. IsFiniteSet(DOMAIN s) /\ Times(s, r) \in Nat
    BY TimesNat
  <2>2. IsFiniteSet(P)
    BY <2>1, FS_Subset
  <2> QED
    BY <2>1, <2>2, OccursFinite, OccursGrows DEF Times
<1>2. ASSUME NEW r \in Receipts
      PROVE  /\ bag[r] - Occurs(s, r, P) \in Nat
             /\ bag[r] - Occurs(s, r, P) <= bag[r]
  <2>1. bag[r] \in Nat /\ Times(s, r) <= bag[r]
    OBVIOUS
  <2> QED
    BY <1>1, <2>1
<1>3. Without(bag, s, P) = [r \in Receipts |-> bag[r] - Occurs(s, r, P)]
  BY DEF Without
<1> QED
  BY <1>2, <1>3

\* One receipt is taken out, if there is one.
LEMMA LessCounts ==
    ASSUME NEW bag \in [Receipts -> Nat], NEW r \in Receipts
    PROVE  /\ Less(bag, r) \in [Receipts -> Nat]
           /\ Less(bag, r)[r] = IF bag[r] = 0 THEN 0 ELSE bag[r] - 1
           /\ \A q \in Receipts \ {r} : Less(bag, r)[q] = bag[q]
BY DEF Less

\* What survives the rollback of the engine are the receipts of the host.
LEMMA UnenlistedCounts ==
    ASSUME NEW s \in Seq(Receipts)
    PROVE  /\ Unenlisted(s) \in Seq(Receipts)
           /\ \A r \in Receipts :
                 Times(Unenlisted(s), r) = IF r \in Host THEN Times(s, r) ELSE 0
<1> DEFINE P == {i \in DOMAIN s : s[i] \in Host}
<1>1. P \in SUBSET DOMAIN s
  OBVIOUS
<1>2. /\ Unenlisted(s) \in Seq(Receipts)
      /\ \A r : Times(Unenlisted(s), r) = Occurs(s, r, P)
  BY <1>1, AtPositions DEF Unenlisted
<1>3. ASSUME NEW r \in Receipts
      PROVE  Occurs(s, r, P) = IF r \in Host THEN Times(s, r) ELSE 0
  <2>1. CASE r \in Host
    <3>1. {i \in P : s[i] = r} = {i \in DOMAIN s : s[i] = r}
      BY <2>1
    <3> QED
      BY <2>1, <3>1 DEF Occurs, Times
  <2>2. CASE r \notin Host
    <3>1. {i \in P : s[i] = r} = {}
      BY <2>2
    <3> QED
      BY <2>2, <3>1, FS_EmptySet DEF Occurs
  <2> QED
    BY <2>1, <2>2
<1> QED
  BY <1>2, <1>3

\* All members are counted at the positions of some and of the others.
LEMMA TimesPart ==
    ASSUME NEW s \in Seq(Receipts), NEW P \in SUBSET DOMAIN s, NEW r
    PROVE  /\ Occurs(s, r, P) \in Nat /\ Occurs(s, r, DOMAIN s \ P) \in Nat
           /\ Times(s, r) = Occurs(s, r, DOMAIN s \ P) + Occurs(s, r, P)
<1>1. IsFiniteSet(DOMAIN s)
  BY TimesNat
<1>2. IsFiniteSet(P) /\ IsFiniteSet(DOMAIN s \ P)
  BY <1>1, FS_Subset
<1>3. (DOMAIN s \ P) \cap P = {} /\ (DOMAIN s \ P) \cup P = DOMAIN s
  OBVIOUS
<1>4. Occurs(s, r, P) \in Nat /\ Occurs(s, r, DOMAIN s \ P) \in Nat
  BY <1>2, OccursFinite
<1> DEFINE Q == DOMAIN s \ P
<1> HIDE DEF Q
<1>5. Occurs(s, r, Q \cup P) = Occurs(s, r, Q) + Occurs(s, r, P)
  BY <1>2, <1>3, OccursSplit DEF Q
<1> QED
  BY <1>3, <1>4, <1>5 DEF Times, Q

-----------------------------------------------------------------------------
(* The steps that change what is owed, and by how much.                     *)

\* An operation that answers is captured once.
LEMMA PerformCounts ==
    ASSUME TypeOK, NEW r \in Receipts, Perform(r)
    PROVE  /\ pending' \in Seq(Receipts) /\ Len(pending') = Len(pending) + 1
           /\ Times(pending', r) = Times(pending, r) + 1
           /\ \A q \in Receipts \ {r} : Times(pending', q) = Times(pending, q)
<1>1. pending \in Seq(Receipts) /\ pending' = Append(pending, r)
  BY DEF TypeOK, Perform
<1>2. /\ pending' \in Seq(Receipts) /\ <<r>> \in Seq(Receipts)
      /\ Len(pending') = Len(pending) + Len(<<r>>) /\ Len(<<r>>) = 1
      /\ \A i \in 1..Len(pending) : pending'[i] = pending[i]
      /\ \A i \in 1..Len(<<r>>) : pending'[Len(pending) + i] = <<r>>[i]
  BY <1>1
<1> DEFINE one == <<r>>
<1> HIDE DEF one
<1>3. ASSUME NEW q
      PROVE  Times(pending', q) = Times(pending, q) + Times(one, q)
  <2>1. pending' \in Seq(Receipts) /\ pending \in Seq(Receipts) /\ one \in Seq(Receipts)
    BY <1>1, <1>2 DEF one
  <2>2. Len(pending') = Len(pending) + Len(one)
    BY <1>2 DEF one
  <2>3. \A i \in 1..Len(pending) : pending'[i] = pending[i]
    BY <1>2
  <2>4. \A i \in 1..Len(one) : pending'[Len(pending) + i] = one[i]
    BY <1>2 DEF one
  <2>5. Joined(pending, one, pending')
    BY <2>2, <2>3, <2>4 DEF Joined
  <2> QED
    BY <2>1, <2>5, TimesJoined
<1>4. \A q : Times(pending, q) \in Nat
  BY <1>1, TimesNat
<1>5. \A q : Times(one, q) = IF r = q THEN 1 ELSE 0
  BY TimesOne DEF one
<1> QED
  BY <1>2, <1>3, <1>4, <1>5

\* What survived is recorded behind the other obligations.
LEMMA PersistCounts ==
    ASSUME TypeOK, NEW kept \in BOOLEAN, committed' = committed \o Retained(pending, kept)
    PROVE  /\ committed' \in Seq(Obligations)
           /\ Len(committed') = Len(committed) + Len(pending)
           /\ \A i \in 1..Len(committed) : committed'[i] = committed[i]
           /\ \A i \in 1..Len(pending) :
                 /\ committed'[Len(committed) + i].atom = pending[i]
                 /\ committed'[Len(committed) + i].journalled = kept
           /\ \A r : Times(Atoms(committed'), r) = Times(Atoms(committed), r) + Times(pending, r)
<1>1. committed \in Seq(Obligations) /\ pending \in Seq(Receipts)
  BY DEF TypeOK
<1> DEFINE o == Retained(pending, kept)
<1>2. /\ o \in Seq(Obligations) /\ Len(o) = Len(pending)
      /\ \A i \in 1..Len(pending) : o[i].atom = pending[i] /\ o[i].journalled = kept
      /\ Atoms(o) = pending
  BY <1>1, OwingShape DEF Retained
<1> HIDE DEF o
<1>3. committed' = committed \o o
  BY DEF o
<1>4. \A r : Times(Atoms(committed'), r)
             = Times(Atoms(committed), r) + Times(Atoms(o), r)
  BY <1>1, <1>2, <1>3, TimesRecorded
<1>5. /\ committed' \in Seq(Obligations) /\ Len(committed') = Len(committed) + Len(o)
      /\ \A i \in 1..Len(committed) : committed'[i] = committed[i]
      /\ \A i \in 1..Len(o) : committed'[Len(committed) + i] = o[i]
  <2>1. o \in Seq(Obligations)
    BY <1>2
  <2>2. /\ committed \o o \in Seq(Obligations)
        /\ Len(committed \o o) = Len(committed) + Len(o)
        /\ \A i \in 1..Len(committed) : (committed \o o)[i] = committed[i]
        /\ \A i \in 1..Len(o) : (committed \o o)[Len(committed) + i] = o[i]
    BY <1>1, <2>1, Recorded
  <2> QED
    BY <1>3, <2>2
<1> QED
  BY <1>2, <1>4, <1>5

\* A step that commits turns its receipts into obligations.
LEMMA CommitCounts ==
    ASSUME TypeOK, committed' = committed \o Owing(pending, TRUE)
    PROVE  /\ committed' \in Seq(Obligations)
           /\ Len(committed') = Len(committed) + Len(pending)
           /\ \A i \in 1..Len(committed) : committed'[i] = committed[i]
           /\ \A i \in 1..Len(pending) :
                 /\ committed'[Len(committed) + i].atom = pending[i]
                 /\ committed'[Len(committed) + i].journalled = TRUE
           /\ \A r : Times(Atoms(committed'), r) = Times(Atoms(committed), r) + Times(pending, r)
<1>1. committed' = committed \o Retained(pending, TRUE)
  BY DEF Retained
<1> QED
  BY <1>1, PersistCounts

\* A step with a mixed outcome is kept as it is, with no receipt to claim.
LEMMA MixedCounts ==
    ASSUME TypeOK, PhaseInv, pc = "after",
           committed' = SubSeq(committed, 1, start) \o Owing(pending, FALSE)
    PROVE  /\ committed' \in Seq(Obligations)
           /\ Len(committed') = start + Len(pending) /\ start <= Len(committed)
           /\ \A i \in 1..start : committed'[i] = committed[i]
           /\ \A i \in 1..Len(pending) : ~committed'[start + i].journalled
           /\ \A r : Times(Atoms(committed'), r) = Owes(r) + Held(r)
<1> DEFINE c == SubSeq(committed, 1, start)
           o == Owing(pending, FALSE)
<1>1. /\ committed \in Seq(Obligations) /\ pending \in Seq(Receipts) /\ start \in Nat
      /\ Len(pending) \in Nat
  BY DEF TypeOK
<1>2. start <= Len(committed)
  BY <1>1 DEF PhaseInv
<1>3. /\ c \in Seq(Obligations) /\ Len(c) = start
      /\ \A i \in 1..start : c[i] = committed[i]
  BY <1>1, <1>2
<1>4. o \in Seq(Obligations) /\ Len(o) = Len(pending) /\ Atoms(o) = pending
  BY <1>1, OwingShape
<1>5. \A i \in 1..Len(pending) : o[i].atom = pending[i] /\ ~o[i].journalled
  BY <1>1, OwingShape
<1>6. committed' = c \o o
  OBVIOUS
<1> HIDE DEF c, o
<1>7. /\ committed' \in Seq(Obligations) /\ Len(committed') = start + Len(pending)
      /\ \A i \in 1..start : committed'[i] = committed[i]
      /\ \A i \in 1..Len(pending) : committed'[start + i] = o[i]
  <2>1. /\ c \o o \in Seq(Obligations) /\ Len(c \o o) = Len(c) + Len(o)
        /\ \A i \in 1..Len(c) : (c \o o)[i] = c[i]
        /\ \A i \in 1..Len(o) : (c \o o)[Len(c) + i] = o[i]
    BY <1>3, <1>4, Recorded
  <2> QED
    BY <1>3, <1>4, <1>6, <2>1
<1>8. ASSUME NEW r PROVE Times(Atoms(committed'), r) = Times(Atoms(c), r) + Times(pending, r)
  <2> HIDE DEF c, o
  <2>1. Times(Atoms(c \o o), r) = Times(Atoms(c), r) + Times(Atoms(o), r)
    BY <1>3, <1>4, TimesRecorded
  <2> QED
    BY <1>4, <1>6, <2>1
<1>9. CASE Len(committed) = start
  <2>1. c = committed
    <3>1. \A i \in 1..Len(committed) : c[i] = committed[i]
      BY <1>3, <1>9
    <3> QED
      BY <1>1, <1>3, <1>9, <3>1
  <2>2. \A r : Held(r) = Times(pending, r)
    BY <1>9 DEF Held, Unrecorded
  <2> QED
    BY <1>2, <1>5, <1>7, <1>8, <2>1, <2>2 DEF Owes
<1>10. CASE Len(committed) # start
  <2>1. /\ Len(committed) = start + Len(pending)
        /\ \A i \in 1..Len(pending) : committed[start + i].atom = pending[i]
    BY <1>10 DEF PhaseInv
  <2>2. \A r : Held(r) = 0
    BY <1>10 DEF Held, Unrecorded
  <2>3. Atoms(committed') = Atoms(committed)
    <3>1. \A i \in 1..Len(committed) : committed'[i].atom = committed[i].atom
      <4> SUFFICES ASSUME NEW i \in 1..Len(committed), i \notin 1..start
                   PROVE  committed'[i].atom = committed[i].atom
        BY <1>7
      <4>1. i - start \in 1..Len(pending) /\ i = start + (i - start)
        BY <1>1, <2>1
      <4>2. committed'[start + (i - start)] = o[i - start]
        BY <1>7, <4>1
      <4>3. committed[start + (i - start)].atom = pending[i - start]
        BY <2>1, <4>1
      <4> QED
        BY <1>5, <4>1, <4>2, <4>3
    <3>2. /\ Atoms(committed') \in Seq(Receipts) /\ Len(Atoms(committed')) = Len(committed)
          /\ \A i \in 1..Len(committed) : Atoms(committed')[i] = committed'[i].atom
      BY <1>7, <2>1, AtomsShape
    <3>3. /\ Atoms(committed) \in Seq(Receipts) /\ Len(Atoms(committed)) = Len(committed)
          /\ \A i \in 1..Len(committed) : Atoms(committed)[i] = committed[i].atom
      BY <1>1, AtomsShape
    <3>4. \A i \in 1..Len(committed) : Atoms(committed')[i] = Atoms(committed)[i]
      BY <3>1, <3>2, <3>3
    <3> DEFINE a == Atoms(committed) b == Atoms(committed')
    <3>5. a \in Seq(Receipts) /\ b \in Seq(Receipts) /\ Len(a) = Len(b)
          /\ \A i \in 1..Len(a) : b[i] = a[i]
      BY <3>2, <3>3, <3>4
    <3> HIDE DEF a, b
    <3>6. a = b
      BY <3>5
    <3> QED
      BY <3>6 DEF a, b
  <2>4. \A r : Owes(r) \in Nat
    <3>1. Atoms(committed) \in Seq(Receipts)
      BY <1>1, AtomsShape
    <3> QED
      BY <3>1, TimesNat DEF Owes
  <2>5. ASSUME NEW r PROVE Times(Atoms(committed'), r) = Owes(r) + Held(r)
    <3>1. Owes(r) = Times(Atoms(committed'), r)
      BY <2>3 DEF Owes
    <3>2. Owes(r) \in Nat /\ Held(r) = 0
      BY <2>2, <2>4
    <3>3. Owes(r) + Held(r) = Owes(r)
      BY <3>2
    <3> QED
      BY <3>1, <3>3
  <2>6. \A i \in 1..Len(pending) : ~committed'[start + i].journalled
    BY <1>5, <1>7
  <2> QED
    BY <1>2, <1>7, <2>5, <2>6
<1> QED
  BY <1>9, <1>10

\* The receipts of a step that has gone are captured again, and what is durable
\* stays owed: together they are what was owed.
LEMMA DurableCounts ==
    ASSUME TypeOK
    PROVE  LET kept == At(committed, DOMAIN committed \ Undurable)
               survivors == Atoms(At(committed, Undurable))
           IN /\ kept \in Seq(Obligations) /\ survivors \in Seq(Receipts)
              /\ survivors = <<>> <=> Undurable = {}
              /\ \A k \in DOMAIN kept :
                    \E i \in DOMAIN committed \ Undurable : kept[k] = committed[i]
              /\ \A r : Times(Atoms(kept), r) + Times(survivors, r) = Times(Atoms(committed), r)
<1> DEFINE U == Undurable
           D == DOMAIN committed \ U
           gone == At(committed, U)
           kept == At(committed, D)
<1>1. committed \in Seq(Obligations) /\ start \in Nat
  BY DEF TypeOK
<1>2. U \in SUBSET DOMAIN committed /\ D \in SUBSET DOMAIN committed
  <2>1. U \in SUBSET ((start + 1)..Len(committed))
    BY DEF Undurable
  <2>2. \A i \in (start + 1)..Len(committed) : i \in DOMAIN committed
    BY <1>1
  <2> QED
    BY <2>1, <2>2
<1> HIDE DEF U
<1>3. gone \in Seq(Obligations) /\ (gone = <<>> <=> U = {})
  <2> HIDE DEF D
  <2> QED
    BY <1>1, <1>2, AtPositions
<1>4. /\ kept \in Seq(Obligations)
      /\ \A k \in DOMAIN kept : \E i \in D : kept[k] = committed[i]
  <2> HIDE DEF D
  <2> QED
    BY <1>1, <1>2, AtPositions
<1>5. ASSUME NEW r
      PROVE  Times(Atoms(kept), r) + Times(Atoms(gone), r) = Times(Atoms(committed), r)
  <2>1. /\ Atoms(committed) \in Seq(Receipts)
        /\ DOMAIN Atoms(committed) = DOMAIN committed
    BY <1>1, AtomsShape
  <2>2. Times(Atoms(committed), r)
           = Occurs(Atoms(committed), r, D) + Occurs(Atoms(committed), r, U)
    BY <1>2, <2>1, TimesPart
  <2>3. Times(Atoms(kept), r) = Occurs(Atoms(committed), r, D)
    BY <1>1, <1>2, TimesAt
  <2>4. Times(Atoms(gone), r) = Occurs(Atoms(committed), r, U)
    BY <1>1, <1>2, TimesAt
  <2> QED
    BY <2>2, <2>3, <2>4
<1> HIDE DEF gone, kept
<1>6. Atoms(gone) \in Seq(Receipts) /\ (Atoms(gone) = <<>> <=> gone = <<>>)
  <2>1. Atoms(gone) \in Seq(Receipts) /\ Len(Atoms(gone)) = Len(gone)
    BY <1>3, AtomsShape
  <2> QED
    BY <1>3, <2>1
<1>7. Atoms(gone) = <<>> <=> U = {}
  BY <1>3, <1>6
<1> HIDE DEF D
<1> QED
  BY <1>4, <1>5, <1>6, <1>7 DEF gone, kept, U, D

\* A compensation retires the latest obligation.
LEMMA FrontCounts ==
    ASSUME NEW c \in Seq(Obligations), Len(c) > 0
    PROVE  /\ Front(c) \in Seq(Obligations) /\ Len(Front(c)) = Len(c) - 1
           /\ \A i \in 1..(Len(c) - 1) : Front(c)[i] = c[i]
           /\ \A r : Times(Atoms(c), r)
                     = Times(Atoms(Front(c)), r) + IF c[Len(c)].atom = r THEN 1 ELSE 0
<1> DEFINE u == Atoms(Front(c))
           w == Atoms(c)
           x == c[Len(c)].atom
           v == <<x>>
<1>1. /\ Front(c) \in Seq(Obligations) /\ Len(Front(c)) = Len(c) - 1
      /\ \A i \in 1..(Len(c) - 1) : Front(c)[i] = c[i]
  <2>1. Len(c) \in Nat /\ Len(c) - 1 \in Nat
    OBVIOUS
  <2>2. \A i \in 1..(Len(c) - 1) : c[i] \in Obligations
    OBVIOUS
  <2>3. Front(c) = [i \in 1..(Len(c) - 1) |-> c[i]]
    BY <2>1 DEF Front
  <2> QED
    BY <2>1, <2>2, <2>3
<1>2. x \in Receipts /\ Len(c) \in Nat /\ Len(c) \in 1..Len(c)
  <2>1. c[Len(c)] \in Obligations
    OBVIOUS
  <2> QED
    BY <2>1 DEF Obligations
<1>3. /\ u \in Seq(Receipts) /\ Len(u) = Len(c) - 1
      /\ \A i \in 1..(Len(c) - 1) : u[i] = Front(c)[i].atom
  BY <1>1, AtomsShape
<1>4. /\ w \in Seq(Receipts) /\ Len(w) = Len(c)
      /\ \A i \in 1..Len(c) : w[i] = c[i].atom
  BY AtomsShape
<1>5. v \in Seq(Receipts) /\ Len(v) = 1 /\ v[1] = x
  BY <1>2
<1>6. w[Len(c)] = x
  BY <1>2, <1>4
<1> HIDE DEF u, v, w, x
<1>7. \A i \in 1..Len(u) : w[i] = u[i]
  BY <1>1, <1>2, <1>3, <1>4
<1>8. \A i \in 1..Len(v) : w[Len(u) + i] = v[i]
  <2> SUFFICES ASSUME NEW i \in 1..Len(v) PROVE w[Len(u) + i] = v[i]
    OBVIOUS
  <2>1. i = 1 /\ Len(u) + i = Len(c)
    BY <1>2, <1>3, <1>5
  <2> QED
    BY <1>5, <1>6, <2>1
<1>9. Len(w) = Len(u) + Len(v)
  BY <1>2, <1>3, <1>4, <1>5
<1>10. ASSUME NEW r PROVE Times(w, r) = Times(u, r) + Times(v, r)
  <2>1. u \in Seq(Receipts) /\ v \in Seq(Receipts) /\ w \in Seq(Receipts)
    BY <1>3, <1>4, <1>5
  <2>2. Joined(u, v, w)
    BY <1>7, <1>8, <1>9 DEF Joined
  <2> QED
    BY <2>1, <2>2, TimesJoined
<1>11. \A r : Times(v, r) = IF x = r THEN 1 ELSE 0
  BY TimesOne DEF v
<1> QED
  BY <1>1, <1>10, <1>11 DEF u, w, x

\* The plan lists the obligations of the pass, the latest first.
LEMMA PlanReversed ==
    ASSUME TypeOK, start <= Len(committed), NEW steps,
           steps = Reverse([k \in 1..(Len(committed) - start) |->
                              [atom |-> committed[start + k].atom, stored |-> Stored(start + k)]])
    PROVE  /\ steps \in Seq([atom : Receipts, stored : BOOLEAN])
           /\ Len(committed) = start + Len(steps)
           /\ \A k \in 1..Len(steps) : /\ steps[k].atom = committed[Len(committed) + 1 - k].atom
                                       /\ steps[k].stored = Stored(Len(committed) + 1 - k)
<1> DEFINE n == Len(committed) - start
           s == [k \in 1..n |->
                   [atom |-> committed[start + k].atom, stored |-> Stored(start + k)]]
           Steps == [atom : Receipts, stored : BOOLEAN]
<1>1. committed \in Seq(Obligations) /\ start \in Nat /\ n \in Nat
  BY DEF TypeOK
<1>2. ASSUME NEW k \in 1..n
      PROVE  /\ committed[start + k].atom \in Receipts
             /\ Stored(start + k) \in BOOLEAN
  <2>1. start + k \in 1..Len(committed)
    BY <1>1
  <2>2. committed[start + k] \in Obligations
    BY <1>1, <2>1
  <2>3. committed[start + k].atom \in Receipts
    BY <2>2 DEF Obligations
  <2>4. Stored(start + k) \in BOOLEAN
    <3>1. \A a, b : (a < b) \in BOOLEAN
      OBVIOUS
    <3> QED
      BY <3>1, Zenon DEF Stored
  <2> QED
    BY <2>3, <2>4
<1>3. s \in [1..n -> Steps]
  BY <1>2
<1>4. \A k \in 1..n : s[k].atom = committed[start + k].atom /\ s[k].stored = Stored(start + k)
  OBVIOUS
<1> HIDE DEF s
<1>5. s \in Seq(Steps) /\ Len(s) = n
  <2> HIDE DEF Steps, n
  <2> QED
    BY <1>1, <1>3
<1>6. steps = [k \in 1..n |-> s[(n - k) + 1]]
  <2>1. steps = Reverse(s)
    BY DEF s
  <2> HIDE DEF n
  <2> QED
    BY <1>5, <2>1 DEF Reverse
<1>7. \A k \in 1..n : (n - k) + 1 \in 1..n
  BY <1>1
<1>8. steps \in [1..n -> Steps]
  <2> HIDE DEF Steps, n
  <2> QED
    BY <1>3, <1>6, <1>7
<1>9. steps \in Seq(Steps) /\ Len(steps) = n
  <2> HIDE DEF Steps, n
  <2> QED
    BY <1>1, <1>8
<1>10. ASSUME NEW k \in 1..n
       PROVE  /\ steps[k].atom = committed[Len(committed) + 1 - k].atom
              /\ steps[k].stored = Stored(Len(committed) + 1 - k)
  <2>1. steps[k] = s[(n - k) + 1]
    BY <1>6
  <2>2. /\ s[(n - k) + 1].atom = committed[start + ((n - k) + 1)].atom
        /\ s[(n - k) + 1].stored = Stored(start + ((n - k) + 1))
    BY <1>4, <1>7
  <2>3. start + ((n - k) + 1) = Len(committed) + 1 - k
    BY <1>1
  <2> QED
    BY <2>1, <2>2, <2>3
<1>11. Len(committed) = start + Len(steps)
  <2>1. Len(committed) = start + n
    BY <1>1
  <2> HIDE DEF n, Steps
  <2> QED
    BY <1>9, <2>1
<1>12. \A k \in 1..Len(steps) : /\ steps[k].atom = committed[Len(committed) + 1 - k].atom
                                /\ steps[k].stored = Stored(Len(committed) + 1 - k)
  <2> HIDE DEF Steps, n
  <2> QED
    BY <1>9, <1>10
<1> QED
  BY <1>9, <1>11, <1>12

-----------------------------------------------------------------------------
(* Types, the locals of the operation, and what a step captured.            *)

\* The runner starts at rest, with nothing owed.
LEMMA ShapeInit ==
    ASSUME Init
    PROVE  ShapeInv
<1>1. <<>> \in Seq(Obligations) /\ <<>> \in Seq(Receipts)
      /\ <<>> \in Seq([atom : Receipts, stored : BOOLEAN])
  OBVIOUS
<1>2. Nothing \in [Receipts -> Nat]
  BY DEF Nothing
<1>3. /\ handle \in 1..MaxScopes \cup {None}
      /\ observers \subseteq 1..MaxScopes /\ closing \subseteq 1..MaxScopes
      /\ scopes \in 0..MaxScopes /\ others \in 0..MaxForeign
  BY SagaAssumption DEF Init
<1>4. /\ entered \in BOOLEAN /\ failed \in BOOLEAN /\ foreign \in BOOLEAN
      /\ lost \in BOOLEAN /\ tampered \in BOOLEAN
      /\ pc \in Places /\ by \in {"run", "rollback", "exit"} /\ start \in Nat
  BY DEF Init, Places
<1>5. TypeOK
  BY <1>1, <1>2, <1>3, <1>4 DEF Init, TypeOK
<1> QED
  BY <1>5 DEF Init, ShapeInv, PhaseInv, BodyInv

\* Steps that leave the operation, the obligations and the effects alone.
LEMMA ShapeFrame ==
    ASSUME ShapeInv, UNCHANGED <<committed, standing, locals>>, TypeOK'
    PROVE  ShapeInv'
BY DEF ShapeInv, PhaseInv, BodyInv, locals

\* An operation that is over leaves nothing behind.
LEMMA ShapeDone ==
    ASSUME Done, TypeOK'
    PROVE  ShapeInv'
BY DEF Done, ShapeInv, PhaseInv, BodyInv

\* The context and the other writers.
LEMMA ShapeOutside ==
    ASSUME ShapeInv,
           \/ Enter \/ ExitKeeping \/ Close \/ \E s \in closing : CloseEnds(s)
           \/ \E r \in Receipts : WriteReceipt(r) \/ RemoveReceipt(r)
    PROVE  ShapeInv'
<1> USE SagaAssumption
<1>1. TypeOK
  BY DEF ShapeInv
<1>2. CASE Enter
  <2>1. UNCHANGED <<committed, standing, locals>>
    BY <1>2 DEF Enter, history
  <2>2. TypeOK'
    BY <1>1, <1>2 DEF Enter, TypeOK, locals, world, history
  <2> QED
    BY <2>1, <2>2, ShapeFrame
<1>3. CASE ExitKeeping
  <2>1. /\ committed' \in Seq(Obligations) /\ standing' \in [Receipts -> Nat]
        /\ forgotten' \in [Receipts -> Nat] /\ astray' \in [Receipts -> Nat]
    <3>1. <<>> \in Seq(Obligations) /\ Nothing \in [Receipts -> Nat]
      BY DEF Nothing
    <3>2. \/ UNCHANGED <<committed, standing, forgotten, astray>>
          \/ /\ committed' = <<>> /\ standing' = Nothing
             /\ forgotten' = Nothing /\ astray' = Nothing
      BY <1>3 DEF ExitKeeping
    <3> QED
      BY <1>1, <3>1, <3>2 DEF TypeOK
  <2>2. TypeOK'
    BY <1>1, <1>3, <2>1 DEF ExitKeeping, TypeOK, locals, world, history
  <2>3. pc' = "idle" /\ pending' = <<>>
    BY <1>3 DEF ExitKeeping, ShapeInv, PhaseInv, Unlocked, locals
  <2> QED
    BY <2>2, <2>3 DEF ShapeInv, PhaseInv, BodyInv
<1>4. CASE Close
  <2>1. UNCHANGED <<committed, standing, locals>>
    BY <1>4 DEF Close, history
  <2>2. TypeOK'
    BY <1>1, <1>4 DEF Close, TypeOK, locals, world, history
  <2> QED
    BY <2>1, <2>2, ShapeFrame
<1>5. ASSUME NEW s \in closing, CloseEnds(s)
      PROVE  ShapeInv'
  <2>1. UNCHANGED <<committed, standing, locals>>
    BY <1>5 DEF CloseEnds, history
  <2>2. TypeOK'
    BY <1>1, <1>5 DEF CloseEnds, TypeOK, locals, world, history
  <2> QED
    BY <2>1, <2>2, ShapeFrame
<1>6. ASSUME NEW r \in Receipts, WriteReceipt(r)
      PROVE  ShapeInv'
  <2>1. UNCHANGED <<committed, standing, locals>>
    BY <1>6 DEF WriteReceipt, history
  <2>2. receipts' \in [Receipts -> Nat] /\ others' \in 0..MaxForeign /\ foreign' \in BOOLEAN
    <3>1. receipts' \in [Receipts -> Nat]
      <4>1. receipts \in [Receipts -> Nat] /\ receipts' = [receipts EXCEPT ![r] = @ + 1]
        BY <1>1, <1>6 DEF WriteReceipt, TypeOK
      <4> QED
        BY <4>1
    <3>2. foreign' \in BOOLEAN
      BY <1>6, Zenon DEF WriteReceipt
    <3>3. others' \in 0..MaxForeign
      BY <1>1, <1>6 DEF WriteReceipt, TypeOK
    <3> QED
      BY <3>1, <3>2, <3>3
  <2>3. TypeOK'
    BY <1>1, <1>6, <2>2 DEF WriteReceipt, TypeOK, locals, history
  <2> QED
    BY <2>1, <2>3, ShapeFrame
<1>7. ASSUME NEW r \in Receipts, RemoveReceipt(r)
      PROVE  ShapeInv'
  <2>1. UNCHANGED <<committed, standing, locals>>
    BY <1>7 DEF RemoveReceipt, history
  <2>2. receipts' \in [Receipts -> Nat]
    BY <1>1, <1>7, LessCounts DEF RemoveReceipt, TypeOK
  <2>3. TypeOK'
    BY <1>1, <1>7, <2>2 DEF RemoveReceipt, TypeOK, scope, locals, history
  <2> QED
    BY <2>1, <2>3, ShapeFrame
<1> QED
  BY <1>2, <1>3, <1>4, <1>5, <1>6, <1>7

\* The types of the operation's locals.
LocalsOK ==
    /\ pc \in Places /\ by \in {"run", "rollback", "exit"} /\ start \in Nat
    /\ pending \in Seq(Receipts) /\ lost \in BOOLEAN
    /\ plan \in Seq([atom : Receipts, stored : BOOLEAN])

\* The locals of an operation that is over are typed.
LEMMA DoneTyped ==
    ASSUME Done
    PROVE  LocalsOK'
<1>1. <<>> \in Seq(Receipts) /\ <<>> \in Seq([atom : Receipts, stored : BOOLEAN])
  OBVIOUS
<1> QED
  BY <1>1 DEF Done, LocalsOK, Places

\* ... and so are those of one that goes on to write what survived.
LEMMA RecoverTyped ==
    ASSUME TypeOK, NEW s \in Seq(Receipts), Recover(s), pc \in {"body", "after"},
           lost' \in BOOLEAN
    PROVE  /\ LocalsOK'
           /\ TypeOK' => ShapeInv'
           /\ \A r : Held(r)' = Times(s, r) /\ Survives(r)' = Times(s, r)
<1>1. CASE s = <<>> /\ Done
  <2>1. \A r : Held(r)' = 0 /\ Survives(r)' = 0
    BY <1>1 DEF Done, Held, Survives, Unrecorded
  <2>2. \A r : Times(s, r) = 0
    BY <1>1, TimesOne
  <2> QED
    BY <1>1, <2>1, <2>2, DoneTyped, ShapeDone
<1>2. CASE s # <<>> /\ pending' = s /\ pc' = "persist" /\ UNCHANGED <<by, start, lost, plan>>
  <2>1. LocalsOK'
    BY <1>2 DEF LocalsOK, TypeOK, Places
  <2>2. \A r : Held(r)' = Times(s, r) /\ Survives(r)' = Times(s, r)
    BY <1>2 DEF Held, Survives, Unrecorded
  <2>3. TypeOK' => ShapeInv'
    BY <1>2 DEF ShapeInv, PhaseInv, BodyInv
  <2> QED
    BY <2>1, <2>2, <2>3
<1> QED
  BY <1>1, <1>2 DEF Recover

\* Types are typed locals and the rest.
LEMMA TypesFrom ==
    ASSUME TypeOK, LocalsOK', UNCHANGED <<scope, world>>,
           failed' \in BOOLEAN, committed' \in Seq(Obligations),
           receipts' \in [Receipts -> Nat], performed' \in [Receipts -> Nat],
           reversed' \in [Receipts -> Nat], standing' \in [Receipts -> Nat],
           forgotten' \in [Receipts -> Nat], astray' \in [Receipts -> Nat]
    PROVE  TypeOK'
BY DEF TypeOK, LocalsOK, scope, world

\* A step begins and captures.
LEMMA ShapeBody ==
    ASSUME ShapeInv, Run \/ \E r \in Receipts : Perform(r)
    PROVE  ShapeInv'
<1>1. TypeOK
  BY DEF ShapeInv
<1>2. CASE Run
  <2>1. Len(committed) \in Nat
    BY <1>1 DEF TypeOK
  <2>2. LocalsOK'
    BY <1>1, <1>2, <2>1 DEF Run, TypeOK, LocalsOK, Places
  <2>3. TypeOK'
    BY <1>1, <1>2, <2>2, TypesFrom DEF Run, TypeOK, history
  <2>4. pending' = <<>> /\ start' = Len(committed') /\ pc' = "body"
    BY <1>2 DEF Run, Unlocked, ShapeInv, PhaseInv, history
  <2>5. PhaseInv'
    BY <2>4 DEF PhaseInv
  <2>6. BodyInv'
    <3>1. \A r \in Receipts : Times(pending', r) = 0
      BY <2>4, TimesOne
    <3>2. \A r \in Receipts : standing'[r] \in Nat
      BY <2>3 DEF TypeOK
    <3> QED
      BY <3>1, <3>2 DEF BodyInv
  <2> QED
    BY <2>3, <2>5, <2>6 DEF ShapeInv
<1>3. ASSUME NEW r \in Receipts, Perform(r)
      PROVE  ShapeInv'
  <2>1. /\ pending' \in Seq(Receipts)
        /\ Times(pending', r) = Times(pending, r) + 1
        /\ \A q \in Receipts \ {r} : Times(pending', q) = Times(pending, q)
    BY <1>1, <1>3, PerformCounts
  <2>2. /\ standing' \in [Receipts -> Nat] /\ performed' \in [Receipts -> Nat]
        /\ standing'[r] = standing[r] + 1
        /\ \A q \in Receipts \ {r} : standing'[q] = standing[q]
    <3>1. /\ standing \in [Receipts -> Nat] /\ performed \in [Receipts -> Nat]
          /\ standing' = [standing EXCEPT ![r] = @ + 1]
          /\ performed' = [performed EXCEPT ![r] = @ + 1]
      BY <1>1, <1>3 DEF Perform, TypeOK
    <3> QED
      BY <3>1
  <2>3. LocalsOK'
    BY <1>1, <1>3, <2>1 DEF Perform, TypeOK, LocalsOK
  <2>4. TypeOK'
    BY <1>1, <1>3, <2>2, <2>3, TypesFrom DEF Perform, TypeOK
  <2>5. pc = "body" /\ pc' = "body" /\ UNCHANGED <<committed, start>>
    BY <1>3 DEF Perform
  <2>6. PhaseInv'
    BY <2>5 DEF ShapeInv, PhaseInv
  <2>7. BodyInv'
    <3>1. \A q \in Receipts : Times(pending, q) <= standing[q]
      BY <2>5 DEF ShapeInv, BodyInv
    <3>2. \A q \in Receipts : Times(pending, q) \in Nat /\ standing[q] \in Nat
      BY <1>1, TimesNat DEF TypeOK
    <3>3. Times(pending', r) <= standing'[r]
      BY <2>1, <2>2, <3>1, <3>2
    <3>4. \A q \in Receipts \ {r} : Times(pending', q) <= standing'[q]
      BY <2>1, <2>2, <3>1
    <3> QED
      BY <3>3, <3>4 DEF BodyInv
  <2> QED
    BY <2>4, <2>6, <2>7 DEF ShapeInv
<1> QED
  BY <1>2, <1>3

\* What a step captured can be undone.
LEMMA CapturedStands ==
    ASSUME ShapeInv, pc = "body"
    PROVE  /\ pending \in Seq(Receipts) /\ standing \in [Receipts -> Nat]
           /\ \A P \in SUBSET DOMAIN pending :
                 /\ Without(standing, pending, P) \in [Receipts -> Nat]
                 /\ \A r \in Receipts :
                       /\ Without(standing, pending, P)[r]
                             = standing[r] - Occurs(pending, r, P)
                       /\ Without(standing, pending, P)[r] <= standing[r]
<1>1. /\ pending \in Seq(Receipts) /\ standing \in [Receipts -> Nat]
      /\ \A r \in Receipts : Times(pending, r) <= standing[r]
  BY DEF ShapeInv, TypeOK, BodyInv
<1> QED
  BY <1>1, WithoutCounts

\* The last disjunct of AfterStep: the question raises.
Unanswered ==
    /\ forgotten' = IF Len(committed) = start THEN With(forgotten, Unenlisted(pending)) ELSE forgotten
    /\ astray' = With(astray, Atoms(At(committed, Undurable)))
    /\ Done /\ UNCHANGED <<committed, failed>>

\* What it lets go, and what it leaves without a receipt.
LEMMA UnansweredCounts ==
    ASSUME TypeOK, Unanswered
    PROVE  /\ forgotten' \in [Receipts -> Nat] /\ astray' \in [Receipts -> Nat]
           /\ \A r \in Receipts :
                 /\ Len(committed) = start =>
                       forgotten'[r] = forgotten[r] + IF r \in Host THEN Times(pending, r) ELSE 0
                 /\ Len(committed) # start => forgotten'[r] = forgotten[r]
                 /\ astray'[r] = astray[r] + Times(Atoms(At(committed, Undurable)), r)
<1>1. /\ forgotten \in [Receipts -> Nat] /\ astray \in [Receipts -> Nat]
      /\ pending \in Seq(Receipts)
  BY DEF TypeOK
<1>2. /\ Unenlisted(pending) \in Seq(Receipts)
      /\ \A r \in Receipts :
            Times(Unenlisted(pending), r) = IF r \in Host THEN Times(pending, r) ELSE 0
  BY <1>1, UnenlistedCounts
<1>3. Atoms(At(committed, Undurable)) \in Seq(Receipts)
  BY DurableCounts
<1>4. /\ With(forgotten, Unenlisted(pending)) \in [Receipts -> Nat]
      /\ \A r \in Receipts : With(forgotten, Unenlisted(pending))[r]
                                = forgotten[r] + Times(Unenlisted(pending), r)
  BY <1>1, <1>2, WithCounts
<1>5. /\ With(astray, Atoms(At(committed, Undurable))) \in [Receipts -> Nat]
      /\ \A r \in Receipts : With(astray, Atoms(At(committed, Undurable)))[r]
                                = astray[r] + Times(Atoms(At(committed, Undurable)), r)
  BY <1>1, <1>3, WithCounts
<1> QED
  BY <1>1, <1>2, <1>4, <1>5 DEF Unanswered

\* A step fails, commits or is judged.
LEMMA ShapeStepEnds ==
    ASSUME ShapeInv, StepFails \/ StepRaises \/ StepCommits \/ AfterStep
    PROVE  ShapeInv'
<1>1. TypeOK /\ PhaseInv
  BY DEF ShapeInv
<1>2. CASE StepFails
  <2>1. pc = "body" /\ Unenlisted(pending) \in Seq(Receipts)
    BY <1>1, <1>2, UnenlistedCounts DEF StepFails, TypeOK
  <2>2. standing' \in [Receipts -> Nat]
    BY <1>2, <2>1, CapturedStands DEF StepFails, RollsBack
  <2>3. Recover(Unenlisted(pending))
    BY <1>2 DEF StepFails
  <2>4. lost' \in BOOLEAN
    BY <1>1, <2>3 DEF Recover, Done, TypeOK
  <2>5. LocalsOK' /\ (TypeOK' => ShapeInv')
    BY <1>1, <2>1, <2>3, <2>4, RecoverTyped
  <2>6. TypeOK'
    BY <1>1, <1>2, <2>2, <2>5, TypesFrom DEF StepFails, TypeOK
  <2> QED
    BY <2>5, <2>6
<1>3. CASE StepCommits
  <2>1. /\ committed' \in Seq(Obligations)
        /\ Len(committed') = Len(committed) + Len(pending)
        /\ \A i \in 1..Len(pending) : committed'[Len(committed) + i].atom = pending[i]
    BY <1>1, <1>3, CommitCounts DEF StepCommits
  <2>2. With(receipts, pending) \in [Receipts -> Nat]
    BY <1>1, WithCounts DEF TypeOK
  <2>3. pc = "body" /\ UNCHANGED <<scope, failed, world, performed, reversed, forgotten, astray>>
    BY <1>3 DEF StepCommits
  <2>4. CASE receipts' = With(receipts, pending) /\ Done /\ UNCHANGED standing
    <3>1. LocalsOK'
      BY <2>4, DoneTyped
    <3>2. TypeOK'
      BY <1>1, <2>1, <2>2, <2>3, <2>4, <3>1, TypesFrom DEF TypeOK
    <3> QED
      BY <2>4, <3>2, ShapeDone
  <2>5. CASE /\ pc' = "after" /\ receipts' \in {receipts, With(receipts, pending)}
             /\ \/ lost' = FALSE /\ UNCHANGED standing
                \/ /\ "forward" \in Losing /\ pending # <<>> /\ lost' = TRUE
                   /\ \E gone \in SUBSET DOMAIN pending :
                         standing' = Without(standing, pending, gone)
             /\ UNCHANGED <<by, start, pending, plan>>
    <3>1. standing' \in [Receipts -> Nat]
      BY <2>3, <2>5, CapturedStands
    <3>2. LocalsOK'
      BY <1>1, <2>5 DEF LocalsOK, TypeOK, Places
    <3>3. receipts' \in [Receipts -> Nat]
      BY <1>1, <2>2, <2>5 DEF TypeOK
    <3>4. TypeOK'
      BY <1>1, <2>1, <2>3, <3>1, <3>2, <3>3, TypesFrom DEF TypeOK
    <3>5. start = Len(committed)
      BY <1>1, <2>3 DEF PhaseInv
    <3>6. \A i \in 1..Len(pending) : committed'[start + i].atom = pending[i]
      BY <2>1, <3>5
    <3>7. PhaseInv'
      BY <2>1, <2>5, <3>5, <3>6 DEF PhaseInv
    <3>8. BodyInv'
      BY <2>5 DEF BodyInv
    <3> QED
      BY <3>4, <3>7, <3>8 DEF ShapeInv
  <2> QED
    BY <1>3, <2>4, <2>5 DEF StepCommits
<1>4. CASE AfterStep
  <2>1. pc = "after" /\ UNCHANGED <<scope, receipts, world, performed, reversed, standing>>
    BY <1>4 DEF AfterStep
  <2>2. CASE /\ lost /\ failed' = TRUE
             /\ committed' = SubSeq(committed, 1, start) \o Owing(pending, FALSE)
             /\ Done /\ UNCHANGED <<forgotten, astray>>
    <3>1. committed' \in Seq(Obligations)
      BY <1>1, <2>1, <2>2, MixedCounts
    <3>2. LocalsOK'
      BY <2>2, DoneTyped
    <3>3. TypeOK'
      BY <1>1, <2>1, <2>2, <3>1, <3>2, TypesFrom DEF TypeOK
    <3> QED
      BY <2>2, <3>3, ShapeDone
  <2>3. CASE /\ ~lost /\ Len(committed) = start
             /\ Recover(Unenlisted(pending)) /\ UNCHANGED <<committed, failed, forgotten, astray>>
    <3>1. Unenlisted(pending) \in Seq(Receipts)
      BY <1>1, UnenlistedCounts DEF TypeOK
    <3>2. lost' \in BOOLEAN
      BY <1>1, <2>3 DEF Recover, Done, TypeOK
    <3>3. LocalsOK' /\ (TypeOK' => ShapeInv')
      BY <1>1, <2>1, <2>3, <3>1, <3>2, RecoverTyped
    <3>4. TypeOK'
      BY <1>1, <2>1, <2>3, <3>3, TypesFrom DEF TypeOK
    <3> QED
      BY <3>3, <3>4
  <2>4. CASE /\ ~lost /\ Len(committed) > start
             /\ committed' = At(committed, DOMAIN committed \ Undurable)
             /\ Recover(Atoms(At(committed, Undurable)))
             /\ UNCHANGED <<failed, forgotten, astray>>
    <3>1. /\ committed' \in Seq(Obligations)
          /\ Atoms(At(committed, Undurable)) \in Seq(Receipts)
      BY <1>1, <2>4, DurableCounts
    <3>2. lost' \in BOOLEAN
      BY <1>1, <2>4 DEF Recover, Done, TypeOK
    <3>3. LocalsOK' /\ (TypeOK' => ShapeInv')
      BY <1>1, <2>1, <2>4, <3>1, <3>2, RecoverTyped
    <3>4. TypeOK'
      BY <1>1, <2>1, <2>4, <3>1, <3>3, TypesFrom DEF TypeOK
    <3> QED
      BY <3>3, <3>4
  <2>5. CASE Unanswered
    <3>1. forgotten' \in [Receipts -> Nat] /\ astray' \in [Receipts -> Nat]
      BY <1>1, <2>5, UnansweredCounts DEF TypeOK
    <3>2. LocalsOK'
      BY <2>5, DoneTyped DEF Unanswered
    <3>3. TypeOK'
      BY <1>1, <2>1, <2>5, <3>1, <3>2, TypesFrom DEF TypeOK, Unanswered
    <3> QED
      BY <2>5, <3>3, ShapeDone DEF Unanswered
  <2> QED
    BY <1>4, <2>2, <2>3, <2>4, <2>5 DEF AfterStep, Unanswered
<1>5. CASE StepRaises
  <2>1. pc = "body" /\ UNCHANGED <<scope, failed, committed, receipts, by, start, pending, plan,
                                   world, performed, reversed, forgotten, astray>>
    BY <1>5 DEF StepRaises
  <2>2. pc' = "after" /\ lost' \in BOOLEAN
    <3>1. pc' = "after" /\ lost' \in {FALSE, "forward" \in Losing /\ pending # <<>>}
      BY <1>5 DEF StepRaises
    <3> QED
      BY <3>1, Zenon
  <2>3. standing' \in [Receipts -> Nat]
    BY <1>5, <2>1, CapturedStands DEF StepRaises, RollsBack
  <2>4. LocalsOK'
    BY <1>1, <2>1, <2>2 DEF LocalsOK, TypeOK, Places
  <2>5. TypeOK'
    BY <1>1, <2>1, <2>3, <2>4, TypesFrom DEF TypeOK
  <2> QED
    BY <1>1, <2>1, <2>2, <2>5 DEF ShapeInv, PhaseInv, BodyInv
<1> QED
  BY <1>2, <1>3, <1>4, <1>5

\* A recovery begins, is prepared or refused.
LEMMA ShapePrepares ==
    ASSUME ShapeInv, ExitRaising \/ Persist \/ Rollback \/ Preflight
    PROVE  ShapeInv'
<1>1. TypeOK /\ PhaseInv /\ committed \in Seq(Obligations) /\ Len(committed) \in Nat
  BY DEF ShapeInv, TypeOK
<1>2. CASE ExitRaising
  <2>1. /\ pc = "idle" /\ pending = <<>>
        /\ UNCHANGED <<foreign, handle, observers, closing, scopes, failed, committed,
                       receipts, world, history>>
        /\ entered' = FALSE
    BY <1>1, <1>2 DEF ExitRaising, Unlocked, PhaseInv
  <2>2. CASE /\ pc' = "preflight" /\ by' = "exit" /\ start' = 0
             /\ UNCHANGED <<pending, lost, plan>>
    <3>1. TypeOK'
      BY <1>1, <2>1, <2>2 DEF TypeOK, Places, world, history
    <3> QED
      BY <1>1, <2>1, <2>2, <3>1 DEF ShapeInv, PhaseInv, BodyInv
  <2>3. CASE UNCHANGED locals
    <3>1. TypeOK'
      BY <1>1, <2>1, <2>3 DEF TypeOK, locals, world, history
    <3> QED
      BY <2>1, <2>3, <3>1, ShapeFrame DEF history
  <2> QED
    BY <1>2, <2>2, <2>3 DEF ExitRaising
<1>3. CASE Persist
  <2>1. PICK kept \in BOOLEAN :
           /\ committed' = committed \o Retained(pending, kept)
           /\ receipts' \in (IF kept THEN {} ELSE {receipts}) \cup {With(receipts, pending)}
    BY <1>3 DEF Persist
  <2>2. committed' \in Seq(Obligations) /\ Len(committed') = Len(committed) + Len(pending)
    BY <1>1, <2>1, PersistCounts
  <2>3. receipts' \in [Receipts -> Nat]
    <3>1. receipts \in [Receipts -> Nat] /\ With(receipts, pending) \in [Receipts -> Nat]
      BY <1>1, WithCounts DEF TypeOK
    <3>2. receipts' = receipts \/ receipts' = With(receipts, pending)
      BY <2>1
    <3> QED
      BY <3>1, <3>2
  <2>4. LocalsOK'
    <3>1. <<>> \in Seq(Receipts)
      OBVIOUS
    <3> QED
      BY <1>1, <1>3, <3>1 DEF Persist, TypeOK, LocalsOK, Places
  <2>5. TypeOK'
    BY <1>1, <1>3, <2>2, <2>3, <2>4, TypesFrom DEF Persist, TypeOK, history
  <2>6. pc' = "preflight" /\ pending' = <<>> /\ start' = Len(committed)
    BY <1>3 DEF Persist
  <2>7. start' <= Len(committed')
    <3>1. Len(pending) \in Nat
      BY <1>1 DEF TypeOK
    <3> QED
      BY <1>1, <2>2, <2>6, <3>1
  <2> QED
    BY <2>5, <2>6, <2>7 DEF ShapeInv, PhaseInv, BodyInv
<1>4. CASE Rollback
  <2>1. LocalsOK'
    BY <1>1, <1>4 DEF Rollback, TypeOK, LocalsOK, Places
  <2>2. TypeOK'
    BY <1>1, <1>4, <2>1, TypesFrom DEF Rollback, TypeOK, history
  <2>3. pc' = "preflight" /\ pending' = <<>> /\ start' = 0 /\ committed' = committed
    BY <1>1, <1>4 DEF Rollback, Unlocked, PhaseInv
  <2> QED
    BY <1>1, <2>2, <2>3 DEF ShapeInv, PhaseInv, BodyInv
<1>5. CASE Preflight
  <2>1. /\ pc = "preflight" /\ pending = <<>> /\ start <= Len(committed)
        /\ UNCHANGED <<scope, committed, receipts, world, history>>
    BY <1>1, <1>5 DEF Preflight, PhaseInv
  <2>2. CASE /\ plan' = Reverse([k \in 1..(Len(committed) - start) |->
                            [atom |-> committed[start + k].atom, stored |-> Stored(start + k)]])
             /\ pc' = "undo" /\ UNCHANGED <<failed, by, start, pending, lost>>
    <3>1. /\ plan' \in Seq([atom : Receipts, stored : BOOLEAN])
          /\ Len(committed) = start + Len(plan')
          /\ \A k \in 1..Len(plan') : plan'[k].atom = committed[Len(committed) + 1 - k].atom
      BY <1>1, <2>1, <2>2, PlanReversed
    <3>2. LocalsOK'
      BY <1>1, <2>2, <3>1 DEF TypeOK, LocalsOK, Places
    <3>3. TypeOK'
      BY <1>1, <2>1, <2>2, <3>2, TypesFrom DEF TypeOK, history
    <3> QED
      BY <2>1, <2>2, <3>1, <3>3 DEF ShapeInv, PhaseInv, BodyInv
  <2>3. CASE Raised(committed)
    <3>1. LocalsOK' /\ failed' \in BOOLEAN
      BY <2>3, DoneTyped DEF Raised
    <3>2. TypeOK'
      BY <1>1, <2>1, <3>1, TypesFrom DEF TypeOK, history
    <3> QED
      BY <2>3, <3>2, ShapeDone DEF Raised
  <2> QED
    BY <1>5, <2>2, <2>3 DEF Preflight
<1> QED
  BY <1>2, <1>3, <1>4, <1>5

\* A compensation commits: what it does, whatever raises afterwards.
LEMMA UndoEffect ==
    ASSUME ShapeInv, Undo
    PROVE  LET r == Head(plan).atom IN
           /\ r \in Receipts /\ Len(committed) > 0 /\ committed[Len(committed)].atom = r
           /\ committed' = Front(committed)
           /\ reversed' = [reversed EXCEPT ![r] = @ + 1]
           /\ \/ standing' = Less(standing, r) /\ forgotten' = forgotten
              \/ standing' = standing /\ forgotten' = With(forgotten, <<r>>)
           /\ \/ receipts' = receipts /\ astray' = astray
              \/ /\ Head(plan).stored /\ receipts[r] > 0 /\ receipts' = Less(receipts, r)
                 /\ astray' = IF Competes(r) THEN With(astray, <<r>>) ELSE astray
           /\ \/ Raised(committed')
              \/ plan' = Tail(plan) /\ UNCHANGED <<failed, pc, by, start, pending, lost>>
<1> DEFINE r == Head(plan).atom
           Steps == [atom : Receipts, stored : BOOLEAN]
<1>1. /\ pc = "undo" /\ plan # <<>> /\ plan \in Seq(Steps)
      /\ committed \in Seq(Obligations) /\ start \in Nat
      /\ Len(committed) = start + Len(plan)
      /\ \A k \in 1..Len(plan) : plan[k].atom = committed[Len(committed) + 1 - k].atom
  BY DEF Undo, ShapeInv, TypeOK, PhaseInv
<1>2. Len(plan) \in Nat /\ 1 \in 1..Len(plan) /\ Head(plan) = plan[1] /\ plan[1] \in Steps
  <2> HIDE DEF Steps
  <2> QED
    BY <1>1
<1>3. r \in Receipts /\ r = committed[Len(committed) + 1 - 1].atom
  BY <1>1, <1>2
<1>4. Len(committed) > 0 /\ Len(committed) + 1 - 1 = Len(committed)
  BY <1>1, <1>2
<1>5. PICK raises \in BOOLEAN, keeps \in BOOLEAN, gone \in BOOLEAN :
         /\ receipts' = IF Head(plan).stored /\ ~keeps THEN Less(receipts, r) ELSE receipts
         /\ standing' = IF gone THEN standing ELSE Less(standing, r)
         /\ forgotten' = IF gone THEN With(forgotten, <<r>>) ELSE forgotten
         /\ astray' = IF Head(plan).stored /\ ~keeps /\ Competes(r) THEN With(astray, <<r>>) ELSE astray
         /\ reversed' = [reversed EXCEPT ![r] = @ + 1]
         /\ committed' = Front(committed)
         /\ IF raises THEN Raised(committed')
            ELSE plan' = Tail(plan) /\ UNCHANGED <<failed, pc, by, start, pending, lost>>
  BY Zenon DEF Undo, Retires
<1>6. Head(plan).stored => receipts[r] > 0
  BY DEF Undo
<1> HIDE DEF r
<1>7. committed' = Front(committed) /\ reversed' = [reversed EXCEPT ![r] = @ + 1]
  BY <1>5
<1>8. \/ receipts' = receipts /\ astray' = astray
      \/ /\ Head(plan).stored /\ receipts[r] > 0 /\ receipts' = Less(receipts, r)
         /\ astray' = IF Competes(r) THEN With(astray, <<r>>) ELSE astray
  <2>1. CASE Head(plan).stored /\ ~keeps
    BY <1>5, <1>6, <2>1
  <2>2. CASE ~(Head(plan).stored /\ ~keeps)
    BY <1>5, <2>2
  <2> QED
    BY <2>1, <2>2
<1>9. \/ standing' = Less(standing, r) /\ forgotten' = forgotten
      \/ standing' = standing /\ forgotten' = With(forgotten, <<r>>)
  BY <1>5
<1>10. \/ Raised(committed')
       \/ plan' = Tail(plan) /\ UNCHANGED <<failed, pc, by, start, pending, lost>>
  BY <1>5
<1> QED
  BY <1>3, <1>4, <1>7, <1>8, <1>9, <1>10 DEF r

\* One more receipt in a bag.
LEMMA WithOneCounts ==
    ASSUME NEW bag \in [Receipts -> Nat], NEW r \in Receipts
    PROVE  /\ With(bag, <<r>>) \in [Receipts -> Nat]
           /\ With(bag, <<r>>)[r] = bag[r] + 1
           /\ \A q \in Receipts \ {r} : With(bag, <<r>>)[q] = bag[q]
<1> DEFINE one == <<r>>
<1>1. one \in Seq(Receipts) /\ \A q : Times(one, q) = IF r = q THEN 1 ELSE 0
  BY TimesOne
<1> HIDE DEF one
<1>2. /\ With(bag, one) \in [Receipts -> Nat]
      /\ \A q \in Receipts : With(bag, one)[q] = bag[q] + Times(one, q)
  BY <1>1, WithCounts
<1>3. With(bag, one)[r] = bag[r] + 1
  BY <1>1, <1>2
<1>4. \A q \in Receipts \ {r} : With(bag, one)[q] = bag[q]
  BY <1>1, <1>2
<1> QED
  BY <1>2, <1>3, <1>4 DEF one

\* The rest of a plan lists the obligations that are left.
LEMMA PlanShrinks ==
    ASSUME ShapeInv, Undo, plan' = Tail(plan), start' = start
    PROVE  /\ plan' \in Seq([atom : Receipts, stored : BOOLEAN])
           /\ Len(committed') = start' + Len(plan')
           /\ \A k \in 1..Len(plan') : plan'[k].atom = committed'[Len(committed') + 1 - k].atom
<1> DEFINE Steps == [atom : Receipts, stored : BOOLEAN]
           n == Len(committed)
<1>1. /\ plan # <<>> /\ plan \in Seq(Steps)
      /\ committed \in Seq(Obligations) /\ start \in Nat
      /\ n = start + Len(plan)
      /\ \A k \in 1..Len(plan) : plan[k].atom = committed[n + 1 - k].atom
  BY DEF Undo, ShapeInv, TypeOK, PhaseInv
<1>2. /\ committed' = Front(committed) /\ n > 0
  BY UndoEffect
<1>3. Len(committed') = n - 1 /\ \A i \in 1..(n - 1) : committed'[i] = committed[i]
  BY <1>1, <1>2, FrontCounts
<1>4. /\ plan' \in Seq(Steps) /\ Len(plan') = Len(plan) - 1 /\ Len(plan) \in Nat
      /\ \A k \in 1..Len(plan') : plan'[k] = plan[k + 1]
  <2> HIDE DEF Steps
  <2> QED
    BY <1>1
<1>5. ASSUME NEW k \in 1..Len(plan')
      PROVE  plan'[k].atom = committed'[Len(committed') + 1 - k].atom
  <2>1. k + 1 \in 1..Len(plan) /\ plan'[k] = plan[k + 1]
    BY <1>4
  <2>2. plan[k + 1].atom = committed[n + 1 - (k + 1)].atom
    BY <1>1, <2>1
  <2>3. n + 1 - (k + 1) = Len(committed') + 1 - k /\ n + 1 - (k + 1) \in 1..(n - 1)
    BY <1>1, <1>3, <1>4
  <2>4. committed'[n + 1 - (k + 1)] = committed[n + 1 - (k + 1)]
    BY <1>3, <2>3
  <2> QED
    BY <2>1, <2>2, <2>3, <2>4
<1>6. Len(committed') = start' + Len(plan')
  BY <1>1, <1>3, <1>4
<1> QED
  BY <1>4, <1>5, <1>6

\* Compensation, one by one, until the pass is over or raises.
LEMMA ShapeRecovers ==
    ASSUME ShapeInv, Undo \/ UndoFails \/ Recovered
    PROVE  ShapeInv'
<1>1. TypeOK /\ PhaseInv /\ pending = <<>>
  <2>1. pc = "undo"
    BY DEF Undo, UndoFails, Recovered
  <2> QED
    BY <2>1 DEF ShapeInv, PhaseInv
<1>2. CASE Undo
  <2> DEFINE r == Head(plan).atom
  <2>1. /\ r \in Receipts /\ Len(committed) > 0
        /\ committed' = Front(committed)
        /\ reversed' = [reversed EXCEPT ![r] = @ + 1]
        /\ receipts' = receipts \/ receipts' = Less(receipts, r)
        /\ standing' = Less(standing, r) \/ standing' = standing
        /\ forgotten' = forgotten \/ forgotten' = With(forgotten, <<r>>)
        /\ astray' = astray \/ astray' = With(astray, <<r>>)
        /\ \/ Raised(committed')
           \/ plan' = Tail(plan) /\ UNCHANGED <<failed, pc, by, start, pending, lost>>
    BY <1>2, UndoEffect, Zenon
  <2>2. UNCHANGED <<scope, world, performed>>
    BY <1>2 DEF Undo
  <2> HIDE DEF r
  <2>3. committed' \in Seq(Obligations)
    BY <1>1, <2>1, FrontCounts DEF TypeOK
  <2>4. receipts' \in [Receipts -> Nat] /\ standing' \in [Receipts -> Nat]
    <3>1. receipts \in [Receipts -> Nat] /\ standing \in [Receipts -> Nat]
      BY <1>1 DEF TypeOK
    <3>2. Less(receipts, r) \in [Receipts -> Nat] /\ Less(standing, r) \in [Receipts -> Nat]
      BY <2>1, <3>1, LessCounts
    <3> QED
      BY <2>1, <3>1, <3>2
  <2>5. /\ reversed' \in [Receipts -> Nat]
        /\ forgotten' \in [Receipts -> Nat] /\ astray' \in [Receipts -> Nat]
    <3>1. reversed' \in [Receipts -> Nat]
      <4>1. reversed \in [Receipts -> Nat] /\ r \in Receipts
            /\ reversed' = [reversed EXCEPT ![r] = @ + 1]
        BY <1>1, <2>1 DEF TypeOK
      <4>2. \A q \in Receipts : reversed[q] + 1 \in Nat
        BY <4>1
      <4> QED
        BY <4>1, <4>2
    <3>2. forgotten \in [Receipts -> Nat] /\ astray \in [Receipts -> Nat]
      BY <1>1 DEF TypeOK
    <3>3. With(forgotten, <<r>>) \in [Receipts -> Nat] /\ With(astray, <<r>>) \in [Receipts -> Nat]
      BY <2>1, <3>2, WithOneCounts
    <3> QED
      BY <2>1, <3>1, <3>2, <3>3
  <2>6. CASE Raised(committed')
    <3>1. LocalsOK' /\ failed' \in BOOLEAN
      BY <2>6, DoneTyped DEF Raised
    <3>2. TypeOK'
      BY <1>1, <2>2, <2>3, <2>4, <2>5, <3>1, TypesFrom DEF TypeOK
    <3> QED
      BY <2>6, <3>2, ShapeDone DEF Raised
  <2>7. CASE plan' = Tail(plan) /\ UNCHANGED <<failed, pc, by, start, pending, lost>>
    <3>1. /\ plan' \in Seq([atom : Receipts, stored : BOOLEAN])
          /\ Len(committed') = start' + Len(plan')
          /\ \A k \in 1..Len(plan') : plan'[k].atom = committed'[Len(committed') + 1 - k].atom
      BY <1>2, <2>7, PlanShrinks
    <3>2. LocalsOK'
      BY <1>1, <2>7, <3>1 DEF TypeOK, LocalsOK
    <3>3. TypeOK'
      BY <1>1, <2>2, <2>3, <2>4, <2>5, <2>7, <3>2, TypesFrom DEF TypeOK
    <3>4. pc' = "undo" /\ pending' = <<>>
      BY <1>1, <1>2, <2>7 DEF Undo
    <3> QED
      BY <3>1, <3>3, <3>4 DEF ShapeInv, PhaseInv, BodyInv
  <2> QED
    BY <2>1, <2>6, <2>7
<1>3. CASE UndoFails
  <2>1. LocalsOK' /\ failed' \in BOOLEAN
    BY <1>3, DoneTyped DEF UndoFails, Raised
  <2>2. TypeOK'
    BY <1>1, <1>3, <2>1, TypesFrom DEF UndoFails, TypeOK, history
  <2> QED
    BY <1>3, <2>2, ShapeDone DEF UndoFails, Raised
<1>4. CASE Recovered
  <2>1. LocalsOK' /\ failed' \in BOOLEAN
    BY <1>1, <1>4, DoneTyped DEF Recovered, TypeOK
  <2>2. TypeOK'
    BY <1>1, <1>4, <2>1, TypesFrom DEF Recovered, TypeOK, history
  <2> QED
    BY <1>4, <2>2, ShapeDone DEF Recovered
<1> QED
  BY <1>2, <1>3, <1>4

\* The shape of the runner's fields is an invariant.
THEOREM Shaped == Spec => []ShapeInv
<1>1. Init => ShapeInv
  BY ShapeInit
<1>2. ShapeInv /\ [Next]_vars => ShapeInv'
  <2> SUFFICES ASSUME ShapeInv, [Next]_vars PROVE ShapeInv'
    OBVIOUS
  <2>1. CASE UNCHANGED vars
    <3>1. TypeOK'
      BY <2>1 DEF ShapeInv, TypeOK, vars, scope, locals, world, history
    <3> QED
      BY <2>1, <3>1, ShapeFrame DEF vars, history
  <2>2. CASE Next
    BY <2>2, ShapeOutside, ShapeBody, ShapeStepEnds, ShapePrepares, ShapeRecovers
       DEF Next, Operation
  <2> QED
    BY <2>1, <2>2
<1> QED
  BY <1>1, <1>2, PTL DEF Spec

\* Every field has its type, whatever fails, loses its part or is rewritten.
THEOREM TypeCorrect == Spec => []TypeOK
<1>1. ShapeInv => TypeOK
  BY DEF ShapeInv
<1> QED
  BY <1>1, Shaped, PTL

-----------------------------------------------------------------------------
(* What is owed.                                                            *)

\* How often an operation r is still to be reversed, and how many of its
\* effects are accounted for.
Debt(r) == Owes(r) + Held(r)
Cover(r) == Owes(r) + Survives(r)

\* Debts are counted.
LEMMA DebtNat ==
    ASSUME TypeOK, NEW r
    PROVE  Owes(r) \in Nat /\ Held(r) \in Nat /\ Debt(r) \in Nat /\ Times(pending, r) \in Nat
<1>1. Atoms(committed) \in Seq(Receipts) /\ pending \in Seq(Receipts)
  BY AtomsShape DEF TypeOK
<1>2. Times(Atoms(committed), r) \in Nat /\ Times(pending, r) \in Nat
  BY <1>1, TimesNat
<1> QED
  BY <1>2 DEF Owes, Held, Debt

\* Every effect is one of an operation to be reversed, and only a step that
\* was rolled back has operations without one.
LEMMA CoverDebt ==
    ASSUME TypeOK, NEW r
    PROVE  /\ Cover(r) \in Nat /\ Cover(r) <= Debt(r)
           /\ (~Unrecorded \/ r \in Host) => Cover(r) = Debt(r)
<1>1. Owes(r) \in Nat /\ Held(r) \in Nat
  BY DebtNat
<1>2. CASE ~Unrecorded \/ r \in Host
  <2>1. Cover(r) = Owes(r) + Held(r) /\ Debt(r) = Owes(r) + Held(r)
    BY <1>2 DEF Cover, Debt, Survives
  <2> QED
    BY <1>1, <2>1
<1>3. CASE Unrecorded /\ r \notin Host
  <2>1. Cover(r) = Owes(r) + 0 /\ Debt(r) = Owes(r) + Held(r)
    BY <1>3 DEF Cover, Debt, Survives
  <2> QED
    BY <1>1, <1>3, <2>1
<1> QED
  BY <1>2, <1>3

\* ... and so are those after a step.
LEMMA AfterDebt ==
    ASSUME TypeOK', NEW r
    PROVE  Debt(r)' \in Nat /\ Owes(r)' \in Nat /\ Held(r)' \in Nat /\ Cover(r)' \in Nat
<1>1. committed' \in Seq(Obligations) /\ pending' \in Seq(Receipts)
  BY DEF TypeOK
<1>2. Atoms(committed') \in Seq(Receipts)
  BY <1>1, AtomsShape
<1>3. Times(Atoms(committed'), r) \in Nat /\ Times(pending', r) \in Nat
  BY <1>1, <1>2, TimesNat
<1> QED
  BY <1>3 DEF Owes, Held, Debt, Cover, Survives

\* No debt changes while neither list does and no step begins or ends.
LEMMA DebtFrame ==
    ASSUME UNCHANGED <<committed, pending, pc, start>>, NEW r
    PROVE  Debt(r)' = Debt(r) /\ Cover(r)' = Cover(r)
BY DEF Debt, Cover, Owes, Held, Survives, Unrecorded

\* Nothing is held outside a step.
LEMMA DebtOutside ==
    ASSUME ShapeInv, committed' = committed, NEW r,
           pc \notin {"body", "persist", "after"},
           pc' \notin {"body", "persist", "after"} \/ pending' = <<>>
    PROVE  Debt(r)' = Debt(r) /\ Cover(r)' = Cover(r)
<1>1. Held(r) = 0 /\ Survives(r) = 0
  BY DEF Held, Survives, Unrecorded
<1>2. Held(r)' = 0 /\ Survives(r)' = 0
  <2>1. pc' \in {"body", "persist", "after"} => Times(pending', r) = 0
    BY TimesOne
  <2> QED
    BY <2>1 DEF Held, Survives, Unrecorded
<1>3. Owes(r)' = Owes(r)
  BY DEF Owes
<1> QED
  BY <1>1, <1>2, <1>3 DEF Debt, Cover

\* The steps that pass a debt on: a step that commits makes obligations of what
\* it captured, recovery writes down what survived ...
LEMMA DebtPassedOn ==
    ASSUME ShapeInv, StepCommits \/ Persist, NEW r \in Receipts
    PROVE  /\ Debt(r)' = Debt(r) /\ Cover(r)' = Debt(r) /\ Cover(r) = Debt(r)
           /\ UNCHANGED <<performed, reversed, forgotten>>
           /\ standing'[r] <= standing[r]
<1>1. /\ TypeOK /\ PhaseInv /\ standing \in [Receipts -> Nat]
      /\ Owes(r) \in Nat /\ Held(r) \in Nat /\ Times(pending, r) \in Nat
  BY DebtNat DEF ShapeInv, TypeOK
<1>2. pc \in {"body", "persist"}
  BY DEF StepCommits, Persist
<1>3. Held(r) = Times(pending, r) /\ Survives(r) = Times(pending, r)
  BY <1>2 DEF Held, Survives, Unrecorded
<1>4. CASE StepCommits
  <2>1. pc = "body" /\ UNCHANGED <<performed, reversed, forgotten>>
        /\ committed' = committed \o Owing(pending, TRUE)
        /\ (Done \/ (pc' = "after" /\ UNCHANGED <<pending, start>>))
    BY <1>4 DEF StepCommits
  <2>2. Owes(r)' = Owes(r) + Times(pending, r) /\ Len(committed') = Len(committed) + Len(pending)
    BY <1>1, <2>1, CommitCounts DEF Owes
  <2>3. Held(r)' = 0 /\ Survives(r)' = 0
    <3>1. CASE Done
      BY <3>1 DEF Done, Held, Survives, Unrecorded
    <3>2. CASE pc' = "after" /\ UNCHANGED <<pending, start>>
      <4>1. start = Len(committed) /\ Len(committed) \in Nat /\ Len(pending) \in Nat
        BY <1>1, <2>1 DEF PhaseInv, TypeOK
      <4>2. Len(committed') = start' => pending' = <<>>
        <5>1. Len(committed') = start' => Len(pending) = 0
          BY <2>2, <3>2, <4>1
        <5> QED
          BY <1>1, <3>2, <5>1 DEF TypeOK
      <4>3. Times(<<>>, r) = 0
        BY TimesOne
      <4>4. CASE Len(committed') = start'
        BY <3>2, <4>2, <4>3, <4>4 DEF Held, Survives, Unrecorded
      <4>5. CASE Len(committed') # start'
        BY <3>2, <4>5 DEF Held, Survives, Unrecorded
      <4> QED
        BY <4>4, <4>5
    <3> QED
      BY <2>1, <3>1, <3>2
  <2>4. standing'[r] <= standing[r]
    <3>1. \/ standing' = standing
          \/ \E gone \in SUBSET DOMAIN pending : standing' = Without(standing, pending, gone)
      BY <1>4 DEF StepCommits
    <3>2. standing[r] <= standing[r]
      BY <1>1
    <3> QED
      BY <2>1, <3>1, <3>2, CapturedStands
  <2> QED
    BY <1>1, <1>3, <2>1, <2>2, <2>3, <2>4 DEF Debt, Cover
<1>5. CASE Persist
  <2>1. PICK kept \in BOOLEAN : committed' = committed \o Retained(pending, kept)
    BY <1>5 DEF Persist
  <2>2. Owes(r)' = Owes(r) + Times(pending, r)
    BY <1>1, <2>1, PersistCounts DEF Owes
  <2>3. Held(r)' = 0 /\ Survives(r)' = 0
    BY <1>5 DEF Persist, Held, Survives, Unrecorded
  <2>4. UNCHANGED <<performed, reversed, standing, forgotten>>
    BY <1>5 DEF Persist, history
  <2> QED
    BY <1>1, <1>3, <2>2, <2>3, <2>4 DEF Debt, Cover
<1> QED
  BY <1>4, <1>5

\* ... and the judgement of a step captures again what survived or did not
\* become durable, or lets it go.
LEMMA DebtJudged ==
    ASSUME ShapeInv, AfterStep, NEW r \in Receipts
    PROVE  /\ Debt(r)' \in Nat /\ Debt(r)' <= Debt(r)
           /\ UNCHANGED <<performed, reversed, standing>>
           /\ Cover(r) + forgotten[r] <= Cover(r)' + forgotten'[r]
<1>1. /\ TypeOK /\ PhaseInv /\ pending \in Seq(Receipts) /\ committed \in Seq(Obligations)
      /\ Owes(r) \in Nat /\ Held(r) \in Nat /\ Times(pending, r) \in Nat
      /\ Debt(r) \in Nat /\ Cover(r) \in Nat /\ Cover(r) <= Debt(r) /\ forgotten[r] \in Nat
  BY DebtNat, CoverDebt DEF ShapeInv, TypeOK
<1>2. pc = "after" /\ UNCHANGED <<performed, reversed, standing>>
  BY DEF AfterStep
<1>3. Debt(r) = Owes(r) + Held(r) /\ Cover(r) = Owes(r) + Survives(r)
  BY DEF Debt, Cover
<1>4. /\ Len(committed) = start =>
             /\ Held(r) = Times(pending, r)
             /\ Survives(r) = IF r \in Host THEN Times(pending, r) ELSE 0
      /\ Len(committed) # start => Held(r) = 0 /\ Survives(r) = 0
  BY <1>2 DEF Held, Survives, Unrecorded
<1>5. CASE /\ lost /\ committed' = SubSeq(committed, 1, start) \o Owing(pending, FALSE)
           /\ Done /\ UNCHANGED forgotten
  <2>1. Owes(r)' = Owes(r) + Held(r)
    BY <1>1, <1>2, <1>5, MixedCounts DEF Owes
  <2>2. Held(r)' = 0 /\ Survives(r)' = 0
    BY <1>5 DEF Held, Done, Survives, Unrecorded
  <2>3. Debt(r)' = Debt(r) /\ Cover(r)' = Debt(r)
    BY <1>1, <2>1, <2>2 DEF Debt, Cover
  <2> QED
    BY <1>1, <1>2, <1>5, <2>3
<1>6. CASE /\ ~lost /\ Len(committed) = start
           /\ Recover(Unenlisted(pending)) /\ UNCHANGED <<committed, forgotten>>
  <2>1. /\ Unenlisted(pending) \in Seq(Receipts)
        /\ Times(Unenlisted(pending), r) = IF r \in Host THEN Times(pending, r) ELSE 0
    BY <1>1, UnenlistedCounts
  <2>2. lost' \in BOOLEAN
    BY <1>1, <1>6 DEF Recover, Done, TypeOK
  <2>3. Held(r)' = Times(Unenlisted(pending), r) /\ Survives(r)' = Times(Unenlisted(pending), r)
    BY <1>1, <1>2, <1>6, <2>1, <2>2, RecoverTyped
  <2>4. Held(r)' = Survives(r) /\ Survives(r)' = Survives(r) /\ Owes(r)' = Owes(r)
    BY <1>4, <1>6, <2>1, <2>3 DEF Owes
  <2>5. Debt(r)' = Cover(r) /\ Cover(r)' = Cover(r)
    BY <1>3, <2>4 DEF Debt, Cover
  <2> QED
    BY <1>1, <1>2, <1>6, <2>5
<1>7. CASE /\ ~lost /\ Len(committed) > start
           /\ committed' = At(committed, DOMAIN committed \ Undurable)
           /\ Recover(Atoms(At(committed, Undurable))) /\ UNCHANGED forgotten
  <2> DEFINE survivors == Atoms(At(committed, Undurable))
  <2>1. /\ survivors \in Seq(Receipts)
        /\ Times(Atoms(committed'), r) + Times(survivors, r) = Times(Atoms(committed), r)
    BY <1>1, <1>7, DurableCounts
  <2>2. Recover(survivors)
    BY <1>7
  <2> HIDE DEF survivors
  <2>3. lost' \in BOOLEAN
    BY <1>1, <2>2 DEF Recover, Done, TypeOK
  <2>4. Held(r)' = Times(survivors, r) /\ Survives(r)' = Times(survivors, r)
    BY <1>1, <1>2, <2>1, <2>2, <2>3, RecoverTyped
  <2>5. Owes(r)' + Times(survivors, r) = Owes(r)
    BY <2>1 DEF Owes
  <2>6. Held(r) = 0 /\ Survives(r) = 0
    <3>1. Len(committed) # start
      BY <1>1, <1>7 DEF TypeOK
    <3> QED
      BY <1>4, <3>1
  <2>7. Debt(r)' = Owes(r) /\ Cover(r)' = Owes(r)
    BY <2>4, <2>5 DEF Debt, Cover
  <2>8. Debt(r) = Owes(r) /\ Cover(r) = Owes(r)
    BY <1>1, <1>3, <2>6
  <2> QED
    BY <1>1, <1>2, <1>7, <2>7, <2>8
<1>8. CASE Unanswered
  <2>1. committed' = committed /\ Done
    BY <1>8 DEF Unanswered
  <2>2. Held(r)' = 0 /\ Survives(r)' = 0 /\ Owes(r)' = Owes(r)
    BY <2>1 DEF Held, Done, Survives, Unrecorded, Owes
  <2>3. Debt(r)' = Owes(r) /\ Cover(r)' = Owes(r)
    BY <1>1, <2>2 DEF Debt, Cover
  <2>4. /\ Len(committed) = start =>
               forgotten'[r] = forgotten[r] + IF r \in Host THEN Times(pending, r) ELSE 0
        /\ Len(committed) # start => forgotten'[r] = forgotten[r]
    BY <1>1, <1>8, UnansweredCounts
  <2>5. forgotten'[r] = forgotten[r] + Survives(r) /\ Survives(r) \in Nat
    BY <1>1, <1>4, <2>4
  <2> QED
    BY <1>1, <1>2, <1>3, <2>3, <2>5
<1> QED
  BY <1>5, <1>6, <1>7, <1>8 DEF AfterStep, Unanswered

\* The steps that change neither a debt nor an effect.
LEMMA DebtUntouched ==
    ASSUME ShapeInv, NEW r,
           \/ UNCHANGED vars \/ Enter \/ ExitRaising \/ Close
           \/ \E s \in closing : CloseEnds(s)
           \/ Run \/ Rollback \/ Preflight \/ UndoFails \/ Recovered
           \/ \E q \in Receipts : WriteReceipt(q) \/ RemoveReceipt(q)
    PROVE  /\ Debt(r)' = Debt(r) /\ Cover(r)' = Cover(r)
           /\ UNCHANGED <<performed, reversed, standing, forgotten>>
<1>1. CASE \/ UNCHANGED vars \/ Enter \/ Close \/ \E s \in closing : CloseEnds(s)
           \/ \E q \in Receipts : WriteReceipt(q) \/ RemoveReceipt(q)
  <2>1. UNCHANGED <<committed, pending, pc, start, performed, reversed, standing, forgotten>>
    BY <1>1 DEF vars, Enter, Close, CloseEnds, WriteReceipt, RemoveReceipt, locals, history
  <2> QED
    BY <2>1, DebtFrame
<1>2. CASE ExitRaising \/ Run \/ Rollback
  <2>1. /\ committed' = committed /\ pc = "idle"
        /\ UNCHANGED <<performed, reversed, standing, forgotten>>
        /\ pending' = pending
    BY <1>2 DEF ExitRaising, Run, Rollback, Unlocked, locals, history
  <2>2. pending = <<>>
    BY <2>1 DEF ShapeInv, PhaseInv
  <2> QED
    BY <2>1, <2>2, DebtOutside
<1>3. CASE Preflight \/ UndoFails \/ Recovered
  <2>1. /\ committed' = committed /\ pc \in {"preflight", "undo"}
        /\ pc' \in {"undo", "idle"} /\ UNCHANGED <<performed, reversed, standing, forgotten>>
    BY <1>3 DEF Preflight, UndoFails, Recovered, Raised, Done, history
  <2> QED
    BY <2>1, DebtOutside
<1> QED
  BY <1>1, <1>2, <1>3

\* A scope that completed owes nothing, and its effects are kept.
LEMMA DebtForgiven ==
    ASSUME ShapeInv, ExitKeeping, NEW r \in Receipts
    PROVE  /\ UNCHANGED <<performed, reversed>>
           /\ \/ Debt(r)' = Debt(r) /\ Cover(r)' = Cover(r) /\ UNCHANGED <<standing, forgotten>>
              \/ Debt(r)' = 0 /\ Cover(r)' = 0 /\ standing'[r] = 0 /\ forgotten'[r] = 0
<1>1. /\ pc = "idle" /\ pc' = "idle" /\ UNCHANGED <<performed, reversed, pending, start>>
      /\ \/ UNCHANGED <<committed, standing, forgotten>>
         \/ committed' = <<>> /\ standing' = Nothing /\ forgotten' = Nothing
  BY DEF ExitKeeping, Unlocked, locals
<1>2. CASE UNCHANGED <<committed, standing, forgotten>>
  BY <1>1, <1>2, DebtFrame
<1>3. CASE committed' = <<>> /\ standing' = Nothing /\ forgotten' = Nothing
  <2>1. Atoms(<<>>) = <<>>
    <3>1. <<>> \in Seq(Obligations) /\ Len(<<>>) = 0
      OBVIOUS
    <3>2. Atoms(<<>>) \in Seq(Receipts) /\ Len(Atoms(<<>>)) = 0
      BY <3>1, AtomsShape
    <3> QED
      BY <3>2
  <2>2. Owes(r)' = 0
    BY <1>3, <2>1, TimesOne DEF Owes
  <2>3. Held(r)' = 0 /\ Survives(r)' = 0
    BY <1>1 DEF Held, Survives, Unrecorded
  <2> QED
    BY <1>1, <1>3, <2>2, <2>3 DEF Debt, Cover, Nothing
<1> QED
  BY <1>1, <1>2, <1>3

\* An operation that answers is one more debt.
LEMMA DebtIncurred ==
    ASSUME ShapeInv, NEW r \in Receipts, Perform(r)
    PROVE  /\ Debt(r)' = Debt(r) + 1
           /\ \A q \in Receipts \ {r} : Debt(q)' = Debt(q)
           /\ \A q : Cover(q) = Debt(q) /\ Cover(q)' = Debt(q)'
<1>1. TypeOK /\ pc = "body" /\ pc' = "body" /\ committed' = committed
  BY DEF ShapeInv, Perform
<1>2. /\ Times(pending', r) = Times(pending, r) + 1
      /\ \A q \in Receipts \ {r} : Times(pending', q) = Times(pending, q)
  BY <1>1, PerformCounts
<1>3. \A q : /\ Held(q) = Times(pending, q) /\ Held(q)' = Times(pending', q)
             /\ Survives(q) = Held(q) /\ Survives(q)' = Held(q)' /\ Owes(q)' = Owes(q)
  BY <1>1 DEF Held, Owes, Survives, Unrecorded
<1>4. Owes(r) \in Nat /\ Times(pending, r) \in Nat
  BY <1>1, DebtNat
<1>5. \A q : Cover(q) = Debt(q) /\ Cover(q)' = Debt(q)'
  BY <1>3 DEF Debt, Cover
<1> QED
  BY <1>2, <1>3, <1>4, <1>5 DEF Debt

\* A step that is rolled back leaves the effects of the host; the others are
\* gone.
LEMMA DebtRolledBack ==
    ASSUME ShapeInv, StepFails \/ StepRaises, NEW r \in Receipts
    PROVE  /\ UNCHANGED <<performed, reversed, forgotten>>
           /\ Debt(r)' <= Debt(r)
           /\ standing[r] <= Cover(r) + forgotten[r] => standing'[r] <= Cover(r)' + forgotten[r]
<1>1. /\ TypeOK /\ pc = "body" /\ committed' = committed
      /\ UNCHANGED <<performed, reversed, forgotten>>
      /\ pending \in Seq(Receipts) /\ standing \in [Receipts -> Nat] /\ forgotten[r] \in Nat
      /\ start = Len(committed)
  BY DEF ShapeInv, PhaseInv, StepFails, StepRaises, TypeOK
<1>2. /\ Unenlisted(pending) \in Seq(Receipts)
      /\ Times(Unenlisted(pending), r) = IF r \in Host THEN Times(pending, r) ELSE 0
  BY <1>1, UnenlistedCounts
<1>3. /\ Held(r) = Times(pending, r) /\ Survives(r) = Times(pending, r)
      /\ Owes(r)' = Owes(r)
  BY <1>1 DEF Held, Survives, Unrecorded, Owes
<1>4. Owes(r) \in Nat /\ Times(pending, r) \in Nat /\ standing[r] \in Nat
  BY <1>1, DebtNat
<1>5. /\ Survives(r)' = (IF r \in Host THEN Times(pending, r) ELSE 0)
      /\ Held(r)' \in {Survives(r)', Times(pending, r)}
  <2>1. CASE StepFails
    <3>1. Recover(Unenlisted(pending))
      BY <2>1 DEF StepFails
    <3>2. lost' \in BOOLEAN
      BY <1>1, <3>1 DEF Recover, Done, TypeOK
    <3>3. /\ Held(r)' = Times(Unenlisted(pending), r)
          /\ Survives(r)' = Times(Unenlisted(pending), r)
      BY <1>1, <1>2, <3>1, <3>2, RecoverTyped
    <3> QED
      BY <1>2, <3>3
  <2>2. CASE StepRaises
    <3>1. pc' = "after" /\ UNCHANGED <<start, pending>>
      BY <2>2 DEF StepRaises
    <3>2. Unrecorded'
      BY <1>1, <3>1 DEF Unrecorded
    <3>3. Held(r)' = Times(pending, r)
      BY <3>1, <3>2 DEF Held
    <3>4. Survives(r)' = IF r \notin Host THEN 0 ELSE Held(r)'
      BY <3>2 DEF Survives
    <3> QED
      BY <3>3, <3>4
  <2> QED
    BY <2>1, <2>2
<1>6. Debt(r)' <= Debt(r)
  BY <1>3, <1>4, <1>5 DEF Debt
<1>7. PICK undone \in SUBSET DOMAIN pending :
         /\ \A i \in DOMAIN pending : pending[i] \notin Host => i \in undone
         /\ standing' = Without(standing, pending, undone)
  BY DEF StepFails, StepRaises, RollsBack
<1>8. /\ standing' \in [Receipts -> Nat]
      /\ standing'[r] = standing[r] - Occurs(pending, r, undone)
      /\ standing'[r] <= standing[r]
  BY <1>1, <1>7, CapturedStands
<1>9. CASE r \in Host
  <2>1. Cover(r)' = Cover(r) /\ Cover(r) \in Nat
    BY <1>3, <1>4, <1>5, <1>9 DEF Cover
  <2>2. standing'[r] \in Nat
    BY <1>8
  <2> QED
    BY <1>1, <1>4, <1>6, <1>8, <2>1, <2>2
<1>10. CASE r \notin Host
  <2>1. {i \in undone : pending[i] = r} = {i \in DOMAIN pending : pending[i] = r}
    BY <1>7, <1>10
  <2>2. Occurs(pending, r, undone) = Times(pending, r)
    BY <2>1 DEF Occurs, Times
  <2>3. Cover(r)' = Owes(r) /\ Cover(r) = Owes(r) + Times(pending, r)
    BY <1>3, <1>4, <1>5, <1>10 DEF Cover
  <2> QED
    BY <1>1, <1>4, <1>6, <1>8, <2>2, <2>3
<1> QED
  BY <1>9, <1>10

\* A compensation that commits pays one debt.
LEMMA DebtPaid ==
    ASSUME ShapeInv, Undo, NEW r \in Receipts, r = Head(plan).atom
    PROVE  /\ Debt(r) = Debt(r)' + 1
           /\ \A q \in Receipts \ {r} : Debt(q)' = Debt(q)
           /\ \A q : Cover(q) = Debt(q) /\ Cover(q)' = Debt(q)'
<1>1. TypeOK /\ committed \in Seq(Obligations) /\ pc = "undo"
  BY DEF ShapeInv, Undo, TypeOK
<1>2. /\ Len(committed) > 0 /\ committed[Len(committed)].atom = r
      /\ committed' = Front(committed)
      /\ (Raised(committed') \/ pc' = pc)
  BY UndoEffect
<1>3. \A q : Held(q) = 0 /\ Held(q)' = 0 /\ Survives(q) = 0 /\ Survives(q)' = 0
  BY <1>1, <1>2 DEF Held, Survives, Unrecorded, Raised, Done
<1>4. ASSUME NEW q PROVE Owes(q) = Owes(q)' + IF r = q THEN 1 ELSE 0
  BY <1>1, <1>2, FrontCounts DEF Owes
<1>5. \A q : Debt(q) = Owes(q) + 0 /\ Debt(q)' = Owes(q)' + 0
  BY <1>3 DEF Debt
<1>6. \A q : Owes(q)' \in Nat /\ Owes(q) \in Nat
  <2>1. committed' \in Seq(Obligations)
    BY <1>1, <1>2, FrontCounts
  <2>2. Atoms(committed') \in Seq(Receipts) /\ Atoms(committed) \in Seq(Receipts)
    BY <1>1, <2>1, AtomsShape
  <2> QED
    BY <2>2, TimesNat DEF Owes
<1>7. Debt(r) = Debt(r)' + 1
  <2>1. Owes(r) = Owes(r)' + 1
    BY <1>4
  <2> QED
    BY <1>5, <1>6, <2>1
<1>8. ASSUME NEW q \in Receipts \ {r} PROVE Debt(q)' = Debt(q)
  <2>1. Owes(q) = Owes(q)' + 0
    BY <1>4
  <2> QED
    BY <1>5, <1>6, <2>1
<1>9. \A q : Cover(q) = Debt(q) /\ Cover(q)' = Debt(q)'
  BY <1>3 DEF Debt, Cover
<1> QED
  BY <1>7, <1>8, <1>9

-----------------------------------------------------------------------------
(* No compensation commits more often than its operation was performed.     *)

\* In the beginning nothing is owed.
LEMMA DebtInit ==
    ASSUME Init, NEW r
    PROVE  Debt(r) = 0 /\ Cover(r) = 0
<1>1. <<>> \in Seq(Obligations) /\ Len(<<>>) = 0
  OBVIOUS
<1>2. Atoms(<<>>) \in Seq(Receipts) /\ Len(Atoms(<<>>)) = 0
  BY <1>1, AtomsShape
<1>3. Atoms(committed) = <<>> /\ pc = "idle"
  BY <1>2 DEF Init
<1>4. Times(<<>>, r) = 0
  BY TimesOne
<1>5. Owes(r) = 0 /\ Held(r) = 0 /\ Survives(r) = 0
  BY <1>3, <1>4 DEF Owes, Held, Survives, Unrecorded
<1> QED
  BY <1>5 DEF Debt, Cover

\* The ledger is balanced by every step.
LEMMA LedgerStep ==
    ASSUME ShapeInv, ShapeInv', LedgerInv, [Next]_vars, NEW r \in Receipts
    PROVE  reversed'[r] + Debt(r)' <= performed'[r]
<1>1. /\ TypeOK /\ reversed \in [Receipts -> Nat] /\ performed \in [Receipts -> Nat]
      /\ reversed[r] \in Nat /\ performed[r] \in Nat
      /\ Debt(r) \in Nat /\ Owes(r) \in Nat /\ Held(r) \in Nat
  BY DebtNat DEF ShapeInv, TypeOK
<1>2. reversed[r] + Debt(r) <= performed[r]
  BY <1>1 DEF LedgerInv, Debt
<1>3. CASE \/ UNCHANGED vars \/ Enter \/ ExitRaising \/ Close
           \/ \E s \in closing : CloseEnds(s)
           \/ Run \/ Rollback \/ Preflight \/ UndoFails \/ Recovered
           \/ \E q \in Receipts : WriteReceipt(q) \/ RemoveReceipt(q)
  BY <1>2, <1>3, DebtUntouched
<1>4. CASE StepCommits \/ Persist \/ AfterStep
  <2>1. CASE StepCommits \/ Persist
    BY <1>2, <2>1, DebtPassedOn
  <2>2. CASE AfterStep
    <3>1. UNCHANGED <<performed, reversed>> /\ Debt(r)' <= Debt(r) /\ Debt(r)' \in Nat
      BY <2>2, DebtJudged
    <3> QED
      BY <1>1, <1>2, <3>1
  <2> QED
    BY <1>4, <2>1, <2>2
<1>5. CASE ExitKeeping
  <2>1. UNCHANGED <<performed, reversed>> /\ (Debt(r)' = Debt(r) \/ Debt(r)' = 0)
    BY <1>5, DebtForgiven
  <2> QED
    BY <1>1, <1>2, <2>1
<1>6. ASSUME NEW q \in Receipts, Perform(q)
      PROVE  reversed'[r] + Debt(r)' <= performed'[r]
  <2>1. /\ Debt(q)' = Debt(q) + 1
        /\ \A p \in Receipts \ {q} : Debt(p)' = Debt(p)
    BY <1>6, DebtIncurred
  <2>2. performed' = [performed EXCEPT ![q] = @ + 1] /\ reversed' = reversed
    BY <1>6 DEF Perform
  <2>3. CASE r = q
    BY <1>1, <1>2, <2>1, <2>2, <2>3
  <2>4. CASE r # q
    BY <1>1, <1>2, <2>1, <2>2, <2>4
  <2> QED
    BY <2>3, <2>4
<1>7. CASE StepFails \/ StepRaises
  <2>1. UNCHANGED <<performed, reversed>> /\ Debt(r)' <= Debt(r)
    BY <1>7, DebtRolledBack
  <2>2. Debt(r)' \in Nat
    <3>1. (TypeOK)'
      BY DEF ShapeInv
    <3> QED
      BY <3>1, AfterDebt
  <2> QED
    BY <1>1, <1>2, <2>1, <2>2
<1>8. CASE Undo
  <2> DEFINE q == Head(plan).atom
  <2>1. q \in Receipts /\ reversed' = [reversed EXCEPT ![q] = @ + 1] /\ performed' = performed
    BY <1>8, UndoEffect DEF Undo
  <2>2. CASE r = q
    <3>1. Debt(r) = Debt(r)' + 1
      BY <1>8, <2>2, DebtPaid
    <3>2. reversed'[r] = reversed[r] + 1
      BY <1>1, <2>1, <2>2
    <3>3. Debt(r)' \in Nat
      <4>1. (TypeOK)'
        BY DEF ShapeInv
      <4> QED
        BY <4>1, AfterDebt
    <3> QED
      BY <1>1, <1>2, <2>1, <3>1, <3>2, <3>3
  <2>3. CASE r # q
    <3>1. Debt(r)' = Debt(r)
      BY <1>8, <2>1, <2>3, DebtPaid
    <3>2. reversed'[r] = reversed[r]
      BY <1>1, <2>1, <2>3
    <3> QED
      BY <1>2, <2>1, <3>1, <3>2
  <2> QED
    BY <2>2, <2>3
<1> QED
  BY <1>3, <1>4, <1>5, <1>6, <1>7, <1>8 DEF Next, Operation

\* The ledger is balanced at all times.
THEOREM Balanced == Spec => []LedgerInv
<1>1. Init => LedgerInv
  <2> SUFFICES ASSUME Init, NEW r \in Receipts
               PROVE  reversed[r] + Owes(r) + Held(r) <= performed[r]
    BY DEF LedgerInv
  <2>1. TypeOK
    BY ShapeInit DEF ShapeInv
  <2>2. Owes(r) \in Nat /\ Held(r) \in Nat /\ Owes(r) + Held(r) = 0
    BY <2>1, DebtInit, DebtNat DEF Debt
  <2>3. reversed[r] = 0 /\ performed[r] = 0
    BY DEF Init, Nothing
  <2> QED
    BY <2>2, <2>3
<1>2. ShapeInv /\ (ShapeInv)' /\ LedgerInv /\ [Next]_vars => (LedgerInv)'
  <2> SUFFICES ASSUME ShapeInv, ShapeInv', LedgerInv, [Next]_vars, NEW r \in Receipts
               PROVE  (reversed[r] + Owes(r) + Held(r) <= performed[r])'
    BY DEF LedgerInv
  <2>1. reversed'[r] + Debt(r)' <= performed'[r]
    BY LedgerStep
  <2>2. Owes(r)' \in Nat /\ Held(r)' \in Nat /\ reversed'[r] \in Nat
    <3>1. TypeOK' /\ reversed'[r] \in Nat
      BY DEF ShapeInv, TypeOK
    <3> QED
      BY <3>1, AfterDebt
  <2> QED
    BY <2>1, <2>2 DEF Debt
<1> QED
  BY <1>1, <1>2, Shaped, PTL DEF Spec

\* "A committed undo retires its obligation before its event error escapes":
\* a retry of the recovery never compensates one performance twice.
THEOREM NeverTwice == Spec => []ReversedOnce
<1>1. ShapeInv /\ LedgerInv => ReversedOnce
  <2> SUFFICES ASSUME ShapeInv, LedgerInv, NEW r \in Receipts
               PROVE  reversed[r] <= performed[r]
    BY DEF ReversedOnce
  <2>1. /\ reversed[r] + Owes(r) + Held(r) <= performed[r]
        /\ reversed[r] \in Nat /\ performed[r] \in Nat
    BY DEF LedgerInv, ShapeInv, TypeOK
  <2>2. Owes(r) \in Nat /\ Held(r) \in Nat
    BY DebtNat DEF ShapeInv
  <2> QED
    BY <2>1, <2>2
<1> QED
  BY <1>1, Shaped, Balanced, PTL

-----------------------------------------------------------------------------
(* An effect that stands is owed.                                           *)

\* Every step keeps what stands within what is owed or was let go.
LEMMA StandingStep ==
    ASSUME ShapeInv, ShapeInv', StandingInv, [Next]_vars, NEW r \in Receipts
    PROVE  standing'[r] <= Cover(r)' + forgotten'[r]
<1>1. /\ TypeOK /\ standing \in [Receipts -> Nat] /\ standing[r] \in Nat
      /\ Debt(r) \in Nat /\ Cover(r) \in Nat /\ Owes(r) \in Nat
      /\ forgotten \in [Receipts -> Nat] /\ forgotten[r] \in Nat
      /\ standing' \in [Receipts -> Nat] /\ standing'[r] \in Nat
      /\ forgotten' \in [Receipts -> Nat] /\ forgotten'[r] \in Nat
  BY DebtNat, CoverDebt DEF ShapeInv, TypeOK
<1>2. standing[r] <= Cover(r) + forgotten[r]
  BY DEF StandingInv, Cover
<1>3. Debt(r)' \in Nat /\ Cover(r)' \in Nat
  <2>1. TypeOK'
    BY DEF ShapeInv
  <2> QED
    BY <2>1, AfterDebt
<1>4. CASE \/ UNCHANGED vars \/ Enter \/ ExitRaising \/ Close
           \/ \E s \in closing : CloseEnds(s)
           \/ Run \/ Rollback \/ Preflight \/ UndoFails \/ Recovered
           \/ \E q \in Receipts : WriteReceipt(q) \/ RemoveReceipt(q)
  BY <1>2, <1>4, DebtUntouched
<1>5. CASE StepCommits \/ Persist
  <2>1. /\ Cover(r)' = Debt(r) /\ Cover(r) = Debt(r)
        /\ forgotten' = forgotten /\ standing'[r] <= standing[r]
    BY <1>5, DebtPassedOn
  <2> QED
    BY <1>1, <1>2, <2>1
<1>6. CASE AfterStep
  <2>1. /\ standing' = standing
        /\ Cover(r) + forgotten[r] <= Cover(r)' + forgotten'[r]
    BY <1>6, DebtJudged
  <2> QED
    BY <1>1, <1>2, <1>3, <2>1
<1>7. CASE ExitKeeping
  <2>1. \/ Cover(r)' = Cover(r) /\ UNCHANGED <<standing, forgotten>>
        \/ Cover(r)' = 0 /\ standing'[r] = 0 /\ forgotten'[r] = 0
    BY <1>7, DebtForgiven
  <2> QED
    BY <1>2, <2>1
<1>8. ASSUME NEW q \in Receipts, Perform(q)
      PROVE  standing'[r] <= Cover(r)' + forgotten'[r]
  <2>1. /\ Debt(q)' = Debt(q) + 1
        /\ \A p \in Receipts \ {q} : Debt(p)' = Debt(p)
        /\ Cover(r) = Debt(r) /\ Cover(r)' = Debt(r)'
    BY <1>8, DebtIncurred
  <2>2. standing' = [standing EXCEPT ![q] = @ + 1] /\ forgotten' = forgotten
    BY <1>8 DEF Perform
  <2>3. CASE r = q
    <3>1. standing'[r] = standing[r] + 1 /\ Cover(r)' = Cover(r) + 1
      BY <1>1, <2>1, <2>2, <2>3
    <3> QED
      BY <1>1, <1>2, <2>2, <3>1
  <2>4. CASE r # q
    <3>1. standing'[r] = standing[r] /\ Cover(r)' = Cover(r)
      BY <1>1, <2>1, <2>2, <2>4
    <3> QED
      BY <1>2, <2>2, <3>1
  <2> QED
    BY <2>3, <2>4
<1>9. CASE StepFails \/ StepRaises
  <2>1. /\ forgotten' = forgotten
        /\ standing[r] <= Cover(r) + forgotten[r] => standing'[r] <= Cover(r)' + forgotten[r]
    BY <1>9, DebtRolledBack
  <2> QED
    BY <1>2, <2>1
<1>10. CASE Undo
  <2> DEFINE q == Head(plan).atom
  <2>1. /\ q \in Receipts
        /\ \/ standing' = Less(standing, q) /\ forgotten' = forgotten
           \/ standing' = standing /\ forgotten' = With(forgotten, <<q>>)
    BY <1>10, UndoEffect
  <2>2. /\ Less(standing, q)[q] = IF standing[q] = 0 THEN 0 ELSE standing[q] - 1
        /\ \A p \in Receipts \ {q} : Less(standing, q)[p] = standing[p]
    BY <1>1, <2>1, LessCounts
  <2>3. /\ With(forgotten, <<q>>)[q] = forgotten[q] + 1
        /\ \A p \in Receipts \ {q} : With(forgotten, <<q>>)[p] = forgotten[p]
    BY <1>1, <2>1, WithOneCounts
  <2>4. Cover(r) = Debt(r) /\ Cover(r)' = Debt(r)'
    BY <1>10, <2>1, DebtPaid
  <2>5. CASE r = q
    <3>1. Cover(r) = Cover(r)' + 1
      BY <1>10, <2>4, <2>5, DebtPaid
    <3>2. \/ /\ standing'[r] = IF standing[r] = 0 THEN 0 ELSE standing[r] - 1
             /\ forgotten'[r] = forgotten[r]
          \/ standing'[r] = standing[r] /\ forgotten'[r] = forgotten[r] + 1
      BY <2>1, <2>2, <2>3, <2>5
    <3> QED
      BY <1>1, <1>2, <1>3, <3>1, <3>2
  <2>6. CASE r # q
    <3>1. Cover(r)' = Cover(r)
      BY <1>10, <2>1, <2>4, <2>6, DebtPaid
    <3>2. standing'[r] = standing[r] /\ forgotten'[r] = forgotten[r]
      BY <2>1, <2>2, <2>3, <2>6
    <3> QED
      BY <1>2, <3>1, <3>2
  <2> QED
    BY <2>5, <2>6
<1> QED
  BY <1>4, <1>5, <1>6, <1>7, <1>8, <1>9, <1>10 DEF Next, Operation

\* "A failed durable write never costs the obligation it was recording": when
\* the runner is at rest an effect that stands has an obligation, however its
\* step, the receipt space and an earlier recovery failed, but for those that
\* the two paths named at EffectsAreOwed have let go.
THEOREM EffectsOwed == Spec => []EffectsAreOwed
<1>1. Init => StandingInv
  <2> SUFFICES ASSUME Init, NEW r \in Receipts
               PROVE  standing[r] <= Owes(r) + Survives(r) + forgotten[r]
    BY DEF StandingInv
  <2>1. Owes(r) + Survives(r) = 0
    BY DebtInit DEF Cover
  <2>2. standing[r] = 0 /\ forgotten[r] = 0
    BY DEF Init, Nothing
  <2> QED
    BY <2>1, <2>2
<1>2. ShapeInv /\ (ShapeInv)' /\ StandingInv /\ [Next]_vars => (StandingInv)'
  <2> SUFFICES ASSUME ShapeInv, ShapeInv', StandingInv, [Next]_vars, NEW r \in Receipts
               PROVE  (standing[r] <= Owes(r) + Survives(r) + forgotten[r])'
    BY DEF StandingInv
  <2>1. standing'[r] <= Cover(r)' + forgotten'[r]
    BY StandingStep
  <2> QED
    BY <2>1 DEF Cover
<1>3. ShapeInv /\ StandingInv => EffectsAreOwed
  <2> SUFFICES ASSUME ShapeInv, StandingInv, Unlocked, NEW r \in Receipts
               PROVE  standing[r] <= Occurs(Atoms(committed), r, DOMAIN committed) + forgotten[r]
    BY DEF EffectsAreOwed
  <2>1. standing[r] <= Owes(r) + Survives(r) + forgotten[r] /\ Survives(r) = 0
    BY DEF StandingInv, Held, Survives, Unrecorded, Unlocked
  <2>2. Owes(r) \in Nat
    BY DebtNat DEF ShapeInv
  <2>3. DOMAIN Atoms(committed) = DOMAIN committed
    BY AtomsShape DEF ShapeInv, TypeOK
  <2>4. Owes(r) = Occurs(Atoms(committed), r, DOMAIN committed)
    BY <2>3 DEF Owes, Times
  <2>5. Owes(r) + Survives(r) + forgotten[r] = Owes(r) + forgotten[r]
    BY <2>1, <2>2
  <2> QED
    BY <2>1, <2>4, <2>5
<1> QED
  BY <1>1, <1>2, <1>3, Shaped, PTL DEF Spec

-----------------------------------------------------------------------------
(* A recovery that failed is continued when the caller asks for it.         *)

\* An operation that is under way on a failed runner is a rollback.
LEMMA CallStep ==
    ASSUME CallInv, [Next]_vars
    PROVE  CallInv'
<1>1. CASE UNCHANGED vars
  BY <1>1 DEF CallInv, vars, locals
<1>2. CASE Run \/ ExitRaising
  BY <1>2 DEF CallInv, Run, ExitRaising, MayRecover, Unlocked, locals
<1>3. CASE Rollback
  BY <1>3 DEF CallInv, Rollback
<1>4. CASE Enter \/ ExitKeeping \/ Close \/ (\E s \in closing : CloseEnds(s))
           \/ (\E r \in Receipts : Perform(r))
  BY <1>4 DEF CallInv, Enter, ExitKeeping, Close, CloseEnds, Perform, locals
<1>5. CASE StepFails \/ StepRaises \/ StepCommits \/ AfterStep
  BY <1>5 DEF CallInv, StepFails, StepRaises, StepCommits, AfterStep, Recover, Done
<1>6. CASE Persist \/ Preflight \/ UndoFails \/ Recovered
  BY <1>6 DEF CallInv, Persist, Preflight, UndoFails, Recovered, Raised, Done
<1>7. CASE Undo
  <2>1. pc = "undo"
    BY <1>7 DEF Undo
  <2>2. pc' = "idle" \/ UNCHANGED <<failed, by>>
    BY <1>7 DEF Undo, Raised, Done
  <2> QED
    BY <2>1, <2>2 DEF CallInv
<1>8. CASE \E r \in Receipts : WriteReceipt(r) \/ RemoveReceipt(r)
  BY <1>8 DEF CallInv, WriteReceipt, RemoveReceipt, locals
<1> QED
  BY <1>1, <1>2, <1>3, <1>4, <1>5, <1>6, <1>7, <1>8 DEF Next, Operation

\* No compensation commits on a runner whose recovery failed, but under a
\* rollback() that the caller asked for.
THEOREM RetryCalledFor == Spec => RetryIsCalledFor
<1>1. Init => CallInv
  BY DEF Init, CallInv
<1>2. CallInv /\ [Next]_vars => (CallInv)'
  BY CallStep
<1>3. CallInv /\ [Next]_vars => [reversed' # reversed => (~failed \/ by = "rollback")]_vars
  <2> SUFFICES ASSUME CallInv, Next, reversed' # reversed
               PROVE  ~failed \/ by = "rollback"
    OBVIOUS
  <2>1. pc = "undo"
    BY DEF Next, Operation, Enter, ExitRaising, ExitKeeping, Close, CloseEnds, Run,
           Perform, StepFails, StepRaises, StepCommits, AfterStep, Persist, Rollback, Preflight,
           Undo, UndoFails, Recovered, WriteReceipt, RemoveReceipt, history
  <2> QED
    BY <2>1 DEF CallInv
<1> QED
  BY <1>1, <1>2, <1>3, PTL DEF Spec, RetryIsCalledFor
-----------------------------------------------------------------------------
(* Receipts enough for those that claim one.                                *)

\* Of finitely many positions one is the last, and the others come before it.
LEMMA LastPosition ==
    ASSUME NEW P \in SUBSET Nat, IsFiniteSet(P), P # {}
    PROVE  \E i \in P : /\ \A j \in P : j <= i
                        /\ Cardinality({j \in P : j < i}) + 1 = Cardinality(P)
<1> DEFINE n == Cardinality(P)
           g == [i \in P |-> Rank(P, i)]
<1>1. n \in Nat /\ n # 0
  BY FS_CardinalityType, FS_EmptySet
<1>2. PICK i \in P : Rank(P, i) = n
  <2>1. g \in Bijection(P, 1..n)
    BY Ranked
  <2>2. n \in 1..n
    BY <1>1
  <2> HIDE DEF g, n
  <2>3. \E i \in P : g[i] = n
    BY <2>1, <2>2 DEF Bijection, Surjection
  <2> QED
    BY <2>3 DEF g
<1>3. {j \in P : j <= i} = P
  <2>1. {j \in P : j <= i} \in SUBSET P
    OBVIOUS
  <2>2. Cardinality({j \in P : j <= i}) = Cardinality(P)
    BY <1>2 DEF Rank
  <2> QED
    BY <2>1, <2>2, FS_Subset
<1>4. Cardinality({j \in P : j < i}) + 1 = Cardinality(P)
  <2>1. {j \in P : j < i} = P \ {i}
    <3>1. \A j \in P : j <= i
      <4> SUFFICES ASSUME NEW j \in P PROVE j <= i
        OBVIOUS
      <4>1. j \in {l \in P : l <= i}
        BY <1>3
      <4> QED
        BY <4>1
    <3>2. \A j \in P : j \in Nat /\ i \in Nat
      OBVIOUS
    <3>3. \A j \in P : j < i <=> j # i
      BY <3>1, <3>2
    <3> QED
      BY <3>3
  <2>2. Cardinality(P \ {i}) = Cardinality(P) - 1
    BY FS_RemoveElement
  <2> QED
    BY <1>1, <2>1, <2>2
<1> QED
  BY <1>3, <1>4

\* Each obligation is journalled or not, and has one receipt.
LEMMA JournalledAtom ==
    ASSUME NEW c \in Seq(Obligations), NEW i \in DOMAIN c, NEW r
    PROVE  /\ c[i].atom \in Receipts /\ c[i].journalled \in BOOLEAN
           /\ c[i] = Journalled(r) <=> c[i].atom = r /\ c[i].journalled
<1>1. c[i] \in Obligations
  OBVIOUS
<1>2. /\ c[i].atom \in Receipts /\ c[i].journalled \in BOOLEAN
      /\ c[i] = [atom |-> c[i].atom, journalled |-> c[i].journalled]
  BY <1>1 DEF Obligations
<1>3. c[i] = Journalled(r) => c[i].atom = r /\ c[i].journalled
  BY DEF Journalled
<1>4. c[i].atom = r /\ c[i].journalled => c[i] = Journalled(r)
  <2>1. c[i].journalled => c[i].journalled = TRUE
    BY <1>2
  <2> QED
    BY <1>2, <2>1 DEF Journalled
<1> QED
  BY <1>2, <1>3, <1>4

\* Some obligations for a receipt are journalled.
LEMMA JournalledFew ==
    ASSUME NEW c \in Seq(Obligations), NEW P \in SUBSET DOMAIN c, NEW r
    PROVE  /\ Occurs(c, Journalled(r), P) \in Nat /\ Occurs(Atoms(c), r, P) \in Nat
           /\ Occurs(c, Journalled(r), P) <= Occurs(Atoms(c), r, P)
<1>1. IsFiniteSet(DOMAIN c)
  BY TimesNat
<1>2. IsFiniteSet(P)
  BY <1>1, FS_Subset
<1> DEFINE A == {i \in P : Atoms(c)[i] = r}
           B == {i \in P : c[i] = Journalled(r)}
<1>3. IsFiniteSet(A) /\ Cardinality(A) = Occurs(Atoms(c), r, P)
      /\ Cardinality(B) = Occurs(c, Journalled(r), P)
  BY <1>2, OccursFinite DEF Occurs
<1>4. B \in SUBSET A
  <2>1. \A i \in P : c[i] = Journalled(r) => Atoms(c)[i] = r
    BY JournalledAtom, AtomsShape
  <2> QED
    BY <2>1
<1> HIDE DEF A, B
<1>5. Cardinality(B) <= Cardinality(A)
  BY <1>3, <1>4, FS_Subset
<1> QED
  BY <1>2, <1>3, <1>5, OccursFinite

\* The journalled obligations for captured receipts, recorded behind others.
LEMMA JournalledRecorded ==
    ASSUME NEW c \in Seq(Obligations), NEW s \in Seq(Receipts), NEW kept \in BOOLEAN, NEW r
    PROVE  Times(c \o Owing(s, kept), Journalled(r))
           = Times(c, Journalled(r)) + IF kept THEN Times(s, r) ELSE 0
<1> DEFINE o == Owing(s, kept)
           w == c \o o
<1>1. /\ o \in Seq(Obligations) /\ Len(o) = Len(s)
      /\ \A i \in 1..Len(s) : o[i].atom = s[i] /\ o[i].journalled = kept
  BY OwingShape
<1>2. DOMAIN o = 1..Len(s) /\ DOMAIN s = 1..Len(s)
  BY <1>1
<1> HIDE DEF o
<1>3. Times(w, Journalled(r)) = Times(c, Journalled(r)) + Times(o, Journalled(r))
  <2>1. /\ w \in Seq(Obligations) /\ Len(w) = Len(c) + Len(o)
        /\ \A i \in 1..Len(c) : w[i] = c[i]
        /\ \A i \in 1..Len(o) : w[Len(c) + i] = o[i]
    BY <1>1, Recorded
  <2> HIDE DEF w
  <2>2. Joined(c, o, w)
    BY <2>1 DEF Joined
  <2> QED
    BY <1>1, <2>1, <2>2, TimesJoined
<1>4. Times(o, Journalled(r)) = IF kept THEN Times(s, r) ELSE 0
  <2>1. \A i \in DOMAIN o : o[i] = Journalled(r) <=> s[i] = r /\ kept
    <3> SUFFICES ASSUME NEW i \in DOMAIN o PROVE o[i] = Journalled(r) <=> s[i] = r /\ kept
      OBVIOUS
    <3>1. o[i] = Journalled(r) <=> o[i].atom = r /\ o[i].journalled
      BY <1>1, JournalledAtom
    <3>2. o[i].atom = s[i] /\ o[i].journalled = kept
      BY <1>1, <1>2
    <3> QED
      BY <3>1, <3>2
  <2>2. CASE kept
    <3>1. {i \in DOMAIN o : o[i] = Journalled(r)} = {i \in DOMAIN s : s[i] = r}
      BY <1>2, <2>1, <2>2
    <3> QED
      BY <2>2, <3>1 DEF Times, Occurs
  <2>3. CASE ~kept
    <3>1. {i \in DOMAIN o : o[i] = Journalled(r)} = {}
      BY <2>1, <2>3
    <3> QED
      BY <2>3, <3>1, FS_EmptySet DEF Times, Occurs
  <2> QED
    BY <2>2, <2>3
<1> QED
  BY <1>3, <1>4 DEF w, o

\* What is kept of a step has its receipts: an obligation counts as durable
\* when the space holds more of its receipt than there are before it.
LEMMA DurableStored ==
    ASSUME TypeOK, NEW r,
           NEW i \in DOMAIN committed \ Undurable, i > start, committed[i].atom = r
    PROVE  Occurs(Atoms(committed), r, DOMAIN committed \ Undurable) <= receipts[r]
<1> DEFINE D == DOMAIN committed \ Undurable
           a == Atoms(committed)
           P == {j \in D : a[j] = r}
<1>1. /\ committed \in Seq(Obligations) /\ start \in Nat
      /\ DOMAIN committed = 1..Len(committed) /\ Len(committed) \in Nat
      /\ receipts \in [Receipts -> Nat]
  BY DEF TypeOK
<1>2. \A j \in DOMAIN committed : a[j] = committed[j].atom
  BY <1>1, AtomsShape
<1>3. IsFiniteSet(D) /\ IsFiniteSet(P) /\ P \in SUBSET Nat /\ i \in P
  <2>1. IsFiniteSet(DOMAIN committed)
    BY <1>1, TimesNat
  <2>2. D \in SUBSET DOMAIN committed /\ P \in SUBSET D
    OBVIOUS
  <2>3. IsFiniteSet(D)
    BY <2>1, <2>2, FS_Subset
  <2>4. IsFiniteSet(P)
    BY <2>2, <2>3, FS_Subset
  <2> QED
    BY <1>1, <1>2, <2>2, <2>3, <2>4
<1>4. PICK k \in P : /\ \A j \in P : j <= k
                     /\ Cardinality({j \in P : j < k}) + 1 = Cardinality(P)
  <2> HIDE DEF P
  <2>1. P # {}
    BY <1>3
  <2> QED
    BY <1>3, <2>1, LastPosition
<1>5. k > start /\ k \in 1..Len(committed) /\ k \notin Undurable /\ a[k] = r /\ i <= k
  BY <1>1, <1>3, <1>4
<1>6. k \in (start + 1)..Len(committed) /\ committed[k].atom = r
  BY <1>1, <1>2, <1>5
<1> DEFINE before == Occurs(a, r, 1..(k - 1))
<1>7. ~(before >= receipts[r])
  BY <1>5, <1>6 DEF Undurable
<1>8. before \in Nat /\ Cardinality({j \in P : j < k}) <= before
  <2> DEFINE B == {j \in 1..(k - 1) : a[j] = r}
             A == {j \in P : j < k}
  <2>1. IsFiniteSet(1..(k - 1))
    <3> HIDE DEF P, before
    <3>1. k - 1 \in Int
      BY <1>1, <1>5
    <3> QED
      BY <3>1, FS_Interval
  <2>2. IsFiniteSet(B) /\ Cardinality(B) = before /\ before \in Nat
    <3>1. \A Q : IsFiniteSet(Q) => /\ IsFiniteSet({j \in Q : a[j] = r})
                                  /\ Occurs(a, r, Q) \in Nat
      <4> HIDE DEF a
      <4> QED
        BY OccursFinite
    <3>2. IsFiniteSet(B) /\ before \in Nat
      <4> HIDE DEF a
      <4> QED
        BY <2>1, <3>1
    <3> QED
      BY <3>2 DEF Occurs
  <2>3. A \in SUBSET B
    BY <1>1, <1>5
  <2> HIDE DEF A, B
  <2>4. Cardinality(A) <= Cardinality(B)
    BY <2>2, <2>3, FS_Subset
  <2> QED
    BY <2>2, <2>4 DEF A
<1>9. Cardinality({j \in P : j < k}) \in Nat /\ receipts[r] \in Nat
  <2>1. r \in Receipts
    <3>1. committed[i] \in Obligations
      BY <1>1
    <3> QED
      BY <3>1 DEF Obligations
  <2>2. {j \in P : j < k} \in SUBSET P
    OBVIOUS
  <2>3. IsFiniteSet({j \in P : j < k})
    BY <1>3, <2>2, FS_Subset
  <2> QED
    BY <1>1, <2>1, <2>3, FS_CardinalityType
<1>10. Cardinality(P) <= receipts[r]
  <2> HIDE DEF P, before
  <2> QED
    BY <1>4, <1>7, <1>8, <1>9
<1> QED
  BY <1>10 DEF Occurs

\* What is kept of a step that was recorded finds its receipts.
LEMMA KeptStored ==
    ASSUME TypeOK, PhaseInv, StoredInv, ~tampered, pc = "after", NEW r \in Receipts
    PROVE  Occurs(committed, Journalled(r), DOMAIN committed \ Undurable) <= receipts[r] + astray[r]
<1> DEFINE D == DOMAIN committed \ Undurable
           J == Journalled(r)
<1>1. /\ committed \in Seq(Obligations) /\ start \in Nat
      /\ DOMAIN committed = 1..Len(committed)
      /\ receipts[r] \in Nat /\ astray[r] \in Nat
  BY DEF TypeOK
<1>2. /\ Occurs(committed, J, D) \in Nat /\ Occurs(Atoms(committed), r, D) \in Nat
      /\ Occurs(committed, J, D) <= Occurs(Atoms(committed), r, D)
  BY <1>1, JournalledFew
<1>3. CASE \E i \in D : i > start /\ committed[i].atom = r
  <2>1. Occurs(Atoms(committed), r, D) <= receipts[r]
    BY <1>3, DurableStored
  <2> HIDE DEF D, J
  <2> QED
    BY <1>1, <1>2, <2>1 DEF D, J
<1>4. CASE ~\E i \in D : i > start /\ committed[i].atom = r
  <2>1. {i \in D : committed[i] = J} \in SUBSET {i \in 1..start : committed[i] = J}
    <3> SUFFICES ASSUME NEW i \in D, committed[i] = J PROVE i \in 1..start
      OBVIOUS
    <3>1. i \in DOMAIN committed /\ committed[i].atom = r
      BY <1>1, JournalledAtom
    <3> QED
      BY <1>1, <1>4, <3>1
  <2>2. IsFiniteSet(1..start)
    <3> HIDE DEF D, J
    <3> QED
      BY <1>1, FS_Interval
  <2>3. /\ IsFiniteSet({i \in 1..start : committed[i] = J})
        /\ Occurs(committed, J, 1..start) \in Nat
    <3> HIDE DEF J
    <3> QED
      BY <2>2, OccursFinite
  <2>4. Occurs(committed, J, D) <= Occurs(committed, J, 1..start)
    <3> HIDE DEF D, J
    <3> QED
      BY <2>1, <2>3, FS_Subset DEF Occurs
  <2>5. Occurs(committed, J, 1..start) <= receipts[r] + astray[r]
    BY DEF StoredInv, Claimed
  <2> HIDE DEF D, J
  <2> QED
    BY <1>1, <1>2, <2>3, <2>4, <2>5 DEF D, J
<1> QED
  BY <1>3, <1>4

\* Where the pass covers every journalled obligation for r, the plan takes as
\* many receipts.
LEMMA PassCounts ==
    ASSUME NEW c \in Seq(Obligations), NEW p \in Seq([atom : Receipts, stored : BOOLEAN]),
           NEW m \in Nat, Len(c) = m + Len(p), NEW r,
           \A k \in 1..Len(p) : /\ p[k].atom = c[Len(c) + 1 - k].atom
                                /\ c[Len(c) + 1 - k].journalled => p[k].stored,
           \A i \in 1..m : c[i] # Journalled(r)
    PROVE  Times(c, Journalled(r)) <= Times(p, Taken(r))
<1> DEFINE n == Len(c)
           A == {i \in DOMAIN c : c[i] = Journalled(r)}
           B == {k \in DOMAIN p : p[k] = Taken(r)}
           f == [i \in A |-> n + 1 - i]
           Steps == [atom : Receipts, stored : BOOLEAN]
<1>1. n \in Nat /\ Len(p) \in Nat /\ DOMAIN c = 1..n /\ DOMAIN p = 1..Len(p)
  OBVIOUS
<1>2. ASSUME NEW i \in A PROVE n + 1 - i \in B
  <2>1. i \in 1..n /\ c[i] = Journalled(r) /\ c[i].atom = r /\ c[i].journalled
    BY <1>1, JournalledAtom
  <2>2. i \notin 1..m
    BY <2>1
  <2>3. n + 1 - i \in 1..Len(p) /\ n + 1 - (n + 1 - i) = i
    BY <1>1, <2>1, <2>2
  <2>4. p[n + 1 - i].atom = r /\ p[n + 1 - i].stored
    BY <2>1, <2>3
  <2>5. p[n + 1 - i] \in Steps
    <3>1. p \in Seq(Steps) /\ n + 1 - i \in 1..Len(p)
      BY <2>3
    <3> HIDE DEF Steps, n
    <3> QED
      BY <3>1
  <2>6. p[n + 1 - i] = [atom |-> p[n + 1 - i].atom, stored |-> p[n + 1 - i].stored]
        /\ p[n + 1 - i].stored \in BOOLEAN
    BY <2>5
  <2>7. p[n + 1 - i].stored = TRUE
    BY <2>4, <2>6
  <2>8. p[n + 1 - i] = Taken(r)
    BY <2>4, <2>6, <2>7 DEF Taken
  <2> QED
    BY <1>1, <2>3, <2>8
<1>3. f \in [A -> B]
  BY <1>2
<1>4. \A i, j \in A : f[i] = f[j] => i = j
  <2> SUFFICES ASSUME NEW i \in A, NEW j \in A, n + 1 - i = n + 1 - j PROVE i = j
    OBVIOUS
  <2>1. i \in 1..n /\ j \in 1..n
    BY <1>1
  <2> QED
    BY <1>1, <2>1
<1>5. IsFiniteSet(B)
  BY TimesNat, OccursFinite
<1> HIDE DEF A, B, f, n
<1>6. f \in Injection(A, B)
  BY <1>3, <1>4 DEF Injection, IsInjective
<1>7. Cardinality(A) <= Cardinality(B)
  BY <1>5, <1>6, FS_Injection
<1> QED
  BY <1>7 DEF Times, Occurs, A, B

\* A plan that was prepared takes no more receipts than there are.
LEMMA PreparedCounts ==
    ASSUME TypeOK, start <= Len(committed), Prepared, NEW r \in Receipts
    PROVE  /\ IsFiniteSet({i \in Due : committed[i].atom = r /\ Stored(i)})
           /\ Cardinality({i \in Due : committed[i].atom = r /\ Stored(i)}) <= receipts[r]
<1> DEFINE a == Atoms(committed)
           C == {i \in Claims : a[i] = r}
           F == Due \ Claims
           U == {i \in F : a[i] = r /\ Stored(i)}
           W == {i \in Due : committed[i].atom = r /\ Stored(i)}
<1>1. /\ committed \in Seq(Obligations) /\ start \in Nat /\ Len(committed) \in Nat
      /\ receipts[r] \in Nat
  BY DEF TypeOK
<1>2. /\ Due \in SUBSET (1..Len(committed)) /\ Due \in SUBSET Nat
      /\ \A i \in Due : a[i] = committed[i].atom
  BY <1>1, AtomsShape DEF Due
<1>3. IsFiniteSet(Due)
  <2>1. start + 1 \in Int /\ Len(committed) \in Int
    BY <1>1
  <2> QED
    BY <2>1, FS_Interval DEF Due
<1>4. Claims \in SUBSET Due
  BY DEF Claims
<1> HIDE DEF a
<1>5. /\ C \in SUBSET Claims /\ F \in SUBSET Due /\ U \in SUBSET F
      /\ C \in SUBSET Due /\ U \in SUBSET Due /\ C \in SUBSET Nat /\ U \in SUBSET Nat
  BY <1>2, <1>4
<1>6. /\ IsFiniteSet(C) /\ IsFiniteSet(U) /\ IsFiniteSet(F) /\ IsFiniteSet(Claims)
  BY <1>3, <1>4, <1>5, FS_Subset
<1>7. Cardinality(C) \in Nat /\ Cardinality(U) \in Nat
  BY <1>6, FS_CardinalityType
<1>8. Cardinality(C) = Occurs(a, r, Claims)
  BY DEF Occurs
<1>9. W \in SUBSET (C \cup U)
  BY <1>2, <1>4
<1>10. C \cap U = {}
  OBVIOUS
<1>11. Cardinality(C \cup U) = Cardinality(C) + Cardinality(U) /\ IsFiniteSet(C \cup U)
  <2> HIDE DEF C, U
  <2>1. /\ IsFiniteSet(C \cup U)
        /\ Cardinality(C \cup U) = Cardinality(C) + Cardinality(U) - Cardinality(C \cap U)
    BY <1>6, FS_Union
  <2>2. Cardinality(C \cap U) = 0
    BY <1>10, FS_EmptySet
  <2> QED
    BY <1>7, <2>1, <2>2
<1>12. Cardinality(C) + Cardinality(U) <= receipts[r]
  <2>1. CASE U # {}
    <3>1. PICK u \in U : Cardinality({j \in U : j < u}) + 1 = Cardinality(U)
      <4> HIDE DEF U
      <4> QED
        BY <1>5, <1>6, <2>1, LastPosition
    <3>2. u \in F /\ a[u] = r /\ Stored(u) /\ u \notin Claims /\ committed[u].atom = r
      BY <1>2
    <3>3. Occurs(a, r, Claims) + Ahead(u, F) < receipts[r]
      BY <3>2 DEF Stored, a
    <3>4. Ahead(u, F) \in Nat /\ Cardinality({j \in U : j < u}) <= Ahead(u, F)
      <4> DEFINE G == {j \in F : j < u}
                 K == {j \in G : a[j] = r}
      <4>1. IsFiniteSet(G)
        <5>1. G \in SUBSET F
          OBVIOUS
        <5> QED
          BY <1>6, <5>1, FS_Subset
      <4>2. IsFiniteSet(K)
        <5> HIDE DEF G
        <5> QED
          BY <4>1, OccursFinite
      <4>3. Ahead(u, F) = Cardinality(K)
        BY <3>2 DEF Ahead, Occurs, a
      <4>4. {j \in U : j < u} \in SUBSET K
        OBVIOUS
      <4> HIDE DEF K
      <4> QED
        BY <4>2, <4>3, <4>4, FS_Subset, FS_CardinalityType
    <3>5. Cardinality({j \in U : j < u}) \in Nat
      <4>1. {j \in U : j < u} \in SUBSET U
        OBVIOUS
      <4>2. IsFiniteSet({j \in U : j < u})
        BY <1>6, <4>1, FS_Subset
      <4> QED
        BY <4>2, FS_CardinalityType
    <3> HIDE DEF C, U, F
    <3> QED
      BY <1>1, <1>7, <1>8, <3>1, <3>3, <3>4, <3>5
  <2>2. CASE U = {} /\ C # {}
    <3>1. PICK u \in C : Cardinality({j \in C : j < u}) + 1 = Cardinality(C)
      <4> HIDE DEF C
      <4> QED
        BY <1>5, <1>6, <2>2, LastPosition
    <3>2. u \in Claims /\ committed[u].atom = r /\ Stored(u)
      BY <1>2, <1>4 DEF Prepared
    <3>3. Ahead(u, Claims) < receipts[r]
      BY <3>2 DEF Stored
    <3>4. Ahead(u, Claims) = Cardinality({j \in C : j < u})
      <4>1. {j \in {k \in Claims : k < u} : a[j] = r} = {j \in C : j < u}
        OBVIOUS
      <4> QED
        BY <3>2, <4>1 DEF Ahead, Occurs, a
    <3>5. Cardinality({j \in C : j < u}) \in Nat
      <4>1. {j \in C : j < u} \in SUBSET C
        OBVIOUS
      <4>2. IsFiniteSet({j \in C : j < u})
        BY <1>6, <4>1, FS_Subset
      <4> QED
        BY <4>2, FS_CardinalityType
    <3>6. Cardinality(U) = 0
      BY <2>2, FS_EmptySet
    <3> HIDE DEF C, U, F
    <3> QED
      BY <1>1, <1>7, <3>1, <3>3, <3>4, <3>5, <3>6
  <2>3. CASE U = {} /\ C = {}
    <3>1. Cardinality(U) = 0 /\ Cardinality(C) = 0
      BY <2>3, FS_EmptySet
    <3> HIDE DEF C, U, F
    <3> QED
      BY <1>1, <3>1
  <2> QED
    BY <2>1, <2>2, <2>3
<1> HIDE DEF C, U, W
<1>13. IsFiniteSet(W) /\ Cardinality(W) <= Cardinality(C \cup U)
  BY <1>9, <1>11, FS_Subset
<1>14. Cardinality(W) \in Nat
  BY <1>13, FS_CardinalityType
<1>15. Cardinality(W) <= receipts[r]
  BY <1>1, <1>7, <1>11, <1>12, <1>13, <1>14
<1> QED
  BY <1>13, <1>15 DEF W

\* The plan that is prepared takes receipts that are there, one for each
\* journalled obligation of the pass.
LEMMA PlanPrepared ==
    ASSUME ShapeInv, Preflight, pc' = "undo"
    PROVE  PlanInv' /\ \A r \in Receipts : Times(plan', Taken(r)) <= receipts'[r]
<1> DEFINE n == Len(committed)
           Steps == [atom : Receipts, stored : BOOLEAN]
<1>1. /\ TypeOK /\ start <= n /\ start \in Nat /\ n \in Nat /\ committed \in Seq(Obligations)
      /\ UNCHANGED <<committed, receipts>> /\ receipts \in [Receipts -> Nat]
  BY DEF ShapeInv, TypeOK, PhaseInv, Preflight
<1>2. /\ Prepared
      /\ plan' = Reverse([k \in 1..(n - start) |->
                            [atom |-> committed[start + k].atom, stored |-> Stored(start + k)]])
  BY DEF Preflight, Raised, Done
<1>3. /\ plan' \in Seq(Steps) /\ n = start + Len(plan')
      /\ \A k \in 1..Len(plan') : /\ plan'[k].atom = committed[n + 1 - k].atom
                                  /\ plan'[k].stored = Stored(n + 1 - k)
  BY <1>1, <1>2, PlanReversed
<1>4. \A k \in 1..Len(plan') : n + 1 - k \in Due
  <2>1. Len(plan') \in Nat
    BY <1>3
  <2> QED
    BY <1>1, <1>3, <2>1 DEF Due
<1>5. PlanInv'
  <2> SUFFICES ASSUME NEW k \in 1..Len(plan'), committed[n + 1 - k].journalled
               PROVE  plan'[k].stored
    BY <1>1 DEF PlanInv
  <2>1. n + 1 - k \in Claims
    BY <1>4 DEF Claims
  <2> QED
    BY <1>2, <1>3, <2>1 DEF Prepared
<1>6. ASSUME NEW r \in Receipts PROVE Times(plan', Taken(r)) <= receipts[r]
  <2> DEFINE A == {k \in DOMAIN plan' : plan'[k] = Taken(r)}
             W == {i \in Due : committed[i].atom = r /\ Stored(i)}
             f == [k \in A |-> n + 1 - k]
  <2>1. DOMAIN plan' = 1..Len(plan') /\ Len(plan') \in Nat
    BY <1>3
  <2>2. ASSUME NEW k \in A PROVE n + 1 - k \in W
    <3>1. k \in 1..Len(plan') /\ plan'[k].atom = r /\ plan'[k].stored
      BY <2>1 DEF Taken
    <3> QED
      BY <1>3, <1>4, <3>1
  <2>3. f \in [A -> W]
    BY <2>2
  <2>4. \A i, j \in A : f[i] = f[j] => i = j
    <3> SUFFICES ASSUME NEW i \in A, NEW j \in A, n + 1 - i = n + 1 - j PROVE i = j
      OBVIOUS
    <3>1. i \in 1..Len(plan') /\ j \in 1..Len(plan')
      BY <2>1
    <3> QED
      BY <1>1, <2>1, <3>1
  <2>5. IsFiniteSet(W) /\ Cardinality(W) <= receipts[r]
    BY <1>1, <1>2, PreparedCounts
  <2>6. Cardinality(A) = Times(plan', Taken(r)) /\ receipts[r] \in Nat
    BY <1>1 DEF Times, Occurs
  <2> HIDE DEF A, W, f
  <2>7. f \in Injection(A, W)
    BY <2>3, <2>4 DEF Injection, IsInjective
  <2>8. Cardinality(A) <= Cardinality(W) /\ IsFiniteSet(A)
    BY <2>5, <2>7, FS_Injection
  <2>9. Cardinality(A) \in Nat /\ Cardinality(W) \in Nat
    BY <2>5, <2>8, FS_CardinalityType
  <2> QED
    BY <2>5, <2>6, <2>8, <2>9
<1> QED
  BY <1>1, <1>5, <1>6

\* The journalled obligations for r before the last, and the last.
LEMMA FrontClaims ==
    ASSUME NEW c \in Seq(Obligations), Len(c) > 0, NEW r
    PROVE  Times(c, Journalled(r))
           = Times(Front(c), Journalled(r)) + IF c[Len(c)] = Journalled(r) THEN 1 ELSE 0
<1> DEFINE u == Front(c)
           v == <<c[Len(c)]>>
<1>1. /\ u \in Seq(Obligations) /\ Len(u) = Len(c) - 1
      /\ \A i \in 1..(Len(c) - 1) : u[i] = c[i]
  BY FrontCounts
<1>2. /\ v \in Seq(Obligations) /\ Len(v) = 1 /\ v[1] = c[Len(c)]
      /\ Len(c) \in Nat
  BY SMTT(30)
<1>3. Times(v, Journalled(r)) = IF c[Len(c)] = Journalled(r) THEN 1 ELSE 0
  BY TimesOne
<1> HIDE DEF u, v
<1>4. Joined(u, v, c)
  <2>1. \A i \in 1..Len(u) : c[i] = u[i]
    BY <1>1
  <2>2. \A i \in 1..Len(v) : c[Len(u) + i] = v[i]
    <3> SUFFICES ASSUME NEW i \in 1..Len(v) PROVE c[Len(u) + i] = v[i]
      OBVIOUS
    <3>1. i = 1 /\ Len(u) + i = Len(c)
      BY <1>1, <1>2
    <3> QED
      BY <1>2, <3>1
  <2>3. Len(c) = Len(u) + Len(v)
    BY <1>1, <1>2
  <2> QED
    BY <2>1, <2>2, <2>3 DEF Joined
<1>5. Times(c, Journalled(r)) = Times(u, Journalled(r)) + Times(v, Journalled(r))
  BY <1>1, <1>2, <1>4, TimesJoined
<1> QED
  BY <1>3, <1>5 DEF u

\* The steps of a plan that take r: the first, and those behind it.
LEMMA TailTakes ==
    ASSUME NEW p \in Seq([atom : Receipts, stored : BOOLEAN]), p # <<>>, NEW r
    PROVE  /\ Times(Tail(p), Taken(r)) \in Nat
           /\ Times(p, Taken(r)) = Times(Tail(p), Taken(r)) + IF p[1] = Taken(r) THEN 1 ELSE 0
<1> DEFINE Steps == [atom : Receipts, stored : BOOLEAN]
           u == <<p[1]>>
           v == Tail(p)
<1>1. p \in Seq(Steps)
  OBVIOUS
<1>2. /\ v \in Seq(Steps) /\ Len(v) = Len(p) - 1 /\ Len(p) \in Nat
      /\ \A k \in 1..Len(v) : v[k] = p[k + 1]
      /\ u \in Seq(Steps) /\ Len(u) = 1 /\ u[1] = p[1]
  <2> HIDE DEF Steps
  <2>1. Len(p) \in Nat /\ Len(p) # 0
    BY <1>1
  <2>2. p[1] \in Steps
    BY <1>1, <2>1
  <2> QED
    BY <1>1, <2>1, <2>2
<1>3. Times(u, Taken(r)) = IF p[1] = Taken(r) THEN 1 ELSE 0
  BY TimesOne
<1> HIDE DEF u, v
<1>4. Joined(u, v, p)
  <2>1. \A i \in 1..Len(u) : p[i] = u[i]
    BY <1>2
  <2>2. \A i \in 1..Len(v) : p[Len(u) + i] = v[i]
    BY <1>2
  <2>3. Len(p) = Len(u) + Len(v)
    BY <1>2
  <2> QED
    BY <2>1, <2>2, <2>3 DEF Joined
<1>5. Times(p, Taken(r)) = Times(u, Taken(r)) + Times(v, Taken(r))
  <2> HIDE DEF Steps
  <2> QED
    BY <1>1, <1>2, <1>4, TimesJoined
<1>6. Times(v, Taken(r)) \in Nat
  BY <1>2, TimesNat
<1> QED
  BY <1>3, <1>5, <1>6 DEF v

\* The obligations that claim a receipt, counted.
LEMMA ClaimedNat ==
    ASSUME TypeOK, NEW r
    PROVE  Claimed(r) \in Nat /\ (pc # "after" => Claimed(r) = Times(committed, Journalled(r)))
<1> DEFINE P == IF pc = "after" THEN 1..start ELSE DOMAIN committed
<1>1. IsFiniteSet(P)
  <2>1. start \in Int /\ committed \in Seq(Obligations)
    BY DEF TypeOK
  <2>2. IsFiniteSet(DOMAIN committed)
    BY <2>1, TimesNat
  <2>3. IsFiniteSet(1..start)
    BY <2>1, FS_Interval
  <2> QED
    BY <2>2, <2>3
<1> HIDE DEF P
<1>2. Occurs(committed, Journalled(r), P) \in Nat
  BY <1>1, OccursFinite
<1> QED
  BY <1>2 DEF P, Claimed, Times

\* Steps that record nothing and take no receipt.
LEMMA StoredFrame ==
    ASSUME ShapeInv, PlanInv, StoredInv, UNCHANGED <<committed, tampered, astray>>,
           \/ receipts' = receipts
           \/ \E q \in Receipts : receipts' = [receipts EXCEPT ![q] = @ + 1],
           \/ UNCHANGED <<pc, start, plan>>
           \/ pc # "after" /\ pc' \notin {"after", "undo"}
           \/ pc = "body" /\ pc' = "after" /\ start' = start
    PROVE  PlanInv' /\ StoredInv'
<1>1. /\ receipts \in [Receipts -> Nat] /\ astray \in [Receipts -> Nat]
      /\ committed \in Seq(Obligations) /\ (pc = "body" => start = Len(committed))
      /\ TypeOK /\ plan \in Seq([atom : Receipts, stored : BOOLEAN])
  BY DEF ShapeInv, TypeOK, PhaseInv
<1>2. PlanInv'
  BY DEF PlanInv
<1>3. ASSUME NEW r \in Receipts PROVE receipts'[r] \in Nat /\ receipts[r] <= receipts'[r]
  <2>1. receipts[r] \in Nat
    BY <1>1
  <2>2. CASE receipts' = receipts
    BY <2>1, <2>2
  <2>3. CASE \E q \in Receipts : receipts' = [receipts EXCEPT ![q] = @ + 1]
    <3>1. PICK q \in Receipts : receipts' = [receipts EXCEPT ![q] = @ + 1]
      BY <2>3
    <3>2. receipts'[r] = IF r = q THEN receipts[r] + 1 ELSE receipts[r]
      BY <1>1, <3>1
    <3> QED
      BY <2>1, <3>2
  <2> QED
    BY <2>2, <2>3
<1>4. ASSUME NEW r \in Receipts PROVE Claimed(r)' = Claimed(r)
  <2>1. CASE pc = "body"
    <3>1. DOMAIN committed = 1..start
      BY <1>1, <2>1
    <3> QED
      BY <2>1, <3>1 DEF Claimed
  <2>2. CASE pc # "body"
    BY <2>2 DEF Claimed
  <2> QED
    BY <2>1, <2>2
<1>5. SUFFICES ASSUME ~tampered, NEW r \in Receipts
               PROVE  /\ Claimed(r) <= receipts'[r] + astray[r]
                      /\ pc' = "undo" => Times(plan', Taken(r)) <= receipts'[r]
  BY <1>2, <1>4 DEF StoredInv
<1>6. /\ Claimed(r) <= receipts[r] + astray[r]
      /\ pc = "undo" => Times(plan, Taken(r)) <= receipts[r]
  BY <1>5 DEF StoredInv
<1>7. Claimed(r) \in Nat /\ astray[r] \in Nat /\ receipts[r] \in Nat
  BY <1>1, ClaimedNat
<1>8. Claimed(r) <= receipts'[r] + astray[r]
  BY <1>3, <1>6, <1>7
<1>9. ASSUME pc' = "undo" PROVE Times(plan', Taken(r)) <= receipts'[r]
  <2>1. pc = "undo" /\ plan' = plan
    BY <1>9
  <2>2. Times(plan, Taken(r)) \in Nat
    BY <1>1, TimesNat
  <2> QED
    BY <1>3, <1>6, <1>7, <2>1, <2>2
<1> QED
  BY <1>8, <1>9

\* The steps that touch neither the obligations nor their receipts, and those
\* of other writers.
LEMMA StoredUntouched ==
    ASSUME ShapeInv, PlanInv, StoredInv,
           \/ UNCHANGED vars \/ Enter \/ ExitRaising \/ Close
           \/ \E s \in closing : CloseEnds(s)
           \/ Run \/ \E q \in Receipts : Perform(q)
           \/ StepFails \/ StepRaises \/ Rollback \/ UndoFails \/ Recovered
           \/ \E q \in Receipts : WriteReceipt(q) \/ RemoveReceipt(q)
    PROVE  PlanInv' /\ StoredInv'
<1>1. CASE \E q \in Receipts : RemoveReceipt(q)
  <2>1. tampered' = TRUE /\ UNCHANGED <<pc, plan, committed>>
    BY <1>1 DEF RemoveReceipt, locals
  <2> QED
    BY <2>1 DEF StoredInv, PlanInv
<1>2. CASE \E q \in Receipts : WriteReceipt(q)
  <2>1. /\ UNCHANGED <<committed, tampered, astray, pc, start, plan>>
        /\ \E q \in Receipts : receipts' = [receipts EXCEPT ![q] = @ + 1]
    BY <1>2 DEF WriteReceipt, locals, history
  <2> QED
    BY <2>1, StoredFrame
<1>3. CASE \/ UNCHANGED vars \/ Enter \/ Close \/ \E s \in closing : CloseEnds(s)
           \/ \E q \in Receipts : Perform(q)
  <2>1. UNCHANGED <<committed, tampered, astray, receipts, pc, start, plan>>
    BY <1>3 DEF vars, Enter, Close, CloseEnds, Perform, locals, world, history
  <2> QED
    BY <2>1, StoredFrame
<1>4. CASE ExitRaising \/ Run \/ StepFails \/ Rollback \/ UndoFails \/ Recovered
  <2>1. UNCHANGED <<committed, tampered, astray, receipts>> /\ pc # "after"
    BY <1>4 DEF ExitRaising, Run, StepFails, Rollback, UndoFails, Recovered,
                Unlocked, world, history
  <2>2. UNCHANGED <<pc, start, plan>> \/ pc' \notin {"after", "undo"}
    BY <1>4 DEF ExitRaising, Run, StepFails, Recover, Rollback, UndoFails, Recovered, Raised,
                Done, Unlocked, locals
  <2> QED
    BY <2>1, <2>2, StoredFrame
<1>5. CASE StepRaises
  <2>1. /\ UNCHANGED <<committed, tampered, astray, receipts, start>>
        /\ pc = "body" /\ pc' = "after"
    BY <1>5 DEF StepRaises, world
  <2> QED
    BY <2>1, StoredFrame
<1> QED
  BY <1>1, <1>2, <1>3, <1>4, <1>5

\* A step that commits claims a receipt only where the space has kept it, and
\* recovery claims those of what survived only if it wrote them.
LEMMA StoredRecorded ==
    ASSUME ShapeInv, StoredInv, StepCommits \/ Persist
    PROVE  PlanInv' /\ StoredInv'
<1>1. /\ TypeOK /\ pc \in {"body", "persist"} /\ committed \in Seq(Obligations)
      /\ pending \in Seq(Receipts) /\ receipts \in [Receipts -> Nat]
      /\ astray \in [Receipts -> Nat] /\ UNCHANGED <<astray, tampered>>
      /\ pc = "body" => start = Len(committed)
      /\ pc' # "undo"
  BY DEF ShapeInv, TypeOK, PhaseInv, StepCommits, Persist, Done, world, history
<1>2. PICK kept \in BOOLEAN :
         /\ committed' = committed \o Owing(pending, kept)
         /\ receipts' \in {receipts, With(receipts, pending)}
         /\ \/ kept => receipts' = With(receipts, pending)
            \/ pc = "body" /\ pc' = "after" /\ start' = start
         /\ pc' = "after" => pc = "body" /\ start' = start
  <2>1. CASE StepCommits
    BY <2>1 DEF StepCommits, Done
  <2>2. CASE Persist
    BY <2>2 DEF Persist, Retained
  <2> QED
    BY <2>1, <2>2
<1>3. /\ With(receipts, pending) \in [Receipts -> Nat]
      /\ \A r \in Receipts : With(receipts, pending)[r] = receipts[r] + Times(pending, r)
  BY <1>1, WithCounts
<1>4. PlanInv'
  BY <1>1 DEF PlanInv
<1>5. SUFFICES ASSUME ~tampered, NEW r \in Receipts
               PROVE  Claimed(r)' <= receipts'[r] + astray[r]
  BY <1>1, <1>4 DEF StoredInv
<1>6. /\ Claimed(r) <= receipts[r] + astray[r]
      /\ Claimed(r) = Times(committed, Journalled(r)) /\ Claimed(r) \in Nat
      /\ receipts[r] \in Nat /\ astray[r] \in Nat /\ Times(pending, r) \in Nat
  BY <1>1, <1>5, ClaimedNat, TimesNat DEF StoredInv
<1>7. receipts'[r] \in {receipts[r], receipts[r] + Times(pending, r)}
  BY <1>2, <1>3
<1>8. CASE pc' = "after"
  <2>1. \A i \in 1..Len(committed) : committed'[i] = committed[i]
    BY <1>1, <1>2, OwingShape, Recorded
  <2>2. start' = Len(committed) /\ DOMAIN committed = 1..Len(committed)
    BY <1>1, <1>2, <1>8
  <2>3. Claimed(r)' = Occurs(committed', Journalled(r), 1..Len(committed))
    BY <1>8, <2>2 DEF Claimed
  <2>4. {i \in 1..Len(committed) : committed'[i] = Journalled(r)}
        = {i \in DOMAIN committed : committed[i] = Journalled(r)}
    BY <2>1, <2>2
  <2>5. Claimed(r)' = Claimed(r)
    BY <1>6, <2>3, <2>4 DEF Times, Occurs
  <2> QED
    BY <1>6, <1>7, <2>5
<1>9. CASE pc' # "after"
  <2>1. Claimed(r)' = Times(committed', Journalled(r))
    BY <1>9 DEF Claimed, Times
  <2>2. Times(committed', Journalled(r))
        = Times(committed, Journalled(r)) + IF kept THEN Times(pending, r) ELSE 0
    BY <1>1, <1>2, JournalledRecorded
  <2>3. kept => receipts'[r] = receipts[r] + Times(pending, r)
    BY <1>2, <1>3, <1>9
  <2> QED
    BY <1>6, <1>7, <2>1, <2>2, <2>3
<1> QED
  BY <1>8, <1>9

\* What is judged durable finds its receipts; after a mixed outcome nothing of
\* the step claims one.
LEMMA StoredJudged ==
    ASSUME ShapeInv, StoredInv, AfterStep
    PROVE  PlanInv' /\ StoredInv'
<1>1. /\ TypeOK /\ PhaseInv /\ pc = "after" /\ committed \in Seq(Obligations) /\ start \in Nat
      /\ receipts \in [Receipts -> Nat] /\ astray \in [Receipts -> Nat]
      /\ UNCHANGED <<tampered, receipts>> /\ pc' \notin {"after", "undo"}
  BY DEF ShapeInv, TypeOK, AfterStep, Recover, Done, world
<1>2. PlanInv'
  BY <1>1 DEF PlanInv
<1>3. SUFFICES ASSUME ~tampered, NEW r \in Receipts
               PROVE  Times(committed', Journalled(r)) <= receipts[r] + astray'[r]
  <2>1. \A r \in Receipts : Claimed(r)' = Times(committed', Journalled(r))
    BY <1>1 DEF Claimed, Times
  <2> QED
    BY <1>1, <1>2, <2>1 DEF StoredInv
<1>4. /\ Occurs(committed, Journalled(r), 1..start) <= receipts[r] + astray[r]
      /\ receipts[r] \in Nat /\ astray[r] \in Nat
  BY <1>1, <1>3 DEF StoredInv, Claimed
<1>5. CASE /\ committed' = SubSeq(committed, 1, start) \o Owing(pending, FALSE)
           /\ astray' = astray
  <2>1. /\ committed' \in Seq(Obligations) /\ Len(committed') = start + Len(pending)
        /\ \A i \in 1..start : committed'[i] = committed[i]
        /\ \A i \in 1..Len(pending) : ~committed'[start + i].journalled
        /\ Len(pending) \in Nat
    <3>1. Len(pending) \in Nat
      BY <1>1 DEF TypeOK
    <3> QED
      BY <1>1, <1>5, <3>1, MixedCounts
  <2>2. {i \in DOMAIN committed' : committed'[i] = Journalled(r)}
        = {i \in 1..start : committed[i] = Journalled(r)}
    <3>1. DOMAIN committed' = 1..(start + Len(pending))
      BY <2>1
    <3>2. ASSUME NEW i \in DOMAIN committed', i \notin 1..start
          PROVE  committed'[i] # Journalled(r)
      <4>1. i - start \in 1..Len(pending) /\ start + (i - start) = i
        BY <1>1, <2>1, <3>1, <3>2
      <4>2. ~committed'[i].journalled
        BY <2>1, <4>1
      <4> QED
        BY <4>2 DEF Journalled
    <3>3. 1..start \in SUBSET DOMAIN committed'
      BY <1>1, <2>1, <3>1
    <3> QED
      BY <2>1, <3>2, <3>3
  <2> QED
    BY <1>4, <1>5, <2>2 DEF Times, Occurs
<1>6. CASE committed' = committed /\ Len(committed) = start /\ astray' = astray
  <2>1. DOMAIN committed = 1..start
    BY <1>1, <1>6
  <2> QED
    BY <1>4, <1>6, <2>1 DEF Times
<1> DEFINE D == DOMAIN committed \ Undurable
           J == Journalled(r)
<1>7. /\ Occurs(committed, J, D) <= receipts[r] + astray[r]
      /\ Occurs(committed, J, D) \in Nat
  BY <1>1, <1>3, KeptStored, JournalledFew
<1>8. CASE committed' = At(committed, D) /\ astray' = astray
  <2>1. Times(committed', J) = Occurs(committed, J, D)
    BY <1>1, <1>8, AtPositions
  <2> QED
    BY <1>7, <1>8, <2>1
<1>9. CASE Unanswered
  <2>1. Undurable \in SUBSET DOMAIN committed
    BY <1>1 DEF Undurable
  <2>2. astray'[r] = astray[r] + Times(Atoms(At(committed, Undurable)), r)
    BY <1>1, <1>9, UnansweredCounts
  <2>3. Times(Atoms(At(committed, Undurable)), r) = Occurs(Atoms(committed), r, Undurable)
    BY <1>1, <2>1, TimesAt
  <2>4. /\ Occurs(committed, J, Undurable) \in Nat /\ Occurs(Atoms(committed), r, Undurable) \in Nat
        /\ Occurs(committed, J, Undurable) <= Occurs(Atoms(committed), r, Undurable)
    BY <1>1, <2>1, JournalledFew
  <2>5. Times(committed, J) = Occurs(committed, J, D) + Occurs(committed, J, Undurable)
    <3>1. IsFiniteSet(DOMAIN committed)
      BY <1>1, TimesNat
    <3>2. IsFiniteSet(D) /\ IsFiniteSet(Undurable)
      BY <2>1, <3>1, FS_Subset
    <3>3. D \cap Undurable = {} /\ D \cup Undurable = DOMAIN committed
      BY <2>1
    <3> HIDE DEF D, J
    <3>4. Occurs(committed, J, D \cup Undurable)
          = Occurs(committed, J, D) + Occurs(committed, J, Undurable)
      BY <3>2, <3>3, OccursSplit
    <3> QED
      BY <3>3, <3>4 DEF Times
  <2>6. committed' = committed
    BY <1>9 DEF Unanswered
  <2> HIDE DEF D, J
  <2> QED
    BY <1>4, <1>7, <2>2, <2>3, <2>4, <2>5, <2>6 DEF J
<1> QED
  BY <1>5, <1>6, <1>8, <1>9 DEF AfterStep, Unanswered

\* The rest of the plan still takes the receipts of the rest of the pass.
LEMMA PlanPassedOn ==
    ASSUME ShapeInv, PlanInv, Undo
    PROVE  /\ \A k \in 1..Len(Tail(plan)) :
                 Front(committed)[Len(committed) - k].journalled => Tail(plan)[k].stored
           /\ PlanInv'
<1> DEFINE n == Len(committed)
           Steps == [atom : Receipts, stored : BOOLEAN]
<1>1. /\ pc = "undo" /\ plan # <<>> /\ plan \in Seq(Steps) /\ start \in Nat
      /\ committed \in Seq(Obligations) /\ n = start + Len(plan)
      /\ \A k \in 1..Len(plan) : committed[n + 1 - k].journalled => plan[k].stored
  BY DEF ShapeInv, TypeOK, PhaseInv, PlanInv, Undo
<1>2. /\ committed' = Front(committed) /\ n > 0 /\ n \in Nat
      /\ \/ Raised(committed')
         \/ plan' = Tail(plan) /\ pc' = pc
  BY <1>1, UndoEffect
<1>3. Len(Front(committed)) = n - 1 /\ \A i \in 1..(n - 1) : Front(committed)[i] = committed[i]
  BY <1>1, <1>2, FrontCounts
<1>4. /\ Len(Tail(plan)) = Len(plan) - 1 /\ Len(plan) \in Nat
      /\ \A k \in 1..Len(Tail(plan)) : Tail(plan)[k] = plan[k + 1]
  <2> HIDE DEF Steps
  <2> QED
    BY <1>1
<1>5. ASSUME NEW k \in 1..Len(Tail(plan)), Front(committed)[n - k].journalled
      PROVE  Tail(plan)[k].stored
  <2>1. k + 1 \in 1..Len(plan) /\ n - k \in 1..(n - 1) /\ n + 1 - (k + 1) = n - k
    BY <1>1, <1>2, <1>4
  <2>2. committed[n - k].journalled
    BY <1>3, <1>5, <2>1
  <2>3. plan[k + 1].stored
    BY <1>1, <2>1, <2>2
  <2> QED
    BY <1>4, <2>3
<1>6. PlanInv'
  <2>1. CASE Raised(committed')
    <3>1. pc' = "idle"
      BY <2>1 DEF Raised, Done
    <3> QED
      BY <3>1 DEF PlanInv
  <2>2. CASE plan' = Tail(plan) /\ pc' = pc
    <3> SUFFICES ASSUME NEW k \in 1..Len(plan'), committed'[Len(committed') + 1 - k].journalled
                 PROVE  plan'[k].stored
      BY DEF PlanInv
    <3>1. Len(committed') + 1 - k = n - k
      BY <1>2, <1>3, <1>4, <2>2
    <3> QED
      BY <1>2, <1>5, <2>2, <3>1
  <2> QED
    BY <1>2, <2>1, <2>2
<1> QED
  BY <1>5, <1>6

\* A compensation takes its own receipt, or one that nothing else in its pass
\* claims; one that competes with an earlier obligation leads it astray.
LEMMA StoredUndo ==
    ASSUME ShapeInv, PlanInv, StoredInv, Undo
    PROVE  PlanInv' /\ StoredInv'
<1> DEFINE q == Head(plan).atom
           n == Len(committed)
           Steps == [atom : Receipts, stored : BOOLEAN]
<1>1. /\ TypeOK /\ pc = "undo" /\ plan # <<>> /\ plan \in Seq(Steps)
      /\ committed \in Seq(Obligations) /\ n \in Nat /\ start \in Nat
      /\ receipts \in [Receipts -> Nat] /\ astray \in [Receipts -> Nat]
      /\ tampered' = tampered /\ n = start + Len(plan)
      /\ Head(plan) = plan[1] /\ Len(plan) \in Nat /\ 1 \in 1..Len(plan)
      /\ \A k \in 1..Len(plan) : plan[k].atom = committed[n + 1 - k].atom
      /\ \A k \in 1..Len(plan) : committed[n + 1 - k].journalled => plan[k].stored
  <2>1. /\ TypeOK /\ pc = "undo" /\ plan # <<>> /\ plan \in Seq(Steps)
        /\ committed \in Seq(Obligations) /\ start \in Nat
        /\ receipts \in [Receipts -> Nat] /\ astray \in [Receipts -> Nat]
        /\ tampered' = tampered /\ n = start + Len(plan)
        /\ \A k \in 1..Len(plan) : plan[k].atom = committed[n + 1 - k].atom
        /\ \A k \in 1..Len(plan) : committed[n + 1 - k].journalled => plan[k].stored
    BY DEF ShapeInv, TypeOK, PhaseInv, PlanInv, Undo, world
  <2>2. Len(plan) \in Nat /\ n \in Nat /\ Head(plan) = plan[1] /\ Len(plan) # 0
    <3> HIDE DEF Steps
    <3> QED
      BY <2>1
  <2>3. 1 \in 1..Len(plan)
    BY <2>2
  <2> QED
    BY <2>1, <2>2, <2>3
<1>2. /\ q \in Receipts /\ n > 0 /\ committed[n].atom = q
      /\ committed' = Front(committed)
      /\ \/ receipts' = receipts /\ astray' = astray
         \/ /\ plan[1].stored /\ receipts[q] > 0 /\ receipts' = Less(receipts, q)
            /\ astray' = IF Competes(q) THEN With(astray, <<q>>) ELSE astray
      /\ \/ Raised(committed')
         \/ plan' = Tail(plan) /\ pc' = pc
  BY <1>1, UndoEffect
<1>3. /\ Front(committed) \in Seq(Obligations) /\ Len(Front(committed)) = n - 1
      /\ \A i \in 1..(n - 1) : Front(committed)[i] = committed[i]
  BY <1>1, <1>2, FrontCounts
<1>4. PlanInv' /\ pc' # "after"
  BY <1>1, <1>2, PlanPassedOn DEF Raised, Done
<1>5. SUFFICES ASSUME ~tampered, NEW r \in Receipts
               PROVE  /\ Times(Front(committed), Journalled(r)) <= receipts'[r] + astray'[r]
                      /\ Times(Tail(plan), Taken(r)) <= receipts'[r]
  <2>1. \A r : Claimed(r)' = Times(Front(committed), Journalled(r))
    BY <1>2, <1>4 DEF Claimed, Times
  <2>2. pc' = "undo" => plan' = Tail(plan)
    BY <1>2 DEF Raised, Done
  <2> QED
    BY <1>1, <1>4, <2>1, <2>2 DEF StoredInv
<1> DEFINE C == Times(committed, Journalled(r))
           F == Times(Front(committed), Journalled(r))
           P == Times(plan, Taken(r))
           T == Times(Tail(plan), Taken(r))
<1>6. C <= receipts[r] + astray[r] /\ P <= receipts[r]
  <2>1. Claimed(r) = C
    BY <1>1, ClaimedNat
  <2> QED
    BY <1>1, <1>5, <2>1 DEF StoredInv
<1>7. /\ C = F + IF committed[n] = Journalled(r) THEN 1 ELSE 0
      /\ P = T + IF plan[1] = Taken(r) THEN 1 ELSE 0
      /\ T \in Nat /\ F \in Nat
  <2>1. C = F + IF committed[n] = Journalled(r) THEN 1 ELSE 0
    BY <1>1, <1>2, FrontClaims
  <2>2. T \in Nat /\ P = T + IF plan[1] = Taken(r) THEN 1 ELSE 0
    BY <1>1, TailTakes
  <2>3. F \in Nat
    BY <1>3, TimesNat
  <2> QED
    BY <2>1, <2>2, <2>3
<1>8. receipts[r] \in Nat /\ astray[r] \in Nat
  BY <1>1
<1>9. receipts \in [Receipts -> Nat] /\ astray \in [Receipts -> Nat] /\ q \in Receipts
  BY <1>1, <1>2
<1>10. CASE receipts' = receipts /\ astray' = astray
  <2> HIDE DEF C, F, P, T
  <2>1. F <= receipts[r] + astray[r] /\ T <= receipts[r]
    BY <1>6, <1>7, <1>8
  <2> QED
    BY <1>10, <2>1 DEF F, T
<1>11. CASE /\ plan[1].stored /\ receipts[q] > 0 /\ receipts' = Less(receipts, q)
            /\ astray' = IF Competes(q) THEN With(astray, <<q>>) ELSE astray
  <2>1. CASE r # q
    <3>1. Less(receipts, q)[r] = receipts[r]
      BY <1>5, <1>9, <2>1, LessCounts
    <3>2. With(astray, <<q>>)[r] = astray[r]
      BY <1>5, <1>9, <2>1, WithOneCounts
    <3> HIDE DEF C, F, P, T
    <3>3. F <= receipts[r] + astray[r] /\ T <= receipts[r]
      BY <1>6, <1>7, <1>8
    <3> QED
      BY <1>11, <3>1, <3>2, <3>3 DEF F, T
  <2>2. CASE r = q
    <3>1. receipts'[r] = receipts[r] - 1 /\ receipts[r] > 0
      <4>1. Less(receipts, q)[q] = IF receipts[q] = 0 THEN 0 ELSE receipts[q] - 1
        BY <1>9, LessCounts
      <4> QED
        BY <1>8, <1>11, <2>2, <4>1
    <3>2. plan[1] = Taken(r)
      <4>1. plan[1] \in Steps /\ plan[1].atom = r
        <5>1. plan[1].atom = q
          BY <1>1
        <5> HIDE DEF q, Steps
        <5> QED
          BY <1>1, <2>2, <5>1
      <4>2. /\ plan[1] = [atom |-> plan[1].atom, stored |-> plan[1].stored]
            /\ plan[1].stored \in BOOLEAN
        BY <4>1
      <4>3. plan[1].stored = TRUE
        BY <1>11, <4>2
      <4> QED
        BY <4>1, <4>2, <4>3 DEF Taken
    <3>3. T <= receipts'[r]
      <4> HIDE DEF C, F, P, T
      <4> QED
        BY <1>6, <1>7, <1>8, <3>1, <3>2
    <3>4. CASE committed[n].journalled
      <4>1. n \in DOMAIN committed
        BY <1>1, <1>2
      <4>2. committed[n] = Journalled(r)
        BY <1>1, <1>2, <2>2, <3>4, <4>1, JournalledAtom
      <4>3. astray'[r] = astray[r]
        BY <1>11, <3>4 DEF Competes
      <4> HIDE DEF C, F, P, T
      <4>4. F <= receipts'[r] + astray'[r]
        BY <1>6, <1>7, <1>8, <3>1, <4>2, <4>3
      <4> QED
        BY <3>3, <4>4 DEF F, T
    <3>5. CASE Competes(q)
      <4>1. astray'[r] = astray[r] + 1
        <5>1. With(astray, <<q>>)[q] = astray[q] + 1
          BY <1>9, WithOneCounts
        <5> QED
          BY <1>11, <2>2, <3>5, <5>1
      <4> HIDE DEF C, F, P, T
      <4>2. F <= receipts'[r] + astray'[r]
        BY <1>6, <1>7, <1>8, <3>1, <4>1
      <4> QED
        BY <3>3, <4>2 DEF F, T
    <3>6. CASE ~committed[n].journalled /\ ~Competes(q)
      <4>1. \A i \in 1..start : committed[i] # Journalled(r)
        BY <2>2, <3>6 DEF Competes
      <4>2. \A i \in 1..start : Front(committed)[i] # Journalled(r)
        <5>1. 1..start \in SUBSET (1..(n - 1))
          BY <1>1
        <5> QED
          BY <1>3, <4>1, <5>1
      <4>3. /\ Tail(plan) \in Seq(Steps) /\ Len(Tail(plan)) = Len(plan) - 1
            /\ \A k \in 1..Len(Tail(plan)) : Tail(plan)[k] = plan[k + 1]
        <5> HIDE DEF Steps
        <5> QED
          BY <1>1
      <4>4. ASSUME NEW k \in 1..Len(Tail(plan))
            PROVE  /\ Tail(plan)[k].atom = Front(committed)[Len(Front(committed)) + 1 - k].atom
                   /\ Front(committed)[Len(Front(committed)) + 1 - k].journalled
                         => Tail(plan)[k].stored
        <5>1. /\ k + 1 \in 1..Len(plan) /\ n - k \in 1..(n - 1) /\ n + 1 - (k + 1) = n - k
              /\ Len(Front(committed)) + 1 - k = n - k
          BY <1>1, <1>3, <4>3
        <5>2. Tail(plan)[k].atom = committed[n - k].atom
          BY <1>1, <4>3, <5>1
        <5>3. Front(committed)[n - k] = committed[n - k]
          BY <1>3, <5>1
        <5>4. Front(committed)[n - k].journalled => Tail(plan)[k].stored
          BY PlanPassedOn
        <5> QED
          BY <5>1, <5>2, <5>3, <5>4
      <4>5. Len(Front(committed)) = start + Len(Tail(plan))
        BY <1>1, <1>3, <4>3
      <4>6. F <= T
        <5> HIDE DEF Steps
        <5> QED
          BY <1>1, <1>3, <4>2, <4>3, <4>4, <4>5, PassCounts DEF Steps
      <4>7. astray'[r] = astray[r] /\ receipts'[r] \in Nat
        BY <1>8, <1>11, <3>1, <3>6
      <4> HIDE DEF C, F, P, T
      <4>8. F <= receipts'[r] + astray'[r]
        BY <1>7, <1>8, <3>3, <4>6, <4>7
      <4> QED
        BY <3>3, <4>8 DEF F, T
    <3> QED
      BY <3>4, <3>5, <3>6
  <2> QED
    BY <2>1, <2>2
<1> QED
  BY <1>2, <1>10, <1>11

\* A scope that completed keeps its obligations or has none.
LEMMA StoredKeeping ==
    ASSUME ShapeInv, PlanInv, StoredInv, ExitKeeping
    PROVE  PlanInv' /\ StoredInv'
<1>1. /\ pc = "idle" /\ UNCHANGED <<tampered, receipts, pc, start, plan>>
      /\ receipts \in [Receipts -> Nat]
      /\ \/ UNCHANGED <<committed, astray>>
         \/ committed' = <<>> /\ astray' = Nothing
  BY DEF ExitKeeping, Unlocked, world, locals, ShapeInv, TypeOK
<1>2. CASE UNCHANGED <<committed, astray>>
  BY <1>1, <1>2, StoredFrame
<1>3. CASE committed' = <<>> /\ astray' = Nothing
  <2>1. \A r : Claimed(r)' = 0
    <3>1. DOMAIN <<>> = {}
      OBVIOUS
    <3> QED
      BY <1>1, <1>3, <3>1, FS_EmptySet DEF Claimed, Occurs
  <2>2. \A r \in Receipts : 0 <= receipts'[r] + astray'[r]
    BY <1>1, <1>3 DEF Nothing
  <2> QED
    BY <1>1, <2>1, <2>2 DEF StoredInv, PlanInv
<1> QED
  BY <1>1, <1>2, <1>3

\* "A receipt that never became durable is never a standing obligation": at
\* rest, the receipt space holds a receipt for each journalled obligation,
\* unless somebody removed one, but for those that the two paths named at
\* JournalledIsStored have left without.
THEOREM ReceiptsFound == Spec => []JournalledIsStored
<1>1. Init => PlanInv /\ StoredInv
  <2> SUFFICES ASSUME Init PROVE PlanInv /\ StoredInv
    OBVIOUS
  <2>1. pc = "idle" /\ DOMAIN committed = {}
    BY DEF Init
  <2>2. \A r : Claimed(r) = 0
    BY <2>1, FS_EmptySet DEF Claimed, Occurs
  <2>3. \A r \in Receipts : 0 <= receipts[r] + astray[r]
    BY DEF Init, Nothing
  <2> QED
    BY <2>1, <2>2, <2>3 DEF PlanInv, StoredInv
<1>2. ShapeInv /\ PlanInv /\ StoredInv /\ [Next]_vars => (PlanInv /\ StoredInv)'
  <2> SUFFICES ASSUME ShapeInv, PlanInv, StoredInv, [Next]_vars PROVE PlanInv' /\ StoredInv'
    OBVIOUS
  <2>1. CASE \/ UNCHANGED vars \/ Enter \/ ExitRaising \/ Close
             \/ \E s \in closing : CloseEnds(s)
             \/ Run \/ \E q \in Receipts : Perform(q)
             \/ StepFails \/ StepRaises \/ Rollback \/ UndoFails \/ Recovered
             \/ \E q \in Receipts : WriteReceipt(q) \/ RemoveReceipt(q)
    BY <2>1, StoredUntouched
  <2>2. CASE StepCommits \/ Persist
    BY <2>2, StoredRecorded
  <2>3. CASE ExitKeeping \/ AfterStep \/ Undo
    BY <2>3, StoredKeeping, StoredJudged, StoredUndo
  <2>4. CASE Preflight
    <3>1. CASE pc' = "undo"
      <4>1. PlanInv' /\ \A r \in Receipts : Times(plan', Taken(r)) <= receipts'[r]
        BY <2>4, <3>1, PlanPrepared
      <4>2. UNCHANGED <<committed, receipts, astray, tampered>> /\ pc = "preflight"
        BY <2>4 DEF Preflight, history, world
      <4>3. \A r : Claimed(r)' = Claimed(r)
        BY <3>1, <4>2 DEF Claimed
      <4> QED
        BY <4>1, <4>2, <4>3 DEF StoredInv
    <3>2. CASE pc' # "undo"
      <4>1. /\ UNCHANGED <<committed, receipts, astray, tampered>> /\ pc = "preflight"
            /\ pc' = "idle"
        BY <2>4, <3>2 DEF Preflight, Raised, Done, history, world
      <4> QED
        BY <4>1, StoredFrame
    <3> QED
      BY <3>1, <3>2
  <2> QED
    BY <2>1, <2>2, <2>3, <2>4 DEF Next, Operation
<1>3. StoredInv => JournalledIsStored
  BY DEF StoredInv, Claimed, JournalledIsStored, Unlocked
<1> QED
  BY <1>1, <1>2, <1>3, Shaped, PTL DEF Spec
=============================================================================
