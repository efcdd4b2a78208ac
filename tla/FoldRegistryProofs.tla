------------------------- MODULE FoldRegistryProofs -------------------------
(***************************************************************************)
(* Theorems about the fold registry of metta/events.py and the             *)
(* subscriptions of metta/subscribe.py, for any folds, threads and facts.  *)
(***************************************************************************)
EXTENDS FoldRegistry, FiniteSetTheorems, SequenceTheorems, WellFoundedInduction, TLAPS

-----------------------------------------------------------------------------
(* Threads and places.                                                      *)

InStep == {"step", "locked", "gate", "arrive", "end"}
InWait == {"check", "asleep"}
InChange == {"txn", "expunge", "unregister", "unreflect", "unregisterOwn", "unreflectOwn",
             "reflect", "add"}
InTxn == InChange \ {"txn"}
InWork == {"unregister", "unreflect", "unregisterOwn", "unreflectOwn"}
InUnreflect == {"unreflect", "unreflectOwn"}

\* What a thread holds at a place, and what it has claimed of a fold.
Settled(t) ==
    /\ pc[t] \in InStep => inside[t] # NoFold
    /\ pc[t] \in {"idle", "begin", "reflect", "add", "check", "asleep", "take"} => inside[t] = NoFold
    /\ inside[t] # NoFold => plan[t] # <<>>
    /\ pc[t] \in InChange => target[t] \in Folds \ Plain
    /\ (pc[t] \in InChange /\ inside[t] # NoFold) => target[t] \in born
    /\ pc[t] \in InWait \cup {"take", "drain"} => target[t] \in Folds
    /\ \A f \in Folds : counts[f][t] = IF inside[t] = f THEN 1 ELSE 0

ThreadInv == \A t \in Threads : Settled(t)

\* The threads inside the registry's wait().
Waiting == {t \in Threads : pc[t] \in InWait}

\* `waiters` counts them.
WaitInv == waiters = Cardinality(Waiting)

\* The transaction lock is held by the thread that changes registrations; a
\* withdrawal is always of a subscription, and its receipt knows its place.
TxnInv ==
    \A t \in Threads :
        /\ pc[t] \in InTxn => txn = t
        /\ pc[t] \in InWork => work \in Folds \ Plain
        /\ pc[t] \in InUnreflect => Contains(receipt.order, work)

\* Everything that types rest on.
ShapeInv == TypeOK /\ ThreadInv /\ WaitInv /\ TxnInv

-----------------------------------------------------------------------------
(* Registration.                                                            *)

\* A list that holds each member once.
Once(s) == \A i, j \in 1..Len(s) : s[i] = s[j] => i = j

\* Two lists order the members they share the same way.
Agrees(s, r) ==
    \A i, j \in 1..Len(s) : \A k, l \in 1..Len(r) :
        (i < j /\ r[k] = s[i] /\ r[l] = s[j]) => k < l

\* Which folds are registered: those that were added and still deliver, and
\* some that only wait to be withdrawn, each once.
RegisteredInv ==
    /\ \A f \in Folds : IsRegistered(f) => f \in born
    /\ \A f \in born \cap active : IsRegistered(f)
    /\ Once(registered)

\* Which fold a thread changes: one that nobody else adds, or one of old.
TargetInv ==
    \A t \in Threads :
        /\ pc[t] \in {"reflect", "add"} => target[t] \notin born
        /\ pc[t] \in {"unregisterOwn", "unreflectOwn", "drain"} => target[t] \in born
        /\ pc[t] \in {"unregisterOwn", "unreflectOwn"} => work = target[t]
        /\ \A u \in Threads : (target[t] = target[u] /\ target[t] \in Folds \ born) => t = u

\* A withdrawal in progress: the fold is out of the registry, and its receipt
\* tells each fold it saw once.
WithdrawalInv ==
    /\ \A t \in Threads :
         pc[t] \in InUnreflect =>
             /\ work \in born /\ work \notin active /\ ~IsRegistered(work)
             /\ Once(receipt.order)
             /\ \A i \in 1..Len(receipt.order) : receipt.order[i] \in born
    /\ work # NoFold => \E t \in Threads : pc[t] \in InWork

\* A fold that is gone for good.
Gone(f) ==
    /\ f \in born /\ f \notin active /\ ~IsRegistered(f)
    /\ \A t \in Threads : pc[t] \in InUnreflect => work # f

\* Whoever cancelled it waits for a fold that is gone, and stays gone.
GoneInv ==
    /\ \A t \in Threads : pc[t] = "drain" => Gone(target[t])
    /\ \A f \in quiet : Gone(f)

RegistryInv == RegisteredInv /\ TargetInv /\ WithdrawalInv /\ GoneInv

-----------------------------------------------------------------------------
(* Events, facts, order.                                                    *)

\* Who is between reading and writing a queue holds its lock.
LockInv ==
    \A t \in Threads :
        pc[t] = "locked" => lock[inside[t]] = t /\ before[t] = items[inside[t]]

\* What &metta reflects, a transaction's own change aside.
FactInv ==
    /\ \A f \in active \ Plain : IsRegistered(f) => FactOf[f] \in facts
    /\ \A t \in Threads : pc[t] = "add" => FactOf[target[t]] \in facts
    /\ \A x \in facts :
         \/ \E f \in Folds \ Plain : IsRegistered(f) /\ FactOf[f] = x
         \/ \E t \in Threads : pc[t] \in InUnreflect /\ FactOf[work] = x
         \/ \E t \in Threads : pc[t] = "add" /\ FactOf[target[t]] = x

\* While one is withdrawn the others keep their places.
OrderInv ==
    \A t \in Threads :
        pc[t] \in InUnreflect => Agrees(receipt.order, registered)

-----------------------------------------------------------------------------
(* Sequences.                                                               *)

\* A place is where the element stands.
LEMMA PlaceFound ==
    ASSUME NEW s, NEW e, Contains(s, e)
    PROVE  PlaceOf(s, e) \in 1..Len(s) /\ s[PlaceOf(s, e)] = e
  BY DEF Contains, PlaceOf

\* A part of a sequence.
LEMMA PartOf ==
    ASSUME NEW S, NEW s \in Seq(S), NEW m \in 1..(Len(s) + 1), NEW n \in 0..Len(s)
    PROVE  /\ SubSeq(s, m, n) \in Seq(S)
           /\ Len(SubSeq(s, m, n)) = IF m <= n THEN n - m + 1 ELSE 0
           /\ \A i \in 1..(n - m + 1) : SubSeq(s, m, n)[i] = s[m + i - 1]
<1>1. Len(s) \in Nat /\ \A i \in 1..Len(s) : s[i] \in S
  BY LenProperties, ElementOfSeq
<1>2. m \in Int /\ n \in Int /\ \A i \in m..n : s[i] \in S
  BY <1>1
<1> QED
  BY <1>2, SubSeqProperties

\* candidate.pop(index) keeps the others in order.
LEMMA RemovedAt ==
    ASSUME NEW S, NEW s \in Seq(S), NEW p \in 1..Len(s)
    PROVE  /\ RemoveAt(s, p) \in Seq(S)
           /\ Len(s) \in Nat /\ Len(RemoveAt(s, p)) = Len(s) - 1
           /\ \A i \in 1..(Len(s) - 1) : RemoveAt(s, p)[i] = IF i < p THEN s[i] ELSE s[i + 1]
<1> DEFINE front == SubSeq(s, 1, p - 1)
           rest == SubSeq(s, p + 1, Len(s))
<1>1. Len(s) \in Nat
  BY LenProperties
<1>2. /\ front \in Seq(S) /\ Len(front) = p - 1
      /\ \A i \in 1..(p - 1) : front[i] = s[i]
  <2>1. 1 \in 1..(Len(s) + 1) /\ p - 1 \in 0..Len(s)
    BY <1>1
  <2>2. /\ front \in Seq(S) /\ Len(front) = IF 1 <= p - 1 THEN (p - 1) - 1 + 1 ELSE 0
        /\ \A i \in 1..((p - 1) - 1 + 1) : front[i] = s[1 + i - 1]
    BY <2>1, PartOf
  <2> HIDE DEF front
  <2> QED
    BY <1>1, <2>2
<1>3. /\ rest \in Seq(S) /\ Len(rest) = Len(s) - p
      /\ \A i \in 1..(Len(s) - p) : rest[i] = s[p + i]
  <2>1. p + 1 \in 1..(Len(s) + 1) /\ Len(s) \in 0..Len(s)
    BY <1>1
  <2>2. /\ rest \in Seq(S) /\ Len(rest) = IF p + 1 <= Len(s) THEN Len(s) - (p + 1) + 1 ELSE 0
        /\ \A i \in 1..(Len(s) - (p + 1) + 1) : rest[i] = s[(p + 1) + i - 1]
    BY <2>1, PartOf
  <2> HIDE DEF rest
  <2> QED
    BY <1>1, <2>2
<1> DEFINE cat == front \o rest
<1>4. RemoveAt(s, p) = cat
  BY DEF RemoveAt
<1> HIDE DEF front, rest
<1>5. /\ cat \in Seq(S) /\ Len(cat) = Len(front) + Len(rest)
      /\ \A i \in 1..(Len(front) + Len(rest)) :
           cat[i] = IF i <= Len(front) THEN front[i] ELSE rest[i - Len(front)]
  BY <1>2, <1>3, ConcatProperties
<1> HIDE DEF cat
<1>6. ASSUME NEW i \in 1..(Len(s) - 1)
      PROVE  cat[i] = IF i < p THEN s[i] ELSE s[i + 1]
  <2>1. CASE i < p
    <3>1. i \in 1..(p - 1) /\ i <= Len(front) /\ i \in 1..(Len(front) + Len(rest))
      BY <1>1, <1>2, <1>3, <2>1
    <3>2. cat[i] = front[i] /\ front[i] = s[i]
      BY <1>2, <1>5, <3>1
    <3> QED
      BY <2>1, <3>2
  <2>2. CASE ~(i < p)
    <3>1. /\ i - (p - 1) \in 1..(Len(s) - p) /\ p + (i - (p - 1)) = i + 1
          /\ ~(i <= Len(front)) /\ i \in 1..(Len(front) + Len(rest))
      BY <1>1, <1>2, <1>3, <2>2
    <3>2. cat[i] = rest[i - (p - 1)]
      BY <1>2, <1>5, <3>1
    <3>3. rest[i - (p - 1)] = s[p + (i - (p - 1))]
      BY <1>3, <3>1
    <3> QED
      BY <2>2, <3>1, <3>2, <3>3
  <2> QED
    BY <2>1, <2>2
<1> QED
  BY <1>1, <1>2, <1>3, <1>4, <1>5, <1>6

\* candidate.insert(index, fold) keeps the others in order.
LEMMA InsertedAt ==
    ASSUME NEW S, NEW s \in Seq(S), NEW p \in 1..(Len(s) + 1), NEW e \in S
    PROVE  /\ InsertAt(s, p, e) \in Seq(S)
           /\ Len(s) \in Nat /\ Len(InsertAt(s, p, e)) = Len(s) + 1
           /\ \A i \in 1..(Len(s) + 1) :
                InsertAt(s, p, e)[i] = IF i < p THEN s[i] ELSE IF i = p THEN e ELSE s[i - 1]
<1> DEFINE front == SubSeq(s, 1, p - 1)
           rest == SubSeq(s, p, Len(s))
           mid == front \o <<e>>
<1>1. Len(s) \in Nat
  BY LenProperties
<1>2. /\ front \in Seq(S) /\ Len(front) = p - 1
      /\ \A i \in 1..(p - 1) : front[i] = s[i]
  <2>1. 1 \in 1..(Len(s) + 1) /\ p - 1 \in 0..Len(s)
    BY <1>1
  <2>2. /\ front \in Seq(S) /\ Len(front) = IF 1 <= p - 1 THEN (p - 1) - 1 + 1 ELSE 0
        /\ \A i \in 1..((p - 1) - 1 + 1) : front[i] = s[1 + i - 1]
    BY <2>1, PartOf
  <2> HIDE DEF front
  <2> QED
    BY <1>1, <2>2
<1>3. /\ rest \in Seq(S) /\ Len(rest) = Len(s) - p + 1
      /\ \A i \in 1..(Len(s) - p + 1) : rest[i] = s[p + i - 1]
  <2>1. Len(s) \in 0..Len(s)
    BY <1>1
  <2>2. /\ rest \in Seq(S) /\ Len(rest) = IF p <= Len(s) THEN Len(s) - p + 1 ELSE 0
        /\ \A i \in 1..(Len(s) - p + 1) : rest[i] = s[p + i - 1]
    BY <2>1, PartOf
  <2> HIDE DEF rest
  <2> QED
    BY <1>1, <2>2
<1>4. <<e>> \in Seq(S) /\ Len(<<e>>) = 1 /\ <<e>>[1] = e
  OBVIOUS
<1> HIDE DEF front, rest
<1>5. /\ mid \in Seq(S) /\ Len(mid) = p
      /\ \A i \in 1..p : mid[i] = IF i < p THEN s[i] ELSE e
  <2>1. /\ mid \in Seq(S) /\ Len(mid) = Len(front) + Len(<<e>>)
        /\ \A i \in 1..(Len(front) + Len(<<e>>)) :
             mid[i] = IF i <= Len(front) THEN front[i] ELSE <<e>>[i - Len(front)]
    BY <1>2, <1>4, ConcatProperties
  <2> HIDE DEF mid
  <2>2. ASSUME NEW i \in 1..p PROVE mid[i] = IF i < p THEN s[i] ELSE e
    <3>1. CASE i < p
      BY <1>1, <1>2, <1>4, <2>1, <3>1
    <3>2. CASE i = p
      <4>1. i - Len(front) = 1 /\ ~(i <= Len(front)) /\ i \in 1..(Len(front) + Len(<<e>>))
        BY <1>1, <1>2, <1>4, <3>2
      <4> QED
        BY <1>4, <2>1, <3>2, <4>1
    <3> QED
      BY <1>1, <3>1, <3>2
  <2> QED
    BY <1>1, <1>2, <1>4, <2>1, <2>2
<1> DEFINE cat == mid \o rest
<1>6. InsertAt(s, p, e) = cat
  BY DEF InsertAt, front, rest
<1> HIDE DEF mid
<1>7. /\ cat \in Seq(S) /\ Len(cat) = Len(mid) + Len(rest)
      /\ \A i \in 1..(Len(mid) + Len(rest)) :
           cat[i] = IF i <= Len(mid) THEN mid[i] ELSE rest[i - Len(mid)]
  BY <1>3, <1>5, ConcatProperties
<1> HIDE DEF cat
<1>8. ASSUME NEW i \in 1..(Len(s) + 1)
      PROVE  cat[i] = IF i < p THEN s[i] ELSE IF i = p THEN e ELSE s[i - 1]
  <2>1. CASE i <= p
    <3>1. i \in 1..p /\ i <= Len(mid) /\ i \in 1..(Len(mid) + Len(rest))
      BY <1>1, <1>3, <1>5, <2>1
    <3>2. cat[i] = mid[i] /\ mid[i] = IF i < p THEN s[i] ELSE e
      BY <1>5, <1>7, <3>1
    <3>3. i < p \/ i = p
      BY <1>1, <2>1
    <3> QED
      BY <3>2, <3>3
  <2>2. CASE ~(i <= p)
    <3>1. /\ i - p \in 1..(Len(s) - p + 1) /\ p + (i - p) - 1 = i - 1
          /\ ~(i < p) /\ i # p
          /\ ~(i <= Len(mid)) /\ i \in 1..(Len(mid) + Len(rest))
      BY <1>1, <1>3, <1>5, <2>2
    <3>2. cat[i] = rest[i - p]
      BY <1>5, <1>7, <3>1
    <3>3. rest[i - p] = s[p + (i - p) - 1]
      BY <1>3, <3>1
    <3> QED
      BY <3>1, <3>2, <3>3
  <2> QED
    BY <2>1, <2>2
<1> QED
  BY <1>1, <1>3, <1>5, <1>6, <1>7, <1>8

\* A set of numbers up to n has a least member: the intervals
\* that its members bound are finite, and strict inclusion is well founded.
LEMMA LeastOf ==
    ASSUME NEW n \in Nat, NEW T, T \subseteq 1..n, T # {}
    PROVE  Min(T) \in T /\ \A y \in T : Min(T) <= y
<1> DEFINE V == {1..x : x \in T}
<1>1. IsFiniteSet(1..n)
  BY FS_Interval
<1>2. V \subseteq FiniteSubsetsOf(1..n) /\ V # {}
  <2>1. V \subseteq SUBSET (1..n)
    <3>1. \A x \in T : 1..x \subseteq 1..n
      OBVIOUS
    <3> QED
      BY <3>1
  <2>2. V # {}
    OBVIOUS
  <2>3. FiniteSubsetsOf(1..n) = SUBSET (1..n)
    BY <1>1, FS_FiniteSubsetsOfFinite
  <2> QED
    BY <2>1, <2>2, <2>3
<1>3. PICK W \in V : \A y \in V : <<y, W>> \notin StrictSubsetOrdering(1..n)
  BY <1>2, FS_StrictSubsetOrderingWellFounded, WFMin
<1>4. PICK x \in T : W = 1..x
  BY <1>3
<1>5. ASSUME NEW y \in T, y < x PROVE FALSE
  <2>1. 1..y \in V /\ 1..y \subseteq 1..x /\ 1..x \subseteq 1..n /\ x \in 1..x /\ x \notin 1..y
    BY <1>5
  <2> QED
    BY <1>3, <1>4, <2>1 DEF StrictSubsetOrdering
<1>6. \A y \in T : x <= y
  BY <1>5
<1> QED
  BY <1>6 DEF Min

\* The same for the greatest member.
LEMMA GreatestOf ==
    ASSUME NEW n \in Nat, NEW T, T \subseteq 1..n, T # {}
    PROVE  Max(T) \in T /\ \A y \in T : Max(T) >= y
<1> DEFINE V == {x..n : x \in T}
<1>1. IsFiniteSet(1..n)
  BY FS_Interval
<1>2. V \subseteq FiniteSubsetsOf(1..n) /\ V # {}
  <2>1. V \subseteq SUBSET (1..n)
    <3>1. \A x \in T : x..n \subseteq 1..n
      OBVIOUS
    <3> QED
      BY <3>1
  <2>2. V # {}
    OBVIOUS
  <2>3. FiniteSubsetsOf(1..n) = SUBSET (1..n)
    BY <1>1, FS_FiniteSubsetsOfFinite
  <2> QED
    BY <2>1, <2>2, <2>3
<1>3. PICK W \in V : \A y \in V : <<y, W>> \notin StrictSubsetOrdering(1..n)
  BY <1>2, FS_StrictSubsetOrderingWellFounded, WFMin
<1>4. PICK x \in T : W = x..n
  BY <1>3
<1>5. ASSUME NEW y \in T, y > x PROVE FALSE
  <2>1. y..n \in V /\ y..n \subseteq x..n /\ x..n \subseteq 1..n /\ x \in x..n /\ x \notin y..n
    BY <1>5
  <2> QED
    BY <1>3, <1>4, <2>1 DEF StrictSubsetOrdering
<1>6. \A y \in T : x >= y
  BY <1>5
<1> QED
  BY <1>6 DEF Max

\* What follows the head.
LEMMA TailShifts ==
    ASSUME NEW S, NEW s \in Seq(S), s # <<>>
    PROVE  /\ Tail(s) \in Seq(S) /\ Head(s) = s[1] /\ Head(s) \in S
           /\ Len(s) \in Nat \ {0} /\ Len(Tail(s)) = Len(s) - 1
<1>1. /\ Tail(s) \in Seq(S) /\ Head(s) = s[1] /\ Head(s) \in S
      /\ Len(Tail(s)) = Len(s) - 1
  BY HeadTailProperties
<1>2. Len(s) \in Nat \ {0}
  BY EmptySeq, LenProperties
<1> QED
  BY <1>1, <1>2

\* One more at the end.
LEMMA AppendExtends ==
    ASSUME NEW S, NEW s \in Seq(S), NEW x \in S
    PROVE  /\ Append(s, x) \in Seq(S)
           /\ Len(s) \in Nat /\ Len(Append(s, x)) = Len(s) + 1
           /\ Append(s, x)[Len(s) + 1] = x
           /\ \A i \in 1..Len(s) : Append(s, x)[i] = s[i]
  BY AppendProperties, LenProperties

-----------------------------------------------------------------------------
(* Types.                                                                   *)

\* Where restore() files a fold lies in the list.
LEMMA IndexInside ==
    ASSUME TypeOK, NEW order \in Seq(Folds), NEW f, Contains(order, f)
    PROVE  RestorationIndex(order, f) \in 1..(Len(registered) + 1)
<1> DEFINE at == PlaceOf(order, f)
           after == {i \in (at + 1)..Len(order) : IsRegistered(order[i])}
           prior == {i \in 1..(at - 1) : IsRegistered(order[i])}
<1>1. Len(registered) \in Nat /\ Len(order) \in Nat /\ at \in 1..Len(order)
  BY LenProperties, PlaceFound DEF TypeOK, RegistryTypeOK
<1>2. after \subseteq 1..Len(order) /\ prior \subseteq 1..Len(order)
  BY <1>1
<1>3. /\ \A i \in after : IsRegistered(order[i])
      /\ \A i \in prior : IsRegistered(order[i])
  OBVIOUS
<1>4. RestorationIndex(order, f) =
        IF after # {} THEN PlaceOf(registered, order[Min(after)])
        ELSE IF prior # {} THEN PlaceOf(registered, order[Max(prior)]) + 1
        ELSE IF at <= Len(registered) + 1 THEN at ELSE Len(registered) + 1
  BY DEF RestorationIndex
<1> HIDE DEF at, after, prior
<1>5. CASE after # {}
  <2>1. IsRegistered(order[Min(after)])
    BY <1>1, <1>2, <1>3, <1>5, LeastOf
  <2> QED
    BY <1>1, <1>4, <1>5, <2>1, PlaceFound DEF IsRegistered
<1>6. CASE after = {} /\ prior # {}
  <2>1. IsRegistered(order[Max(prior)])
    BY <1>1, <1>2, <1>3, <1>6, GreatestOf
  <2>2. PlaceOf(registered, order[Max(prior)]) \in 1..Len(registered)
    BY <2>1, PlaceFound DEF IsRegistered
  <2> QED
    BY <1>1, <1>4, <1>6, <2>2
<1>7. CASE after = {} /\ prior = {}
  BY <1>1, <1>4, <1>7
<1> QED
  BY <1>5, <1>6, <1>7

\* What pop(index) leaves.
LEMMA PoppedType ==
    ASSUME TypeOK, NEW f, IsRegistered(f)
    PROVE  Popped(f) \in Seq(Folds)
<1>1. PlaceOf(registered, f) \in 1..Len(registered)
  BY PlaceFound DEF IsRegistered
<1> QED
  BY <1>1, RemovedAt DEF TypeOK, RegistryTypeOK, Popped

\* Threads come and go at wait() only where `waiters` says so.
LEMMA WaitQuiet ==
    ASSUME WaitInv, waiters' = waiters,
           \A u \in Threads : pc'[u] \in InWait <=> pc[u] \in InWait
    PROVE  WaitInv'
<1>1. Waiting' = Waiting
  BY DEF Waiting
<1> QED
  BY <1>1 DEF WaitInv

\* One thread enters wait(), or leaves it.
LEMMA WaitCounts ==
    ASSUME WaitInv, NEW t \in Threads, \A u \in Threads \ {t} : pc'[u] = pc[u],
           \/ pc[t] \notin InWait /\ pc'[t] \in InWait /\ waiters' = waiters + 1
           \/ pc[t] \in InWait /\ pc'[t] \notin InWait /\ waiters' = waiters - 1
    PROVE  WaitInv' /\ waiters' \in Nat
<1>1. IsFiniteSet(Waiting)
  BY FoldRegistryAssumption, FS_Subset DEF Waiting
<1>2. CASE pc[t] \notin InWait /\ pc'[t] \in InWait /\ waiters' = waiters + 1
  <2>1. Waiting' = Waiting \cup {t} /\ t \notin Waiting
    BY <1>2 DEF Waiting
  <2>2. Cardinality(Waiting') = Cardinality(Waiting) + 1
    BY <1>1, <2>1, FS_AddElement
  <2> QED
    BY <1>1, <1>2, <2>2, FS_CardinalityType DEF WaitInv
<1>3. CASE pc[t] \in InWait /\ pc'[t] \notin InWait /\ waiters' = waiters - 1
  <2>1. Waiting' = Waiting \ {t} /\ t \in Waiting
    BY <1>3 DEF Waiting
  <2>2. /\ Cardinality(Waiting') = Cardinality(Waiting) - 1
        /\ IsFiniteSet(Waiting')
    BY <1>1, <2>1, FS_RemoveElement
  <2> QED
    BY <1>3, <2>2, FS_CardinalityType DEF WaitInv
<1> QED
  BY <1>2, <1>3

\* A step of one thread leaves the others where they are, or wakes them.
OthersStay(t) ==
    /\ born \subseteq born'
    /\ \A u \in Threads \ {t} :
         /\ pc'[u] = pc[u] \/ (pc[u] = "asleep" /\ pc'[u] = "check")
         /\ inside'[u] = inside[u] /\ plan'[u] = plan[u] /\ target'[u] = target[u]
         /\ \A f \in Folds : counts'[f][u] = counts[f][u]

\* What they hold stays as it was.
LEMMA OthersSettled ==
    ASSUME ThreadInv, NEW t \in Threads, OthersStay(t), Settled(t)'
    PROVE  ThreadInv'
  BY DEF ThreadInv, Settled, OthersStay, InStep, InChange, InWait

\* The number of steps of t in flight for f becomes n.
CountBecomes(f, t, n) == counts' = [counts EXCEPT ![f][t] = n]

\* No other count changes.
LEMMA CountChanges ==
    ASSUME RegistryTypeOK, NEW f \in Folds, NEW t \in Threads, NEW n \in Nat,
           CountBecomes(f, t, n)
    PROVE  /\ counts' \in [Folds -> [Threads -> Nat]]
           /\ \A g \in Folds, u \in Threads :
                counts'[g][u] = IF g = f /\ u = t THEN n ELSE counts[g][u]
<1>1. counts \in [Folds -> [Threads -> Nat]]
  BY DEF RegistryTypeOK
<1>2. counts' = [counts EXCEPT ![f] = [counts[f] EXCEPT ![t] = n]]
  BY DEF CountBecomes
<1>3. [counts[f] EXCEPT ![t] = n] \in [Threads -> Nat]
  BY <1>1
<1> QED
  BY <1>1, <1>2, <1>3

\* begin_delivery() either claims a step of the first fold or passes it by.
LEMMA Begins ==
    ASSUME TypeOK, NEW t \in Threads, Begin(t)
    PROVE  /\ pc[t] = "begin" /\ plan[t] # <<>> /\ Head(plan[t]) \in Folds
           /\ Tail(plan[t]) \in Seq(Folds)
           /\ \/ /\ Head(plan[t]) \notin active /\ UNCHANGED <<counts, inside, pc>>
                 /\ plan' = [plan EXCEPT ![t] = Tail(plan[t])]
              \/ /\ Head(plan[t]) \in active /\ UNCHANGED plan
                 /\ CountBecomes(Head(plan[t]), t, counts[Head(plan[t])][t] + 1)
                 /\ inside' = [inside EXCEPT ![t] = Head(plan[t])]
                 /\ pc' = [pc EXCEPT ![t] = "step"]
<1>1. plan[t] \in Seq(Folds) /\ plan[t] # <<>>
  BY DEF TypeOK, ThreadTypeOK, Begin
<1>2. Head(plan[t]) \in Folds /\ Tail(plan[t]) \in Seq(Folds)
  BY <1>1, TailShifts
<1>3. pc[t] = "begin"
  BY DEF Begin
<1>4. \/ /\ Head(plan[t]) \notin active /\ UNCHANGED <<counts, inside, pc>>
         /\ plan' = [plan EXCEPT ![t] = Tail(plan[t])]
      \/ /\ Head(plan[t]) \in active /\ UNCHANGED plan
         /\ CountBecomes(Head(plan[t]), t, counts[Head(plan[t])][t] + 1)
         /\ inside' = [inside EXCEPT ![t] = Head(plan[t])]
         /\ pc' = [pc EXCEPT ![t] = "step"]
  BY DEF Begin, Goto, CountBecomes
<1> QED
  BY <1>1, <1>2, <1>3, <1>4

\* A withdrawal section: the fold leaves the list, or was no longer in it.
LEMMA Unregisters ==
    ASSUME TypeOK, TxnInv, NEW t \in Threads, Unregister(t)
    PROVE  /\ pc[t] \in {"unregister", "unregisterOwn"} /\ work \in Folds \ Plain /\ txn = t
           /\ \/ /\ IsRegistered(work) /\ registered' = Popped(work)
                 /\ registered' \in Seq(Folds) /\ active' = active \ {work}
                 /\ receipt' = [order |-> registered, active |-> work \in active]
                 /\ pc' = [Woken EXCEPT ![t] =
                             IF pc[t] = "unregisterOwn" THEN "unreflectOwn" ELSE "unreflect"]
                 /\ UNCHANGED <<txn, work>>
              \/ /\ ~IsRegistered(work) /\ UNCHANGED <<receipt, registered, active>>
                 /\ work' = NoFold
                 /\ \/ /\ pc[t] = "unregisterOwn" /\ txn' = NoThread
                       /\ pc' = [pc EXCEPT ![t] = "drain"]
                    \/ /\ pc[t] = "unregister" /\ UNCHANGED txn
                       /\ pc' = [pc EXCEPT ![t] = "expunge"]
<1>1. pc[t] \in {"unregister", "unregisterOwn"}
  BY DEF Unregister
<1>2. work \in Folds \ Plain /\ txn = t
  BY <1>1 DEF TxnInv, InTxn, InChange, InWork
<1>3. Own(t) <=> pc[t] = "unregisterOwn"
  BY <1>1 DEF Own
<1>4. CASE IsRegistered(work)
  <2>1. /\ registered' = Popped(work) /\ active' = active \ {work}
        /\ receipt' = [order |-> registered, active |-> work \in active]
        /\ UNCHANGED <<txn, work>>
    BY <1>4 DEF Unregister, Deactivated
  <2>2. pc' = [Woken EXCEPT ![t] =
                 IF pc[t] = "unregisterOwn" THEN "unreflectOwn" ELSE "unreflect"]
    BY <1>3, <1>4 DEF Unregister
  <2>3. registered' \in Seq(Folds)
    BY <1>4, <2>1, PoppedType
  <2> QED
    BY <1>1, <1>2, <1>4, <2>1, <2>2, <2>3
<1>5. CASE ~IsRegistered(work)
  <2>1. /\ Withdrawn(t) /\ work' = NoFold
        /\ UNCHANGED <<receipt, registered, active>>
    BY <1>5 DEF Unregister
  <2>2. \/ /\ pc[t] = "unregisterOwn" /\ txn' = NoThread
           /\ pc' = [pc EXCEPT ![t] = "drain"]
        \/ /\ pc[t] = "unregister" /\ UNCHANGED txn
           /\ pc' = [pc EXCEPT ![t] = "expunge"]
    BY <1>1, <1>3, <2>1 DEF Withdrawn, Goto
  <2> QED
    BY <1>1, <1>2, <1>5, <2>1, <2>2
<1> QED
  BY <1>4, <1>5

\* What a transaction turns to next.
LEMMA Expunges ==
    ASSUME TypeOK, NEW t \in Threads, Expunge(t)
    PROVE  /\ pc[t] = "expunge" /\ UNCHANGED <<txn, target>>
           /\ \/ /\ work' \in Folds \ Plain /\ abandoned' \in Seq(Folds \ Plain)
                 /\ pc' = [pc EXCEPT ![t] = "unregister"]
              \/ /\ target[t] \notin born /\ UNCHANGED <<work, abandoned>>
                 /\ pc' = [pc EXCEPT ![t] = "reflect"]
              \/ /\ target[t] \in born /\ work' = target[t] /\ UNCHANGED abandoned
                 /\ pc' = [pc EXCEPT ![t] = "unregisterOwn"]
<1>1. abandoned \in Seq(Folds \ Plain)
  BY DEF TypeOK, ReflectionTypeOK
<1>2. abandoned # <<>> => Head(abandoned) \in Folds \ Plain /\ Tail(abandoned) \in Seq(Folds \ Plain)
  BY <1>1, TailShifts
<1> QED
  BY <1>2 DEF Expunge, Goto

\* A failure empties the transaction and files an abandoned fold again.
LEMMA Raised ==
    ASSUME TypeOK, TxnInv, NEW t \in Threads, pc[t] \in InWork, Raise(t)
    PROVE  /\ work \in Folds \ Plain /\ txn = t
           /\ abandoned' \in Seq(Folds \ Plain)
           /\ txn' = NoThread /\ work' = NoFold /\ receipt' = NoReceipt
           /\ pc' = [pc EXCEPT ![t] = IF inside[t] = NoFold THEN "idle" ELSE "step"]
           /\ target' = [target EXCEPT ![t] = NoFold]
<1>1. work \in Folds \ Plain /\ txn = t
  BY DEF TxnInv, InTxn, InChange, InWork
<1>2. abandoned \in Seq(Folds \ Plain)
  BY DEF TypeOK, ReflectionTypeOK
<1>3. /\ txn' = NoThread /\ work' = NoFold /\ receipt' = NoReceipt
      /\ pc' = [pc EXCEPT ![t] = IF inside[t] = NoFold THEN "idle" ELSE "step"]
      /\ target' = [target EXCEPT ![t] = NoFold]
      /\ abandoned' = IF Own(t) THEN abandoned ELSE <<work>> \o abandoned
  BY DEF Raise, Return, Goto
<1>4. <<work>> \o abandoned \in Seq(Folds \ Plain)
  BY <1>1, <1>2, ConcatProperties
<1> QED
  BY <1>1, <1>2, <1>3, <1>4

\* A refused withdrawal puts the fold back and ends the transaction.
LEMMA Restores ==
    ASSUME TypeOK, TxnInv, NEW t \in Threads, UnreflectFails(t)
    PROVE  /\ pc[t] \in InUnreflect /\ Raise(t)
           /\ work \in Folds \ Plain /\ Contains(receipt.order, work)
           /\ RestorationIndex(receipt.order, work) \in 1..(Len(registered) + 1)
           /\ registered' = InsertAt(registered, RestorationIndex(receipt.order, work), work)
           /\ registered' \in Seq(Folds)
           /\ active' = IF receipt.active THEN active \cup {work} ELSE active
           /\ facts' = facts \cup {FactOf[work]}
           /\ UNCHANGED <<counts, born, collected, plan, inside, writes, quiet>>
           /\ UNCHANGED <<items, version, consumed, lock, waiters, before, owed>>
<1>1. pc[t] \in InUnreflect /\ Raise(t)
  BY DEF UnreflectFails, InUnreflect
<1>2. work \in Folds \ Plain /\ Contains(receipt.order, work)
  BY <1>1 DEF TxnInv, InTxn, InChange, InWork, InUnreflect
<1>3. receipt.order \in Seq(Folds)
  BY DEF TypeOK, ReflectionTypeOK
<1>4. RestorationIndex(receipt.order, work) \in 1..(Len(registered) + 1)
  BY <1>2, <1>3, IndexInside
<1>5. /\ registered' = InsertAt(registered, RestorationIndex(receipt.order, work), work)
      /\ active' = IF receipt.active THEN active \cup {work} ELSE active
      /\ facts' = facts \cup {FactOf[work]}
      /\ UNCHANGED <<counts, born, collected, plan, inside, writes, quiet>>
      /\ UNCHANGED <<items, version, consumed, lock, waiters, before, owed>>
  BY DEF UnreflectFails, queues
<1>6. registered' \in Seq(Folds)
  BY <1>2, <1>4, <1>5, InsertedAt DEF TypeOK, RegistryTypeOK
<1> QED
  BY <1>1, <1>2, <1>4, <1>5, <1>6

\* One thread at a time is past the transaction lock, so what it does to the
\* transaction is all that changes of it.
LEMMA TxnMoves ==
    ASSUME TxnInv, NEW t \in Threads, OthersStay(t), pc[t] \in InTxn,
           pc'[t] \in InTxn => txn' = t,
           pc'[t] \in InWork => work' \in Folds \ Plain,
           pc'[t] \in InUnreflect => Contains(receipt'.order, work')
    PROVE  TxnInv'
<1>1. \A u \in Threads \ {t} : pc[u] \notin InTxn /\ pc'[u] \notin InTxn
  BY DEF TxnInv, OthersStay, InTxn, InChange
<1>2. \A x \in InWork \cup InUnreflect : x \in InTxn
  BY DEF InWork, InUnreflect, InTxn, InChange
<1> QED
  BY <1>1, <1>2 DEF TxnInv

\* A step of anybody keeps types, places and the count of those who wait.
LEMMA ShapeStep ==
    ASSUME ShapeInv, [Next]_vars
    PROVE  ShapeInv'
<1> USE FoldRegistryAssumption
<1>1. /\ RegistryTypeOK /\ QueueTypeOK /\ ReflectionTypeOK /\ ThreadTypeOK
      /\ TypeOK /\ ThreadInv /\ WaitInv /\ TxnInv
  BY DEF ShapeInv, TypeOK
<1>2. ASSUME NEW t \in Threads, Write(t) PROVE ShapeInv'
  <2>1. RegistryTypeOK' /\ QueueTypeOK' /\ ReflectionTypeOK'
    BY <1>1, <1>2 DEF Write, registry, queues, reflection, RegistryTypeOK, QueueTypeOK,
      ReflectionTypeOK
  <2>2. ThreadTypeOK'
    BY <1>1, <1>2 DEF Write, Goto, registry, queues, reflection, ThreadTypeOK, Places,
      RegistryTypeOK
  <2>3. OthersStay(t)
    BY <1>1, <1>2 DEF Write, Goto, registry, queues, reflection, ThreadTypeOK, OthersStay
  <2>4. Settled(t)'
    BY <1>1, <1>2 DEF Write, Goto, registry, queues, reflection, ThreadTypeOK, ThreadInv,
      Settled, InStep, InChange, InWait
  <2>5. ThreadInv'
    BY <1>1, <2>3, <2>4, OthersSettled
  <2>6. WaitInv'
    BY <1>1, <1>2, WaitQuiet DEF Write, Goto, registry, queues, reflection, ThreadTypeOK,
      InWait
  <2>7. TxnInv'
    BY <1>1, <1>2 DEF Write, Goto, registry, queues, reflection, ThreadTypeOK, TxnInv,
      ThreadInv, Settled, InTxn, InChange, InWork, InUnreflect
  <2> QED
    BY <2>1, <2>2, <2>3, <2>4, <2>5, <2>6, <2>7 DEF ShapeInv, TypeOK
<1>3. ASSUME NEW t \in Threads, Begin(t) PROVE ShapeInv'
  <2>1. QueueTypeOK' /\ ReflectionTypeOK'
    BY <1>1, <1>3 DEF Begin, queues, reflection, QueueTypeOK, ReflectionTypeOK
  <2>2. RegistryTypeOK'
    <3>1. UNCHANGED <<registered, active, born>> /\ counts \in [Folds -> [Threads -> Nat]]
      BY <1>1, <1>3 DEF Begin, RegistryTypeOK
    <3>2. CASE UNCHANGED counts
      BY <1>1, <3>1, <3>2 DEF RegistryTypeOK
    <3>3. CASE CountBecomes(Head(plan[t]), t, counts[Head(plan[t])][t] + 1)
      <4>1. Head(plan[t]) \in Folds
        BY <1>1, <1>3, Begins
      <4>2. counts[Head(plan[t])][t] + 1 \in Nat
        BY <3>1, <4>1
      <4>3. counts' \in [Folds -> [Threads -> Nat]]
        BY <1>1, <3>3, <4>1, <4>2, CountChanges
      <4> QED
        BY <1>1, <3>1, <4>3 DEF RegistryTypeOK
    <3> QED
      BY <1>1, <1>3, <3>2, <3>3, Begins
  <2>3. ThreadTypeOK'
    <3> DEFINE first == Head(plan[t])
               rest == Tail(plan[t])
    <3>1. UNCHANGED <<target, writes, quiet>>
      BY <1>3 DEF Begin
    <3>2. first \in Folds /\ rest \in Seq(Folds)
      BY <1>1, <1>3, Begins
    <3>3. /\ plan' = plan \/ plan' = [plan EXCEPT ![t] = rest]
          /\ inside' = inside \/ inside' = [inside EXCEPT ![t] = first]
          /\ pc' = pc \/ pc' = [pc EXCEPT ![t] = "step"]
      BY <1>1, <1>3, Begins
    <3> HIDE DEF first, rest
    <3>4. plan' \in [Threads -> Seq(Folds)]
      BY <1>1, <3>2, <3>3 DEF ThreadTypeOK
    <3>5. inside' \in [Threads -> Folds \cup {NoFold}]
      BY <1>1, <3>2, <3>3, ZenonT(60) DEF ThreadTypeOK
    <3>6. pc' \in [Threads -> Places]
      BY <1>1, <3>3 DEF ThreadTypeOK, Places
    <3> QED
      BY <1>1, <3>1, <3>4, <3>5, <3>6 DEF ThreadTypeOK
  <2>4. OthersStay(t)
    <3>1. UNCHANGED <<target, born>> /\ counts \in [Folds -> [Threads -> Nat]]
      BY <1>1, <1>3 DEF Begin, RegistryTypeOK
    <3>2. \A u \in Threads \ {t} : \A f \in Folds : counts'[f][u] = counts[f][u]
      <4>1. CASE UNCHANGED counts
        BY <4>1
      <4>2. CASE CountBecomes(Head(plan[t]), t, counts[Head(plan[t])][t] + 1)
        <5>1. Head(plan[t]) \in Folds
          BY <1>1, <1>3, Begins
        <5>2. counts[Head(plan[t])][t] + 1 \in Nat
          BY <3>1, <5>1
        <5> QED
          BY <1>1, <4>2, <5>1, <5>2, CountChanges
      <4> QED
        BY <1>1, <1>3, <4>1, <4>2, Begins
    <3>3. /\ plan' = plan \/ plan' = [plan EXCEPT ![t] = Tail(plan[t])]
          /\ inside' = inside \/ inside' = [inside EXCEPT ![t] = Head(plan[t])]
          /\ pc' = pc \/ pc' = [pc EXCEPT ![t] = "step"]
      BY <1>1, <1>3, Begins
    <3> QED
      BY <1>1, <3>1, <3>2, <3>3 DEF OthersStay, ThreadTypeOK
  <2>5. Settled(t)'
    <3>1. pc[t] = "begin" /\ inside[t] = NoFold /\ counts \in [Folds -> [Threads -> Nat]]
      BY <1>1, <1>3 DEF Begin, ThreadInv, Settled, RegistryTypeOK
    <3>2. \A f \in Folds : counts[f][t] = 0
      BY <1>1, <3>1 DEF ThreadInv, Settled
    <3>3. CASE UNCHANGED <<counts, inside, pc>>
      BY <1>1, <3>1, <3>2, <3>3 DEF Settled, InStep, InChange, InWait
    <3>4. CASE /\ UNCHANGED plan /\ inside' = [inside EXCEPT ![t] = Head(plan[t])]
               /\ CountBecomes(Head(plan[t]), t, counts[Head(plan[t])][t] + 1)
               /\ pc' = [pc EXCEPT ![t] = "step"]
      <4>1. Head(plan[t]) \in Folds /\ plan[t] # <<>>
        BY <1>1, <1>3, Begins
      <4>2. counts[Head(plan[t])][t] + 1 = 1
        BY <3>2, <4>1
      <4>3. \A f \in Folds : counts'[f][t] = IF f = Head(plan[t]) THEN 1 ELSE 0
        <5>1. \A f \in Folds, u \in Threads :
                counts'[f][u] = IF f = Head(plan[t]) /\ u = t THEN counts[Head(plan[t])][t] + 1
                                ELSE counts[f][u]
          <6>1. counts[Head(plan[t])][t] + 1 \in Nat
            BY <4>2
          <6> QED
            BY <1>1, <3>4, <4>1, <6>1, CountChanges
        <5> QED
          BY <3>2, <4>2, <5>1
      <4>4. pc'[t] = "step" /\ inside'[t] = Head(plan[t]) /\ plan'[t] # <<>>
        BY <1>1, <3>4, <4>1 DEF ThreadTypeOK
      <4> QED
        BY <1>1, <4>1, <4>3, <4>4 DEF Settled, InStep, InChange, InWait
    <3> QED
      BY <1>1, <1>3, <3>3, <3>4, Begins
  <2>6. ThreadInv'
    BY <1>1, <2>4, <2>5, OthersSettled
  <2>7. WaitInv'
    BY <1>1, <1>3, WaitQuiet DEF Begin, Goto, queues, reflection, ThreadTypeOK, InWait
  <2>8. TxnInv'
    BY <1>1, <1>3 DEF Begin, Goto, queues, reflection, ThreadTypeOK, TxnInv, ThreadInv,
      Settled, InTxn, InChange, InWork, InUnreflect
  <2> QED
    BY <2>1, <2>2, <2>3, <2>4, <2>5, <2>6, <2>7, <2>8 DEF ShapeInv, TypeOK
<1>4. ASSUME NEW t \in Threads, Delivered(t) PROVE ShapeInv'
  <2>1. RegistryTypeOK' /\ QueueTypeOK' /\ ReflectionTypeOK'
    BY <1>1, <1>4 DEF Delivered, registry, queues, reflection, RegistryTypeOK, QueueTypeOK,
      ReflectionTypeOK
  <2>2. ThreadTypeOK'
    BY <1>1, <1>4 DEF Delivered, Goto, registry, queues, reflection, ThreadTypeOK, Places
  <2>3. OthersStay(t)
    BY <1>1, <1>4 DEF Delivered, Goto, registry, queues, reflection, ThreadTypeOK,
      OthersStay
  <2>4. Settled(t)'
    BY <1>1, <1>4 DEF Delivered, Goto, registry, queues, reflection, ThreadTypeOK,
      ThreadInv, Settled, InStep, InChange, InWait
  <2>5. ThreadInv'
    BY <1>1, <2>3, <2>4, OthersSettled
  <2>6. WaitInv'
    BY <1>1, <1>4, WaitQuiet DEF Delivered, Goto, registry, queues, reflection,
      ThreadTypeOK, InWait
  <2>7. TxnInv'
    BY <1>1, <1>4 DEF Delivered, Goto, registry, queues, reflection, ThreadTypeOK, TxnInv,
      ThreadInv, Settled, InTxn, InChange, InWork, InUnreflect
  <2> QED
    BY <2>1, <2>2, <2>3, <2>4, <2>5, <2>6, <2>7 DEF ShapeInv, TypeOK
<1>5. ASSUME NEW t \in Threads, CallbackEnds(t) PROVE ShapeInv'
  <2>1. RegistryTypeOK' /\ QueueTypeOK' /\ ReflectionTypeOK'
    BY <1>1, <1>5 DEF CallbackEnds, registry, queues, reflection, RegistryTypeOK,
      QueueTypeOK, ReflectionTypeOK
  <2>2. ThreadTypeOK'
    BY <1>1, <1>5 DEF CallbackEnds, Goto, registry, queues, reflection, ThreadTypeOK, Places
  <2>3. OthersStay(t)
    BY <1>1, <1>5 DEF CallbackEnds, Goto, registry, queues, reflection, ThreadTypeOK,
      OthersStay
  <2>4. Settled(t)'
    BY <1>1, <1>5 DEF CallbackEnds, Goto, registry, queues, reflection, ThreadTypeOK,
      ThreadInv, Settled, InStep, InChange, InWait
  <2>5. ThreadInv'
    BY <1>1, <2>3, <2>4, OthersSettled
  <2>6. WaitInv'
    BY <1>1, <1>5, WaitQuiet DEF CallbackEnds, Goto, registry, queues, reflection,
      ThreadTypeOK, InWait
  <2>7. TxnInv'
    BY <1>1, <1>5 DEF CallbackEnds, Goto, registry, queues, reflection, ThreadTypeOK,
      TxnInv, ThreadInv, Settled, InTxn, InChange, InWork, InUnreflect
  <2> QED
    BY <2>1, <2>2, <2>3, <2>4, <2>5, <2>6, <2>7 DEF ShapeInv, TypeOK
<1>6. ASSUME NEW t \in Threads, StepReads(t) PROVE ShapeInv'
  <2>1. RegistryTypeOK' /\ ReflectionTypeOK'
    BY <1>1, <1>6 DEF StepReads, registry, reflection, RegistryTypeOK, ReflectionTypeOK
  <2>2. QueueTypeOK'
    BY <1>1, <1>6 DEF StepReads, Goto, registry, reflection, QueueTypeOK, Events
  <2>3. ThreadTypeOK'
    BY <1>1, <1>6 DEF StepReads, Goto, registry, reflection, ThreadTypeOK, Places
  <2>4. OthersStay(t)
    BY <1>1, <1>6 DEF StepReads, Goto, registry, reflection, ThreadTypeOK, OthersStay
  <2>5. Settled(t)'
    BY <1>1, <1>6 DEF StepReads, Goto, registry, reflection, ThreadTypeOK, ThreadInv,
      Settled, InStep, InChange, InWait
  <2>6. ThreadInv'
    BY <1>1, <2>4, <2>5, OthersSettled
  <2>7. WaitInv'
    BY <1>1, <1>6, WaitQuiet DEF StepReads, Goto, registry, reflection, ThreadTypeOK, InWait
  <2>8. TxnInv'
    BY <1>1, <1>6 DEF StepReads, Goto, registry, reflection, ThreadTypeOK, TxnInv,
      ThreadInv, Settled, InTxn, InChange, InWork, InUnreflect
  <2> QED
    BY <2>1, <2>2, <2>3, <2>4, <2>5, <2>6, <2>7, <2>8 DEF ShapeInv, TypeOK
<1>7. ASSUME NEW t \in Threads, StepWrites(t) PROVE ShapeInv'
  <2>1. RegistryTypeOK' /\ ReflectionTypeOK'
    BY <1>1, <1>7 DEF StepWrites, registry, reflection, RegistryTypeOK, ReflectionTypeOK
  <2>2. QueueTypeOK'
    <3> DEFINE event == <<t, writes[t]>>
    <3>1. event \in Threads \X Nat /\ before[t] \in Events /\ <<>> \in Events
      BY <1>1 DEF ThreadTypeOK, QueueTypeOK, Events
    <3>2. Append(before[t], event) \in Events
      BY <3>1, AppendExtends DEF Events
    <3>3. \A f \in Folds : Append(owed[f], event) \in Events
      BY <1>1, <3>1, AppendExtends DEF QueueTypeOK, Events
    <3> HIDE DEF event
    <3>4. /\ UNCHANGED <<consumed, waiters>>
          /\ lock' = [lock EXCEPT ![inside[t]] = NoThread]
          /\ before' = [before EXCEPT ![t] = <<>>]
      BY <1>7 DEF StepWrites
    <3>5. \/ UNCHANGED <<items, version, owed>>
          \/ /\ items' = [items EXCEPT ![inside[t]] = Append(before[t], event)]
             /\ owed' = [owed EXCEPT ![inside[t]] = Append(owed[inside[t]], event)]
             /\ version' = [version EXCEPT ![inside[t]] = version[inside[t]] + 1]
      BY <1>7 DEF StepWrites, event
    <3>6. /\ consumed' \in [Folds -> Nat] /\ waiters' \in Nat
          /\ lock' \in [Folds -> Threads \cup {NoThread}] /\ before' \in [Threads -> Events]
      BY <1>1, <3>1, <3>4 DEF QueueTypeOK
    <3>7. inside[t] \in Folds
      BY <1>1, <1>7 DEF StepWrites, ThreadInv, Settled, InStep, ThreadTypeOK
    <3>8. /\ items' \in [Folds -> Events] /\ owed' \in [Folds -> Events]
          /\ version' \in [Folds -> Nat]
      <4>1. CASE UNCHANGED <<items, version, owed>>
        BY <1>1, <4>1 DEF QueueTypeOK
      <4>2. CASE /\ items' = [items EXCEPT ![inside[t]] = Append(before[t], event)]
                 /\ owed' = [owed EXCEPT ![inside[t]] = Append(owed[inside[t]], event)]
                 /\ version' = [version EXCEPT ![inside[t]] = version[inside[t]] + 1]
        <5>1. items' \in [Folds -> Events]
          BY <1>1, <3>2, <4>2 DEF QueueTypeOK
        <5>2. owed' \in [Folds -> Events]
          BY <1>1, <3>3, <3>7, <4>2 DEF QueueTypeOK
        <5>3. version' \in [Folds -> Nat]
          BY <1>1, <3>7, <4>2 DEF QueueTypeOK
        <5> QED
          BY <5>1, <5>2, <5>3
      <4> QED
        BY <3>5, <4>1, <4>2
    <3> QED
      BY <3>6, <3>8 DEF QueueTypeOK
  <2>3. ThreadTypeOK'
    BY <1>1, <1>7 DEF StepWrites, Goto, registry, reflection, ThreadTypeOK, Places
  <2>4. OthersStay(t)
    BY <1>1, <1>7 DEF StepWrites, Goto, registry, reflection, ThreadTypeOK, OthersStay
  <2>5. Settled(t)'
    BY <1>1, <1>7 DEF StepWrites, Goto, registry, reflection, ThreadTypeOK, ThreadInv,
      Settled, InStep, InChange, InWait
  <2>6. ThreadInv'
    BY <1>1, <2>4, <2>5, OthersSettled
  <2>7. WaitInv'
    BY <1>1, <1>7, WaitQuiet DEF StepWrites, Goto, registry, reflection, ThreadTypeOK,
      InWait
  <2>8. TxnInv'
    BY <1>1, <1>7 DEF StepWrites, Goto, registry, reflection, ThreadTypeOK, TxnInv,
      ThreadInv, Settled, InTxn, InChange, InWork, InUnreflect
  <2> QED
    BY <2>1, <2>2, <2>3, <2>4, <2>5, <2>6, <2>7, <2>8 DEF ShapeInv, TypeOK
<1>8. ASSUME NEW t \in Threads, Gate(t) PROVE ShapeInv'
  <2>1. RegistryTypeOK' /\ QueueTypeOK' /\ ReflectionTypeOK'
    BY <1>1, <1>8 DEF Gate, registry, queues, reflection, RegistryTypeOK, QueueTypeOK,
      ReflectionTypeOK
  <2>2. ThreadTypeOK'
    BY <1>1, <1>8 DEF Gate, Goto, registry, queues, reflection, ThreadTypeOK, Places
  <2>3. OthersStay(t)
    BY <1>1, <1>8 DEF Gate, Goto, registry, queues, reflection, ThreadTypeOK, OthersStay
  <2>4. Settled(t)'
    BY <1>1, <1>8 DEF Gate, Goto, registry, queues, reflection, ThreadTypeOK, ThreadInv,
      Settled, InStep, InChange, InWait
  <2>5. ThreadInv'
    BY <1>1, <2>3, <2>4, OthersSettled
  <2>6. WaitInv'
    BY <1>1, <1>8, WaitQuiet DEF Gate, Goto, registry, queues, reflection, ThreadTypeOK,
      InWait
  <2>7. TxnInv'
    BY <1>1, <1>8 DEF Gate, Goto, registry, queues, reflection, ThreadTypeOK, TxnInv,
      ThreadInv, Settled, InTxn, InChange, InWork, InUnreflect
  <2> QED
    BY <2>1, <2>2, <2>3, <2>4, <2>5, <2>6, <2>7 DEF ShapeInv, TypeOK
<1>9. ASSUME NEW t \in Threads, Arrive(t) PROVE ShapeInv'
  <2>1. RegistryTypeOK' /\ QueueTypeOK' /\ ReflectionTypeOK'
    BY <1>1, <1>9 DEF Arrive, registry, queues, reflection, RegistryTypeOK, QueueTypeOK,
      ReflectionTypeOK
  <2>2. ThreadTypeOK'
    BY <1>1, <1>9 DEF Arrive, registry, queues, reflection, Woken, ThreadTypeOK, Places
  <2>3. OthersStay(t)
    BY <1>1, <1>9 DEF Arrive, registry, queues, reflection, Woken, ThreadTypeOK, OthersStay
  <2>4. Settled(t)'
    BY <1>1, <1>9 DEF Arrive, registry, queues, reflection, Woken, ThreadTypeOK, ThreadInv,
      Settled, InStep, InChange, InWait
  <2>5. ThreadInv'
    BY <1>1, <2>3, <2>4, OthersSettled
  <2>6. WaitInv'
    BY <1>1, <1>9, WaitQuiet DEF Arrive, registry, queues, reflection, Woken, ThreadTypeOK,
      InWait
  <2>7. TxnInv'
    BY <1>1, <1>9 DEF Arrive, registry, queues, reflection, Woken, ThreadTypeOK, TxnInv,
      ThreadInv, Settled, InTxn, InChange, InWork, InUnreflect
  <2> QED
    BY <2>1, <2>2, <2>3, <2>4, <2>5, <2>6, <2>7 DEF ShapeInv, TypeOK
<1>10. ASSUME NEW t \in Threads, End(t) PROVE ShapeInv'
  <2>1. QueueTypeOK' /\ ReflectionTypeOK'
    BY <1>1, <1>10 DEF End, queues, reflection, QueueTypeOK, ReflectionTypeOK
  <2>2. RegistryTypeOK'
    <3>1. /\ inside[t] \in Folds /\ counts[inside[t]][t] = 1
          /\ counts[inside[t]][t] - 1 \in Nat
      BY <1>1, <1>10 DEF End, ThreadInv, Settled, InStep, ThreadTypeOK
    <3>2. /\ UNCHANGED <<registered, active, born>>
          /\ CountBecomes(inside[t], t, counts[inside[t]][t] - 1)
      BY <1>10 DEF End, CountBecomes
    <3>3. counts' \in [Folds -> [Threads -> Nat]]
      BY <1>1, <3>1, <3>2, CountChanges
    <3> QED
      BY <1>1, <3>2, <3>3 DEF RegistryTypeOK
  <2>3. ThreadTypeOK'
    BY <1>1, <1>10 DEF End, Goto, queues, reflection, ThreadTypeOK, Places, ThreadInv,
      Settled, InStep
  <2>4. OthersStay(t)
    BY <1>1, <1>10 DEF End, Goto, queues, reflection, ThreadTypeOK, OthersStay,
      RegistryTypeOK
  <2>5. Settled(t)'
    BY <1>1, <1>10 DEF End, Goto, queues, reflection, ThreadTypeOK, ThreadInv, Settled,
      InStep, InChange, InWait, RegistryTypeOK
  <2>6. ThreadInv'
    BY <1>1, <2>4, <2>5, OthersSettled
  <2>7. WaitInv'
    BY <1>1, <1>10, WaitQuiet DEF End, Goto, queues, reflection, ThreadTypeOK, InWait
  <2>8. TxnInv'
    BY <1>1, <1>10 DEF End, Goto, queues, reflection, ThreadTypeOK, TxnInv, ThreadInv,
      Settled, InTxn, InChange, InWork, InUnreflect
  <2> QED
    BY <2>1, <2>2, <2>3, <2>4, <2>5, <2>6, <2>7, <2>8 DEF ShapeInv, TypeOK
<1>11. ASSUME NEW t \in Threads, EnterTransaction(t) PROVE ShapeInv'
  <2>1. RegistryTypeOK' /\ QueueTypeOK'
    BY <1>1, <1>11 DEF EnterTransaction, registry, queues, RegistryTypeOK, QueueTypeOK
  <2>2. ReflectionTypeOK'
    BY <1>1, <1>11 DEF EnterTransaction, Goto, registry, queues, ReflectionTypeOK, Facts,
      ThreadInv, Settled, InChange, TxnInv, InWork
  <2>3. ThreadTypeOK'
    BY <1>1, <1>11 DEF EnterTransaction, Goto, registry, queues, ThreadTypeOK, Places
  <2>4. OthersStay(t)
    BY <1>1, <1>11 DEF EnterTransaction, Goto, registry, queues, ThreadTypeOK, OthersStay
  <2>5. Settled(t)'
    BY <1>1, <1>11 DEF EnterTransaction, Goto, registry, queues, ThreadTypeOK, ThreadInv,
      Settled, InStep, InChange, InWait
  <2>6. ThreadInv'
    BY <1>1, <2>4, <2>5, OthersSettled
  <2>7. WaitInv'
    BY <1>1, <1>11, WaitQuiet DEF EnterTransaction, Goto, registry, queues, ThreadTypeOK,
      InWait
  <2>8. TxnInv'
    BY <1>1, <1>11 DEF EnterTransaction, Goto, registry, queues, ThreadTypeOK, TxnInv,
      ThreadInv, Settled, InTxn, InChange, InWork, InUnreflect, ReflectionTypeOK
  <2> QED
    BY <2>1, <2>2, <2>3, <2>4, <2>5, <2>6, <2>7, <2>8 DEF ShapeInv, TypeOK
<1>12. ASSUME NEW t \in Threads, Expunge(t) PROVE ShapeInv'
  <2>1. RegistryTypeOK' /\ QueueTypeOK'
    BY <1>1, <1>12 DEF Expunge, registry, queues, RegistryTypeOK, QueueTypeOK
  <2>2. ReflectionTypeOK'
    <3>1. UNCHANGED <<txn, collected, facts, receipt>> /\ target[t] \in Folds
      BY <1>1, <1>12 DEF Expunge, ThreadInv, Settled, InChange
    <3>2. abandoned \in Seq(Folds \ Plain) /\ work \in Folds \cup {NoFold}
      BY <1>1 DEF ReflectionTypeOK
    <3>3. abandoned' \in Seq(Folds \ Plain) /\ work' \in Folds \cup {NoFold}
      BY <1>1, <1>12, <3>1, <3>2, Expunges
    <3> QED
      BY <1>1, <3>1, <3>3 DEF ReflectionTypeOK
  <2>3. ThreadTypeOK'
    BY <1>1, <1>12 DEF Expunge, Goto, registry, queues, ThreadTypeOK, Places
  <2>4. OthersStay(t)
    BY <1>1, <1>12 DEF Expunge, Goto, registry, queues, ThreadTypeOK, OthersStay
  <2>5. Settled(t)'
    <3>1. UNCHANGED <<counts, born, plan, inside, target>> /\ Settled(t) /\ pc[t] = "expunge"
      BY <1>1, <1>12 DEF Expunge, registry, ThreadInv
    <3>2. target[t] \notin born => inside[t] = NoFold
      BY <3>1 DEF Settled, InChange
    <3>3. pc'[t] \in {"unregister", "unregisterOwn"} \/ (pc'[t] = "reflect" /\ target[t] \notin born)
      BY <1>1, <1>12, Expunges DEF ThreadTypeOK
    <3> QED
      BY <3>1, <3>2, <3>3 DEF Settled, InStep, InChange, InWait
  <2>6. ThreadInv'
    BY <1>1, <2>4, <2>5, OthersSettled
  <2>7. WaitInv'
    BY <1>1, <1>12, WaitQuiet DEF Expunge, Goto, registry, queues, ThreadTypeOK, InWait
  <2>8. TxnInv'
    <3>1. pc[t] = "expunge" /\ target[t] \in Folds \ Plain /\ UNCHANGED txn
      BY <1>1, <1>12, Expunges DEF ThreadInv, Settled, InChange
    <3>2. pc[t] \in InTxn /\ txn = t
      BY <1>1, <3>1 DEF TxnInv, InTxn, InChange
    <3>3. pc'[t] \in InWork => work' \in Folds \ Plain
      BY <1>1, <1>12, <3>1, Expunges DEF ThreadTypeOK, InWork
    <3>4. pc'[t] \notin InUnreflect
      BY <1>1, <1>12, Expunges DEF ThreadTypeOK, InUnreflect
    <3> QED
      BY <1>1, <2>4, <3>1, <3>2, <3>3, <3>4, TxnMoves
  <2> QED
    BY <2>1, <2>2, <2>3, <2>4, <2>5, <2>6, <2>7, <2>8 DEF ShapeInv, TypeOK
<1>13. ASSUME NEW t \in Threads, Unregister(t) PROVE ShapeInv'
  <2>1. QueueTypeOK'
    BY <1>1, <1>13 DEF Unregister, queues, QueueTypeOK
  <2>2. RegistryTypeOK'
    <3>1. UNCHANGED <<counts, born>>
      BY <1>13 DEF Unregister
    <3>2. registered' \in Seq(Folds) /\ active' \subseteq Folds
      BY <1>1, <1>13, Unregisters DEF RegistryTypeOK
    <3> QED
      BY <1>1, <3>1, <3>2 DEF RegistryTypeOK
  <2>3. ReflectionTypeOK'
    <3>1. UNCHANGED <<abandoned, collected, facts>>
      BY <1>13 DEF Unregister
    <3>2. txn' \in Threads \cup {NoThread} /\ work' \in Folds \cup {NoFold}
      BY <1>1, <1>13, Unregisters DEF ReflectionTypeOK
    <3>3. [order |-> registered, active |-> work \in active] \in [order : Seq(Folds), active : BOOLEAN]
      <4>1. (work \in active) \in BOOLEAN
        OBVIOUS
      <4>2. \A a \in BOOLEAN : [order |-> registered, active |-> a] \in [order : Seq(Folds), active : BOOLEAN]
        BY <1>1 DEF RegistryTypeOK
      <4> QED
        BY <4>1, <4>2
    <3>4. \/ UNCHANGED receipt
          \/ receipt' = [order |-> registered, active |-> work \in active]
      BY <1>1, <1>13, Unregisters
    <3> QED
      BY <1>1, <3>1, <3>2, <3>3, <3>4 DEF ReflectionTypeOK
  <2>4. ThreadTypeOK'
    <3>1. UNCHANGED <<plan, inside, target, writes, quiet>>
      BY <1>13 DEF Unregister
    <3>2. Woken \in [Threads -> Places]
      BY <1>1 DEF Woken, ThreadTypeOK, Places
    <3>3. \E x \in {"unreflect", "unreflectOwn", "drain", "expunge"} :
            pc' = [Woken EXCEPT ![t] = x] \/ pc' = [pc EXCEPT ![t] = x]
      BY <1>1, <1>13, Unregisters
    <3>4. pc' \in [Threads -> Places]
      BY <1>1, <3>2, <3>3 DEF ThreadTypeOK, Places
    <3> QED
      BY <1>1, <3>1, <3>4 DEF ThreadTypeOK
  <2>5. OthersStay(t)
    <3>1. UNCHANGED <<counts, born, plan, inside, target>>
      BY <1>13 DEF Unregister
    <3>2. \/ \E x \in Places : pc' = [Woken EXCEPT ![t] = x]
          \/ \E x \in Places : pc' = [pc EXCEPT ![t] = x]
      BY <1>1, <1>13, Unregisters DEF Places
    <3>3. \A u \in Threads \ {t} : pc'[u] = pc[u] \/ (pc[u] = "asleep" /\ pc'[u] = "check")
      BY <1>1, <3>2 DEF ThreadTypeOK, Woken
    <3> QED
      BY <1>1, <3>1, <3>3 DEF OthersStay
  <2>6. Settled(t)'
    <3>1. UNCHANGED <<counts, born, plan, inside, target>>
      BY <1>13 DEF Unregister
    <3>2. pc'[t] \in InWork \cup {"drain", "expunge"} /\ pc[t] \in InWork
      BY <1>1, <1>13, Unregisters DEF ThreadTypeOK, Woken, InWork
    <3>3. Settled(t)
      BY <1>1 DEF ThreadInv
    <3> QED
      BY <3>1, <3>2, <3>3 DEF Settled, InStep, InChange, InWait, InWork
  <2>7. ThreadInv'
    BY <1>1, <2>5, <2>6, OthersSettled
  <2>8. WaitInv'
    <3>1. UNCHANGED waiters
      BY <1>13 DEF Unregister, queues
    <3>2. \A u \in Threads : pc'[u] \in InWait <=> pc[u] \in InWait
      BY <1>1, <1>13, Unregisters DEF ThreadTypeOK, Woken, InWait
    <3> QED
      BY <1>1, <3>1, <3>2, WaitQuiet
  <2>9. TxnInv'
    <3>1. pc[t] \in InTxn /\ work \in Folds \ Plain /\ txn = t
      BY <1>1, <1>13, Unregisters DEF InTxn, InChange
    <3>2. CASE IsRegistered(work)
      <4>1. /\ receipt'.order = registered /\ UNCHANGED <<txn, work>>
            /\ Contains(receipt'.order, work')
        BY <1>1, <1>13, <3>2, Unregisters DEF IsRegistered
      <4> QED
        BY <1>1, <2>5, <3>1, <4>1, TxnMoves
    <3>3. CASE ~IsRegistered(work)
      <4>1. /\ pc'[t] \in {"drain", "expunge"}
            /\ pc'[t] = "expunge" => txn' = txn
        BY <1>1, <1>13, <3>3, Unregisters DEF ThreadTypeOK
      <4>2. pc'[t] \notin InWork /\ pc'[t] \notin InUnreflect /\ (pc'[t] \in InTxn => txn' = t)
        BY <3>1, <4>1 DEF InWork, InUnreflect, InTxn, InChange
      <4> QED
        BY <1>1, <2>5, <3>1, <4>2, TxnMoves
    <3> QED
      BY <3>2, <3>3
  <2> QED
    BY <2>1, <2>2, <2>3, <2>4, <2>5, <2>6, <2>7, <2>8, <2>9 DEF ShapeInv, TypeOK
<1>14. ASSUME NEW t \in Threads, Unreflect(t) PROVE ShapeInv'
  <2>1. RegistryTypeOK' /\ QueueTypeOK'
    BY <1>1, <1>14 DEF Unreflect, registry, queues, RegistryTypeOK, QueueTypeOK
  <2>2. ReflectionTypeOK'
    BY <1>1, <1>14 DEF Unreflect, registry, queues, Withdrawn, NoReceipt, Goto, Own,
      ReflectionTypeOK, Facts, ThreadInv, Settled, InChange, TxnInv, InWork
  <2>3. ThreadTypeOK'
    BY <1>1, <1>14 DEF Unreflect, registry, queues, Withdrawn, NoReceipt, Goto, Own,
      ThreadTypeOK, Places
  <2>4. OthersStay(t)
    BY <1>1, <1>14 DEF Unreflect, registry, queues, Withdrawn, NoReceipt, Goto, Own,
      ThreadTypeOK, OthersStay
  <2>5. Settled(t)'
    BY <1>1, <1>14 DEF Unreflect, registry, queues, Withdrawn, NoReceipt, Goto, Own,
      ThreadTypeOK, ThreadInv, Settled, InStep, InChange, InWait
  <2>6. ThreadInv'
    BY <1>1, <2>4, <2>5, OthersSettled
  <2>7. WaitInv'
    BY <1>1, <1>14, WaitQuiet DEF Unreflect, registry, queues, Withdrawn, NoReceipt, Goto,
      Own, ThreadTypeOK, InWait
  <2>8. TxnInv'
    <3>1. /\ pc[t] \in InTxn /\ txn = t
          /\ \/ pc'[t] = "drain"
             \/ pc'[t] = "expunge" /\ txn' = txn
      BY <1>1, <1>14 DEF Unreflect, Withdrawn, Goto, ThreadTypeOK, TxnInv, InTxn, InChange
    <3>2. pc'[t] \notin InWork /\ pc'[t] \notin InUnreflect /\ (pc'[t] \in InTxn => txn' = t)
      BY <3>1 DEF InWork, InUnreflect, InTxn, InChange
    <3> QED
      BY <1>1, <2>4, <3>1, <3>2, TxnMoves
  <2> QED
    BY <2>1, <2>2, <2>3, <2>4, <2>5, <2>6, <2>7, <2>8 DEF ShapeInv, TypeOK
<1>15. ASSUME NEW t \in Threads, UnregisterFails(t) PROVE ShapeInv'
  <2>1. RegistryTypeOK' /\ QueueTypeOK'
    BY <1>1, <1>15 DEF UnregisterFails, registry, queues, RegistryTypeOK, QueueTypeOK
  <2>2. ReflectionTypeOK'
    <3>1. pc[t] \in InWork /\ Raise(t) /\ UNCHANGED <<collected, facts>>
      BY <1>15 DEF UnregisterFails, InWork
    <3>2. NoReceipt \in [order : Seq(Folds), active : BOOLEAN]
      BY DEF NoReceipt
    <3> QED
      BY <1>1, <3>1, <3>2, Raised DEF ReflectionTypeOK
  <2>3. ThreadTypeOK'
    BY <1>1, <1>15 DEF UnregisterFails, registry, queues, Raise, Return, Own, NoReceipt,
      Goto, ThreadTypeOK, Places
  <2>4. OthersStay(t)
    BY <1>1, <1>15 DEF UnregisterFails, registry, queues, Raise, Return, Own, NoReceipt,
      Goto, ThreadTypeOK, OthersStay
  <2>5. Settled(t)'
    BY <1>1, <1>15 DEF UnregisterFails, registry, queues, Raise, Return, Own, NoReceipt,
      Goto, ThreadTypeOK, ThreadInv, Settled, InStep, InChange, InWait
  <2>6. ThreadInv'
    BY <1>1, <2>4, <2>5, OthersSettled
  <2>7. WaitInv'
    BY <1>1, <1>15, WaitQuiet DEF UnregisterFails, registry, queues, Raise, Return, Own,
      NoReceipt, Goto, ThreadTypeOK, InWait
  <2>8. TxnInv'
    BY <1>1, <1>15 DEF UnregisterFails, registry, queues, Raise, Return, Own, NoReceipt,
      Goto, ThreadTypeOK, TxnInv, ThreadInv, Settled, InTxn, InChange, InWork, InUnreflect,
      ReflectionTypeOK
  <2> QED
    BY <2>1, <2>2, <2>3, <2>4, <2>5, <2>6, <2>7, <2>8 DEF ShapeInv, TypeOK
<1>16. ASSUME NEW t \in Threads, UnreflectFails(t) PROVE ShapeInv'
  <2>1. QueueTypeOK'
    BY <1>1, <1>16, Restores DEF QueueTypeOK
  <2>2. RegistryTypeOK'
    BY <1>1, <1>16, Restores DEF RegistryTypeOK
  <2>3. ReflectionTypeOK'
    <3>1. pc[t] \in InWork /\ Raise(t) /\ work \in Folds \ Plain /\ UNCHANGED collected
      BY <1>1, <1>16, Restores DEF InWork, InUnreflect
    <3>2. facts' \subseteq Facts
      BY <1>1, <1>16, <3>1, Restores DEF ReflectionTypeOK, Facts
    <3>3. NoReceipt \in [order : Seq(Folds), active : BOOLEAN]
      BY DEF NoReceipt
    <3> QED
      BY <1>1, <3>1, <3>2, <3>3, Raised DEF ReflectionTypeOK
  <2>4. ThreadTypeOK'
    BY <1>1, <1>16 DEF UnreflectFails, queues, Raise, Return, Own, NoReceipt, Goto,
      ThreadTypeOK, Places
  <2>5. OthersStay(t)
    BY <1>1, <1>16 DEF UnreflectFails, queues, Raise, Return, Own, NoReceipt, Goto,
      ThreadTypeOK, OthersStay, RegistryTypeOK
  <2>6. Settled(t)'
    BY <1>1, <1>16 DEF UnreflectFails, queues, Raise, Return, Own, NoReceipt, Goto,
      ThreadTypeOK, ThreadInv, Settled, InStep, InChange, InWait, RegistryTypeOK
  <2>7. ThreadInv'
    BY <1>1, <2>5, <2>6, OthersSettled
  <2>8. WaitInv'
    BY <1>1, <1>16, WaitQuiet DEF UnreflectFails, queues, Raise, Return, Own, NoReceipt,
      Goto, ThreadTypeOK, InWait
  <2>9. TxnInv'
    BY <1>1, <1>16 DEF UnreflectFails, queues, Raise, Return, Own, NoReceipt, Goto,
      ThreadTypeOK, TxnInv, ThreadInv, Settled, InTxn, InChange, InWork, InUnreflect,
      ReflectionTypeOK
  <2> QED
    BY <2>1, <2>2, <2>3, <2>4, <2>5, <2>6, <2>7, <2>8, <2>9 DEF ShapeInv, TypeOK
<1>17. ASSUME NEW t \in Threads, Reflect(t) PROVE ShapeInv'
  <2>1. RegistryTypeOK' /\ QueueTypeOK'
    BY <1>1, <1>17 DEF Reflect, registry, queues, RegistryTypeOK, QueueTypeOK
  <2>2. ReflectionTypeOK'
    BY <1>1, <1>17 DEF Reflect, Goto, registry, queues, ReflectionTypeOK, Facts, ThreadInv,
      Settled, InChange, TxnInv, InWork
  <2>3. ThreadTypeOK'
    BY <1>1, <1>17 DEF Reflect, Goto, registry, queues, ThreadTypeOK, Places
  <2>4. OthersStay(t)
    BY <1>1, <1>17 DEF Reflect, Goto, registry, queues, ThreadTypeOK, OthersStay
  <2>5. Settled(t)'
    BY <1>1, <1>17 DEF Reflect, Goto, registry, queues, ThreadTypeOK, ThreadInv, Settled,
      InStep, InChange, InWait
  <2>6. ThreadInv'
    BY <1>1, <2>4, <2>5, OthersSettled
  <2>7. WaitInv'
    BY <1>1, <1>17, WaitQuiet DEF Reflect, Goto, registry, queues, ThreadTypeOK, InWait
  <2>8. TxnInv'
    BY <1>1, <1>17 DEF Reflect, Goto, registry, queues, ThreadTypeOK, TxnInv, ThreadInv,
      Settled, InTxn, InChange, InWork, InUnreflect, ReflectionTypeOK
  <2> QED
    BY <2>1, <2>2, <2>3, <2>4, <2>5, <2>6, <2>7, <2>8 DEF ShapeInv, TypeOK
<1>18. ASSUME NEW t \in Threads, Add(t) PROVE ShapeInv'
  <2>1. QueueTypeOK'
    BY <1>1, <1>18 DEF Add, queues, QueueTypeOK
  <2>2. RegistryTypeOK'
    <3>1. target[t] \in Folds
      BY <1>1, <1>18 DEF Add, ThreadInv, Settled, InChange
    <3>2. /\ registered' = Append(registered, target[t]) /\ born' = born \cup {target[t]}
          /\ UNCHANGED <<active, counts>>
      BY <1>18 DEF Add
    <3>3. registered' \in Seq(Folds)
      BY <1>1, <3>1, <3>2, AppendExtends DEF RegistryTypeOK
    <3> QED
      BY <1>1, <3>1, <3>2, <3>3 DEF RegistryTypeOK
  <2>3. ReflectionTypeOK'
    BY <1>1, <1>18 DEF Add, Goto, queues, ReflectionTypeOK, Facts, ThreadInv, Settled,
      InChange, TxnInv, InWork
  <2>4. ThreadTypeOK'
    BY <1>1, <1>18 DEF Add, Goto, queues, ThreadTypeOK, Places
  <2>5. OthersStay(t)
    BY <1>1, <1>18 DEF Add, Goto, queues, ThreadTypeOK, OthersStay, RegistryTypeOK
  <2>6. Settled(t)'
    BY <1>1, <1>18 DEF Add, Goto, queues, ThreadTypeOK, ThreadInv, Settled, InStep,
      InChange, InWait, RegistryTypeOK
  <2>7. ThreadInv'
    BY <1>1, <2>5, <2>6, OthersSettled
  <2>8. WaitInv'
    BY <1>1, <1>18, WaitQuiet DEF Add, Goto, queues, ThreadTypeOK, InWait
  <2>9. TxnInv'
    BY <1>1, <1>18 DEF Add, Goto, queues, ThreadTypeOK, TxnInv, ThreadInv, Settled, InTxn,
      InChange, InWork, InUnreflect, ReflectionTypeOK
  <2> QED
    BY <2>1, <2>2, <2>3, <2>4, <2>5, <2>6, <2>7, <2>8, <2>9 DEF ShapeInv, TypeOK
<1>19. ASSUME NEW t \in Threads, AddFails(t) PROVE ShapeInv'
  <2>1. QueueTypeOK'
    BY <1>1, <1>19 DEF AddFails, queues, QueueTypeOK
  <2>2. RegistryTypeOK'
    BY <1>1, <1>19 DEF AddFails, Goto, queues, RegistryTypeOK
  <2>3. ReflectionTypeOK'
    BY <1>1, <1>19 DEF AddFails, Goto, queues, ReflectionTypeOK, Facts, ThreadInv, Settled,
      InChange, TxnInv, InWork
  <2>4. ThreadTypeOK'
    BY <1>1, <1>19 DEF AddFails, Goto, queues, ThreadTypeOK, Places
  <2>5. OthersStay(t)
    BY <1>1, <1>19 DEF AddFails, Goto, queues, ThreadTypeOK, OthersStay, RegistryTypeOK
  <2>6. Settled(t)'
    BY <1>1, <1>19 DEF AddFails, Goto, queues, ThreadTypeOK, ThreadInv, Settled, InStep,
      InChange, InWait, RegistryTypeOK
  <2>7. ThreadInv'
    BY <1>1, <2>5, <2>6, OthersSettled
  <2>8. WaitInv'
    BY <1>1, <1>19, WaitQuiet DEF AddFails, Goto, queues, ThreadTypeOK, InWait
  <2>9. TxnInv'
    BY <1>1, <1>19 DEF AddFails, Goto, queues, ThreadTypeOK, TxnInv, ThreadInv, Settled,
      InTxn, InChange, InWork, InUnreflect, ReflectionTypeOK
  <2> QED
    BY <2>1, <2>2, <2>3, <2>4, <2>5, <2>6, <2>7, <2>8, <2>9 DEF ShapeInv, TypeOK
<1>20. ASSUME NEW t \in Threads, Drain(t) PROVE ShapeInv'
  <2>1. RegistryTypeOK' /\ QueueTypeOK' /\ ReflectionTypeOK'
    BY <1>1, <1>20 DEF Drain, registry, queues, reflection, RegistryTypeOK, QueueTypeOK,
      ReflectionTypeOK
  <2>2. ThreadTypeOK'
    BY <1>1, <1>20 DEF Drain, Return, registry, queues, reflection, Goto, ThreadTypeOK,
      Places, ThreadInv, Settled, InStep
  <2>3. OthersStay(t)
    BY <1>1, <1>20 DEF Drain, Return, registry, queues, reflection, Goto, ThreadTypeOK,
      OthersStay
  <2>4. Settled(t)'
    BY <1>1, <1>20 DEF Drain, Return, registry, queues, reflection, Goto, ThreadTypeOK,
      ThreadInv, Settled, InStep, InChange, InWait
  <2>5. ThreadInv'
    BY <1>1, <2>3, <2>4, OthersSettled
  <2>6. WaitInv'
    BY <1>1, <1>20, WaitQuiet DEF Drain, Return, registry, queues, reflection, Goto,
      ThreadTypeOK, InWait
  <2>7. TxnInv'
    BY <1>1, <1>20 DEF Drain, Return, registry, queues, reflection, Goto, ThreadTypeOK,
      TxnInv, ThreadInv, Settled, InTxn, InChange, InWork, InUnreflect
  <2> QED
    BY <2>1, <2>2, <2>3, <2>4, <2>5, <2>6, <2>7 DEF ShapeInv, TypeOK
<1>21. ASSUME NEW t \in Threads, Check(t) PROVE ShapeInv'
  <2>1. RegistryTypeOK' /\ ReflectionTypeOK'
    BY <1>1, <1>21 DEF Check, registry, reflection, RegistryTypeOK, ReflectionTypeOK
  <2>2. QueueTypeOK'
    <3>1. pc[t] = "check" /\ UNCHANGED <<items, version, consumed, lock, before, owed>>
      BY <1>21 DEF Check
    <3>2. /\ \A u \in Threads \ {t} : pc'[u] = pc[u]
          /\ \/ pc'[t] = "asleep" /\ waiters' = waiters
             \/ pc'[t] = "take" /\ waiters' = waiters - 1
      BY <1>1, <1>21 DEF Check, Goto, ThreadTypeOK
    <3>3. CASE pc'[t] = "asleep" /\ waiters' = waiters
      BY <1>1, <3>1, <3>3 DEF QueueTypeOK
    <3>4. CASE pc'[t] = "take" /\ waiters' = waiters - 1
      <4>1. pc[t] \in InWait /\ pc'[t] \notin InWait
        BY <3>1, <3>4 DEF InWait
      <4>2. WaitInv' /\ waiters' \in Nat
        BY <1>1, <3>2, <3>4, <4>1, WaitCounts
      <4> QED
        BY <1>1, <3>1, <4>2 DEF QueueTypeOK
    <3> QED
      BY <3>2, <3>3, <3>4
  <2>3. ThreadTypeOK'
    BY <1>1, <1>21 DEF Check, Goto, registry, reflection, ThreadTypeOK, Places
  <2>4. OthersStay(t)
    BY <1>1, <1>21 DEF Check, Goto, registry, reflection, ThreadTypeOK, OthersStay
  <2>5. Settled(t)'
    BY <1>1, <1>21 DEF Check, Goto, registry, reflection, ThreadTypeOK, ThreadInv, Settled,
      InStep, InChange, InWait
  <2>6. ThreadInv'
    BY <1>1, <2>4, <2>5, OthersSettled
  <2>7. WaitInv'
    <3>1. pc[t] = "check" /\ UNCHANGED <<items, version, consumed, lock, before, owed>>
      BY <1>21 DEF Check
    <3>2. /\ \A u \in Threads \ {t} : pc'[u] = pc[u]
          /\ \/ pc'[t] = "asleep" /\ waiters' = waiters
             \/ pc'[t] = "take" /\ waiters' = waiters - 1
      BY <1>1, <1>21 DEF Check, Goto, ThreadTypeOK
    <3>3. CASE pc'[t] = "asleep" /\ waiters' = waiters
      BY <1>1, <3>1, <3>2, <3>3, WaitQuiet DEF InWait
    <3>4. CASE pc'[t] = "take" /\ waiters' = waiters - 1
      <4>1. pc[t] \in InWait /\ pc'[t] \notin InWait
        BY <3>1, <3>4 DEF InWait
      <4>2. WaitInv' /\ waiters' \in Nat
        BY <1>1, <3>2, <3>4, <4>1, WaitCounts
      <4> QED
        BY <1>1, <3>1, <4>2 DEF QueueTypeOK
    <3> QED
      BY <3>2, <3>3, <3>4
  <2>8. TxnInv'
    BY <1>1, <1>21 DEF Check, Goto, registry, reflection, ThreadTypeOK, TxnInv, ThreadInv,
      Settled, InTxn, InChange, InWork, InUnreflect
  <2> QED
    BY <2>1, <2>2, <2>3, <2>4, <2>5, <2>6, <2>7, <2>8 DEF ShapeInv, TypeOK
<1>22. ASSUME NEW t \in Threads, WaitExpires(t) PROVE ShapeInv'
  <2>1. RegistryTypeOK' /\ ReflectionTypeOK'
    BY <1>1, <1>22 DEF WaitExpires, registry, reflection, RegistryTypeOK, ReflectionTypeOK
  <2>2. QueueTypeOK'
    <3>1. UNCHANGED <<items, version, consumed, lock, before, owed>>
      BY <1>22 DEF WaitExpires
    <3>2. /\ \A u \in Threads \ {t} : pc'[u] = pc[u]
          /\ pc[t] \in InWait /\ pc'[t] \notin InWait /\ waiters' = waiters - 1
      BY <1>1, <1>22 DEF WaitExpires, Goto, ThreadTypeOK, InWait
    <3>3. waiters' \in Nat
      BY <1>1, <3>2, WaitCounts
    <3> QED
      BY <1>1, <3>1, <3>3 DEF QueueTypeOK
  <2>3. ThreadTypeOK'
    BY <1>1, <1>22 DEF WaitExpires, Goto, registry, reflection, ThreadTypeOK, Places
  <2>4. OthersStay(t)
    BY <1>1, <1>22 DEF WaitExpires, Goto, registry, reflection, ThreadTypeOK, OthersStay
  <2>5. Settled(t)'
    BY <1>1, <1>22 DEF WaitExpires, Goto, registry, reflection, ThreadTypeOK, ThreadInv,
      Settled, InStep, InChange, InWait
  <2>6. ThreadInv'
    BY <1>1, <2>4, <2>5, OthersSettled
  <2>7. WaitInv'
    BY <1>1, <1>22, WaitCounts DEF WaitExpires, Goto, registry, reflection, ThreadTypeOK,
      InWait
  <2>8. TxnInv'
    BY <1>1, <1>22 DEF WaitExpires, Goto, registry, reflection, ThreadTypeOK, TxnInv,
      ThreadInv, Settled, InTxn, InChange, InWork, InUnreflect
  <2> QED
    BY <2>1, <2>2, <2>3, <2>4, <2>5, <2>6, <2>7, <2>8 DEF ShapeInv, TypeOK
<1>23. ASSUME NEW t \in Threads, Take(t) PROVE ShapeInv'
  <2>1. RegistryTypeOK' /\ ReflectionTypeOK'
    BY <1>1, <1>23 DEF Take, registry, reflection, RegistryTypeOK, ReflectionTypeOK
  <2>2. QueueTypeOK'
    <3>1. /\ owed' = [owed EXCEPT ![target[t]] = <<>>]
          /\ items' = [items EXCEPT ![target[t]] = <<>>]
          /\ consumed' = [consumed EXCEPT ![target[t]] = version[target[t]]]
          /\ UNCHANGED <<version, lock, waiters, before>>
      BY <1>23 DEF Take
    <3>2. <<>> \in Events /\ target[t] \in Folds
      BY <1>1, <1>23 DEF Events, Take, ThreadInv, Settled
    <3> QED
      BY <1>1, <3>1, <3>2 DEF QueueTypeOK
  <2>3. ThreadTypeOK'
    BY <1>1, <1>23 DEF Take, Goto, registry, reflection, ThreadTypeOK, Places
  <2>4. OthersStay(t)
    BY <1>1, <1>23 DEF Take, Goto, registry, reflection, ThreadTypeOK, OthersStay
  <2>5. Settled(t)'
    BY <1>1, <1>23 DEF Take, Goto, registry, reflection, ThreadTypeOK, ThreadInv, Settled,
      InStep, InChange, InWait
  <2>6. ThreadInv'
    BY <1>1, <2>4, <2>5, OthersSettled
  <2>7. WaitInv'
    BY <1>1, <1>23, WaitQuiet DEF Take, Goto, registry, reflection, ThreadTypeOK, InWait
  <2>8. TxnInv'
    BY <1>1, <1>23 DEF Take, Goto, registry, reflection, ThreadTypeOK, TxnInv, ThreadInv,
      Settled, InTxn, InChange, InWork, InUnreflect
  <2> QED
    BY <2>1, <2>2, <2>3, <2>4, <2>5, <2>6, <2>7, <2>8 DEF ShapeInv, TypeOK
<1>24. ASSUME NEW t \in Threads, NEW f \in Folds, Wait(t, f) PROVE ShapeInv'
  <2>1. RegistryTypeOK' /\ ReflectionTypeOK'
    BY <1>1, <1>24 DEF Wait, registry, reflection, RegistryTypeOK, ReflectionTypeOK
  <2>2. QueueTypeOK'
    BY <1>1, <1>24 DEF Wait, Goto, registry, reflection, QueueTypeOK, Events
  <2>3. ThreadTypeOK'
    BY <1>1, <1>24 DEF Wait, Goto, registry, reflection, ThreadTypeOK, Places
  <2>4. OthersStay(t)
    BY <1>1, <1>24 DEF Wait, Goto, registry, reflection, ThreadTypeOK, OthersStay
  <2>5. Settled(t)'
    BY <1>1, <1>24 DEF Wait, Goto, registry, reflection, ThreadTypeOK, ThreadInv, Settled,
      InStep, InChange, InWait
  <2>6. ThreadInv'
    BY <1>1, <2>4, <2>5, OthersSettled
  <2>7. WaitInv'
    BY <1>1, <1>24, WaitCounts DEF Wait, Goto, registry, reflection, ThreadTypeOK, InWait
  <2>8. TxnInv'
    BY <1>1, <1>24 DEF Wait, Goto, registry, reflection, ThreadTypeOK, TxnInv, ThreadInv,
      Settled, InTxn, InChange, InWork, InUnreflect
  <2> QED
    BY <2>1, <2>2, <2>3, <2>4, <2>5, <2>6, <2>7, <2>8 DEF ShapeInv, TypeOK
<1>25. ASSUME NEW t \in Threads, NEW f \in Folds, Subscribe(t, f) PROVE ShapeInv'
  <2>1. QueueTypeOK' /\ ReflectionTypeOK'
    BY <1>1, <1>25 DEF Subscribe, queues, reflection, QueueTypeOK, ReflectionTypeOK
  <2>2. RegistryTypeOK'
    BY <1>1, <1>25 DEF Subscribe, Goto, queues, reflection, RegistryTypeOK
  <2>3. ThreadTypeOK'
    BY <1>1, <1>25 DEF Subscribe, Goto, queues, reflection, ThreadTypeOK, Places
  <2>4. OthersStay(t)
    BY <1>1, <1>25 DEF Subscribe, Goto, queues, reflection, ThreadTypeOK, OthersStay,
      RegistryTypeOK
  <2>5. Settled(t)'
    BY <1>1, <1>25 DEF Subscribe, Goto, queues, reflection, ThreadTypeOK, ThreadInv,
      Settled, InStep, InChange, InWait, RegistryTypeOK
  <2>6. ThreadInv'
    BY <1>1, <2>4, <2>5, OthersSettled
  <2>7. WaitInv'
    BY <1>1, <1>25, WaitQuiet DEF Subscribe, Goto, queues, reflection, ThreadTypeOK, InWait
  <2>8. TxnInv'
    BY <1>1, <1>25 DEF Subscribe, Goto, queues, reflection, ThreadTypeOK, TxnInv, ThreadInv,
      Settled, InTxn, InChange, InWork, InUnreflect
  <2> QED
    BY <2>1, <2>2, <2>3, <2>4, <2>5, <2>6, <2>7, <2>8 DEF ShapeInv, TypeOK
<1>26. ASSUME NEW t \in Threads, NEW f \in Folds, AddPlain(t, f) PROVE ShapeInv'
  <2>1. QueueTypeOK' /\ ReflectionTypeOK'
    BY <1>1, <1>26 DEF AddPlain, queues, reflection, QueueTypeOK, ReflectionTypeOK
  <2>2. RegistryTypeOK'
    <3>1. /\ registered' = Append(registered, f) /\ born' = born \cup {f}
          /\ active' = active \cup {f} /\ UNCHANGED counts
      BY <1>26 DEF AddPlain
    <3>2. registered' \in Seq(Folds)
      BY <1>1, <3>1, AppendExtends DEF RegistryTypeOK
    <3> QED
      BY <1>1, <3>1, <3>2 DEF RegistryTypeOK
  <2>3. ThreadTypeOK'
    BY <1>1, <1>26 DEF AddPlain, queues, reflection, ThreadTypeOK, Places
  <2>4. OthersStay(t)
    BY <1>1, <1>26 DEF AddPlain, queues, reflection, ThreadTypeOK, OthersStay,
      RegistryTypeOK
  <2>5. Settled(t)'
    BY <1>1, <1>26 DEF AddPlain, queues, reflection, ThreadTypeOK, ThreadInv, Settled,
      InStep, InChange, InWait, RegistryTypeOK
  <2>6. ThreadInv'
    BY <1>1, <2>4, <2>5, OthersSettled
  <2>7. WaitInv'
    BY <1>1, <1>26, WaitQuiet DEF AddPlain, queues, reflection, ThreadTypeOK, InWait
  <2>8. TxnInv'
    BY <1>1, <1>26 DEF AddPlain, queues, reflection, ThreadTypeOK, TxnInv, ThreadInv,
      Settled, InTxn, InChange, InWork, InUnreflect
  <2> QED
    BY <2>1, <2>2, <2>3, <2>4, <2>5, <2>6, <2>7, <2>8 DEF ShapeInv, TypeOK
<1>27. ASSUME NEW t \in Threads, NEW f \in Folds, CancelPlain(t, f) PROVE ShapeInv'
  <2>1. QueueTypeOK' /\ ReflectionTypeOK'
    BY <1>1, <1>27 DEF CancelPlain, queues, reflection, QueueTypeOK, ReflectionTypeOK
  <2>2. RegistryTypeOK'
    BY <1>1, <1>27, PoppedType DEF CancelPlain, Goto, queues, reflection, Woken,
      RegistryTypeOK
  <2>3. ThreadTypeOK'
    BY <1>1, <1>27 DEF CancelPlain, Goto, queues, reflection, Woken, ThreadTypeOK, Places
  <2>4. OthersStay(t)
    BY <1>1, <1>27 DEF CancelPlain, Goto, queues, reflection, Woken, ThreadTypeOK,
      OthersStay, RegistryTypeOK
  <2>5. Settled(t)'
    BY <1>1, <1>27 DEF CancelPlain, Goto, queues, reflection, Woken, ThreadTypeOK,
      ThreadInv, Settled, InStep, InChange, InWait, RegistryTypeOK
  <2>6. ThreadInv'
    BY <1>1, <2>4, <2>5, OthersSettled
  <2>7. WaitInv'
    BY <1>1, <1>27, WaitQuiet DEF CancelPlain, Goto, queues, reflection, Woken,
      ThreadTypeOK, InWait
  <2>8. TxnInv'
    <3>1. UNCHANGED <<txn, work, receipt>>
      BY <1>27 DEF CancelPlain, reflection
    <3>2. \/ pc' = [Woken EXCEPT ![t] = "drain"]
          \/ pc' = [pc EXCEPT ![t] = "drain"]
      BY <1>27 DEF CancelPlain, Goto
    <3>3. \A u \in Threads : pc'[u] = pc[u] \/ pc'[u] \in {"check", "drain"}
      BY <1>1, <3>2 DEF ThreadTypeOK, Woken
    <3>4. \A x \in {"check", "drain"} : x \notin InTxn /\ x \notin InWork /\ x \notin InUnreflect
      BY DEF InTxn, InChange, InWork, InUnreflect
    <3> QED
      BY <1>1, <3>1, <3>3, <3>4 DEF TxnInv
  <2> QED
    BY <2>1, <2>2, <2>3, <2>4, <2>5, <2>6, <2>7, <2>8 DEF ShapeInv, TypeOK
<1>28. ASSUME NEW t \in Threads, NEW f \in Folds, Cancel(t, f) PROVE ShapeInv'
  <2>1. RegistryTypeOK' /\ QueueTypeOK' /\ ReflectionTypeOK'
    BY <1>1, <1>28 DEF Cancel, registry, queues, reflection, RegistryTypeOK, QueueTypeOK,
      ReflectionTypeOK
  <2>2. ThreadTypeOK'
    BY <1>1, <1>28 DEF Cancel, Goto, registry, queues, reflection, ThreadTypeOK, Places
  <2>3. OthersStay(t)
    BY <1>1, <1>28 DEF Cancel, Goto, registry, queues, reflection, ThreadTypeOK, OthersStay
  <2>4. Settled(t)'
    BY <1>1, <1>28 DEF Cancel, Goto, registry, queues, reflection, ThreadTypeOK, ThreadInv,
      Settled, InStep, InChange, InWait
  <2>5. ThreadInv'
    BY <1>1, <2>3, <2>4, OthersSettled
  <2>6. WaitInv'
    BY <1>1, <1>28, WaitQuiet DEF Cancel, Goto, registry, queues, reflection, ThreadTypeOK,
      InWait
  <2>7. TxnInv'
    BY <1>1, <1>28 DEF Cancel, Goto, registry, queues, reflection, ThreadTypeOK, TxnInv,
      ThreadInv, Settled, InTxn, InChange, InWork, InUnreflect
  <2> QED
    BY <2>1, <2>2, <2>3, <2>4, <2>5, <2>6, <2>7 DEF ShapeInv, TypeOK
<1>29. ASSUME NEW f \in Folds, Abandon(f) PROVE ShapeInv'
  <2>1. QueueTypeOK'
    BY <1>1, <1>29 DEF Abandon, queues, QueueTypeOK
  <2>2. RegistryTypeOK'
    BY <1>1, <1>29 DEF Abandon, queues, RegistryTypeOK
  <2>3. ReflectionTypeOK'
    BY <1>1, <1>29 DEF Abandon, queues, ReflectionTypeOK, Facts, ThreadInv, Settled,
      InChange, TxnInv, InWork
  <2>4. ThreadTypeOK'
    BY <1>1, <1>29 DEF Abandon, queues, ThreadTypeOK, Places
  <2>5. ThreadInv'
    BY <1>1, <1>29 DEF Abandon, queues, ThreadInv, Settled
  <2>6. WaitInv'
    BY <1>1, <1>29, WaitQuiet DEF Abandon, queues, ThreadTypeOK, InWait
  <2>7. TxnInv'
    BY <1>1, <1>29 DEF Abandon, queues, ThreadTypeOK, TxnInv, ThreadInv, Settled, InTxn,
      InChange, InWork, InUnreflect, ReflectionTypeOK
  <2> QED
    BY <2>1, <2>2, <2>3, <2>4, <2>5, <2>6, <2>7 DEF ShapeInv, TypeOK
<1>30. CASE UNCHANGED vars
  BY <1>1, <1>30 DEF vars, registry, queues, reflection, ShapeInv, TypeOK, RegistryTypeOK,
    QueueTypeOK, ReflectionTypeOK, ThreadTypeOK, ThreadInv, Settled, WaitInv, Waiting, TxnInv
<1> QED
  BY <1>2, <1>3, <1>4, <1>5, <1>6, <1>7, <1>8, <1>9, <1>10, <1>11, <1>12, <1>13, <1>14, <1>15, <1>16, <1>17, <1>18, <1>19, <1>20, <1>21, <1>22, <1>23, <1>24, <1>25, <1>26, <1>27, <1>28, <1>29, <1>30
    DEF Next, DeliveryStep, TransactionStep, WaitStep, Threads

\* The program starts with no fold and nobody waiting.
LEMMA ShapeInit == Init => ShapeInv
<1> SUFFICES ASSUME Init PROVE ShapeInv
  OBVIOUS
<1> USE FoldRegistryAssumption
<1>1. RegistryTypeOK /\ ThreadTypeOK
  BY DEF Init, RegistryTypeOK, ThreadTypeOK, Places
<1>2. QueueTypeOK
  <2>1. <<>> \in Events
    BY DEF Events
  <2> QED
    BY <2>1 DEF Init, QueueTypeOK
<1>3. ReflectionTypeOK
  <2>1. NoReceipt \in [order : Seq(Folds), active : BOOLEAN]
    BY DEF NoReceipt
  <2> QED
    BY <2>1 DEF Init, ReflectionTypeOK
<1>4. ThreadInv
  BY DEF Init, ThreadInv, Settled, InStep, InChange, InWait
<1>5. WaitInv
  <2>1. Waiting = {}
    BY DEF Init, Waiting, InWait
  <2> QED
    BY <2>1, FS_EmptySet DEF Init, WaitInv
<1>6. TxnInv
  BY DEF Init, TxnInv, InTxn, InChange, InWork, InUnreflect
<1> QED
  BY <1>1, <1>2, <1>3, <1>4, <1>5, <1>6 DEF ShapeInv, TypeOK

\* Every behaviour keeps types, places and counts.
THEOREM Shaped == Spec => []ShapeInv
  BY ShapeInit, ShapeStep, PTL DEF Spec

\* Every variable of the registry, the queues and the threads keeps its type.
THEOREM TypeCorrect == Spec => []TypeOK
<1>1. ShapeInv => TypeOK
  BY DEF ShapeInv
<1> QED
  BY <1>1, Shaped, PTL

-----------------------------------------------------------------------------
(* Queues and wake-ups.                                                     *)

\* A step that leaves the queues alone, and everyone between two sections of
\* a step or asleep where they were, except for those it wakes.
QueueFrame ==
    /\ UNCHANGED <<items, owed, version, consumed, lock, before>>
    /\ \A u \in Threads :
         (pc'[u] \in {"locked", "gate", "arrive", "asleep"} \/ pc[u] \in {"locked", "gate", "arrive"})
           => pc'[u] = pc[u] /\ inside'[u] = inside[u] /\ target'[u] = target[u]

\* The six that do more.
QueueSection ==
    \E t \in Threads :
        StepReads(t) \/ StepWrites(t) \/ Gate(t) \/ Arrive(t) \/ Check(t) \/ Take(t)

\* All but six of the steps are of that kind.
LEMMA QueueFrames ==
    ASSUME ShapeInv, [Next]_vars
    PROVE  QueueFrame \/ QueueSection
<1> SUFFICES ASSUME ~QueueSection PROVE QueueFrame
  OBVIOUS
<1>1. TypeOK /\ ThreadTypeOK /\ ThreadInv /\ TxnInv
  BY DEF ShapeInv, TypeOK
<1>2. ASSUME NEW t \in Threads, Write(t) PROVE QueueFrame
  BY <1>1, <1>2 DEF Write, Goto, queues, QueueFrame, ThreadTypeOK
<1>3. ASSUME NEW t \in Threads, Begin(t) PROVE QueueFrame
  BY <1>1, <1>3 DEF Begin, Goto, queues, QueueFrame, ThreadTypeOK
<1>4. ASSUME NEW t \in Threads, Delivered(t) PROVE QueueFrame
  BY <1>1, <1>4 DEF Delivered, Goto, queues, QueueFrame, ThreadTypeOK
<1>5. ASSUME NEW t \in Threads, CallbackEnds(t) PROVE QueueFrame
  BY <1>1, <1>5 DEF CallbackEnds, Goto, queues, QueueFrame, ThreadTypeOK
<1>6. ASSUME NEW t \in Threads, End(t) PROVE QueueFrame
  BY <1>1, <1>6 DEF End, Goto, queues, QueueFrame, ThreadTypeOK
<1>7. ASSUME NEW t \in Threads, EnterTransaction(t) PROVE QueueFrame
  BY <1>1, <1>7 DEF EnterTransaction, Goto, queues, QueueFrame, ThreadTypeOK
<1>8. ASSUME NEW t \in Threads, Expunge(t) PROVE QueueFrame
  BY <1>1, <1>8 DEF Expunge, Goto, queues, QueueFrame, ThreadTypeOK
<1>9. ASSUME NEW t \in Threads, Unregister(t) PROVE QueueFrame
  <2>1. UNCHANGED <<inside, target, items, owed, version, consumed, lock, before>>
    BY <1>9 DEF Unregister, queues
  <2>2. /\ pc[t] \in {"unregister", "unregisterOwn"}
        /\ \E x \in InWork \cup {"drain", "expunge"} :
             pc' = [Woken EXCEPT ![t] = x] \/ pc' = [pc EXCEPT ![t] = x]
    BY <1>1, <1>9, Unregisters DEF InWork
  <2> QED
    BY <1>1, <2>1, <2>2 DEF QueueFrame, ThreadTypeOK, Woken, InWork
<1>10. ASSUME NEW t \in Threads, Unreflect(t) PROVE QueueFrame
  BY <1>1, <1>10 DEF Unreflect, queues, Withdrawn, Goto, Own, QueueFrame, ThreadTypeOK
<1>11. ASSUME NEW t \in Threads, UnregisterFails(t) PROVE QueueFrame
  <2>1. /\ pc[t] \in InWork /\ Raise(t)
        /\ UNCHANGED <<inside, items, owed, version, consumed, lock, before>>
    BY <1>11 DEF UnregisterFails, queues, InWork
  <2> QED
    BY <1>1, <2>1, Raised, ZenonT(60) DEF QueueFrame, ThreadTypeOK, InWork
<1>12. ASSUME NEW t \in Threads, UnreflectFails(t) PROVE QueueFrame
  <2>1. /\ pc[t] \in InWork /\ Raise(t)
        /\ UNCHANGED <<inside, items, owed, version, consumed, lock, before>>
    BY <1>1, <1>12, Restores DEF InWork, InUnreflect
  <2> QED
    BY <1>1, <2>1, Raised, ZenonT(60) DEF QueueFrame, ThreadTypeOK, InWork
<1>13. ASSUME NEW t \in Threads, Reflect(t) PROVE QueueFrame
  BY <1>1, <1>13 DEF Reflect, Goto, queues, QueueFrame, ThreadTypeOK
<1>14. ASSUME NEW t \in Threads, Add(t) PROVE QueueFrame
  BY <1>1, <1>14 DEF Add, Goto, queues, QueueFrame, ThreadTypeOK
<1>15. ASSUME NEW t \in Threads, AddFails(t) PROVE QueueFrame
  BY <1>1, <1>15 DEF AddFails, Goto, queues, QueueFrame, ThreadTypeOK
<1>16. ASSUME NEW t \in Threads, Drain(t) PROVE QueueFrame
  BY <1>1, <1>16 DEF Drain, Return, queues, Goto, QueueFrame, ThreadTypeOK
<1>17. ASSUME NEW t \in Threads, WaitExpires(t) PROVE QueueFrame
  BY <1>1, <1>17 DEF WaitExpires, Goto, QueueFrame, ThreadTypeOK
<1>18. ASSUME NEW t \in Threads, NEW f \in Folds, Wait(t, f) PROVE QueueFrame
  BY <1>1, <1>18 DEF Wait, Goto, QueueFrame, ThreadTypeOK
<1>19. ASSUME NEW t \in Threads, NEW f \in Folds, Subscribe(t, f) PROVE QueueFrame
  BY <1>1, <1>19 DEF Subscribe, Goto, queues, QueueFrame, ThreadTypeOK
<1>20. ASSUME NEW t \in Threads, NEW f \in Folds, AddPlain(t, f) PROVE QueueFrame
  BY <1>1, <1>20 DEF AddPlain, queues, QueueFrame, ThreadTypeOK
<1>21. ASSUME NEW t \in Threads, NEW f \in Folds, CancelPlain(t, f) PROVE QueueFrame
  BY <1>1, <1>21 DEF CancelPlain, Goto, queues, Woken, QueueFrame, ThreadTypeOK
<1>22. ASSUME NEW t \in Threads, NEW f \in Folds, Cancel(t, f) PROVE QueueFrame
  BY <1>1, <1>22 DEF Cancel, Goto, queues, QueueFrame, ThreadTypeOK
<1>23. ASSUME NEW f \in Folds, Abandon(f) PROVE QueueFrame
  BY <1>1, <1>23 DEF Abandon, queues, QueueFrame, ThreadTypeOK
<1>24. CASE UNCHANGED vars
  BY <1>1, <1>24 DEF vars, queues, QueueFrame
<1>25. ASSUME NEW t \in Threads,
             StepReads(t) \/ StepWrites(t) \/ Gate(t) \/ Arrive(t) \/ Check(t) \/ Take(t)
      PROVE  QueueFrame
  BY <1>25 DEF QueueSection
<1> QED
  BY <1>2, <1>3, <1>4, <1>5, <1>6, <1>7, <1>8, <1>9, <1>10, <1>11, <1>12, <1>13, <1>14,
    <1>15, <1>16, <1>17, <1>18, <1>19, <1>20, <1>21, <1>22, <1>23, <1>24, <1>25,
    FoldRegistryAssumption
    DEF Next, DeliveryStep, TransactionStep, WaitStep, Threads

\* Who is between reading and writing holds the lock, and nothing is lost.
QueueInv == LockInv /\ EveryEventOnce

\* Nobody else is between reading and writing of a fold whose lock is free
\* or held by another.
LEMMA LockedOut ==
    ASSUME LockInv, NEW f \in Folds, NEW t \in Threads, lock[f] \in {t, NoThread},
           NEW u \in Threads \ {t}, pc[u] = "locked"
    PROVE  inside[u] # f
  BY FoldRegistryAssumption DEF LockInv

\* Queues stay exact.
LEMMA QueueStep ==
    ASSUME ShapeInv, QueueInv, [Next]_vars
    PROVE  QueueInv'
<1> USE FoldRegistryAssumption
<1>1. /\ TypeOK /\ QueueTypeOK /\ ThreadTypeOK /\ ThreadInv
      /\ LockInv /\ EveryEventOnce
  BY DEF ShapeInv, TypeOK, QueueInv
<1>2. CASE QueueFrame
  BY <1>1, <1>2 DEF QueueFrame, QueueInv, LockInv, EveryEventOnce
<1>3. ASSUME NEW t \in Threads, Gate(t) \/ Arrive(t) \/ Check(t) PROVE QueueInv'
  <2>1. UNCHANGED <<items, owed, lock, before, inside>>
    BY <1>3 DEF Gate, Arrive, Check, queues
  <2>2. \A u \in Threads : pc'[u] = "locked" => pc[u] = "locked"
    BY <1>1, <1>3 DEF Gate, Arrive, Check, Goto, Woken, ThreadTypeOK
  <2> QED
    BY <1>1, <2>1, <2>2 DEF QueueInv, LockInv, EveryEventOnce
<1>4. ASSUME NEW t \in Threads, StepReads(t) PROVE QueueInv'
  <2>1. /\ inside[t] \in Folds /\ lock[inside[t]] = NoThread
        /\ lock' = [lock EXCEPT ![inside[t]] = t]
        /\ before' = [before EXCEPT ![t] = items[inside[t]]]
        /\ pc' = [pc EXCEPT ![t] = "locked"]
        /\ UNCHANGED <<items, owed, inside>>
    BY <1>1, <1>4 DEF StepReads, Free, Goto, ThreadInv, Settled, InStep, ThreadTypeOK
  <2>2. EveryEventOnce'
    BY <1>1, <2>1 DEF EveryEventOnce
  <2>3. ASSUME NEW u \in Threads, pc'[u] = "locked"
        PROVE  lock'[inside'[u]] = u /\ before'[u] = items'[inside'[u]]
    <3>1. CASE u = t
      BY <1>1, <2>1, <3>1 DEF QueueTypeOK
    <3>2. CASE u # t
      <4>1. pc[u] = "locked" /\ inside[u] # inside[t]
        BY <1>1, <2>1, <2>3, <3>2, LockedOut DEF ThreadTypeOK
      <4> QED
        BY <1>1, <2>1, <3>2, <4>1 DEF QueueTypeOK, LockInv
    <3> QED
      BY <3>1, <3>2
  <2> QED
    BY <2>2, <2>3 DEF QueueInv, LockInv
<1>5. ASSUME NEW t \in Threads, StepWrites(t) PROVE QueueInv'
  <2> DEFINE f == inside[t]
             event == <<t, writes[t]>>
  <2>1. /\ pc[t] = "locked" /\ f \in Folds /\ lock[f] = t /\ before[t] = items[f]
        /\ items[f] = owed[f] /\ items[f] \in Events /\ Len(items[f]) <= QueueMax
    BY <1>1, <1>5 DEF StepWrites, ThreadInv, Settled, InStep, ThreadTypeOK, LockInv,
      EveryEventOnce, QueueTypeOK
  <2>2. /\ UNCHANGED inside /\ pc'[t] # "locked"
        /\ lock' = [lock EXCEPT ![f] = NoThread]
        /\ before' = [before EXCEPT ![t] = <<>>]
        /\ \A u \in Threads \ {t} : pc'[u] = pc[u]
    BY <1>1, <1>5 DEF StepWrites, Goto, ThreadTypeOK
  <2>3. \/ UNCHANGED <<items, owed>>
        \/ /\ ~Full(before[t])
           /\ items' = [items EXCEPT ![f] = Append(before[t], event)]
           /\ owed' = [owed EXCEPT ![f] = Append(owed[f], event)]
    BY <1>5 DEF StepWrites
  <2>4. \A g \in Folds \ {f} : items'[g] = items[g] /\ owed'[g] = owed[g]
    BY <1>1, <2>3 DEF QueueTypeOK
  <2>5. EveryEventOnce'
    <3>1. CASE UNCHANGED <<items, owed>>
      BY <1>1, <3>1 DEF EveryEventOnce
    <3>2. CASE /\ ~Full(before[t])
               /\ items' = [items EXCEPT ![f] = Append(before[t], event)]
               /\ owed' = [owed EXCEPT ![f] = Append(owed[f], event)]
      <4>1. items'[f] = Append(items[f], event) /\ owed'[f] = Append(items[f], event)
        BY <1>1, <2>1, <3>2 DEF QueueTypeOK
      <4>2. Len(items[f]) \in Nat /\ Len(items[f]) < QueueMax
        BY <2>1, <3>2, LenProperties DEF Full, Events
      <4>3. event \in Threads \X Nat
        BY <1>1 DEF ThreadTypeOK
      <4>4. Len(Append(items[f], event)) = Len(items[f]) + 1
        BY <2>1, <4>3, AppendExtends DEF Events
      <4>5. items'[f] = owed'[f] /\ Len(items'[f]) <= QueueMax
        BY <4>1, <4>2, <4>4
      <4> QED
        BY <1>1, <2>4, <4>5 DEF EveryEventOnce
    <3> QED
      BY <2>3, <3>1, <3>2
  <2>6. ASSUME NEW u \in Threads, pc'[u] = "locked"
        PROVE  lock'[inside'[u]] = u /\ before'[u] = items'[inside'[u]]
    <3>1. u # t /\ pc[u] = "locked" /\ inside[u] # f /\ inside[u] \in Folds
      BY <1>1, <2>1, <2>2, <2>6, LockedOut DEF ThreadInv, Settled, InStep, ThreadTypeOK
    <3> QED
      BY <1>1, <2>2, <2>4, <3>1 DEF QueueTypeOK, LockInv
  <2> QED
    BY <2>5, <2>6 DEF QueueInv, LockInv
<1>6. ASSUME NEW t \in Threads, Take(t) PROVE QueueInv'
  <2>1. /\ pc[t] = "take" /\ target[t] \in Folds /\ lock[target[t]] = NoThread
        /\ items' = [items EXCEPT ![target[t]] = <<>>]
        /\ owed' = [owed EXCEPT ![target[t]] = <<>>]
        /\ UNCHANGED <<lock, before, inside>>
        /\ pc' = [pc EXCEPT ![t] = "idle"]
    BY <1>1, <1>6 DEF Take, Free, Goto, ThreadInv, Settled
  <2>2. EveryEventOnce'
    BY <1>1, <2>1 DEF EveryEventOnce, QueueTypeOK
  <2>3. ASSUME NEW u \in Threads, pc'[u] = "locked"
        PROVE  lock'[inside'[u]] = u /\ before'[u] = items'[inside'[u]]
    <3>1. u # t /\ pc[u] = "locked" /\ inside[u] # target[t] /\ inside[u] \in Folds
      BY <1>1, <2>1, <2>3, LockedOut DEF ThreadInv, Settled, InStep, ThreadTypeOK
    <3> QED
      BY <1>1, <2>1, <3>1 DEF QueueTypeOK, LockInv
  <2> QED
    BY <2>2, <2>3 DEF QueueInv, LockInv
<1> QED
  BY <1>2, <1>3, <1>4, <1>5, <1>6, QueueFrames DEF QueueSection

\* Two deliveries, or a delivery and a take(), never lose or repeat an event,
\* and a queue never holds more than its bound: a step reads and writes the
\* state in two sections, but under one hold of the fold's lock.
THEOREM EventsOnce == Spec => []EveryEventOnce
<1>1. Init => QueueInv
  BY FoldRegistryAssumption DEF Init, QueueInv, LockInv, EveryEventOnce
<1>2. QueueInv => EveryEventOnce
  BY DEF QueueInv
<1> QED
  BY <1>1, <1>2, QueueStep, Shaped, PTL DEF Spec

\* No thread newly misses an event, and those on their way to wake it stay so.
LEMMA WakeQuiet ==
    ASSUME NoLostWakeup,
           \A u \in Threads :
               (pc'[u] = "asleep" /\ version'[target'[u]] # consumed'[target'[u]]) =>
                   /\ pc[u] = "asleep" /\ target'[u] = target[u]
                   /\ version[target[u]] # consumed[target[u]],
           \A u \in Threads :
               /\ pc[u] = "arrive" => pc'[u] = "arrive"
               /\ pc[u] = "gate" => pc'[u] = "gate" /\ inside'[u] = inside[u]
    PROVE  NoLostWakeup'
  BY DEF NoLostWakeup

\* Wake-ups are not lost either.
LEMMA WakeStep ==
    ASSUME ShapeInv, NoLostWakeup, [Next]_vars
    PROVE  NoLostWakeup'
<1> USE FoldRegistryAssumption
<1>1. /\ TypeOK /\ QueueTypeOK /\ ThreadTypeOK /\ ThreadInv /\ WaitInv
  BY DEF ShapeInv, TypeOK
<1>2. CASE QueueFrame
  BY <1>2 DEF QueueFrame, NoLostWakeup
<1>3. ASSUME NEW t \in Threads, StepReads(t) PROVE NoLostWakeup'
  <2>1. /\ pc[t] = "step" /\ pc' = [pc EXCEPT ![t] = "locked"]
        /\ UNCHANGED <<version, consumed, inside, target>>
    BY <1>3 DEF StepReads, Goto
  <2> QED
    BY <1>1, <2>1, WakeQuiet DEF ThreadTypeOK
<1>4. ASSUME NEW t \in Threads, StepWrites(t) PROVE NoLostWakeup'
  <2>1. /\ pc[t] = "locked" /\ inside[t] \in Folds
        /\ UNCHANGED <<consumed, inside, target>>
    BY <1>1, <1>4 DEF StepWrites, ThreadInv, Settled, InStep, ThreadTypeOK
  <2>2. \/ UNCHANGED version /\ pc' = [pc EXCEPT ![t] = "end"]
        \/ /\ version' = [version EXCEPT ![inside[t]] = version[inside[t]] + 1]
           /\ pc' = [pc EXCEPT ![t] = "gate"]
    BY <1>4 DEF StepWrites, Goto
  <2>3. CASE UNCHANGED version /\ pc' = [pc EXCEPT ![t] = "end"]
    BY <1>1, <2>1, <2>3, WakeQuiet DEF ThreadTypeOK
  <2>4. CASE /\ version' = [version EXCEPT ![inside[t]] = version[inside[t]] + 1]
             /\ pc' = [pc EXCEPT ![t] = "gate"]
    <3>1. ASSUME NEW u \in Threads, pc'[u] = "asleep",
                 version'[target'[u]] # consumed'[target'[u]]
          PROVE  \E v \in Threads : pc'[v] = "arrive" \/ (pc'[v] = "gate" /\ inside'[v] = target'[u])
      <4>1. CASE target[u] = inside[t]
        BY <1>1, <2>1, <2>4, <4>1 DEF ThreadTypeOK
      <4>2. CASE target[u] # inside[t]
        <5>1. pc[u] = "asleep" /\ version[target[u]] # consumed[target[u]]
          BY <1>1, <2>1, <2>4, <3>1, <4>2 DEF ThreadTypeOK, QueueTypeOK, ThreadInv, Settled, InWait
        <5>2. PICK v \in Threads : pc[v] = "arrive" \/ (pc[v] = "gate" /\ inside[v] = target[u])
          BY <5>1 DEF NoLostWakeup
        <5> QED
          BY <1>1, <2>1, <2>4, <5>2 DEF ThreadTypeOK
      <4> QED
        BY <4>1, <4>2
    <3> QED
      BY <3>1 DEF NoLostWakeup
  <2> QED
    BY <2>2, <2>3, <2>4
<1>5. ASSUME NEW t \in Threads, Gate(t) PROVE NoLostWakeup'
  <2>1. CASE waiters > 0
    BY <1>1, <1>5, <2>1 DEF Gate, SomeoneWaits, Goto, ThreadTypeOK, NoLostWakeup
  <2>2. CASE ~(waiters > 0)
    <3>1. Waiting = {}
      <4>1. IsFiniteSet(Waiting)
        BY FS_Subset DEF Waiting
      <4>2. Cardinality(Waiting) = 0
        BY <1>1, <2>2 DEF WaitInv, QueueTypeOK
      <4> QED
        BY <4>1, <4>2, FS_EmptySet
    <3>2. \A u \in Threads : pc'[u] # "asleep"
      BY <1>1, <1>5, <3>1 DEF Gate, Goto, ThreadTypeOK, Waiting, InWait
    <3> QED
      BY <3>2 DEF NoLostWakeup
  <2> QED
    BY <2>1, <2>2
<1>6. ASSUME NEW t \in Threads, Arrive(t) PROVE NoLostWakeup'
  BY <1>1, <1>6 DEF Arrive, Woken, ThreadTypeOK, NoLostWakeup
<1>7. ASSUME NEW t \in Threads, Check(t) PROVE NoLostWakeup'
  <2>1. /\ pc[t] = "check" /\ UNCHANGED <<version, consumed, inside, target>>
        /\ \A u \in Threads \ {t} : pc'[u] = pc[u]
        /\ pc'[t] = "asleep" => version[target[t]] = consumed[target[t]]
    BY <1>1, <1>7 DEF Check, Goto, ThreadTypeOK
  <2> QED
    BY <2>1, WakeQuiet
<1>8. ASSUME NEW t \in Threads, Take(t) PROVE NoLostWakeup'
  <2>1. /\ pc[t] = "take" /\ pc' = [pc EXCEPT ![t] = "idle"]
        /\ target' = [target EXCEPT ![t] = NoFold]
        /\ consumed' = [consumed EXCEPT ![target[t]] = version[target[t]]]
        /\ UNCHANGED <<version, inside>>
    BY <1>8 DEF Take, Goto
  <2>2. ASSUME NEW u \in Threads, pc'[u] = "asleep",
               version'[target'[u]] # consumed'[target'[u]]
        PROVE  \E v \in Threads : pc'[v] = "arrive" \/ (pc'[v] = "gate" /\ inside'[v] = target'[u])
    <3>1. u # t /\ pc[u] = "asleep" /\ target'[u] = target[u] /\ target[u] \in Folds
      BY <1>1, <2>1, <2>2 DEF ThreadTypeOK, ThreadInv, Settled, InWait
    <3>2. version[target[u]] # consumed[target[u]]
      BY <1>1, <2>1, <2>2, <3>1 DEF QueueTypeOK
    <3>3. PICK v \in Threads : pc[v] = "arrive" \/ (pc[v] = "gate" /\ inside[v] = target[u])
      BY <3>1, <3>2 DEF NoLostWakeup
    <3> QED
      BY <1>1, <2>1, <3>1, <3>3 DEF ThreadTypeOK
  <2> QED
    BY <2>2 DEF NoLostWakeup
<1> QED
  BY <1>2, <1>3, <1>4, <1>5, <1>6, <1>7, <1>8, QueueFrames DEF QueueSection

\* A thread asleep in wait() while events are there to take is about to be
\* woken: whoever reads `waiters` without the lock finds it counted, because
\* wait() counts itself before it looks.
THEOREM WakeupKept == Spec => []NoLostWakeup
<1>1. Init => NoLostWakeup
  BY DEF Init, NoLostWakeup
<1> QED
  BY <1>1, WakeStep, Shaped, PTL DEF Spec

-----------------------------------------------------------------------------
(* Lists that hold each member once.                                        *)

\* A list without repetition agrees with itself.
LEMMA OnceAgrees ==
    ASSUME NEW s, Once(s), Len(s) \in Nat
    PROVE  Agrees(s, s)
  BY DEF Once, Agrees

\* pop() keeps the others, and their order.
LEMMA PoppedOnce ==
    ASSUME NEW S, NEW s \in Seq(S), Once(s), NEW f, Contains(s, f)
    PROVE  /\ Once(RemoveAt(s, PlaceOf(s, f)))
           /\ \A g : Contains(RemoveAt(s, PlaceOf(s, f)), g) <=> (Contains(s, g) /\ g # f)
           /\ \A o : Agrees(o, s) => Agrees(o, RemoveAt(s, PlaceOf(s, f)))
<1> DEFINE p == PlaceOf(s, f)
           r == RemoveAt(s, p)
           n == Len(s)
<1>1. p \in 1..n /\ s[p] = f
  BY PlaceFound
<1>2. /\ n \in Nat /\ Len(r) = n - 1
      /\ \A i \in 1..(n - 1) : r[i] = IF i < p THEN s[i] ELSE s[i + 1]
  BY <1>1, RemovedAt
<1> DEFINE up == [k \in 1..(n - 1) |-> IF k < p THEN k ELSE k + 1]
<1>3. /\ \A k \in 1..(n - 1) : r[k] = s[up[k]] /\ up[k] \in 1..n /\ up[k] # p
      /\ \A k, l \in 1..(n - 1) : up[k] < up[l] => k < l
      /\ \A k, l \in 1..(n - 1) : up[k] = up[l] => k = l
  BY <1>1, <1>2
<1>4. ASSUME NEW i \in 1..n, i # p PROVE \E k \in 1..(n - 1) : up[k] = i
  <2>1. CASE i < p
    <3>1. i \in 1..(n - 1) /\ up[i] = i
      BY <1>1, <1>2, <2>1
    <3> QED
      BY <3>1
  <2>2. CASE i > p
    <3>1. i - 1 \in 1..(n - 1) /\ up[i - 1] = i
      BY <1>1, <1>2, <2>2
    <3> QED
      BY <3>1
  <2> QED
    BY <1>1, <1>2, <1>4, <2>1, <2>2
<1> HIDE DEF p, r, n, up
<1>5. Once(s) /\ \A k \in 1..n : s[k] = f => k = p
  BY <1>1 DEF Once, n
<1>6. Once(r)
  BY <1>2, <1>3, <1>5, ZenonT(60) DEF Once, n
<1>7. ASSUME NEW g PROVE Contains(r, g) <=> (Contains(s, g) /\ g # f)
  <2>1. ASSUME Contains(r, g) PROVE Contains(s, g) /\ g # f
    BY <1>2, <1>3, <1>5, <2>1, SMTT(30) DEF Contains, n
  <2>2. ASSUME Contains(s, g), g # f PROVE Contains(r, g)
    <3>1. PICK i \in 1..n : s[i] = g
      BY <2>2 DEF Contains, n
    <3>2. PICK k \in 1..(n - 1) : up[k] = i
      BY <1>1, <1>4, <2>2, <3>1
    <3> QED
      BY <1>2, <1>3, <3>1, <3>2 DEF Contains
  <2> QED
    BY <2>1, <2>2
<1>8. ASSUME NEW o, Agrees(o, s) PROVE Agrees(o, r)
  BY <1>2, <1>3, <1>8, SMTT(30) DEF Agrees, n
<1> QED
  BY <1>6, <1>7, <1>8 DEF r, p

\* insert() adds one member and keeps the others.
LEMMA InsertedOnce ==
    ASSUME NEW S, NEW s \in Seq(S), Once(s), NEW p \in 1..(Len(s) + 1), NEW e \in S, ~Contains(s, e)
    PROVE  /\ Once(InsertAt(s, p, e))
           /\ \A g : Contains(InsertAt(s, p, e), g) <=> (Contains(s, g) \/ g = e)
<1> DEFINE r == InsertAt(s, p, e)
           n == Len(s)
           down == [i \in 1..(n + 1) |-> IF i < p THEN i ELSE i - 1]
<1>1. /\ n \in Nat /\ Len(r) = n + 1
      /\ \A i \in 1..(n + 1) : r[i] = IF i < p THEN s[i] ELSE IF i = p THEN e ELSE s[i - 1]
  BY InsertedAt
<1>2. /\ r[p] = e /\ p \in 1..(n + 1)
      /\ \A i \in 1..(n + 1) : i # p => r[i] = s[down[i]] /\ down[i] \in 1..n
      /\ \A i, j \in 1..(n + 1) : (i # p /\ j # p /\ down[i] = down[j]) => i = j
  BY <1>1
<1>3. ASSUME NEW k \in 1..n PROVE \E i \in 1..(n + 1) : r[i] = s[k]
  <2>1. CASE k < p
    BY <1>1, <2>1
  <2>2. CASE k >= p
    <3>1. k + 1 \in 1..(n + 1) /\ r[k + 1] = s[k]
      BY <1>1, <2>2
    <3> QED
      BY <3>1
  <2> QED
    BY <1>1, <2>1, <2>2
<1> HIDE DEF r, n, down
<1>4. /\ \A k \in 1..n : s[k] # e
      /\ \A k, l \in 1..n : s[k] = s[l] => k = l
  BY DEF Contains, Once, n
<1>5. Once(r)
  <2>1. ASSUME NEW i \in 1..(n + 1), NEW j \in 1..(n + 1), r[i] = r[j] PROVE i = j
    <3>1. CASE i # p /\ j # p
      <4>1. /\ down[i] \in 1..n /\ down[j] \in 1..n
            /\ s[down[i]] = s[down[j]]
        BY <1>2, <2>1, <3>1
      <4>2. down[i] = down[j]
        BY <1>4, <4>1
      <4> QED
        BY <1>2, <3>1, <4>2
    <3>2. CASE i = p \/ j = p
      BY <1>2, <1>4, <2>1, <3>2
    <3> QED
      BY <3>1, <3>2
  <2> QED
    BY <1>1, <2>1 DEF Once
<1>6. ASSUME NEW g PROVE Contains(r, g) <=> (Contains(s, g) \/ g = e)
  <2>1. ASSUME Contains(r, g) PROVE Contains(s, g) \/ g = e
    BY <1>1, <1>2, <2>1 DEF Contains, n
  <2>2. ASSUME Contains(s, g) \/ g = e PROVE Contains(r, g)
    BY <1>1, <1>2, <1>3, <2>2 DEF Contains, n
  <2> QED
    BY <2>1, <2>2
<1> QED
  BY <1>5, <1>6 DEF r

\* append() too, and it changes nobody's place.
LEMMA AppendedOnce ==
    ASSUME NEW S, NEW s \in Seq(S), Once(s), NEW e \in S, ~Contains(s, e)
    PROVE  /\ Once(Append(s, e))
           /\ \A g : Contains(Append(s, e), g) <=> (Contains(s, g) \/ g = e)
           /\ \A o : (Agrees(o, s) /\ ~Contains(o, e)) => Agrees(o, Append(s, e))
<1> DEFINE r == Append(s, e)
           n == Len(s)
<1>1. /\ n \in Nat /\ Len(r) = n + 1 /\ r[n + 1] = e
      /\ \A i \in 1..n : r[i] = s[i]
  BY AppendExtends
<1> HIDE DEF r, n
<1>2. /\ \A k \in 1..n : s[k] # e
      /\ \A k, l \in 1..n : s[k] = s[l] => k = l
  BY DEF Contains, Once, n
<1>3. \A i \in 1..(n + 1) : i \in 1..n \/ i = n + 1
  BY <1>1
<1>4. Once(r)
  BY <1>1, <1>2, <1>3 DEF Once
<1>5. ASSUME NEW g PROVE Contains(r, g) <=> (Contains(s, g) \/ g = e)
  <2>1. ASSUME Contains(r, g) PROVE Contains(s, g) \/ g = e
    BY <1>1, <1>3, <2>1 DEF Contains, n
  <2>2. ASSUME Contains(s, g) PROVE Contains(r, g)
    BY <1>1, <2>2 DEF Contains, n
  <2>3. Contains(r, e)
    BY <1>1 DEF Contains
  <2> QED
    BY <2>1, <2>2, <2>3
<1>6. ASSUME NEW o, Agrees(o, s), ~Contains(o, e) PROVE Agrees(o, r)
  <2>1. \A i \in 1..Len(o) : \A k \in 1..(n + 1) : r[k] = o[i] => k \in 1..n
    BY <1>1, <1>3, <1>6 DEF Contains
  <2> QED
    BY <1>1, <1>6, <2>1 DEF Agrees, n
<1> QED
  BY <1>4, <1>5, <1>6 DEF r

-----------------------------------------------------------------------------
(* Who is registered.                                                       *)

\* Places where a registration changes.
InPlay == InWork \cup {"reflect", "add", "drain"}

\* A step that leaves registrations and whoever changes one alone; a thread
\* may turn to a fold that was added before, or to none.
RegistryFrame ==
    /\ UNCHANGED <<registered, active, born, quiet, work, receipt, facts>>
    /\ \A u \in Threads :
         /\ pc[u] \in InPlay \/ pc'[u] \in InPlay => pc'[u] = pc[u] /\ target'[u] = target[u]
         /\ target'[u] = target[u] \/ target'[u] = NoFold \/ target'[u] \in born

\* The steps that do more.
Withdrawal(t) == Expunge(t) \/ Unregister(t) \/ Unreflect(t) \/ UnregisterFails(t) \/ UnreflectFails(t)
Addition(t) == Reflect(t) \/ Add(t) \/ AddFails(t)
Request(t, f) == Subscribe(t, f) \/ AddPlain(t, f) \/ CancelPlain(t, f)

RegistrySection ==
    \/ \E t \in Threads : Withdrawal(t) \/ Addition(t) \/ Drain(t)
    \/ \E t \in Threads, f \in Folds : Request(t, f)
    \/ \E f \in Folds : Abandon(f)

\* All other steps leave registrations alone.
LEMMA RegistryFrames ==
    ASSUME ShapeInv, [Next]_vars
    PROVE  RegistryFrame \/ RegistrySection
<1> SUFFICES ASSUME ~RegistrySection PROVE RegistryFrame
  OBVIOUS
<1>1. TypeOK /\ ThreadTypeOK
  BY DEF ShapeInv, TypeOK
<1>2. ASSUME NEW t \in Threads, Write(t) PROVE RegistryFrame
  BY <1>1, <1>2 DEF Write, Goto, registry, reflection, RegistryFrame, ThreadTypeOK, InPlay,
    InWork
<1>3. ASSUME NEW t \in Threads, Begin(t) PROVE RegistryFrame
  BY <1>1, <1>3 DEF Begin, Goto, reflection, RegistryFrame, ThreadTypeOK, InPlay, InWork
<1>4. ASSUME NEW t \in Threads, Delivered(t) PROVE RegistryFrame
  BY <1>1, <1>4 DEF Delivered, Goto, registry, reflection, RegistryFrame, ThreadTypeOK,
    InPlay, InWork
<1>5. ASSUME NEW t \in Threads, CallbackEnds(t) PROVE RegistryFrame
  BY <1>1, <1>5 DEF CallbackEnds, Goto, registry, reflection, RegistryFrame, ThreadTypeOK,
    InPlay, InWork
<1>6. ASSUME NEW t \in Threads, StepReads(t) PROVE RegistryFrame
  BY <1>1, <1>6 DEF StepReads, Goto, registry, reflection, RegistryFrame, ThreadTypeOK,
    InPlay, InWork
<1>7. ASSUME NEW t \in Threads, StepWrites(t) PROVE RegistryFrame
  BY <1>1, <1>7 DEF StepWrites, Goto, registry, reflection, RegistryFrame, ThreadTypeOK,
    InPlay, InWork
<1>8. ASSUME NEW t \in Threads, Gate(t) PROVE RegistryFrame
  BY <1>1, <1>8 DEF Gate, Goto, registry, reflection, RegistryFrame, ThreadTypeOK, InPlay,
    InWork
<1>9. ASSUME NEW t \in Threads, Arrive(t) PROVE RegistryFrame
  BY <1>1, <1>9 DEF Arrive, registry, reflection, Woken, RegistryFrame, ThreadTypeOK,
    InPlay, InWork
<1>10. ASSUME NEW t \in Threads, End(t) PROVE RegistryFrame
  BY <1>1, <1>10 DEF End, Goto, reflection, RegistryFrame, ThreadTypeOK, InPlay, InWork
<1>11. ASSUME NEW t \in Threads, EnterTransaction(t) PROVE RegistryFrame
  BY <1>1, <1>11 DEF EnterTransaction, Goto, registry, RegistryFrame, ThreadTypeOK, InPlay,
    InWork
<1>12. ASSUME NEW t \in Threads, Check(t) PROVE RegistryFrame
  BY <1>1, <1>12 DEF Check, Goto, registry, reflection, RegistryFrame, ThreadTypeOK, InPlay,
    InWork
<1>13. ASSUME NEW t \in Threads, WaitExpires(t) PROVE RegistryFrame
  BY <1>1, <1>13 DEF WaitExpires, Goto, registry, reflection, RegistryFrame, ThreadTypeOK,
    InPlay, InWork
<1>14. ASSUME NEW t \in Threads, Take(t) PROVE RegistryFrame
  BY <1>1, <1>14 DEF Take, Goto, registry, reflection, RegistryFrame, ThreadTypeOK, InPlay,
    InWork
<1>15. ASSUME NEW t \in Threads, NEW f \in Folds, Wait(t, f) PROVE RegistryFrame
  BY <1>1, <1>15 DEF Wait, Goto, registry, reflection, RegistryFrame, ThreadTypeOK, InPlay,
    InWork
<1>16. ASSUME NEW t \in Threads, NEW f \in Folds, Cancel(t, f) PROVE RegistryFrame
  BY <1>1, <1>16 DEF Cancel, Goto, registry, reflection, RegistryFrame, ThreadTypeOK,
    InPlay, InWork
<1>17. CASE UNCHANGED vars
  BY <1>17 DEF vars, registry, reflection, RegistryFrame
<1>18. ASSUME NEW t \in Threads, Withdrawal(t) \/ Addition(t) \/ Drain(t) PROVE RegistryFrame
  BY <1>18 DEF RegistrySection
<1>19. ASSUME NEW t \in Threads, NEW f \in Folds, Request(t, f) PROVE RegistryFrame
  BY <1>19 DEF RegistrySection
<1>20. ASSUME NEW f \in Folds, Abandon(f) PROVE RegistryFrame
  BY <1>20 DEF RegistrySection
<1> QED
  BY <1>2, <1>3, <1>4, <1>5, <1>6, <1>7, <1>8, <1>9, <1>10, <1>11, <1>12, <1>13, <1>14,
    <1>15, <1>16, <1>17, <1>18, <1>19, <1>20, FoldRegistryAssumption
    DEF Next, DeliveryStep, TransactionStep, WaitStep, Threads, Withdrawal, Addition, Request

\* The others stay where they are, or are woken.
Elsewhere(t) ==
    \A u \in Threads \ {t} :
        /\ target'[u] = target[u]
        /\ pc'[u] = pc[u] \/ (pc[u] = "asleep" /\ pc'[u] = "check")

\* Past the transaction lock there is nobody else, and work is at hand only
\* there.
LEMMA Alone ==
    ASSUME TxnInv, NEW t \in Threads, pc[t] \in InTxn, Elsewhere(t)
    PROVE  /\ \A u \in Threads \ {t} : pc[u] \notin InTxn /\ pc'[u] \notin InTxn
           /\ WithdrawalInv => (work = NoFold \/ pc[t] \in InWork)
<1>1. \A u \in Threads \ {t} : pc[u] \notin InTxn
  BY FoldRegistryAssumption DEF TxnInv
<1>2. "check" \notin InTxn /\ \A x \in InWork : x \in InTxn
  BY DEF InTxn, InChange, InWork
<1> QED
  BY <1>1, <1>2 DEF Elsewhere, WithdrawalInv

\* Places of a withdrawal and of an addition are past the transaction lock.
LEMMA PlacesInTxn ==
    /\ InWork \subseteq InTxn /\ InUnreflect \subseteq InWork
    /\ {"reflect", "add", "expunge"} \subseteq InTxn \ InWork
    /\ {"idle", "step", "txn", "drain", "check"} \cap InTxn = {}
  BY DEF InTxn, InChange, InWork, InUnreflect

\* Registrations stay in order when a thread withdraws one.
LEMMA WithdrawalStep ==
    ASSUME ShapeInv, RegistryInv, NEW t \in Threads, Withdrawal(t)
    PROVE  RegistryInv'
<1> USE FoldRegistryAssumption
<1>1. /\ TypeOK /\ ThreadTypeOK /\ RegistryTypeOK /\ ThreadInv /\ TxnInv
      /\ RegisteredInv /\ TargetInv /\ WithdrawalInv /\ GoneInv
  BY DEF ShapeInv, TypeOK, RegistryInv
<1>2. registered \in Seq(Folds) /\ Once(registered) /\ NoFold \notin Folds
  BY <1>1 DEF RegistryTypeOK, RegisteredInv
<1>3. ASSUME Expunge(t) PROVE RegistryInv'
  <2>1. /\ pc[t] = "expunge" /\ target'[t] = target[t] /\ Elsewhere(t)
        /\ UNCHANGED <<registered, active, born, quiet, receipt>>
        /\ \/ pc'[t] = "unregister"
           \/ pc'[t] = "reflect" /\ target[t] \notin born /\ work' = work
           \/ pc'[t] = "unregisterOwn" /\ target[t] \in born /\ work' = target[t]
    BY <1>1, <1>3, Expunges DEF Expunge, registry, Elsewhere, ThreadTypeOK
  <2>2. /\ \A u \in Threads \ {t} : pc[u] \notin InTxn /\ pc'[u] \notin InTxn
        /\ work = NoFold
    BY <1>1, <2>1, Alone DEF InTxn, InChange, InWork
  <2>3. \A u \in Threads : pc'[u] \notin InUnreflect
    BY <2>1, <2>2, PlacesInTxn DEF InUnreflect
  <2>4. RegisteredInv'
    BY <1>1, <2>1 DEF RegisteredInv, IsRegistered
  <2>5. TargetInv'
    BY <1>1, <2>1, <2>2 DEF TargetInv, InTxn, InChange, Elsewhere
  <2>6. WithdrawalInv'
    BY <1>1, <2>1, <2>2, <2>3 DEF WithdrawalInv, InWork
  <2>7. GoneInv'
    BY <1>1, <2>1, <2>3 DEF GoneInv, Gone, IsRegistered, Elsewhere
  <2> QED
    BY <2>4, <2>5, <2>6, <2>7 DEF RegistryInv
<1>4. ASSUME Unregister(t) PROVE RegistryInv'
  <2>1. pc[t] \in {"unregister", "unregisterOwn"} /\ UNCHANGED <<target, born, quiet>>
    BY <1>4 DEF Unregister
  <2>2. Elsewhere(t)
    <3>1. \E x \in Places : pc' = [Woken EXCEPT ![t] = x] \/ pc' = [pc EXCEPT ![t] = x]
      BY <1>1, <1>4, Unregisters DEF Places
    <3> QED
      BY <1>1, <2>1, <3>1 DEF Elsewhere, Woken, ThreadTypeOK
  <2>3. \A u \in Threads \ {t} : pc[u] \notin InTxn /\ pc'[u] \notin InTxn
    BY <1>1, <2>1, <2>2, Alone DEF InTxn, InChange
  <2>4. CASE IsRegistered(work)
    <3>1. /\ work \in Folds /\ registered' = Popped(work) /\ active' = active \ {work}
          /\ receipt'.order = registered /\ work' = work
      BY <1>1, <1>4, <2>4, Unregisters
    <3>2. pc'[t] = IF pc[t] = "unregisterOwn" THEN "unreflectOwn" ELSE "unreflect"
      BY <1>1, <1>4, <2>4, Unregisters DEF ThreadTypeOK, Woken
    <3>3. /\ Once(registered')
          /\ \A g : IsRegistered(g)' <=> (IsRegistered(g) /\ g # work)
      BY <1>2, <2>4, <3>1, PoppedOnce DEF Popped, IsRegistered
    <3>4. work \in born /\ \A i \in 1..Len(registered) : registered[i] \in born
      <4>1. \A i \in 1..Len(registered) : registered[i] \in Folds /\ IsRegistered(registered[i])
        BY <1>2, ElementOfSeq DEF IsRegistered, Contains
      <4> QED
        BY <1>1, <2>4, <3>1, <4>1 DEF RegisteredInv
    <3>5. RegisteredInv'
      BY <1>1, <2>1, <3>1, <3>3 DEF RegisteredInv
    <3>6. TargetInv'
      BY <1>1, <2>1, <2>2, <2>3, <3>1, <3>2 DEF TargetInv, InTxn, InChange, Elsewhere
    <3>7. WithdrawalInv'
      <4>1. \A u \in Threads : pc'[u] \in InUnreflect => u = t
        BY <2>3, PlacesInTxn
      <4>2. pc'[t] \in InWork
        BY <3>2 DEF InWork
      <4> QED
        BY <1>2, <2>1, <3>1, <3>3, <3>4, <4>1, <4>2 DEF WithdrawalInv
    <3>8. GoneInv'
      <4>1. ASSUME NEW g, Gone(g) PROVE Gone(g)'
        BY <2>1, <2>4, <3>1, <3>3, <4>1 DEF Gone
      <4>2. \A u \in Threads : pc'[u] = "drain" => pc[u] = "drain"
        BY <2>2, <3>2 DEF Elsewhere
      <4> QED
        BY <1>1, <2>1, <4>1, <4>2 DEF GoneInv
    <3> QED
      BY <3>5, <3>6, <3>7, <3>8 DEF RegistryInv
  <2>5. CASE ~IsRegistered(work)
    <3>1. /\ UNCHANGED <<registered, active, receipt>> /\ work' = NoFold /\ work \in Folds
          /\ \/ pc[t] = "unregisterOwn" /\ pc'[t] = "drain"
             \/ pc[t] = "unregister" /\ pc'[t] = "expunge"
      BY <1>1, <1>4, <2>5, Unregisters DEF ThreadTypeOK
    <3>2. \A u \in Threads : pc'[u] \notin InUnreflect
      BY <2>3, <3>1, PlacesInTxn DEF InUnreflect
    <3>3. RegisteredInv'
      BY <1>1, <2>1, <3>1 DEF RegisteredInv, IsRegistered
    <3>4. TargetInv'
      BY <1>1, <2>1, <2>2, <2>3, <3>1 DEF TargetInv, InTxn, InChange, Elsewhere
    <3>5. WithdrawalInv'
      BY <3>1, <3>2 DEF WithdrawalInv
    <3>6. GoneInv'
      <4>1. \A g : Gone(g) => Gone(g)'
        BY <2>1, <3>1, <3>2 DEF Gone, IsRegistered
      <4>2. pc'[t] = "drain" => Gone(target[t])'
        BY <1>1, <2>1, <2>5, <3>1, <3>2 DEF Gone, TargetInv, RegisteredInv, IsRegistered
      <4> QED
        BY <1>1, <2>1, <2>2, <4>1, <4>2 DEF GoneInv, Elsewhere
    <3> QED
      BY <3>3, <3>4, <3>5, <3>6 DEF RegistryInv
  <2> QED
    BY <2>4, <2>5
<1>5. ASSUME Unreflect(t) PROVE RegistryInv'
  <2>1. /\ pc[t] \in InUnreflect /\ Elsewhere(t) /\ work' = NoFold
        /\ UNCHANGED <<registered, active, born, quiet, target>>
        /\ \/ pc[t] = "unreflectOwn" /\ pc'[t] = "drain"
           \/ pc[t] = "unreflect" /\ pc'[t] = "expunge"
    BY <1>1, <1>5 DEF Unreflect, Withdrawn, Own, Goto, registry, Elsewhere, ThreadTypeOK, InUnreflect
  <2>2. \A u \in Threads \ {t} : pc[u] \notin InTxn /\ pc'[u] \notin InTxn
    BY <1>1, <2>1, Alone, PlacesInTxn
  <2>3. \A u \in Threads : pc'[u] \notin InUnreflect
    BY <2>1, <2>2, PlacesInTxn DEF InUnreflect
  <2>4. RegisteredInv'
    BY <1>1, <2>1 DEF RegisteredInv, IsRegistered
  <2>5. TargetInv'
    BY <1>1, <2>1, <2>2 DEF TargetInv, InTxn, InChange, Elsewhere
  <2>6. WithdrawalInv'
    BY <2>1, <2>3 DEF WithdrawalInv
  <2>7. GoneInv'
    <3>1. \A g : Gone(g) => Gone(g)'
      BY <2>1, <2>3 DEF Gone, IsRegistered
    <3>2. pc'[t] = "drain" => Gone(target[t])'
      BY <1>1, <2>1, <2>3 DEF Gone, TargetInv, WithdrawalInv, IsRegistered
    <3> QED
      BY <1>1, <2>1, <3>1, <3>2 DEF GoneInv, Elsewhere
  <2> QED
    BY <2>4, <2>5, <2>6, <2>7 DEF RegistryInv
<1>6. ASSUME UnregisterFails(t) PROVE RegistryInv'
  <2>1. /\ pc[t] \in InWork /\ Raise(t)
        /\ UNCHANGED <<registered, active, born, quiet>>
    BY <1>6 DEF UnregisterFails, registry, InWork
  <2>2. /\ Elsewhere(t) /\ pc'[t] \in {"idle", "step"} /\ work' = NoFold /\ target'[t] = NoFold
    BY <1>1, <2>1, Raised DEF Elsewhere, ThreadTypeOK
  <2>3. \A u \in Threads \ {t} : pc[u] \notin InTxn /\ pc'[u] \notin InTxn
    BY <1>1, <2>1, <2>2, Alone, PlacesInTxn
  <2>4. \A u \in Threads : pc'[u] \notin InUnreflect
    BY <2>2, <2>3, PlacesInTxn DEF InUnreflect
  <2>5. RegisteredInv'
    BY <1>1, <2>1 DEF RegisteredInv, IsRegistered
  <2>6. TargetInv'
    BY <1>1, <1>2, <2>1, <2>2, <2>3 DEF TargetInv, InTxn, InChange, Elsewhere
  <2>7. WithdrawalInv'
    BY <2>2, <2>4 DEF WithdrawalInv
  <2>8. GoneInv'
    BY <1>1, <2>1, <2>2, <2>4 DEF GoneInv, Gone, IsRegistered, Elsewhere
  <2> QED
    BY <2>5, <2>6, <2>7, <2>8 DEF RegistryInv
<1>7. ASSUME UnreflectFails(t) PROVE RegistryInv'
  <2>1. /\ pc[t] \in InUnreflect /\ Raise(t) /\ work \in Folds
        /\ RestorationIndex(receipt.order, work) \in 1..(Len(registered) + 1)
        /\ registered' = InsertAt(registered, RestorationIndex(receipt.order, work), work)
        /\ active' \subseteq active \cup {work} /\ UNCHANGED <<born, quiet>>
    BY <1>1, <1>7, Restores
  <2>2. pc[t] \in InWork /\ pc[t] \in InTxn
    BY <2>1, PlacesInTxn
  <2>3. /\ Elsewhere(t) /\ pc'[t] \in {"idle", "step"} /\ work' = NoFold /\ target'[t] = NoFold
    BY <1>1, <2>1, <2>2, Raised DEF Elsewhere, ThreadTypeOK
  <2>4. \A u \in Threads \ {t} : pc[u] \notin InTxn /\ pc'[u] \notin InTxn
    BY <1>1, <2>2, <2>3, Alone
  <2>5. \A u \in Threads : pc'[u] \notin InUnreflect
    BY <2>3, <2>4, PlacesInTxn DEF InUnreflect
  <2>6. work \in born /\ ~IsRegistered(work)
    BY <1>1, <2>1 DEF WithdrawalInv
  <2>7. /\ Once(registered')
        /\ \A g : IsRegistered(g)' <=> (IsRegistered(g) \/ g = work)
    BY <1>2, <2>1, <2>6, InsertedOnce DEF IsRegistered
  <2>8. RegisteredInv'
    BY <1>1, <2>1, <2>6, <2>7 DEF RegisteredInv
  <2>9. TargetInv'
    BY <1>1, <1>2, <2>1, <2>3, <2>4 DEF TargetInv, InTxn, InChange, Elsewhere
  <2>10. WithdrawalInv'
    BY <2>3, <2>5 DEF WithdrawalInv
  <2>11. GoneInv'
    <3>1. \A g : Gone(g) => Gone(g)'
      BY <2>1, <2>5, <2>7 DEF Gone
    <3> QED
      BY <1>1, <2>1, <2>3, <3>1 DEF GoneInv, Elsewhere
  <2> QED
    BY <2>8, <2>9, <2>10, <2>11 DEF RegistryInv
<1> QED
  BY <1>3, <1>4, <1>5, <1>6, <1>7 DEF Withdrawal

\* The same when it adds one, or returns from its cancel().
LEMMA AdditionStep ==
    ASSUME ShapeInv, RegistryInv, NEW t \in Threads, Addition(t) \/ Drain(t)
    PROVE  RegistryInv'
<1> USE FoldRegistryAssumption
<1>1. /\ TypeOK /\ ThreadTypeOK /\ RegistryTypeOK /\ ThreadInv /\ TxnInv
      /\ RegisteredInv /\ TargetInv /\ WithdrawalInv /\ GoneInv
  BY DEF ShapeInv, TypeOK, RegistryInv
<1>2. registered \in Seq(Folds) /\ Once(registered) /\ NoFold \notin Folds
  BY <1>1 DEF RegistryTypeOK, RegisteredInv
<1>3. ASSUME Reflect(t) PROVE RegistryInv'
  <2>1. /\ pc[t] = "reflect" /\ pc'[t] = "add" /\ Elsewhere(t)
        /\ UNCHANGED <<registered, active, born, quiet, target, work>>
    BY <1>1, <1>3 DEF Reflect, Goto, registry, Elsewhere, ThreadTypeOK
  <2>2. /\ \A u \in Threads \ {t} : pc[u] \notin InTxn /\ pc'[u] \notin InTxn
        /\ work = NoFold
    BY <1>1, <2>1, Alone DEF InTxn, InChange, InWork
  <2>3. \A u \in Threads : pc'[u] \notin InUnreflect
    BY <2>1, <2>2, PlacesInTxn DEF InUnreflect
  <2>4. RegisteredInv'
    BY <1>1, <2>1 DEF RegisteredInv, IsRegistered
  <2>5. TargetInv'
    BY <1>1, <2>1, <2>2 DEF TargetInv, InTxn, InChange, Elsewhere
  <2>6. WithdrawalInv'
    BY <2>1, <2>2, <2>3 DEF WithdrawalInv
  <2>7. GoneInv'
    BY <1>1, <2>1, <2>3 DEF GoneInv, Gone, IsRegistered, Elsewhere
  <2> QED
    BY <2>4, <2>5, <2>6, <2>7 DEF RegistryInv
<1>4. ASSUME Add(t) PROVE RegistryInv'
  <2>1. /\ pc[t] = "add" /\ pc'[t] = "idle" /\ Elsewhere(t) /\ target'[t] = NoFold
        /\ registered' = Append(registered, target[t]) /\ born' = born \cup {target[t]}
        /\ UNCHANGED <<active, quiet, work>>
    BY <1>1, <1>4 DEF Add, Goto, Elsewhere, ThreadTypeOK
  <2>2. /\ \A u \in Threads \ {t} : pc[u] \notin InTxn /\ pc'[u] \notin InTxn
        /\ work = NoFold
    BY <1>1, <2>1, Alone DEF InTxn, InChange, InWork
  <2>3. \A u \in Threads : pc'[u] \notin InUnreflect
    BY <2>1, <2>2, PlacesInTxn DEF InUnreflect, InTxn, InChange
  <2>4. target[t] \in Folds /\ target[t] \notin born /\ ~IsRegistered(target[t])
    BY <1>1, <2>1 DEF ThreadInv, Settled, InChange, TargetInv, RegisteredInv
  <2>5. /\ Once(registered')
        /\ \A g : IsRegistered(g)' <=> (IsRegistered(g) \/ g = target[t])
    BY <1>2, <2>1, <2>4, AppendedOnce DEF IsRegistered
  <2>6. RegisteredInv'
    BY <1>1, <2>1, <2>4, <2>5 DEF RegisteredInv
  <2>7. TargetInv'
    BY <1>1, <1>2, <2>1, <2>2 DEF TargetInv, InTxn, InChange, Elsewhere
  <2>8. WithdrawalInv'
    BY <2>1, <2>2, <2>3 DEF WithdrawalInv
  <2>9. GoneInv'
    <3>1. \A g : Gone(g) => Gone(g)'
      BY <2>1, <2>3, <2>4, <2>5 DEF Gone
    <3> QED
      BY <1>1, <2>1, <3>1 DEF GoneInv, Elsewhere
  <2> QED
    BY <2>6, <2>7, <2>8, <2>9 DEF RegistryInv
<1>5. ASSUME AddFails(t) PROVE RegistryInv'
  <2>1. /\ pc[t] = "add" /\ pc'[t] = "idle" /\ Elsewhere(t) /\ target'[t] = NoFold
        /\ active' = active \ {target[t]}
        /\ UNCHANGED <<registered, born, quiet, work>>
    BY <1>1, <1>5 DEF AddFails, Goto, Elsewhere, ThreadTypeOK
  <2>2. /\ \A u \in Threads \ {t} : pc[u] \notin InTxn /\ pc'[u] \notin InTxn
        /\ work = NoFold
    BY <1>1, <2>1, Alone DEF InTxn, InChange, InWork
  <2>3. \A u \in Threads : pc'[u] \notin InUnreflect
    BY <2>1, <2>2, PlacesInTxn DEF InUnreflect, InTxn, InChange
  <2>4. RegisteredInv'
    BY <1>1, <2>1 DEF RegisteredInv, IsRegistered
  <2>5. TargetInv'
    BY <1>1, <1>2, <2>1, <2>2 DEF TargetInv, InTxn, InChange, Elsewhere
  <2>6. WithdrawalInv'
    BY <2>1, <2>2, <2>3 DEF WithdrawalInv
  <2>7. GoneInv'
    BY <1>1, <2>1, <2>3 DEF GoneInv, Gone, IsRegistered, Elsewhere
  <2> QED
    BY <2>4, <2>5, <2>6, <2>7 DEF RegistryInv
<1>6. ASSUME Drain(t) PROVE RegistryInv'
  <2>1. /\ pc[t] = "drain" /\ pc'[t] \in {"idle", "step"} /\ Elsewhere(t)
        /\ target'[t] = NoFold /\ quiet' \subseteq quiet \cup {target[t]}
        /\ UNCHANGED <<registered, active, born, work, receipt>>
    BY <1>1, <1>6 DEF Drain, Return, Goto, registry, reflection, Elsewhere, ThreadTypeOK
  <2>2. \A u \in Threads : pc[u] \in InTxn \/ pc'[u] \in InTxn => u # t /\ pc'[u] = pc[u]
    <3>1. {"idle", "step", "drain", "check", "asleep"} \cap InTxn = {}
      BY DEF InTxn, InChange
    <3> QED
      BY <2>1, <3>1 DEF Elsewhere
  <2>3. RegisteredInv'
    BY <1>1, <2>1 DEF RegisteredInv, IsRegistered
  <2>4. TargetInv'
    <3>1. {"reflect", "add", "unregisterOwn", "unreflectOwn"} \subseteq InTxn
      BY DEF InTxn, InChange
    <3> QED
      BY <1>1, <1>2, <2>1, <2>2, <3>1 DEF TargetInv, Elsewhere
  <2>5. WithdrawalInv'
    BY <1>1, <2>1, <2>2, PlacesInTxn DEF WithdrawalInv, IsRegistered
  <2>6. GoneInv'
    <3>1. \A g : Gone(g) => Gone(g)'
      BY <2>1, <2>2, PlacesInTxn DEF Gone, IsRegistered
    <3> QED
      BY <1>1, <2>1, <3>1 DEF GoneInv, Elsewhere
  <2> QED
    BY <2>3, <2>4, <2>5, <2>6 DEF RegistryInv
<1> QED
  BY <1>3, <1>4, <1>5, <1>6 DEF Addition

\* The same when a subscription is made, or a fold that nothing reflects is
\* added or cancelled; or a finaliser gives one up.
LEMMA RequestStep ==
    ASSUME ShapeInv, RegistryInv, NEW f \in Folds,
           (\E t \in Threads : Request(t, f)) \/ Abandon(f)
    PROVE  RegistryInv'
<1> USE FoldRegistryAssumption
<1>1. /\ TypeOK /\ ThreadTypeOK /\ RegistryTypeOK /\ ThreadInv /\ TxnInv
      /\ RegisteredInv /\ TargetInv /\ WithdrawalInv /\ GoneInv
  BY DEF ShapeInv, TypeOK, RegistryInv
<1>2. registered \in Seq(Folds) /\ Once(registered) /\ NoFold \notin Folds
  BY <1>1 DEF RegistryTypeOK, RegisteredInv
<1>3. /\ {"idle", "txn", "drain", "check", "asleep"} \cap InTxn = {}
      /\ {"reflect", "add", "unregisterOwn", "unreflectOwn"} \subseteq InTxn
      /\ InWork \subseteq InTxn /\ InUnreflect \subseteq InTxn
  BY PlacesInTxn DEF InTxn, InChange
<1>4. ASSUME NEW t \in Threads, Subscribe(t, f) PROVE RegistryInv'
  <2>1. /\ f \notin born /\ \A u \in Threads : target[u] # f
        /\ active' = active \cup {f} /\ target'[t] = f
        /\ pc[t] = "idle" /\ pc'[t] = "txn" /\ Elsewhere(t)
        /\ UNCHANGED <<registered, born, quiet, work, receipt>>
    BY <1>1, <1>4 DEF Subscribe, Goto, reflection, Elsewhere, ThreadTypeOK
  <2>2. \A u \in Threads : pc[u] \in InTxn \/ pc'[u] \in InTxn => u # t /\ pc'[u] = pc[u]
    BY <1>3, <2>1 DEF Elsewhere
  <2>3. RegisteredInv'
    BY <1>1, <2>1 DEF RegisteredInv, IsRegistered
  <2>4. TargetInv'
    BY <1>1, <1>3, <2>1, <2>2 DEF TargetInv, Elsewhere
  <2>5. WithdrawalInv'
    BY <1>1, <1>3, <2>1, <2>2 DEF WithdrawalInv, IsRegistered
  <2>6. GoneInv'
    <3>1. \A g : Gone(g) => Gone(g)'
      BY <1>3, <2>1, <2>2 DEF Gone, IsRegistered
    <3> QED
      BY <1>1, <2>1, <3>1 DEF GoneInv, Elsewhere
  <2> QED
    BY <2>3, <2>4, <2>5, <2>6 DEF RegistryInv
<1>5. ASSUME NEW t \in Threads, AddPlain(t, f) PROVE RegistryInv'
  <2>1. /\ f \in Plain /\ f \notin born /\ born' = born \cup {f}
        /\ registered' = Append(registered, f) /\ active' = active \cup {f}
        /\ UNCHANGED <<pc, target, quiet, work, receipt>>
    BY <1>5 DEF AddPlain, reflection
  <2>2. ~IsRegistered(f)
    BY <1>1, <2>1 DEF RegisteredInv
  <2>3. /\ Once(registered')
        /\ \A g : IsRegistered(g)' <=> (IsRegistered(g) \/ g = f)
    BY <1>2, <2>1, <2>2, AppendedOnce DEF IsRegistered
  <2>4. \A u \in Threads : pc[u] \in InUnreflect => work # f
    BY <1>1, <2>1, PlacesInTxn DEF TxnInv
  <2>5. \A u \in Threads : pc[u] \in {"reflect", "add"} => target[u] # f
    BY <1>1, <2>1 DEF ThreadInv, Settled, InChange
  <2>6. RegisteredInv'
    BY <1>1, <2>1, <2>3 DEF RegisteredInv
  <2>7. TargetInv'
    BY <1>1, <2>1, <2>5 DEF TargetInv
  <2>8. WithdrawalInv'
    BY <1>1, <2>1, <2>3, <2>4 DEF WithdrawalInv
  <2>9. GoneInv'
    <3>1. \A g : Gone(g) => Gone(g)'
      BY <2>1, <2>3 DEF Gone
    <3> QED
      BY <1>1, <2>1, <3>1 DEF GoneInv
  <2> QED
    BY <2>6, <2>7, <2>8, <2>9 DEF RegistryInv
<1>6. ASSUME NEW t \in Threads, CancelPlain(t, f) PROVE RegistryInv'
  <2>1. /\ pc[t] = "idle" /\ f \in Plain /\ f \in born /\ UNCHANGED <<born, quiet, work, receipt>>
        /\ pc'[t] = "drain" /\ target'[t] = f /\ Elsewhere(t)
    BY <1>1, <1>6 DEF CancelPlain, Goto, Woken, reflection, Elsewhere, ThreadTypeOK
  <2>2. \A u \in Threads : pc[u] \in InTxn \/ pc'[u] \in InTxn => u # t /\ pc'[u] = pc[u]
    BY <1>3, <2>1 DEF Elsewhere
  <2>3. /\ Once(registered') /\ f \notin active'
        /\ \A g \in Folds : g # f => (g \in active' <=> g \in active)
        /\ \A g : IsRegistered(g)' <=> (IsRegistered(g) /\ g # f)
    <3>1. CASE IsRegistered(f)
      <4>1. registered' = Popped(f) /\ active' = active \ {f}
        BY <1>6, <3>1 DEF CancelPlain
      <4>2. /\ Once(registered')
            /\ \A g : IsRegistered(g)' <=> (IsRegistered(g) /\ g # f)
        BY <1>2, <3>1, <4>1, PoppedOnce DEF Popped, IsRegistered
      <4> QED
        BY <4>1, <4>2
    <3>2. CASE ~IsRegistered(f)
      <4>1. UNCHANGED <<registered, active>>
        BY <1>6, <3>2 DEF CancelPlain
      <4>2. f \notin active
        BY <1>1, <2>1, <3>2 DEF RegisteredInv
      <4> QED
        BY <1>2, <3>2, <4>1, <4>2 DEF IsRegistered
    <3> QED
      BY <3>1, <3>2
  <2>4. RegisteredInv'
    BY <1>1, <2>1, <2>3 DEF RegisteredInv, RegistryTypeOK
  <2>5. TargetInv'
    BY <1>1, <1>3, <2>1, <2>2 DEF TargetInv, Elsewhere
  <2>6. \A u \in Threads : pc'[u] \in InUnreflect => work \in Folds \ Plain /\ pc[u] \in InUnreflect
    BY <1>1, <1>3, <2>2, PlacesInTxn DEF TxnInv
  <2>7. WithdrawalInv'
    BY <1>1, <1>3, <2>1, <2>2, <2>3, <2>6 DEF WithdrawalInv
  <2>8. GoneInv'
    <3>1. \A g \in Folds : Gone(g) => Gone(g)'
      BY <2>1, <2>3, <2>6 DEF Gone
    <3>2. Gone(f)'
      BY <2>1, <2>3, <2>6 DEF Gone
    <3>3. \A u \in Threads : pc[u] = "drain" => target[u] \in Folds
      BY <1>1 DEF ThreadInv, Settled
    <3>4. quiet \subseteq Folds
      BY <1>1 DEF ThreadTypeOK
    <3> QED
      BY <1>1, <2>1, <3>1, <3>2, <3>3, <3>4 DEF GoneInv, Elsewhere
  <2> QED
    BY <2>4, <2>5, <2>7, <2>8 DEF RegistryInv
<1>7. ASSUME Abandon(f) PROVE RegistryInv'
  <2>1. active' = active \ {f} /\ UNCHANGED <<registered, born, pc, target, quiet, work, receipt>>
    BY <1>7 DEF Abandon
  <2> QED
    BY <1>1, <2>1 DEF RegistryInv, RegisteredInv, TargetInv, WithdrawalInv, GoneInv, Gone, IsRegistered
<1> QED
  BY <1>4, <1>5, <1>6, <1>7 DEF Request

\* The same for any step.
LEMMA RegistryStep ==
    ASSUME ShapeInv, RegistryInv, [Next]_vars
    PROVE  RegistryInv'
<1>1. RegisteredInv /\ TargetInv /\ WithdrawalInv /\ GoneInv
  BY DEF RegistryInv
<1>2. CASE RegistryFrame
  <2> USE FoldRegistryAssumption
  <2>1. RegisteredInv'
    BY <1>1, <1>2 DEF RegistryFrame, RegisteredInv, IsRegistered
  <2>2. TargetInv'
    BY <1>1, <1>2 DEF RegistryFrame, TargetInv, InPlay, InWork
  <2>3. WithdrawalInv'
    BY <1>1, <1>2 DEF RegistryFrame, WithdrawalInv, IsRegistered, InPlay, InWork, InUnreflect
  <2>4. GoneInv'
    BY <1>1, <1>2 DEF RegistryFrame, GoneInv, Gone, IsRegistered, InPlay, InWork, InUnreflect
  <2> QED
    BY <2>1, <2>2, <2>3, <2>4 DEF RegistryInv
<1>3. CASE RegistrySection
  BY <1>3, WithdrawalStep, AdditionStep, RequestStep DEF RegistrySection
<1> QED
  BY <1>2, <1>3, RegistryFrames

\* Nobody is registered at first.
LEMMA RegistryInit == Init => RegistryInv
<1> SUFFICES ASSUME Init PROVE RegistryInv
  OBVIOUS
<1> USE FoldRegistryAssumption
<1>1. RegisteredInv
  BY DEF Init, RegisteredInv, IsRegistered, Contains, Once
<1>2. TargetInv
  BY DEF Init, TargetInv
<1>3. WithdrawalInv /\ GoneInv
  BY DEF Init, WithdrawalInv, GoneInv, Gone, InWork, InUnreflect
<1> QED
  BY <1>1, <1>2, <1>3 DEF RegistryInv

\* Every behaviour keeps types and registrations.
THEOREM Registered == Spec => [](ShapeInv /\ RegistryInv)
  BY ShapeInit, ShapeStep, RegistryInit, RegistryStep, PTL DEF Spec

-----------------------------------------------------------------------------
(* Cancellation is quiet.                                                   *)

\* The three steps that change who runs a fold's step, or who has returned
\* from a cancel().
CountSection == \E t \in Threads : Begin(t) \/ End(t) \/ Drain(t)

\* All other steps leave both alone.
LEMMA CountFrames ==
    ASSUME [Next]_vars
    PROVE  UNCHANGED <<counts, quiet>> \/ CountSection
<1> SUFFICES ASSUME ~CountSection PROVE UNCHANGED <<counts, quiet>>
  OBVIOUS
<1>1. ASSUME NEW t \in Threads, Write(t) PROVE UNCHANGED <<counts, quiet>>
  BY <1>1 DEF Write, registry
<1>2. ASSUME NEW t \in Threads, Delivered(t) PROVE UNCHANGED <<counts, quiet>>
  BY <1>2 DEF Delivered, registry
<1>3. ASSUME NEW t \in Threads, CallbackEnds(t) PROVE UNCHANGED <<counts, quiet>>
  BY <1>3 DEF CallbackEnds, registry
<1>4. ASSUME NEW t \in Threads, StepReads(t) PROVE UNCHANGED <<counts, quiet>>
  BY <1>4 DEF StepReads, registry
<1>5. ASSUME NEW t \in Threads, StepWrites(t) PROVE UNCHANGED <<counts, quiet>>
  BY <1>5 DEF StepWrites, registry
<1>6. ASSUME NEW t \in Threads, Gate(t) PROVE UNCHANGED <<counts, quiet>>
  BY <1>6 DEF Gate, registry
<1>7. ASSUME NEW t \in Threads, Arrive(t) PROVE UNCHANGED <<counts, quiet>>
  BY <1>7 DEF Arrive, registry
<1>8. ASSUME NEW t \in Threads, EnterTransaction(t) PROVE UNCHANGED <<counts, quiet>>
  BY <1>8 DEF EnterTransaction, registry
<1>9. ASSUME NEW t \in Threads, Expunge(t) PROVE UNCHANGED <<counts, quiet>>
  BY <1>9 DEF Expunge, registry
<1>10. ASSUME NEW t \in Threads, Unregister(t) PROVE UNCHANGED <<counts, quiet>>
  BY <1>10 DEF Unregister
<1>11. ASSUME NEW t \in Threads, Unreflect(t) PROVE UNCHANGED <<counts, quiet>>
  BY <1>11 DEF Unreflect, registry
<1>12. ASSUME NEW t \in Threads, UnregisterFails(t) PROVE UNCHANGED <<counts, quiet>>
  BY <1>12 DEF UnregisterFails, registry
<1>13. ASSUME NEW t \in Threads, UnreflectFails(t) PROVE UNCHANGED <<counts, quiet>>
  BY <1>13 DEF UnreflectFails
<1>14. ASSUME NEW t \in Threads, Reflect(t) PROVE UNCHANGED <<counts, quiet>>
  BY <1>14 DEF Reflect, registry
<1>15. ASSUME NEW t \in Threads, Add(t) PROVE UNCHANGED <<counts, quiet>>
  BY <1>15 DEF Add
<1>16. ASSUME NEW t \in Threads, AddFails(t) PROVE UNCHANGED <<counts, quiet>>
  BY <1>16 DEF AddFails
<1>17. ASSUME NEW t \in Threads, Check(t) PROVE UNCHANGED <<counts, quiet>>
  BY <1>17 DEF Check, registry
<1>18. ASSUME NEW t \in Threads, WaitExpires(t) PROVE UNCHANGED <<counts, quiet>>
  BY <1>18 DEF WaitExpires, registry
<1>19. ASSUME NEW t \in Threads, Take(t) PROVE UNCHANGED <<counts, quiet>>
  BY <1>19 DEF Take, registry
<1>20. ASSUME NEW t \in Threads, NEW f \in Folds, Wait(t, f) PROVE UNCHANGED <<counts, quiet>>
  BY <1>20 DEF Wait, registry
<1>21. ASSUME NEW t \in Threads, NEW f \in Folds, Subscribe(t, f) PROVE UNCHANGED <<counts, quiet>>
  BY <1>21 DEF Subscribe
<1>22. ASSUME NEW t \in Threads, NEW f \in Folds, AddPlain(t, f) PROVE UNCHANGED <<counts, quiet>>
  BY <1>22 DEF AddPlain
<1>23. ASSUME NEW t \in Threads, NEW f \in Folds, CancelPlain(t, f) PROVE UNCHANGED <<counts, quiet>>
  BY <1>23 DEF CancelPlain
<1>24. ASSUME NEW t \in Threads, NEW f \in Folds, Cancel(t, f) PROVE UNCHANGED <<counts, quiet>>
  BY <1>24 DEF Cancel, registry
<1>25. ASSUME NEW f \in Folds, Abandon(f) PROVE UNCHANGED <<counts, quiet>>
  BY <1>25 DEF Abandon
<1>26. CASE UNCHANGED vars
  BY <1>26 DEF vars, registry
<1>27. ASSUME NEW t \in Threads, Begin(t) \/ End(t) \/ Drain(t) PROVE UNCHANGED <<counts, quiet>>
  BY <1>27 DEF CountSection
<1> QED
  BY <1>1, <1>2, <1>3, <1>4, <1>5, <1>6, <1>7, <1>8, <1>9, <1>10, <1>11, <1>12, <1>13,
    <1>14, <1>15, <1>16, <1>17, <1>18, <1>19, <1>20, <1>21, <1>22, <1>23, <1>24, <1>25,
    <1>26, <1>27, FoldRegistryAssumption
    DEF Next, DeliveryStep, TransactionStep, WaitStep, Threads

\* What is quiet stays quiet: a cancelled fold is no longer active, so no step
\* of it begins, and cancel() returned when none was left.
LEMMA QuietStep ==
    ASSUME ShapeInv, RegistryInv', CancelledIsQuiet, [Next]_vars
    PROVE  CancelledIsQuiet'
<1>1. /\ TypeOK /\ ThreadTypeOK /\ RegistryTypeOK /\ ThreadInv
      /\ counts \in [Folds -> [Threads -> Nat]] /\ quiet \subseteq Folds
  BY DEF ShapeInv, TypeOK, RegistryTypeOK, ThreadTypeOK
<1>2. \A f \in quiet' : f \notin active'
  BY DEF RegistryInv, GoneInv, Gone
<1>3. CASE UNCHANGED <<counts, quiet>>
  BY <1>2, <1>3 DEF CancelledIsQuiet
<1>4. ASSUME NEW t \in Threads, Begin(t) PROVE CancelledIsQuiet'
  <2>1. Head(plan[t]) \in Folds /\ UNCHANGED quiet
    BY <1>1, <1>4, Begins DEF Begin
  <2>2. CASE UNCHANGED counts
    BY <1>2, <2>1, <2>2 DEF CancelledIsQuiet
  <2>3. CASE /\ Head(plan[t]) \in active
             /\ CountBecomes(Head(plan[t]), t, counts[Head(plan[t])][t] + 1)
    <3>1. counts[Head(plan[t])][t] + 1 \in Nat
      BY <1>1, <2>1
    <3>2. \A f \in Folds, u \in Threads : f # Head(plan[t]) => counts'[f][u] = counts[f][u]
      BY <1>1, <2>1, <2>3, <3>1, CountChanges
    <3>3. Head(plan[t]) \notin quiet
      BY <2>3 DEF CancelledIsQuiet
    <3> QED
      BY <1>1, <1>2, <2>1, <3>2, <3>3 DEF CancelledIsQuiet
  <2> QED
    BY <1>1, <1>4, <2>2, <2>3, Begins
<1>5. ASSUME NEW t \in Threads, End(t) PROVE CancelledIsQuiet'
  <2>1. /\ inside[t] \in Folds /\ counts[inside[t]][t] = 1 /\ UNCHANGED quiet
        /\ CountBecomes(inside[t], t, counts[inside[t]][t] - 1)
    BY <1>1, <1>5 DEF End, ThreadInv, Settled, InStep, ThreadTypeOK, CountBecomes
  <2>2. counts[inside[t]][t] - 1 \in Nat
    BY <2>1
  <2>3. inside[t] \notin quiet
    BY <2>1 DEF CancelledIsQuiet
  <2>4. \A f \in Folds, u \in Threads : f # inside[t] => counts'[f][u] = counts[f][u]
    BY <1>1, <2>1, <2>2, CountChanges
  <2> QED
    BY <1>1, <1>2, <2>1, <2>3, <2>4 DEF CancelledIsQuiet
<1>6. ASSUME NEW t \in Threads, Drain(t) PROVE CancelledIsQuiet'
  <2>1. /\ target[t] \in Folds /\ UNCHANGED counts
        /\ \A u \in Threads \ {t} : counts[target[t]][u] = 0
        /\ quiet' = IF inside[t] = NoFold THEN quiet \cup {target[t]} ELSE quiet
    BY <1>1, <1>6 DEF Drain, OthersIdle, registry, ThreadInv, Settled
  <2>2. inside[t] = NoFold => counts[target[t]][t] = 0
    BY <1>1, <2>1, FoldRegistryAssumption DEF ThreadInv, Settled
  <2> QED
    BY <1>2, <2>1, <2>2 DEF CancelledIsQuiet
<1> QED
  BY <1>3, <1>4, <1>5, <1>6, CountFrames DEF CountSection

\* Once cancel() has returned to its caller, no step of the fold is running
\* on any thread and none will start: a finaliser, a failed withdrawal and
\* a second cancel() included.
THEOREM QuietAfterCancel == Spec => []CancelledIsQuiet
<1>1. Init => CancelledIsQuiet
  BY DEF Init, CancelledIsQuiet
<1> QED
  BY <1>1, QuietStep, Registered, PTL DEF Spec

-----------------------------------------------------------------------------
(* What &metta reflects.                                                    *)

\* With nobody past the transaction lock there is no change under way.
LEMMA FactsExact ==
    ASSUME ShapeInv, FactInv
    PROVE  ReflectionIsExact
<1>1. ASSUME txn = NoThread, NEW t \in Threads PROVE pc[t] \notin InTxn
  BY <1>1, FoldRegistryAssumption DEF ShapeInv, TxnInv
<1>2. InUnreflect \subseteq InTxn /\ "add" \in InTxn
  BY DEF InUnreflect, InTxn, InChange
<1> QED
  BY <1>1, <1>2 DEF ReflectionIsExact, FactInv

\* A withdrawal keeps the facts of those that stay registered.
LEMMA FactWithdrawal ==
    ASSUME ShapeInv, RegistryInv, FactInv, NEW t \in Threads, Withdrawal(t)
    PROVE  FactInv'
<1> USE FoldRegistryAssumption
<1>1. /\ TypeOK /\ ThreadTypeOK /\ RegistryTypeOK /\ TxnInv
      /\ RegisteredInv /\ WithdrawalInv
  BY DEF ShapeInv, TypeOK, RegistryInv
<1>2. registered \in Seq(Folds) /\ Once(registered) /\ NoFold \notin Folds
  BY <1>1 DEF RegistryTypeOK, RegisteredInv
<1>3. ASSUME Expunge(t) PROVE FactInv'
  <2>1. /\ pc[t] = "expunge" /\ UNCHANGED <<registered, active, facts>>
        /\ Elsewhere(t) /\ pc'[t] \notin InUnreflect /\ pc'[t] # "add"
    <3>1. pc[t] = "expunge" /\ UNCHANGED <<registered, active, facts>>
      BY <1>3 DEF Expunge, registry
    <3>2. Elsewhere(t) /\ pc'[t] \in {"unregister", "reflect", "unregisterOwn"}
      BY <1>1, <1>3, Expunges DEF Elsewhere, ThreadTypeOK
    <3> QED
      BY <3>1, <3>2 DEF InUnreflect
  <2>2. \A u \in Threads \ {t} : pc[u] \notin InTxn /\ pc'[u] \notin InTxn
    BY <1>1, <2>1, Alone DEF InTxn, InChange
  <2>3. \A u \in Threads : /\ pc[u] \notin InUnreflect /\ pc[u] # "add"
                           /\ pc'[u] \notin InUnreflect /\ pc'[u] # "add"
    BY <2>1, <2>2, PlacesInTxn DEF InUnreflect
  <2> QED
    BY <2>1, <2>3 DEF FactInv, IsRegistered
<1>4. ASSUME Unregister(t) PROVE FactInv'
  <2>1. /\ pc[t] \in {"unregister", "unregisterOwn"} /\ work \in Folds \ Plain
        /\ UNCHANGED <<target, facts>>
    BY <1>1, <1>4, Unregisters DEF Unregister
  <2>2. Elsewhere(t)
    <3>1. \E x \in Places : pc' = [Woken EXCEPT ![t] = x] \/ pc' = [pc EXCEPT ![t] = x]
      BY <1>1, <1>4, Unregisters DEF Places
    <3> QED
      BY <1>1, <2>1, <3>1 DEF Elsewhere, Woken, ThreadTypeOK
  <2>3. \A u \in Threads \ {t} : pc[u] \notin InTxn /\ pc'[u] \notin InTxn
    BY <1>1, <2>1, <2>2, Alone DEF InTxn, InChange
  <2>4. \A u \in Threads : pc[u] \notin InUnreflect /\ pc[u] # "add"
    BY <2>1, <2>3, PlacesInTxn DEF InUnreflect
  <2>5. CASE IsRegistered(work)
    <3>1. registered' = Popped(work) /\ active' = active \ {work} /\ work' = work
      BY <1>1, <1>4, <2>5, Unregisters
    <3>2. pc'[t] \in InUnreflect /\ pc'[t] # "add"
      BY <1>1, <1>4, <2>5, Unregisters DEF ThreadTypeOK, Woken, InUnreflect
    <3>3. \A g : IsRegistered(g)' <=> (IsRegistered(g) /\ g # work)
      BY <1>2, <2>5, <3>1, PoppedOnce DEF Popped, IsRegistered
    <3>4. \A u \in Threads : pc'[u] # "add"
      BY <2>3, <3>2, PlacesInTxn
    <3> QED
      BY <2>1, <2>4, <3>1, <3>2, <3>3, <3>4 DEF FactInv
  <2>6. CASE ~IsRegistered(work)
    <3>1. /\ UNCHANGED <<registered, active>>
          /\ pc'[t] \notin InUnreflect /\ pc'[t] # "add"
      BY <1>1, <1>4, <2>6, Unregisters DEF ThreadTypeOK, InUnreflect
    <3>2. \A u \in Threads : pc'[u] \notin InUnreflect /\ pc'[u] # "add"
      BY <2>3, <3>1, PlacesInTxn
    <3> QED
      BY <2>1, <2>4, <3>1, <3>2 DEF FactInv, IsRegistered
  <2> QED
    BY <2>5, <2>6
<1>5. ASSUME Unreflect(t) PROVE FactInv'
  <2>1. /\ pc[t] \in InUnreflect /\ Elsewhere(t)
        /\ UNCHANGED <<registered, active>>
        /\ facts' = IF HasFact(work) THEN facts ELSE facts \ {FactOf[work]}
        /\ pc'[t] \notin InUnreflect /\ pc'[t] # "add"
    BY <1>1, <1>5 DEF Unreflect, Withdrawn, Own, Goto, registry, Elsewhere, ThreadTypeOK, InUnreflect
  <2>2. \A u \in Threads \ {t} : pc[u] \notin InTxn /\ pc'[u] \notin InTxn
    BY <1>1, <2>1, Alone, PlacesInTxn
  <2>3. \A u \in Threads : /\ pc[u] # "add" /\ pc'[u] \notin InUnreflect /\ pc'[u] # "add"
                           /\ u # t => pc[u] \notin InUnreflect
    BY <2>1, <2>2, PlacesInTxn DEF InUnreflect
  <2>4. HasFact(work) =>
          \E g \in Folds \ Plain : IsRegistered(g) /\ FactOf[g] = FactOf[work]
    BY <1>1 DEF HasFact, RegistryTypeOK
  <2>5. \A g \in active \ Plain : IsRegistered(g) => FactOf[g] \in facts'
    BY <2>1 DEF FactInv, HasFact
  <2> QED
    BY <2>1, <2>3, <2>4, <2>5 DEF FactInv, IsRegistered
<1>6. ASSUME UnregisterFails(t) PROVE FactInv'
  <2>1. /\ pc[t] \in {"unregister", "unregisterOwn"} /\ pc[t] \in InWork /\ Raise(t)
        /\ UNCHANGED <<registered, active, facts>>
    BY <1>6 DEF UnregisterFails, registry, InWork
  <2>2. Elsewhere(t) /\ pc'[t] \in {"idle", "step"}
    BY <1>1, <2>1, Raised DEF Elsewhere, ThreadTypeOK
  <2>3. \A u \in Threads \ {t} : pc[u] \notin InTxn /\ pc'[u] \notin InTxn
    BY <1>1, <2>1, <2>2, Alone, PlacesInTxn
  <2>4. \A u \in Threads : /\ pc[u] \notin InUnreflect /\ pc[u] # "add"
                           /\ pc'[u] \notin InUnreflect /\ pc'[u] # "add"
    BY <2>1, <2>2, <2>3, PlacesInTxn DEF InUnreflect
  <2> QED
    BY <2>1, <2>4 DEF FactInv, IsRegistered
<1>7. ASSUME UnreflectFails(t) PROVE FactInv'
  <2>1. /\ pc[t] \in InUnreflect /\ Raise(t) /\ work \in Folds \ Plain
        /\ RestorationIndex(receipt.order, work) \in 1..(Len(registered) + 1)
        /\ registered' = InsertAt(registered, RestorationIndex(receipt.order, work), work)
        /\ active' \subseteq active \cup {work} /\ facts' = facts \cup {FactOf[work]}
    BY <1>1, <1>7, Restores
  <2>2. pc[t] \in InWork /\ pc[t] \in InTxn
    BY <2>1, PlacesInTxn
  <2>3. Elsewhere(t) /\ pc'[t] \in {"idle", "step"}
    BY <1>1, <2>1, <2>2, Raised DEF Elsewhere, ThreadTypeOK
  <2>4. \A u \in Threads \ {t} : pc[u] \notin InTxn /\ pc'[u] \notin InTxn
    BY <1>1, <2>2, <2>3, Alone
  <2>5. \A u \in Threads : /\ pc[u] # "add" /\ pc'[u] \notin InUnreflect /\ pc'[u] # "add"
    BY <2>1, <2>3, <2>4, PlacesInTxn DEF InUnreflect
  <2>6. \A g : IsRegistered(g)' <=> (IsRegistered(g) \/ g = work)
    <3>1. ~IsRegistered(work)
      BY <1>1, <2>1 DEF WithdrawalInv
    <3> QED
      BY <1>2, <2>1, <3>1, InsertedOnce DEF IsRegistered
  <2>7. \A g \in active' \ Plain : IsRegistered(g)' => FactOf[g] \in facts'
    BY <2>1, <2>6 DEF FactInv, RegisteredInv
  <2>8. \A x \in facts' : \E f \in Folds \ Plain : IsRegistered(f)' /\ FactOf[f] = x
    BY <2>1, <2>5, <2>6 DEF FactInv
  <2> QED
    BY <2>5, <2>7, <2>8 DEF FactInv
<1> QED
  BY <1>3, <1>4, <1>5, <1>6, <1>7 DEF Withdrawal

\* An addition puts the fact in first, and takes it out if it fails.
LEMMA FactAddition ==
    ASSUME ShapeInv, RegistryInv, FactInv, NEW t \in Threads, Addition(t) \/ Drain(t)
    PROVE  FactInv'
<1> USE FoldRegistryAssumption
<1>1. /\ TypeOK /\ ThreadTypeOK /\ RegistryTypeOK /\ ThreadInv /\ TxnInv
      /\ RegisteredInv /\ TargetInv
  BY DEF ShapeInv, TypeOK, RegistryInv
<1>2. registered \in Seq(Folds) /\ Once(registered) /\ NoFold \notin Folds
  BY <1>1 DEF RegistryTypeOK, RegisteredInv
<1>3. ASSUME Reflect(t) PROVE FactInv'
  <2>1. /\ pc[t] = "reflect" /\ pc'[t] = "add" /\ Elsewhere(t)
        /\ facts' = facts \cup {FactOf[target[t]]}
        /\ UNCHANGED <<registered, active, target>>
    BY <1>1, <1>3 DEF Reflect, Goto, registry, Elsewhere, ThreadTypeOK
  <2>2. \A u \in Threads \ {t} : pc[u] \notin InTxn /\ pc'[u] \notin InTxn
    BY <1>1, <2>1, Alone DEF InTxn, InChange
  <2>3. \A u \in Threads : /\ pc[u] \notin InUnreflect /\ pc[u] # "add"
                           /\ pc'[u] = "add" => u = t
    BY <2>1, <2>2, PlacesInTxn DEF InUnreflect
  <2> QED
    BY <2>1, <2>3 DEF FactInv, IsRegistered
<1>4. ASSUME Add(t) PROVE FactInv'
  <2>1. /\ pc[t] = "add" /\ pc'[t] = "idle" /\ Elsewhere(t)
        /\ registered' = Append(registered, target[t])
        /\ UNCHANGED <<active, facts>>
    BY <1>1, <1>4 DEF Add, Goto, Elsewhere, ThreadTypeOK
  <2>2. \A u \in Threads \ {t} : pc[u] \notin InTxn /\ pc'[u] \notin InTxn
    BY <1>1, <2>1, Alone DEF InTxn, InChange
  <2>3. \A u \in Threads : /\ pc[u] \notin InUnreflect
                           /\ pc[u] = "add" => u = t
                           /\ pc'[u] \notin InUnreflect /\ pc'[u] # "add"
    BY <2>1, <2>2, PlacesInTxn DEF InUnreflect
  <2>4. target[t] \in Folds \ Plain /\ ~IsRegistered(target[t]) /\ FactOf[target[t]] \in facts
    BY <1>1, <2>1 DEF ThreadInv, Settled, InChange, TargetInv, RegisteredInv, FactInv
  <2>5. \A g : IsRegistered(g)' <=> (IsRegistered(g) \/ g = target[t])
    BY <1>2, <2>1, <2>4, AppendedOnce DEF IsRegistered
  <2>6. \A g \in active \ Plain : IsRegistered(g)' => FactOf[g] \in facts
    BY <2>4, <2>5 DEF FactInv
  <2>7. ASSUME NEW x \in facts
        PROVE  \E g \in Folds \ Plain : IsRegistered(g)' /\ FactOf[g] = x
    <3>1. \/ \E g \in Folds \ Plain : IsRegistered(g) /\ FactOf[g] = x
          \/ FactOf[target[t]] = x
      BY <2>3 DEF FactInv
    <3> QED
      BY <2>4, <2>5, <3>1
  <2> QED
    BY <2>1, <2>3, <2>6, <2>7 DEF FactInv
<1>5. ASSUME AddFails(t) PROVE FactInv'
  <2>1. /\ pc[t] = "add" /\ pc'[t] = "idle" /\ Elsewhere(t)
        /\ active' = active \ {target[t]} /\ UNCHANGED registered
        /\ facts' = IF HasFact(target[t]) THEN facts ELSE facts \ {FactOf[target[t]]}
    BY <1>1, <1>5 DEF AddFails, Goto, Elsewhere, ThreadTypeOK
  <2>2. \A u \in Threads \ {t} : pc[u] \notin InTxn /\ pc'[u] \notin InTxn
    BY <1>1, <2>1, Alone DEF InTxn, InChange
  <2>3. \A u \in Threads : /\ pc[u] \notin InUnreflect
                           /\ pc[u] = "add" => u = t
                           /\ pc'[u] \notin InUnreflect /\ pc'[u] # "add"
    BY <2>1, <2>2, PlacesInTxn DEF InUnreflect
  <2>4. HasFact(target[t]) =>
          \E g \in Folds \ Plain : IsRegistered(g) /\ FactOf[g] = FactOf[target[t]]
    BY <1>1 DEF HasFact, RegistryTypeOK
  <2>5. \A g \in active' \ Plain : IsRegistered(g) => FactOf[g] \in facts'
    BY <2>1 DEF FactInv, HasFact
  <2>6. ASSUME NEW x \in facts'
        PROVE  \E g \in Folds \ Plain : IsRegistered(g) /\ FactOf[g] = x
    <3>1. /\ x \in facts
          /\ x = FactOf[target[t]] => HasFact(target[t])
      BY <2>1
    <3>2. \/ \E g \in Folds \ Plain : IsRegistered(g) /\ FactOf[g] = x
          \/ FactOf[target[t]] = x
      BY <2>3, <3>1 DEF FactInv
    <3> QED
      BY <2>4, <3>1, <3>2
  <2> QED
    BY <2>1, <2>3, <2>5, <2>6 DEF FactInv, IsRegistered
<1>6. ASSUME Drain(t) PROVE FactInv'
  <2>1. /\ pc[t] = "drain" /\ pc'[t] \in {"idle", "step"} /\ Elsewhere(t)
        /\ UNCHANGED <<registered, active, facts, work>>
    BY <1>1, <1>6 DEF Drain, Return, Goto, registry, reflection, Elsewhere, ThreadTypeOK
  <2>2. \A u \in Threads : pc[u] \in InUnreflect \cup {"add"} \/ pc'[u] \in InUnreflect \cup {"add"}
          => pc'[u] = pc[u] /\ target'[u] = target[u]
    BY <2>1 DEF Elsewhere, InUnreflect
  <2> QED
    BY <2>1, <2>2 DEF FactInv, IsRegistered
<1> QED
  BY <1>3, <1>4, <1>5, <1>6 DEF Addition

\* Subscriptions not yet added, and folds that nothing reflects, change no fact.
LEMMA FactRequest ==
    ASSUME ShapeInv, RegistryInv, FactInv, NEW f \in Folds,
           (\E t \in Threads : Request(t, f)) \/ Abandon(f)
    PROVE  FactInv'
<1>1. /\ TypeOK /\ ThreadTypeOK /\ RegistryTypeOK /\ RegisteredInv
  BY DEF ShapeInv, TypeOK, RegistryInv
<1>2. registered \in Seq(Folds) /\ Once(registered)
  BY <1>1 DEF RegistryTypeOK, RegisteredInv
<1>3. ASSUME NEW t \in Threads, Subscribe(t, f) PROVE FactInv'
  <2>1. /\ active' = active \cup {f} /\ pc[t] = "idle" /\ pc'[t] = "txn" /\ Elsewhere(t)
        /\ UNCHANGED <<registered, facts, work>> /\ f \notin born
    BY <1>1, <1>3 DEF Subscribe, Goto, reflection, Elsewhere, ThreadTypeOK
  <2>2. \A u \in Threads : pc[u] \in InUnreflect \cup {"add"} \/ pc'[u] \in InUnreflect \cup {"add"}
          => pc'[u] = pc[u] /\ target'[u] = target[u]
    BY <2>1 DEF Elsewhere, InUnreflect
  <2>3. ~IsRegistered(f)
    BY <1>1, <2>1 DEF RegisteredInv
  <2> QED
    BY <2>1, <2>2, <2>3 DEF FactInv, IsRegistered
<1>4. ASSUME NEW t \in Threads, AddPlain(t, f) PROVE FactInv'
  <2>1. /\ f \in Plain /\ f \notin born /\ active' = active \cup {f}
        /\ registered' = Append(registered, f)
        /\ UNCHANGED <<pc, target, facts, work>>
    BY <1>4 DEF AddPlain, reflection
  <2>2. \A g : IsRegistered(g)' <=> (IsRegistered(g) \/ g = f)
    <3>1. ~IsRegistered(f)
      BY <1>1, <2>1 DEF RegisteredInv
    <3> QED
      BY <1>2, <2>1, <3>1, AppendedOnce DEF IsRegistered
  <2> QED
    BY <2>1, <2>2 DEF FactInv
<1>5. ASSUME NEW t \in Threads, CancelPlain(t, f) PROVE FactInv'
  <2>1. /\ f \in Plain /\ active' \subseteq active /\ UNCHANGED <<facts, work>>
        /\ pc[t] = "idle" /\ pc'[t] = "drain" /\ Elsewhere(t)
    BY <1>1, <1>5 DEF CancelPlain, Goto, Woken, reflection, Elsewhere, ThreadTypeOK
  <2>2. \A u \in Threads : pc[u] \in InUnreflect \cup {"add"} \/ pc'[u] \in InUnreflect \cup {"add"}
          => pc'[u] = pc[u] /\ target'[u] = target[u]
    BY <2>1 DEF Elsewhere, InUnreflect
  <2>3. \A g \in Folds \ Plain : IsRegistered(g)' <=> IsRegistered(g)
    <3>1. CASE IsRegistered(f)
      <4>1. registered' = Popped(f)
        BY <1>5, <3>1 DEF CancelPlain
      <4>2. \A g : IsRegistered(g)' <=> (IsRegistered(g) /\ g # f)
        BY <1>2, <3>1, <4>1, PoppedOnce DEF Popped, IsRegistered
      <4> QED
        BY <2>1, <4>2
    <3>2. CASE ~IsRegistered(f)
      BY <1>5, <3>2 DEF CancelPlain, IsRegistered
    <3> QED
      BY <3>1, <3>2
  <2>4. active \subseteq Folds
    BY <1>1 DEF RegistryTypeOK
  <2> QED
    BY <2>1, <2>2, <2>3, <2>4 DEF FactInv
<1>6. ASSUME Abandon(f) PROVE FactInv'
  <2>1. active' = active \ {f} /\ UNCHANGED <<registered, pc, target, facts, work>>
    BY <1>6 DEF Abandon
  <2> QED
    BY <2>1 DEF FactInv, IsRegistered
<1> QED
  BY <1>3, <1>4, <1>5, <1>6 DEF Request

\* The same for any step.
LEMMA FactStep ==
    ASSUME ShapeInv, RegistryInv, FactInv, [Next]_vars
    PROVE  FactInv'
<1>1. CASE RegistryFrame
  BY <1>1 DEF RegistryFrame, FactInv, IsRegistered, InPlay, InWork, InUnreflect
<1>2. CASE RegistrySection
  BY <1>2, FactWithdrawal, FactAddition, FactRequest DEF RegistrySection
<1> QED
  BY <1>1, <1>2, RegistryFrames

\* Between transactions &metta reflects every live subscription, and nothing
\* that is not registered: refused guards, refused withdrawals, and two
\* subscriptions with one fact included.
THEOREM ReflectionExact == Spec => []ReflectionIsExact
<1>1. Init => FactInv
  BY DEF Init, FactInv, IsRegistered, Contains
<1> QED
  BY <1>1, FactStep, FactsExact, Registered, PTL DEF Spec

-----------------------------------------------------------------------------
(* Restoration.                                                             *)

\* While a subscription is withdrawn the list keeps the order of the receipt.
LEMMA OrderStep ==
    ASSUME ShapeInv, RegistryInv, OrderInv, [Next]_vars
    PROVE  OrderInv'
<1> USE FoldRegistryAssumption
<1>1. /\ TypeOK /\ ThreadTypeOK /\ RegistryTypeOK /\ TxnInv
      /\ RegisteredInv /\ WithdrawalInv
  BY DEF ShapeInv, TypeOK, RegistryInv
<1>2. registered \in Seq(Folds) /\ Once(registered) /\ Len(registered) \in Nat
  BY <1>1, LenProperties DEF RegistryTypeOK, RegisteredInv
<1>3. CASE RegistryFrame
  BY <1>3 DEF RegistryFrame, OrderInv, InPlay, InWork, InUnreflect
<1>4. ASSUME NEW t \in Threads, Unregister(t) PROVE OrderInv'
  <2>1. pc[t] \in {"unregister", "unregisterOwn"} /\ UNCHANGED target
    BY <1>4 DEF Unregister
  <2>2. Elsewhere(t)
    <3>1. \E x \in Places : pc' = [Woken EXCEPT ![t] = x] \/ pc' = [pc EXCEPT ![t] = x]
      BY <1>1, <1>4, Unregisters DEF Places
    <3> QED
      BY <1>1, <2>1, <3>1 DEF Elsewhere, Woken, ThreadTypeOK
  <2>3. \A u \in Threads \ {t} : pc[u] \notin InTxn /\ pc'[u] \notin InTxn
    BY <1>1, <2>1, <2>2, Alone DEF InTxn, InChange
  <2>4. CASE IsRegistered(work)
    <3>1. receipt'.order = registered /\ registered' = Popped(work)
      BY <1>1, <1>4, <2>4, Unregisters
    <3>2. Agrees(registered, Popped(work))
      BY <1>2, <2>4, OnceAgrees, PoppedOnce DEF Popped, IsRegistered
    <3> QED
      BY <3>1, <3>2 DEF OrderInv
  <2>5. CASE ~IsRegistered(work)
    <3>1. pc'[t] \in {"drain", "expunge"}
      BY <1>1, <1>4, <2>5, Unregisters DEF ThreadTypeOK
    <3>2. \A u \in Threads : pc'[u] \notin InUnreflect
      BY <2>3, <3>1, PlacesInTxn DEF InUnreflect
    <3> QED
      BY <3>2 DEF OrderInv
  <2> QED
    BY <2>4, <2>5
<1>5. ASSUME NEW t \in Threads,
             \/ Expunge(t) \/ Unreflect(t) \/ UnregisterFails(t) \/ UnreflectFails(t)
             \/ Reflect(t) \/ Add(t) \/ AddFails(t)
      PROVE  OrderInv'
  <2>1. /\ pc[t] \in InTxn /\ Elsewhere(t)
        /\ pc'[t] \in {"unregister", "unregisterOwn", "reflect", "drain", "expunge",
                       "idle", "step", "add"}
    <3>1. CASE Expunge(t)
      BY <1>1, <3>1, Expunges DEF Elsewhere, ThreadTypeOK, InTxn, InChange
    <3>2. CASE Unreflect(t)
      BY <1>1, <3>2 DEF Unreflect, Withdrawn, Goto, Elsewhere, ThreadTypeOK, InTxn, InChange
    <3>3. CASE UnregisterFails(t) \/ UnreflectFails(t)
      <4>1. pc[t] \in InWork /\ Raise(t)
        BY <3>3 DEF UnregisterFails, UnreflectFails, InWork
      <4>2. pc' = [pc EXCEPT ![t] = IF inside[t] = NoFold THEN "idle" ELSE "step"]
        BY <1>1, <4>1, Raised
      <4>3. target' = [target EXCEPT ![t] = NoFold]
        BY <1>1, <4>1, Raised
      <4> QED
        BY <1>1, <4>1, <4>2, <4>3, PlacesInTxn DEF Elsewhere, ThreadTypeOK
    <3>4. CASE Reflect(t)
      BY <1>1, <3>4 DEF Reflect, Goto, Elsewhere, ThreadTypeOK, InTxn, InChange
    <3>5. CASE Add(t) \/ AddFails(t)
      BY <1>1, <3>5 DEF Add, AddFails, Goto, Elsewhere, ThreadTypeOK, InTxn, InChange
    <3> QED
      BY <1>5, <3>1, <3>2, <3>3, <3>4, <3>5
  <2>2. \A u \in Threads \ {t} : pc'[u] \notin InTxn
    BY <1>1, <2>1, Alone
  <2>3. \A u \in Threads : pc'[u] \notin InUnreflect
    BY <2>1, <2>2, PlacesInTxn DEF InUnreflect
  <2> QED
    BY <2>3 DEF OrderInv
<1>6. ASSUME NEW t \in Threads, Drain(t) PROVE OrderInv'
  <2>1. /\ UNCHANGED <<registered, receipt>>
        /\ \A u \in Threads : pc'[u] = pc[u] \/ pc'[u] \in {"idle", "step"}
    BY <1>1, <1>6 DEF Drain, Return, Goto, registry, reflection, ThreadTypeOK
  <2> QED
    BY <2>1 DEF OrderInv, InUnreflect
<1>7. ASSUME NEW t \in Threads, NEW f \in Folds, Subscribe(t, f) PROVE OrderInv'
  <2>1. /\ UNCHANGED <<registered, receipt>>
        /\ \A u \in Threads : pc'[u] = pc[u] \/ pc'[u] = "txn"
    BY <1>1, <1>7 DEF Subscribe, Goto, reflection, ThreadTypeOK
  <2> QED
    BY <2>1 DEF OrderInv, InUnreflect
<1>8. ASSUME NEW t \in Threads, NEW f \in Folds, AddPlain(t, f) PROVE OrderInv'
  <2>1. f \notin born /\ registered' = Append(registered, f) /\ UNCHANGED <<pc, receipt>>
    BY <1>8 DEF AddPlain, reflection
  <2>2. ~IsRegistered(f)
    BY <1>1, <2>1 DEF RegisteredInv
  <2>3. ASSUME NEW u \in Threads, pc[u] \in InUnreflect
        PROVE  Agrees(receipt.order, registered')
    <3>1. ~Contains(receipt.order, f)
      BY <1>1, <2>1, <2>3 DEF WithdrawalInv, Contains
    <3> QED
      BY <1>2, <2>1, <2>2, <2>3, <3>1, AppendedOnce DEF OrderInv, IsRegistered
  <2> QED
    BY <2>1, <2>3 DEF OrderInv
<1>9. ASSUME NEW t \in Threads, NEW f \in Folds, CancelPlain(t, f) PROVE OrderInv'
  <2>1. \A u \in Threads : pc'[u] = pc[u] \/ pc'[u] \in {"check", "drain"}
    BY <1>1, <1>9 DEF CancelPlain, Goto, Woken, ThreadTypeOK
  <2>2. \A o : Agrees(o, registered) => Agrees(o, registered')
    <3>1. CASE IsRegistered(f)
      <4>1. registered' = Popped(f)
        BY <1>9, <3>1 DEF CancelPlain
      <4> QED
        BY <1>2, <3>1, <4>1, PoppedOnce DEF Popped, IsRegistered
    <3>2. CASE ~IsRegistered(f)
      BY <1>9, <3>2 DEF CancelPlain
    <3> QED
      BY <3>1, <3>2
  <2>3. UNCHANGED receipt
    BY <1>9 DEF CancelPlain, reflection
  <2> QED
    BY <2>1, <2>2, <2>3 DEF OrderInv, InUnreflect
<1>10. ASSUME NEW f \in Folds, Abandon(f) PROVE OrderInv'
  BY <1>10 DEF Abandon, OrderInv
<1> QED
  BY <1>3, <1>4, <1>5, <1>6, <1>7, <1>8, <1>9, <1>10, RegistryFrames
    DEF RegistrySection, Withdrawal, Addition, Request

\* Where restore() files a fold: before all that came after it, and after all
\* that came before it.
LEMMA IndexFits ==
    ASSUME TypeOK, NEW order \in Seq(Folds), NEW f, Contains(order, f),
           Once(registered), Agrees(order, registered)
    PROVE  /\ \A j \in 1..Len(order), k \in 1..Len(registered) :
                (PlaceOf(order, f) < j /\ registered[k] = order[j])
                    => RestorationIndex(order, f) <= k
           /\ \A i \in 1..Len(order), l \in 1..Len(registered) :
                (i < PlaceOf(order, f) /\ registered[l] = order[i])
                    => l < RestorationIndex(order, f)
<1> DEFINE at == PlaceOf(order, f)
           after == {i \in (at + 1)..Len(order) : IsRegistered(order[i])}
           prior == {i \in 1..(at - 1) : IsRegistered(order[i])}
           idx == RestorationIndex(order, f)
<1>1. Len(registered) \in Nat /\ Len(order) \in Nat /\ at \in 1..Len(order)
  BY LenProperties, PlaceFound DEF TypeOK, RegistryTypeOK
<1>2. after \subseteq 1..Len(order) /\ prior \subseteq 1..Len(order)
  BY <1>1
<1>3. /\ \A j \in 1..Len(order), k \in 1..Len(registered) :
           (at < j /\ registered[k] = order[j]) => j \in after
      /\ \A i \in 1..Len(order), l \in 1..Len(registered) :
           (i < at /\ registered[l] = order[i]) => i \in prior
  BY <1>1 DEF IsRegistered, Contains
<1>4. /\ \A i \in after : IsRegistered(order[i]) /\ i \in 1..Len(order) /\ at < i
      /\ \A i \in prior : IsRegistered(order[i]) /\ i \in 1..Len(order) /\ i < at
  BY <1>1
<1>5. idx =
        IF after # {} THEN PlaceOf(registered, order[Min(after)])
        ELSE IF prior # {} THEN PlaceOf(registered, order[Max(prior)]) + 1
        ELSE IF at <= Len(registered) + 1 THEN at ELSE Len(registered) + 1
  BY DEF RestorationIndex
<1> HIDE DEF at, after, prior, idx
<1>6. CASE after # {}
  <2> DEFINE m == Min(after)
             q == PlaceOf(registered, order[m])
  <2>1. m \in after /\ \A j \in after : m <= j
    BY <1>1, <1>2, <1>6, LeastOf
  <2>2. q \in 1..Len(registered) /\ registered[q] = order[m] /\ idx = q
    BY <1>4, <1>5, <1>6, <2>1, PlaceFound DEF IsRegistered
  <2> HIDE DEF m, q
  <2>3. ASSUME NEW j \in 1..Len(order), NEW k \in 1..Len(registered),
               at < j, registered[k] = order[j]
        PROVE  idx <= k
    <3>1. m <= j /\ m \in 1..Len(order)
      BY <1>3, <1>4, <2>1, <2>3
    <3>2. CASE m = j
      <4>1. k = q
        BY <2>2, <2>3, <3>2 DEF Once
      <4> QED
        BY <1>1, <2>2, <4>1
    <3>3. CASE m < j
      <4>1. q < k
        BY <2>2, <2>3, <3>1, <3>3 DEF Agrees
      <4> QED
        BY <1>1, <2>2, <4>1
    <3> QED
      BY <1>1, <3>1, <3>2, <3>3
  <2>4. ASSUME NEW i \in 1..Len(order), NEW l \in 1..Len(registered),
               i < at, registered[l] = order[i]
        PROVE  l < idx
    <3>1. m \in 1..Len(order) /\ at < m
      BY <1>4, <2>1
    <3>2. i < m
      BY <1>1, <2>4, <3>1
    <3> QED
      BY <2>2, <2>4, <3>1, <3>2 DEF Agrees
  <2> QED
    BY <2>3, <2>4 DEF at, idx
<1>7. CASE after = {} /\ prior # {}
  <2> DEFINE m == Max(prior)
             q == PlaceOf(registered, order[m])
  <2>1. m \in prior /\ \A i \in prior : m >= i
    BY <1>1, <1>2, <1>7, GreatestOf
  <2>2. q \in 1..Len(registered) /\ registered[q] = order[m] /\ idx = q + 1
    BY <1>4, <1>5, <1>7, <2>1, PlaceFound DEF IsRegistered
  <2> HIDE DEF m, q
  <2>3. ASSUME NEW i \in 1..Len(order), NEW l \in 1..Len(registered),
               i < at, registered[l] = order[i]
        PROVE  l < idx
    <3>1. i <= m /\ m \in 1..Len(order)
      BY <1>1, <1>3, <1>4, <2>1, <2>3
    <3>2. CASE i = m
      <4>1. l = q
        BY <2>2, <2>3, <3>2 DEF Once
      <4> QED
        BY <1>1, <2>2, <4>1
    <3>3. CASE i < m
      <4>1. l < q
        BY <2>2, <2>3, <3>1, <3>3 DEF Agrees
      <4> QED
        BY <1>1, <2>2, <4>1
    <3> QED
      BY <1>1, <3>1, <3>2, <3>3
  <2> QED
    BY <1>3, <1>7, <2>3 DEF at, idx
<1>8. CASE after = {} /\ prior = {}
  BY <1>3, <1>8 DEF at, idx
<1> QED
  BY <1>6, <1>7, <1>8

\* So the list with the fold in it agrees with the order it had.
LEMMA InsertedAgrees ==
    ASSUME TypeOK, NEW order \in Seq(Folds), Once(order), NEW f \in Folds, Contains(order, f),
           Once(registered), Agrees(order, registered), ~IsRegistered(f)
    PROVE  Agrees(order, InsertAt(registered, RestorationIndex(order, f), f))
<1> DEFINE at == PlaceOf(order, f)
           idx == RestorationIndex(order, f)
           n == Len(registered)
           r == InsertAt(registered, idx, f)
           down == [x \in 1..(n + 1) |-> IF x < idx THEN x ELSE x - 1]
<1>1. registered \in Seq(Folds) /\ n \in Nat /\ Len(order) \in Nat /\ idx \in 1..(n + 1)
  BY LenProperties, IndexInside DEF TypeOK, RegistryTypeOK
<1>2. at \in 1..Len(order) /\ order[at] = f
  BY PlaceFound
<1>3. /\ Len(r) = n + 1
      /\ \A x \in 1..(n + 1) :
           r[x] = IF x < idx THEN registered[x] ELSE IF x = idx THEN f ELSE registered[x - 1]
  BY <1>1, InsertedAt
<1>4. /\ r[idx] = f
      /\ \A x \in 1..(n + 1) : x # idx => r[x] = registered[down[x]] /\ down[x] \in 1..n
      /\ \A x, y \in 1..(n + 1) : (x # idx /\ y # idx /\ down[x] < down[y]) => x < y
      /\ \A x \in 1..(n + 1) : x < idx => down[x] < idx
      /\ \A x \in 1..(n + 1) : idx < x => idx <= down[x]
  BY <1>1, <1>3
<1>5. /\ \A j \in 1..Len(order), k \in 1..n :
           (at < j /\ registered[k] = order[j]) => idx <= k
      /\ \A i \in 1..Len(order), l \in 1..n :
           (i < at /\ registered[l] = order[i]) => l < idx
  BY IndexFits
<1> HIDE DEF at, idx, n, r, down
<1>6. ASSUME NEW i \in 1..Len(order), NEW j \in 1..Len(order),
             NEW k \in 1..(n + 1), NEW l \in 1..(n + 1),
             i < j, r[k] = order[i], r[l] = order[j]
      PROVE  k < l
  <2>1. CASE k = idx
    <3>1. i = at
      BY <1>2, <1>4, <1>6, <2>1 DEF Once
    <3>2. l # idx
      BY <1>1, <1>2, <1>4, <1>6, <3>1 DEF Once
    <3>3. idx <= down[l] /\ down[l] \in 1..n
      BY <1>4, <1>5, <1>6, <3>1, <3>2
    <3>4. ~(down[l] < idx)
      BY <1>1, <3>3
    <3>5. ~(l < idx)
      BY <1>4, <3>4
    <3> QED
      BY <1>1, <2>1, <3>2, <3>5
  <2>2. CASE l = idx
    <3>1. j = at
      BY <1>2, <1>4, <1>6, <2>2 DEF Once
    <3>2. k # idx
      BY <1>1, <1>2, <1>4, <1>6, <3>1 DEF Once
    <3>3. down[k] < idx /\ down[k] \in 1..n
      BY <1>4, <1>5, <1>6, <3>1, <3>2
    <3>4. ~(idx <= down[k])
      BY <1>1, <3>3
    <3>5. ~(idx < k)
      BY <1>4, <3>4
    <3> QED
      BY <1>1, <2>2, <3>2, <3>5
  <2>3. CASE k # idx /\ l # idx
    <3>1. /\ registered[down[k]] = order[i] /\ registered[down[l]] = order[j]
          /\ down[k] \in 1..n /\ down[l] \in 1..n
      BY <1>4, <1>6, <2>3
    <3>2. down[k] < down[l]
      BY <1>6, <3>1 DEF Agrees, n
    <3> QED
      BY <1>4, <2>3, <3>2
  <2> QED
    BY <2>1, <2>2, <2>3
<1>7. Agrees(order, r)
  BY <1>3, <1>6 DEF Agrees
<1> QED
  BY <1>7 DEF r, idx

\* Only a refused withdrawal brings the fold in hand back into the list.
LEMMA OnlyRestored ==
    ASSUME ShapeInv, RegistryInv, [Next]_vars, work \in Folds,
           ~IsRegistered(work), Contains(registered', work)
    PROVE  \E t \in Threads : UnreflectFails(t)
<1> USE FoldRegistryAssumption
<1>1. /\ TypeOK /\ RegistryTypeOK /\ ThreadInv /\ TxnInv /\ WithdrawalInv /\ RegisteredInv
  BY DEF ShapeInv, TypeOK, RegistryInv
<1>2. registered \in Seq(Folds) /\ Once(registered)
  BY <1>1 DEF RegistryTypeOK, RegisteredInv
<1>3. registered' # registered
  BY DEF IsRegistered
<1>4. PICK v \in Threads : pc[v] \in InWork
  BY <1>1 DEF WithdrawalInv
<1>5. work \in Folds \ Plain
  BY <1>1, <1>4 DEF TxnInv
<1>6. ~RegistryFrame
  BY <1>3 DEF RegistryFrame
<1>7. ASSUME NEW t \in Threads, Withdrawal(t) PROVE UnreflectFails(t)
  <2>1. ~Expunge(t) /\ ~Unreflect(t) /\ ~UnregisterFails(t)
    BY <1>3 DEF Expunge, Unreflect, UnregisterFails, registry
  <2>2. ~Unregister(t)
    BY <1>3 DEF Unregister
  <2> QED
    BY <1>7, <2>1, <2>2 DEF Withdrawal
<1>8. ASSUME NEW t \in Threads, Addition(t) \/ Drain(t) PROVE FALSE
  <2>1. ~Reflect(t) /\ ~AddFails(t) /\ ~Drain(t)
    BY <1>3 DEF Reflect, AddFails, Drain, registry
  <2>2. ASSUME Add(t) PROVE FALSE
    <3>1. pc[t] = "add" /\ pc[t] \in InTxn /\ pc[v] \in InTxn
      BY <1>4, <2>2, PlacesInTxn DEF Add, InTxn, InChange
    <3>2. t = v
      BY <1>1, <3>1 DEF TxnInv
    <3> QED
      BY <1>4, <3>1, <3>2 DEF InWork
  <2> QED
    BY <1>8, <2>1, <2>2 DEF Addition
<1>9. ASSUME NEW t \in Threads, NEW f \in Folds, Request(t, f) PROVE FALSE
  <2>1. ~Subscribe(t, f)
    BY <1>3 DEF Subscribe
  <2>2. ASSUME AddPlain(t, f) PROVE FALSE
    <3>1. f \in Plain /\ f \notin born /\ registered' = Append(registered, f)
      BY <2>2 DEF AddPlain
    <3>2. ~IsRegistered(f)
      BY <1>1, <3>1 DEF RegisteredInv
    <3> QED
      BY <1>2, <1>5, <3>1, <3>2, AppendedOnce DEF IsRegistered
  <2>3. ASSUME CancelPlain(t, f) PROVE FALSE
    <3>1. IsRegistered(f) /\ registered' = Popped(f)
      BY <1>3, <2>3 DEF CancelPlain
    <3> QED
      BY <1>2, <3>1, PoppedOnce DEF Popped, IsRegistered
  <2> QED
    BY <1>9, <2>1, <2>2, <2>3 DEF Request
<1>10. \A f \in Folds : ~Abandon(f)
  BY <1>3 DEF Abandon
<1> QED
  BY <1>6, <1>7, <1>8, <1>9, <1>10, RegistryFrames DEF RegistrySection

\* A restored fold stands where it was.
LEMMA RestoreStep ==
    ASSUME ShapeInv, RegistryInv, OrderInv, ShapeInv', [Next]_vars,
           ~IsRegistered(work), Contains(registered', work),
           NEW f \in Folds, NEW g \in Folds, Before(receipt.order, f, g)
    PROVE  ~Before(registered', g, f)
<1>1. TypeOK /\ TxnInv /\ RegisteredInv /\ WithdrawalInv /\ Once(registered)
  BY DEF ShapeInv, RegistryInv, RegisteredInv
<1>2. receipt.order \in Seq(Folds)
  BY <1>1 DEF TypeOK, ReflectionTypeOK
<1>3. work \in Folds
  <2>1. registered' \in Seq(Folds)
    BY DEF ShapeInv, TypeOK, RegistryTypeOK
  <2> QED
    BY <2>1, ElementOfSeq DEF Contains
<1>4. PICK t \in Threads : UnreflectFails(t)
  BY <1>3, OnlyRestored
<1>5. /\ pc[t] \in InUnreflect /\ Contains(receipt.order, work)
      /\ registered' = InsertAt(registered, RestorationIndex(receipt.order, work), work)
  BY <1>1, <1>4, Restores
<1>6. Once(receipt.order) /\ Agrees(receipt.order, registered)
  BY <1>1, <1>5 DEF WithdrawalInv, OrderInv
<1>7. Agrees(receipt.order, registered')
  BY <1>1, <1>2, <1>3, <1>5, <1>6, InsertedAgrees
<1>8. Len(registered') \in Nat /\ Len(receipt.order) \in Nat
  BY <1>2, LenProperties DEF ShapeInv, TypeOK, RegistryTypeOK
<1>9. ASSUME Before(registered', g, f) PROVE FALSE
  <2>1. PICK i, j \in 1..Len(receipt.order) :
          i < j /\ receipt.order[i] = f /\ receipt.order[j] = g
    BY DEF Before
  <2>2. PICK k, l \in 1..Len(registered') :
          k < l /\ registered'[k] = g /\ registered'[l] = f
    BY <1>9 DEF Before
  <2>3. l < k
    BY <1>7, <2>1, <2>2 DEF Agrees
  <2> QED
    BY <1>8, <2>2, <2>3
<1> QED
  BY <1>9

\* After a failed withdrawal no two folds that were registered together have
\* changed places, whatever was cancelled or added meanwhile.
THEOREM Restored == Spec => RestoredInPlace
<1> DEFINE Returns ==
             (~IsRegistered(work) /\ Contains(registered', work)) =>
                 \A f, g \in Folds : Before(receipt.order, f, g) => ~Before(registered', g, f)
<1>1. Init => OrderInv
  BY DEF Init, OrderInv, InUnreflect
<1>2. ASSUME ShapeInv, RegistryInv, OrderInv, (ShapeInv)', [Next]_vars PROVE [Returns]_vars
  BY <1>2, RestoreStep
<1>3. Spec => [](ShapeInv /\ RegistryInv /\ OrderInv)
  BY <1>1, OrderStep, ShapeInit, ShapeStep, RegistryInit, RegistryStep, PTL DEF Spec
<1> HIDE DEF Returns
<1>4. Spec => [][Returns]_vars
  BY <1>2, <1>3, PTL DEF Spec
<1> QED
  BY <1>4 DEF RestoredInPlace, Returns

=============================================================================
