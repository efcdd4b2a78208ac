---------------------- MODULE ProviderAdmissionProofs ----------------------
(***************************************************************************)
(* Theorems about the admission records of metta.foreign, for any number   *)
(* of threads, providers, records and uses: the count of a record is the   *)
(* number of its open uses, so a close that has waited is never overtaken  *)
(* by a use, a drop never waits for itself, and a retained drop is run.    *)
(***************************************************************************)
EXTENDS ProviderAdmission, SequenceTheorems, FiniteSetTheorems, TLAPS

-----------------------------------------------------------------------------
(* The inductive invariant.                                                 *)

Admissions ==
    [provider : Providers, count : Nat, holders : [Threads -> Nat],
     closing : BOOLEAN, pending : BOOLEAN, waited : BOOLEAN]
Locals ==
    [rec : Nat \cup {None}, provider : Providers \cup {None},
     asker : {"door", "only", "drop", "finish"}]
Uses == [rec : Nat, holder : Threads]

\* Where a thread works on the record in its locals, where on the provider,
\* and where it is inside unregister_provider or behind it in drop().
AtRecord == {"row", "gone", "stale", "renew", "hold", "last", "lastly",
             "remove", "shut", "unlist", "returned", "asks", "retain", "wait"}
AtProvider == {"stale", "renew", "publish", "enlist"}
AtClose == {"fetch", "remove", "shut", "unlist"}
AtEnd == {"idle", "returned", "drop", "teardown", "retire", "finish", "close"}
Places == AtRecord \cup AtProvider \cup AtClose \cup AtEnd

Shape ==
    /\ row \in Providers \cup {None} /\ table \in Indices \cup {None}
    /\ records \in Seq(Admissions)
    /\ uses \in [1..MaxUses -> Uses \cup {None}]
    /\ \A u \in 1..MaxUses : uses[u] # None => uses[u].rec \in Indices
    /\ pc \in [Threads -> Places] /\ at \in [Threads -> Locals]
    /\ \A t \in Threads :
         /\ at[t].rec \in Indices \cup {None}
         /\ pc[t] \in AtRecord => at[t].rec \in Indices
         /\ pc[t] \in AtProvider => at[t].provider \in Providers
         /\ pc[t] \in AtClose => at[t].asker \in {"only", "drop", "finish"}
    /\ {dropping, retired, dropped} \subseteq BOOLEAN

\* The uses of a record that a thread holds.
HeldUses(r, t) == {u \in OpenUses(r) : uses[u].holder = t}

\* The counts of a record are those of its open uses.
CountInv ==
    \A r \in Indices :
        /\ records[r].count = Cardinality(OpenUses(r))
        /\ \A t \in Threads : records[r].holders[t] = Cardinality(HeldUses(r, t))

\* A close waits for a record that admits nobody; what it has waited for stays
\* unused; a retained drop waits for a use that is open.
CloseInv ==
    /\ \A r \in Indices :
         /\ records[r].waited => records[r].closing /\ records[r].count = 0
         /\ records[r].pending => records[r].count > 0
    /\ \A t \in Threads :
         /\ pc[t] \in {"unlist", "returned", "asks", "wait"} => records[at[t].rec].closing
         /\ pc[t] = "wait" /\ at[t].asker = "drop" => records[at[t].rec].holders[t] = 0

IInv == Shape /\ CountInv /\ CloseInv

-----------------------------------------------------------------------------
(* Records and threads.                                                     *)

\* What a record and a thread's locals are.
LEMMA Parts ==
    ASSUME Shape
    PROVE  /\ Len(records) \in Nat /\ MaxUses \in Nat
           /\ \A r \in Indices : records[r] \in Admissions
           /\ \A t \in Threads : at[t] \in Locals /\ pc[t] \in Places
           /\ Nothing \in Locals /\ Nothing.rec = None /\ Nothing.provider = None
           /\ \A u \in 1..MaxUses : uses[u] # None => uses[u] \in Uses
<1>1. Len(records) \in Nat
  BY LenProperties DEF Shape
<1>2. \A r \in Indices : records[r] \in Admissions
  BY ElementOfSeq DEF Shape, Indices
<1> QED
  BY <1>1, <1>2, UseAssumption DEF Shape, Nothing, Local, Locals

\* A record is replaced.
LEMMA ChangeRecord ==
    ASSUME Shape, NEW r \in Indices, NEW e \in Admissions, records' = [records EXCEPT ![r] = e]
    PROVE  /\ records' \in Seq(Admissions) /\ Len(records') = Len(records) /\ Indices' = Indices
           /\ records'[r] = e /\ \A q \in Indices : q # r => records'[q] = records[q]
<1>1. records \in Seq(Admissions) /\ r \in 1..Len(records)
  BY DEF Shape, Indices
<1> QED
  BY <1>1, ExceptSeq DEF Indices

\* A record is made.
LEMMA MakeRecord ==
    ASSUME Shape, NEW p \in Providers, records' = Append(records, Admission(p))
    PROVE  /\ records' \in Seq(Admissions) /\ Len(records') = Len(records) + 1
           /\ Len(records') \in Nat /\ Len(records') \notin Indices
           /\ Indices' = Indices \cup {Len(records')}
           /\ records'[Len(records')] = Admission(p)
           /\ \A q \in Indices : records'[q] = records[q]
<1>1. Admission(p) \in Admissions
  BY DEF Admission, Admissions, NoHolders
<1>2. records \in Seq(Admissions) /\ Len(records) \in Nat
  BY Parts DEF Shape
<1>3. /\ records' \in Seq(Admissions) /\ Len(records') = Len(records) + 1
      /\ records'[Len(records')] = Admission(p)
      /\ \A q \in Indices : records'[q] = records[q]
  BY <1>1, <1>2, AppendProperties DEF Indices
<1> QED
  BY <1>2, <1>3 DEF Indices

\* A thread moves, with its new locals.
Moves(t, x, l) == pc' = [pc EXCEPT ![t] = x] /\ at' = [at EXCEPT ![t] = l]

\* What a step that moves one thread must show.
LEMMA ShapeMove ==
    ASSUME Shape, NEW t \in Threads, NEW x \in Places, NEW l \in Locals, Moves(t, x, l),
           Indices \subseteq Indices', records' \in Seq(Admissions),
           l.rec \in Indices' \cup {None}, x \in AtRecord => l.rec \in Indices',
           x \in AtProvider => l.provider \in Providers,
           x \in AtClose => l.asker \in {"only", "drop", "finish"},
           row' \in Providers \cup {None}, table' \in Indices' \cup {None},
           uses' \in [1..MaxUses -> Uses \cup {None}],
           \A u \in 1..MaxUses : uses'[u] # None => uses'[u].rec \in Indices',
           {dropping', retired', dropped'} \subseteq BOOLEAN
    PROVE  Shape'
<1>1. /\ pc' \in [Threads -> Places] /\ at' \in [Threads -> Locals]
      /\ pc'[t] = x /\ at'[t] = l
      /\ \A s \in Threads : s # t => pc'[s] = pc[s] /\ at'[s] = at[s]
  BY DEF Shape, Moves
<1>2. ASSUME NEW s \in Threads
      PROVE  /\ at'[s].rec \in Indices' \cup {None}
             /\ pc'[s] \in AtRecord => at'[s].rec \in Indices'
             /\ pc'[s] \in AtProvider => at'[s].provider \in Providers
             /\ pc'[s] \in AtClose => at'[s].asker \in {"only", "drop", "finish"}
  BY <1>1 DEF Shape
<1> QED
  BY <1>1, <1>2 DEF Shape

\* A thread moves, and no closing record is opened again: the close stays in order.
LEMMA CloseMove ==
    ASSUME Shape, CloseInv, NEW t \in Threads, NEW x, NEW l, Moves(t, x, l),
           x \in {"unlist", "returned", "asks", "wait"} => records'[l.rec].closing,
           x = "wait" /\ l.asker = "drop" => records'[l.rec].holders[t] = 0,
           \A r \in Indices : records[r].closing =>
               /\ records'[r].closing
               /\ \A s \in Threads : s # t /\ records[r].holders[s] = 0 => records'[r].holders[s] = 0,
           \A r \in Indices' :
               /\ records'[r].waited => records'[r].closing /\ records'[r].count = 0
               /\ records'[r].pending => records'[r].count > 0
    PROVE  CloseInv'
<1>1. /\ pc'[t] = x /\ at'[t] = l
      /\ \A s \in Threads : s # t => pc'[s] = pc[s] /\ at'[s] = at[s]
  BY DEF Shape, Moves
<1>2. ASSUME NEW s \in Threads
      PROVE  /\ pc'[s] \in {"unlist", "returned", "asks", "wait"} => records'[at'[s].rec].closing
             /\ pc'[s] = "wait" /\ at'[s].asker = "drop" => records'[at'[s].rec].holders[s] = 0
  <2>1. CASE s = t
    BY <1>1, <2>1
  <2>2. CASE s # t
    <3>1. pc[s] \in {"unlist", "returned", "asks", "wait"} => at[s].rec \in Indices
      BY DEF Shape, AtRecord
    <3> QED
      BY <1>1, <2>2, <3>1 DEF CloseInv
  <2> QED
    BY <2>1, <2>2
<1> QED
  BY <1>2 DEF CloseInv

\* A step that leaves the counts alone.
LEMMA SameCounts ==
    ASSUME Shape, CountInv, UNCHANGED uses, Indices \subseteq Indices',
           \A r \in Indices : /\ records'[r].count = records[r].count
                              /\ records'[r].holders = records[r].holders,
           \A r \in Indices' : r \notin Indices =>
               records'[r].count = 0 /\ \A t \in Threads : records'[r].holders[t] = 0
    PROVE  CountInv'
<1>1. ASSUME NEW r \in Indices'
      PROVE  /\ records'[r].count = Cardinality(OpenUses(r)')
             /\ \A t \in Threads : records'[r].holders[t] = Cardinality(HeldUses(r, t)')
  <2>1. OpenUses(r)' = OpenUses(r) /\ \A t \in Threads : HeldUses(r, t)' = HeldUses(r, t)
    BY DEF OpenUses, HeldUses
  <2>2. CASE r \in Indices
    BY <2>1, <2>2 DEF CountInv
  <2>3. CASE r \notin Indices
    <3>1. OpenUses(r) = {} /\ \A t \in Threads : HeldUses(r, t) = {}
      BY <2>3 DEF Shape, OpenUses, HeldUses
    <3> QED
      BY <2>1, <2>3, <3>1, FS_EmptySet
  <2> QED
    BY <2>2, <2>3
<1> QED
  BY <1>1 DEF CountInv

-----------------------------------------------------------------------------
(* Counting.                                                                *)

\* Uses are finitely many.
LEMMA FiniteUses ==
    ASSUME NEW r, NEW t
    PROVE  /\ IsFiniteSet(OpenUses(r)) /\ IsFiniteSet(HeldUses(r, t))
           /\ Cardinality(OpenUses(r)) \in Nat /\ Cardinality(HeldUses(r, t)) \in Nat
           /\ Cardinality(OpenUses(r)) <= MaxUses /\ Cardinality(HeldUses(r, t)) <= MaxUses
           /\ Cardinality(OpenUses(r)) = 0 <=> OpenUses(r) = {}
<1>1. IsFiniteSet(1..MaxUses) /\ Cardinality(1..MaxUses) = MaxUses
  <2>1. MaxUses \in Nat /\ (1 > MaxUses => MaxUses = 0)
    BY UseAssumption
  <2> QED
    BY <2>1, FS_Interval
<1>2. OpenUses(r) \in SUBSET (1..MaxUses) /\ HeldUses(r, t) \in SUBSET (1..MaxUses)
  BY DEF OpenUses, HeldUses
<1>3. /\ IsFiniteSet(OpenUses(r)) /\ IsFiniteSet(HeldUses(r, t))
      /\ Cardinality(OpenUses(r)) <= MaxUses /\ Cardinality(HeldUses(r, t)) <= MaxUses
  <2>1. \A S \in SUBSET (1..MaxUses) : IsFiniteSet(S) /\ Cardinality(S) <= MaxUses
    BY <1>1, FS_Subset
  <2> QED
    BY <1>2, <2>1
<1> QED
  BY <1>3, FS_CardinalityType, FS_EmptySet

\* A record with other counts, and a table of records with other counts.
LEMMA OtherCounts ==
    ASSUME NEW a \in Admissions, NEW hs \in [Threads -> Nat], NEW c \in Nat
    PROVE  LET e == [a EXCEPT !.count = c, !.holders = hs]
           IN  /\ e \in Admissions /\ e.count = c /\ e.holders = hs
               /\ e.closing = a.closing /\ e.pending = a.pending /\ e.waited = a.waited
  BY DEF Admissions

\* What a release makes of a record.
CountedOut(a, h, last) ==
    [a EXCEPT !.count = @ - 1, !.holders = [a.holders EXCEPT ![h] = @ - 1],
              !.pending = a.pending /\ ~last]

\* A record that is counted out is a record still.
LEMMA CountedOutParts ==
    ASSUME NEW a \in Admissions, NEW h \in Threads, NEW last, a.count # 0, a.holders[h] # 0
    PROVE  LET e == CountedOut(a, h, last)
           IN  /\ e \in Admissions /\ e.count = a.count - 1
               /\ e.holders[h] = a.holders[h] - 1
               /\ \A s \in Threads : s # h => e.holders[s] = a.holders[s]
               /\ e.closing = a.closing /\ e.pending = (a.pending /\ ~last)
               /\ e.waited = a.waited
<1>1. /\ a.count - 1 \in Nat /\ [a.holders EXCEPT ![h] = @ - 1] \in [Threads -> Nat]
      /\ (a.pending /\ ~last) \in BOOLEAN
  BY DEF Admissions
<1> QED
  BY <1>1 DEF CountedOut, Admissions

\* A release counts out the record of its use.
LEMMA ReleaseCountsOut ==
    ASSUME Shape, NEW t, NEW u \in 1..MaxUses, Release(t, u)
    PROVE  records' = [records EXCEPT ![uses[u].rec] =
               CountedOut(records[uses[u].rec], uses[u].holder, records[uses[u].rec].count = 1)]
<1>1. uses[u].rec \in 1..Len(records) /\ Len(records) \in Nat
  BY Parts DEF Shape, Release, Indices
<1>2. records \in [1..Len(records) -> Admissions]
  BY LenProperties DEF Shape
<1> HIDE DEF Shape
<1> QED
  BY <1>1, <1>2, ZenonT(60) DEF CountedOut, Admissions, Release, HolderOf

\* A use begins: it is counted once, for the thread that holds it.
LEMMA CountUse ==
    ASSUME Shape, CountInv, NEW t \in Threads, NEW r \in Indices, NEW u \in 1..MaxUses,
           uses[u] = None, uses' = [uses EXCEPT ![u] = [rec |-> r, holder |-> t]],
           records' = [records EXCEPT ![r].count = @ + 1, ![r].holders[t] = @ + 1]
    PROVE  /\ records' \in Seq(Admissions) /\ Indices' = Indices
           /\ uses' \in [1..MaxUses -> Uses \cup {None}]
           /\ \A v \in 1..MaxUses : uses'[v] # None => uses'[v].rec \in Indices
           /\ \A q \in Indices : q # r => records'[q] = records[q]
           /\ records'[r].count = records[r].count + 1 /\ records[r].count \in Nat
           /\ records'[r].closing = records[r].closing
           /\ records'[r].pending = records[r].pending
           /\ records'[r].waited = records[r].waited
           /\ CountInv'
<1> DEFINE hs == [records[r].holders EXCEPT ![t] = @ + 1]
           e == [records[r] EXCEPT !.count = @ + 1, !.holders = hs]
           use == [rec |-> r, holder |-> t]
<1>1. records[r] \in Admissions /\ r \in Nat
  BY Parts DEF Indices
<1>2. /\ e \in Admissions /\ e.count = records[r].count + 1 /\ records[r].count \in Nat
      /\ e.holders[t] = records[r].holders[t] + 1
      /\ \A s \in Threads : s # t => e.holders[s] = records[r].holders[s]
      /\ e.closing = records[r].closing /\ e.pending = records[r].pending /\ e.waited = records[r].waited
  <2>1. records[r].holders \in [Threads -> Nat] /\ records[r].count \in Nat
    BY <1>1 DEF Admissions
  <2>2. /\ hs \in [Threads -> Nat] /\ hs[t] = records[r].holders[t] + 1
        /\ \A s \in Threads : s # t => hs[s] = records[r].holders[s]
    BY <2>1
  <2>3. records[r].count + 1 \in Nat
    BY <2>1
  <2> HIDE DEF hs
  <2>4. /\ e \in Admissions /\ e.count = records[r].count + 1 /\ e.holders = hs
        /\ e.closing = records[r].closing /\ e.pending = records[r].pending /\ e.waited = records[r].waited
    BY <1>1, <2>2, <2>3, OtherCounts, ZenonT(60)
  <2> QED
    BY <2>1, <2>2, <2>3, <2>4
<1>3. records' = [records EXCEPT ![r] = e]
  OBVIOUS
<1>4. /\ records' \in Seq(Admissions) /\ Indices' = Indices /\ records'[r] = e
      /\ \A q \in Indices : q # r => records'[q] = records[q]
  BY <1>2, <1>3, ChangeRecord, ZenonT(60)
<1>5. use \in Uses /\ use # None /\ use.rec = r /\ use.holder = t
  BY <1>1, UseAssumption DEF Uses
<1>6. /\ uses' \in [1..MaxUses -> Uses \cup {None}] /\ uses'[u] = use
      /\ \A v \in 1..MaxUses : v # u => uses'[v] = uses[v]
  BY <1>5 DEF Shape
<1>7. ASSUME NEW q \in Indices, q # r
      PROVE  OpenUses(q)' = OpenUses(q) /\ \A s \in Threads : HeldUses(q, s)' = HeldUses(q, s)
  <2>1. OpenUses(q)' = OpenUses(q)
    BY <1>5, <1>6, <1>7 DEF OpenUses
  <2> QED
    BY <1>6, <2>1 DEF HeldUses, OpenUses
<1>8. OpenUses(r)' = OpenUses(r) \cup {u} /\ u \notin OpenUses(r)
  BY <1>5, <1>6 DEF OpenUses
<1>9. HeldUses(r, t)' = HeldUses(r, t) \cup {u} /\ u \notin HeldUses(r, t)
  BY <1>5, <1>6, <1>8 DEF HeldUses, OpenUses
<1>10. \A s \in Threads : s # t => HeldUses(r, s)' = HeldUses(r, s)
  BY <1>5, <1>6, <1>8 DEF HeldUses, OpenUses
<1>11. /\ Cardinality(OpenUses(r)') = Cardinality(OpenUses(r)) + 1
       /\ Cardinality(HeldUses(r, t)') = Cardinality(HeldUses(r, t)) + 1
  BY <1>8, <1>9, FiniteUses, FS_AddElement
<1>12. CountInv'
  <2>1. ASSUME NEW q \in Indices, q # r
        PROVE  /\ records'[q].count = Cardinality(OpenUses(q)')
               /\ \A s \in Threads : records'[q].holders[s] = Cardinality(HeldUses(q, s)')
    BY <1>4, <1>7, <2>1, ZenonT(60) DEF CountInv
  <2>2. records'[r].count = Cardinality(OpenUses(r)')
    BY <1>2, <1>4, <1>11 DEF CountInv
  <2>3. records'[r].holders[t] = Cardinality(HeldUses(r, t)')
    BY <1>2, <1>4, <1>11 DEF CountInv
  <2>4. ASSUME NEW s \in Threads, s # t
        PROVE  records'[r].holders[s] = Cardinality(HeldUses(r, s)')
    BY <1>2, <1>4, <1>10, <2>4 DEF CountInv
  <2> QED
    BY <1>4, <2>1, <2>2, <2>3, <2>4 DEF CountInv
<1> QED
  BY <1>2, <1>4, <1>5, <1>6, <1>12 DEF Shape

\* How the table of records stands after a use of record r, held by thread h.
OneLess(r, h, last) ==
    /\ records' \in Seq(Admissions) /\ Indices' = Indices
    /\ uses' \in [1..MaxUses -> Uses \cup {None}]
    /\ \A v \in 1..MaxUses : uses'[v] # None => uses'[v].rec \in Indices
    /\ \A q \in Indices : q # r => records'[q] = records[q]
    /\ records[r].count \in Nat \ {0} /\ records'[r].count = records[r].count - 1
    /\ records[r].holders[h] # 0
    /\ \A s \in Threads : s # h => records'[r].holders[s] = records[r].holders[s]
    /\ records'[r].closing = records[r].closing
    /\ (records'[r].pending => records[r].pending /\ ~last)
    /\ records'[r].waited = records[r].waited
    /\ CountInv'

\* A use ends, and the thread that held it is the one counted out.
LEMMA CountRelease ==
    ASSUME Shape, CountInv, NEW u \in 1..MaxUses, NEW r \in Indices, NEW h \in Threads,
           uses[u] # None, uses[u].rec = r, uses[u].holder = h, NEW last,
           uses' = [uses EXCEPT ![u] = None],
           records' = [records EXCEPT ![r] = CountedOut(records[r], h, last)]
    PROVE  OneLess(r, h, last)
<1> DEFINE e == CountedOut(records[r], h, last)
<1>1. records[r] \in Admissions
  BY Parts
<1>2. u \in OpenUses(r) /\ u \in HeldUses(r, h)
  BY DEF OpenUses, HeldUses
<1>3. /\ records[r].count = Cardinality(OpenUses(r))
      /\ \A s \in Threads : records[r].holders[s] = Cardinality(HeldUses(r, s))
  BY DEF CountInv
<1>4. records[r].count \in Nat \ {0} /\ records[r].holders[h] # 0
  <2>1. Cardinality(OpenUses(r)) \in Nat \ {0}
    BY <1>2, FiniteUses
  <2>2. Cardinality(HeldUses(r, h)) # 0
    BY <1>2, FiniteUses, FS_EmptySet
  <2> QED
    BY <1>3, <2>1, <2>2
<1>5. /\ e \in Admissions /\ e.count = records[r].count - 1
      /\ e.holders[h] = records[r].holders[h] - 1
      /\ \A s \in Threads : s # h => e.holders[s] = records[r].holders[s]
      /\ e.closing = records[r].closing /\ e.pending = (records[r].pending /\ ~last)
      /\ e.waited = records[r].waited
  BY <1>1, <1>4, CountedOutParts
<1> HIDE DEF e
<1>7. /\ records' \in Seq(Admissions) /\ Indices' = Indices /\ records'[r] = e
      /\ \A q \in Indices : q # r => records'[q] = records[q]
  <2>1. records' = [records EXCEPT ![r] = e]
    BY DEF e
  <2>2. e \in Admissions
    BY <1>5
  <2> QED
    BY <2>1, <2>2, ChangeRecord
<1>8. /\ uses' \in [1..MaxUses -> Uses \cup {None}] /\ uses'[u] = None
      /\ \A v \in 1..MaxUses : v # u => uses'[v] = uses[v]
  BY DEF Shape
<1>9. ASSUME NEW q \in Indices, q # r
      PROVE  OpenUses(q)' = OpenUses(q) /\ \A s \in Threads : HeldUses(q, s)' = HeldUses(q, s)
  <2>1. OpenUses(q)' = OpenUses(q)
    BY <1>8, <1>9 DEF OpenUses
  <2> QED
    BY <1>8, <2>1 DEF HeldUses, OpenUses
<1>10. OpenUses(r)' = OpenUses(r) \ {u}
  BY <1>8 DEF OpenUses
<1>11. HeldUses(r, h)' = HeldUses(r, h) \ {u}
  BY <1>8, <1>10 DEF HeldUses, OpenUses
<1>12. \A s \in Threads : s # h => HeldUses(r, s)' = HeldUses(r, s)
  BY <1>8, <1>10 DEF HeldUses, OpenUses
<1>13. /\ Cardinality(OpenUses(r)') = Cardinality(OpenUses(r)) - 1
       /\ Cardinality(HeldUses(r, h)') = Cardinality(HeldUses(r, h)) - 1
  <2>1. \A S : IsFiniteSet(S) /\ u \in S => Cardinality(S \ {u}) = Cardinality(S) - 1
    BY FS_RemoveElement
  <2>2. IsFiniteSet(OpenUses(r)) /\ IsFiniteSet(HeldUses(r, h))
    BY FiniteUses
  <2> QED
    BY <1>2, <1>10, <1>11, <2>1, <2>2
<1>14. CountInv'
  <2>1. ASSUME NEW q \in Indices, q # r
        PROVE  /\ records'[q].count = Cardinality(OpenUses(q)')
               /\ \A s \in Threads : records'[q].holders[s] = Cardinality(HeldUses(q, s)')
    BY <1>7, <1>9, <2>1 DEF CountInv
  <2>2. records'[r].count = Cardinality(OpenUses(r)')
    BY <1>3, <1>5, <1>7, <1>13
  <2>3. records'[r].holders[h] = Cardinality(HeldUses(r, h)')
    BY <1>3, <1>5, <1>7, <1>13
  <2>4. ASSUME NEW s \in Threads, s # h
        PROVE  records'[r].holders[s] = Cardinality(HeldUses(r, s)')
    BY <1>3, <1>5, <1>7, <1>12, <2>4
  <2> QED
    BY <1>7, <2>1, <2>2, <2>3, <2>4 DEF CountInv
<1>15. \A v \in 1..MaxUses : uses'[v] # None => uses'[v].rec \in Indices
  BY <1>8 DEF Shape
<1> QED
  BY <1>4, <1>5, <1>7, <1>8, <1>14, <1>15 DEF OneLess

-----------------------------------------------------------------------------
(* Steps.                                                                   *)

\* Where a thread may go with which locals, as the table of records stands.
MayGo(t, x, l) ==
    /\ x \in Places /\ l \in Locals
    /\ l.rec \in Indices' \cup {None}
    /\ x \in AtRecord => l.rec \in Indices'
    /\ x \in AtProvider => l.provider \in Providers
    /\ x \in AtClose => l.asker \in {"only", "drop", "finish"}
    /\ x \in {"unlist", "returned", "asks", "wait"} => records'[l.rec].closing
    /\ x = "wait" /\ l.asker = "drop" => records'[l.rec].holders[t] = 0

\* The row, the table and the handle are what they can be.
Surroundings ==
    /\ row' \in Providers \cup {None} /\ table' \in Indices' \cup {None}
    /\ {dropping', retired', dropped'} \subseteq BOOLEAN

\* A step of one thread that leaves records and uses alone.
LEMMA ThreadStep ==
    ASSUME IInv, NEW t \in Threads, NEW x, NEW l, Moves(t, x, l),
           UNCHANGED <<records, uses>>, MayGo(t, x, l), Surroundings
    PROVE  IInv'
<1>1. Indices' = Indices /\ records' = records /\ uses' = uses
  BY DEF Indices
<1>2. Shape'
  BY <1>1, ShapeMove DEF IInv, Shape, MayGo, Surroundings
<1>3. CountInv'
  BY <1>1, SameCounts DEF IInv
<1>4. CloseInv'
  BY <1>1, CloseMove DEF IInv, CloseInv, MayGo
<1> QED
  BY <1>2, <1>3, <1>4 DEF IInv

\* A step of one thread that changes the flags of one record.
LEMMA FlagStep ==
    ASSUME IInv, NEW t \in Threads, NEW x, NEW l, Moves(t, x, l),
           NEW r \in Indices, NEW e \in Admissions, records' = [records EXCEPT ![r] = e],
           e.count = records[r].count, e.holders = records[r].holders,
           records[r].closing => e.closing, e.waited => e.closing /\ e.count = 0,
           e.pending => e.count > 0, UNCHANGED uses, MayGo(t, x, l), Surroundings
    PROVE  IInv'
<1>1. /\ records' \in Seq(Admissions) /\ Indices' = Indices /\ records'[r] = e
      /\ \A q \in Indices : q # r => records'[q] = records[q]
  BY ChangeRecord DEF IInv
<1>2. Shape'
  BY <1>1, ShapeMove DEF IInv, Shape, MayGo, Surroundings
<1>3. CountInv'
  BY <1>1, SameCounts DEF IInv
<1>4. CloseInv'
  <2>1. \A q \in Indices : records[q].closing =>
            /\ records'[q].closing
            /\ \A s \in Threads : s # t /\ records[q].holders[s] = 0 => records'[q].holders[s] = 0
    BY <1>1
  <2>2. \A q \in Indices' :
            /\ records'[q].waited => records'[q].closing /\ records'[q].count = 0
            /\ records'[q].pending => records'[q].count > 0
    BY <1>1 DEF IInv, CloseInv
  <2> QED
    BY <1>1, <2>1, <2>2, CloseMove DEF IInv, MayGo
<1> QED
  BY <1>2, <1>3, <1>4 DEF IInv

\* A step of one thread that makes a record.
LEMMA MakeStep ==
    ASSUME IInv, NEW t \in Threads, NEW x, NEW l, Moves(t, x, l),
           NEW p \in Providers, records' = Append(records, Admission(p)),
           UNCHANGED uses, MayGo(t, x, l), Surroundings
    PROVE  IInv'
<1>1. /\ records' \in Seq(Admissions) /\ Len(records') \notin Indices
      /\ Indices' = Indices \cup {Len(records')}
      /\ records'[Len(records')] = Admission(p)
      /\ \A q \in Indices : records'[q] = records[q]
  BY MakeRecord DEF IInv
<1>2. /\ Admission(p).count = 0 /\ \A s \in Threads : Admission(p).holders[s] = 0
      /\ Admission(p).waited = FALSE /\ Admission(p).pending = FALSE
  BY DEF Admission, NoHolders
<1>3. Shape'
  BY <1>1, ShapeMove DEF IInv, Shape, MayGo, Surroundings
<1>4. CountInv'
  <2>1. Indices \subseteq Indices' /\ \A q \in Indices' : q \notin Indices => q = Len(records')
    BY <1>1
  <2>2. \A q \in Indices' : q \notin Indices =>
            records'[q].count = 0 /\ \A s \in Threads : records'[q].holders[s] = 0
    BY <1>1, <2>1, <1>2
  <2> QED
    BY <1>1, <2>1, <2>2, SameCounts DEF IInv
<1>5. CloseInv'
  <2>1. \A q \in Indices : records[q].closing =>
            /\ records'[q].closing
            /\ \A s \in Threads : s # t /\ records[q].holders[s] = 0 => records'[q].holders[s] = 0
    BY <1>1
  <2>2. \A q \in Indices' :
            /\ records'[q].waited => records'[q].closing /\ records'[q].count = 0
            /\ records'[q].pending => records'[q].count > 0
    <3>1. ASSUME NEW q \in Indices
          PROVE  /\ records'[q].waited => records'[q].closing /\ records'[q].count = 0
                 /\ records'[q].pending => records'[q].count > 0
      BY <1>1 DEF IInv, CloseInv
    <3> QED
      BY <1>1, <1>2, <3>1
  <2> QED
    BY <1>1, <2>1, <2>2, CloseMove DEF IInv, MayGo
<1> QED
  BY <1>3, <1>4, <1>5 DEF IInv

\* What a thread finds when nothing of the tables changes.
LEMMA Here ==
    ASSUME IInv, NEW t \in Threads
    PROVE  /\ at[t] \in Locals /\ pc[t] \in Places
           /\ at[t].rec \in Indices \cup {None}
           /\ pc[t] \in AtRecord => at[t].rec \in Indices
           /\ pc[t] \in AtProvider => at[t].provider \in Providers
           /\ pc[t] \in AtClose => at[t].asker \in {"only", "drop", "finish"}
           /\ pc[t] \in {"unlist", "returned", "asks", "wait"} => records[at[t].rec].closing
           /\ at = [at EXCEPT ![t] = at[t]]
           /\ row \in Providers \cup {None} /\ table \in Indices \cup {None}
           /\ dropping \in BOOLEAN /\ retired \in BOOLEAN /\ dropped \in BOOLEAN
           /\ Nothing \in Locals /\ Nothing.rec = None
           /\ \A q \in Indices : q \in Nat /\ records[q] \in Admissions
<1>1. /\ Nothing \in Locals /\ Nothing.rec = None /\ at[t] \in Locals /\ pc[t] \in Places
      /\ \A q \in Indices : q \in Nat /\ records[q] \in Admissions
  BY Parts DEF IInv, Indices
<1>2. at = [at EXCEPT ![t] = at[t]]
  BY DEF IInv, Shape
<1> QED
  BY <1>1, <1>2 DEF IInv, Shape, CloseInv

\* A thread that ends its operation, or goes where no record is needed.
LEMMA GoEnd ==
    ASSUME NEW t, NEW x \in {"idle", "drop", "teardown", "retire", "finish", "close"},
           NEW l \in Locals, l.rec \in Indices' \cup {None}
    PROVE  MayGo(t, x, l)
  BY DEF MayGo, Places, AtRecord, AtProvider, AtClose, AtEnd

\* The door.
LEMMA DoorSteps ==
    ASSUME IInv, NEW t \in Threads, Look(t) \/ ReadRow(t) \/ Gone(t)
    PROVE  IInv'
<1>1. Indices' = Indices /\ records' = records /\ uses' = uses
  BY DEF Look, ReadRow, Gone, Indices
<1>2. CASE Look(t)
  <2> DEFINE l == Local(table, None, "door")
  <2>1. l \in Locals /\ l.rec = table /\ table \in Indices
    BY <1>2, Here DEF Look, Local, Locals
  <2>2. Moves(t, "row", l) /\ Surroundings
    BY <1>1, <1>2, Here DEF Look, Moves, To, Surroundings, handle
  <2> HIDE DEF l
  <2>3. MayGo(t, "row", l)
    BY <1>1, <2>1 DEF MayGo, Places, AtRecord, AtProvider, AtClose, AtEnd
  <2> QED
    BY <1>1, <2>2, <2>3, ThreadStep
<1>3. CASE ReadRow(t)
  <2> DEFINE l == [at[t] EXCEPT !.provider = row]
             x == CASE row = None -> "gone" [] row = Rec(t).provider -> "hold" [] OTHER -> "stale"
  <2>1. at[t].rec \in Indices
    BY <1>3, Here DEF ReadRow, AtRecord
  <2>2. l \in Locals /\ l.rec \in Indices /\ l.provider = row /\ row \in Providers \cup {None}
    BY <2>1, Here DEF Locals
  <2>3. Moves(t, x, l) /\ Surroundings
    BY <1>1, <1>3, Here DEF ReadRow, Moves, To, Surroundings, handle
  <2>4. x \in {"gone", "hold", "stale"} /\ (x = "stale" => row # None)
    OBVIOUS
  <2> HIDE DEF l, x
  <2>5. MayGo(t, x, l)
    BY <1>1, <2>2, <2>4 DEF MayGo, Places, AtRecord, AtProvider, AtClose, AtEnd
  <2> QED
    BY <1>1, <2>3, <2>5, ThreadStep
<1>4. CASE Gone(t)
  <2>1. Moves(t, "idle", Nothing)
    BY <1>4 DEF Gone, Ends, To, Moves
  <2>2. Surroundings
    BY <1>1, <1>4, Here DEF Gone, Unlist, Surroundings, handle
  <2>3. MayGo(t, "idle", Nothing)
    BY <1>1, Here, GoEnd
  <2> QED
    BY <1>1, <2>1, <2>2, <2>3, ThreadStep
<1> QED
  BY <1>2, <1>3, <1>4

\* What follows the last release, and the steps of register_provider.
LEMMA RegisterSteps ==
    ASSUME IInv, NEW t \in Threads,
           AfterLast(t) \/ (\E p \in Providers : Register(t, p)) \/ Publish(t)
    PROVE  IInv'
<1>1. Indices' = Indices /\ records' = records /\ uses' = uses
  BY DEF AfterLast, Register, Publish, Indices
<1>2. CASE AfterLast(t)
  <2>1. /\ Moves(t, "idle", Nothing) \/ Moves(t, "drop", Nothing)
        /\ Surroundings
    BY <1>1, <1>2, Here DEF AfterLast, Ends, To, Moves, Forget, Unlist, Surroundings
  <2>2. MayGo(t, "idle", Nothing) /\ MayGo(t, "drop", Nothing)
    BY <1>1, Here, GoEnd
  <2> QED
    BY <1>1, <2>1, <2>2, ThreadStep
<1>3. ASSUME NEW p \in Providers, Register(t, p)
      PROVE  IInv'
  <2> DEFINE l == Local(None, p, "door")
  <2>1. l \in Locals /\ l.rec = None /\ l.provider = p
    BY DEF Local, Locals
  <2>2. Moves(t, "publish", l) /\ Surroundings
    BY <1>1, <1>3, Here DEF Register, Moves, To, Surroundings, handle
  <2> HIDE DEF l
  <2>3. MayGo(t, "publish", l)
    BY <2>1 DEF MayGo, Places, AtRecord, AtProvider, AtClose, AtEnd
  <2> QED
    BY <1>1, <2>2, <2>3, ThreadStep
<1>4. CASE Publish(t)
  <2>1. at[t].provider \in Providers
    BY <1>4, Here DEF Publish, AtProvider
  <2>2. Surroundings /\ (Moves(t, "enlist", at[t]) \/ Moves(t, "idle", Nothing))
    BY <1>1, <1>4, <2>1, Here DEF Publish, Ends, To, Moves, Surroundings, handle
  <2>3. MayGo(t, "enlist", at[t])
    BY <1>1, <2>1, Here DEF MayGo, Places, AtRecord, AtProvider, AtClose, AtEnd
  <2>4. MayGo(t, "idle", Nothing)
    BY <1>1, Here, GoEnd
  <2> QED
    BY <1>1, <2>2, <2>3, <2>4, ThreadStep
<1> QED
  BY <1>2, <1>3, <1>4

\* unregister_provider, where it changes no record.
LEMMA UnregisterSteps ==
    ASSUME IInv, NEW t \in Threads,
           Unregister(t) \/ RemoveRow(t) \/ UnlistShut(t) \/ Return(t)
    PROVE  IInv'
<1>1. Indices' = Indices /\ records' = records /\ uses' = uses
  BY DEF Unregister, RemoveRow, UnlistShut, Return, Indices
<1>2. CASE Unregister(t)
  <2> DEFINE l == Local(None, row, "only")
  <2>1. l \in Locals /\ l.rec = None /\ l.asker = "only"
    BY Here DEF Local, Locals
  <2>2. Moves(t, "fetch", l) /\ Surroundings
    BY <1>1, <1>2, Here DEF Unregister, Moves, To, Surroundings, handle
  <2> HIDE DEF l
  <2>3. MayGo(t, "fetch", l)
    BY <2>1 DEF MayGo, Places, AtRecord, AtProvider, AtClose, AtEnd
  <2> QED
    BY <1>1, <2>2, <2>3, ThreadStep
<1>3. CASE RemoveRow(t)
  <2>1. at[t].rec \in Indices /\ at[t].asker \in {"only", "drop", "finish"}
    BY <1>3, Here DEF RemoveRow, AtRecord, AtClose
  <2>2. Surroundings /\ (Moves(t, "shut", at[t]) \/ Moves(t, "idle", Nothing))
    BY <1>1, <1>3, Here DEF RemoveRow, Ends, To, Moves, Surroundings, handle
  <2>3. MayGo(t, "shut", at[t])
    BY <1>1, <2>1, Here DEF MayGo, Places, AtRecord, AtProvider, AtClose, AtEnd
  <2>4. MayGo(t, "idle", Nothing)
    BY <1>1, Here, GoEnd
  <2> QED
    BY <1>1, <2>2, <2>3, <2>4, ThreadStep
<1>4. CASE UnlistShut(t)
  <2>1. /\ at[t].rec \in Indices /\ at[t].asker \in {"only", "drop", "finish"}
        /\ records[at[t].rec].closing
    BY <1>4, Here DEF UnlistShut, AtRecord, AtClose
  <2>2. /\ Returned(t) \in {"returned", "asks", "wait"}
        /\ Returned(t) = "wait" => at[t].asker # "drop"
    BY <2>1 DEF Returned
  <2>3. Surroundings /\ Moves(t, Returned(t), at[t])
    BY <1>1, <1>4, Here DEF UnlistShut, Unlist, To, Moves, Surroundings, handle
  <2>4. MayGo(t, Returned(t), at[t])
    BY <1>1, <2>1, <2>2, Here DEF MayGo, Places, AtRecord, AtProvider, AtClose, AtEnd
  <2> QED
    BY <1>1, <2>3, <2>4, ThreadStep
<1>5. CASE Return(t)
  <2>1. Moves(t, "idle", Nothing) /\ Surroundings
    BY <1>1, <1>5, Here DEF Return, Ends, To, Moves, Surroundings, handle
  <2>2. MayGo(t, "idle", Nothing)
    BY <1>1, Here, GoEnd
  <2> QED
    BY <1>1, <2>1, <2>2, ThreadStep
<1> QED
  BY <1>2, <1>3, <1>4, <1>5

\* drop() of the handle, where it changes no record.
LEMMA DropSteps ==
    ASSUME IInv, NEW t \in Threads,
           \/ Drop(t) \/ Enter(t) \/ Asks(t)
           \/ Teardown(t) \/ Retire(t) \/ Finish(t) \/ CloseBacking(t)
    PROVE  IInv'
<1>1. Indices' = Indices /\ records' = records /\ uses' = uses
  BY DEF Drop, Enter, Asks, Teardown, Retire, Finish, CloseBacking, Indices
<1>2. MayGo(t, "idle", Nothing)
  BY <1>1, Here, GoEnd
<1>3. \A x \in {"drop", "teardown", "retire", "finish", "close"} : MayGo(t, x, at[t])
  BY <1>1, Here, GoEnd
<1>4. CASE Drop(t) \/ Retire(t)
  <2>1. Surroundings /\ (Moves(t, "drop", at[t]) \/ Moves(t, "finish", at[t]))
    BY <1>1, <1>4, Here DEF Drop, Retire, To, Moves, Surroundings, handle
  <2> QED
    BY <1>1, <1>3, <2>1, ThreadStep
<1>5. CASE Enter(t)
  <2> DEFINE l == Local(None, row, "drop")
  <2>1. l \in Locals /\ l.rec = None /\ l.asker = "drop"
    BY Here DEF Local, Locals
  <2>2. /\ Surroundings
        /\ \/ Moves(t, "idle", Nothing) \/ Moves(t, "finish", l)
           \/ Moves(t, "fetch", l) \/ Moves(t, "teardown", l)
    BY <1>1, <1>5, Here DEF Enter, To, Moves, Surroundings, handle
  <2> HIDE DEF l
  <2>3. MayGo(t, "fetch", l)
    BY <2>1 DEF MayGo, Places, AtRecord, AtProvider, AtClose, AtEnd
  <2>4. MayGo(t, "finish", l) /\ MayGo(t, "teardown", l)
    BY <2>1, GoEnd
  <2> QED
    BY <1>1, <1>2, <2>2, <2>3, <2>4, ThreadStep
<1>6. CASE Asks(t)
  <2>1. at[t].rec \in Indices /\ records[at[t].rec].closing
    BY <1>6, Here DEF Asks, AtRecord
  <2>2. Surroundings /\ Moves(t, IF HeldByCaller(t) THEN "retain" ELSE "wait", at[t])
    BY <1>1, <1>6, Here DEF Asks, To, Moves, Surroundings
  <2>3. CASE HeldByCaller(t)
    <3>1. MayGo(t, "retain", at[t])
      BY <1>1, <2>1, Here DEF MayGo, Places, AtRecord, AtProvider, AtClose, AtEnd
    <3> QED
      BY <1>1, <2>2, <2>3, <3>1, ThreadStep
  <2>4. CASE ~HeldByCaller(t)
    <3>1. records[at[t].rec].holders[t] \in Nat
      BY <2>1, Here DEF Admissions
    <3>2. records[at[t].rec].holders[t] = 0
      BY <2>4, <3>1 DEF HeldByCaller, Rec
    <3>3. MayGo(t, "wait", at[t])
      BY <1>1, <2>1, <3>2, Here DEF MayGo, Places, AtRecord, AtProvider, AtClose, AtEnd
    <3> QED
      BY <1>1, <2>2, <2>4, <3>3, ThreadStep
  <2> QED
    BY <2>3, <2>4
<1>7. CASE Teardown(t)
  <2>1. Surroundings
    BY <1>1, <1>7, Here DEF Teardown, Surroundings
  <2>2. \/ Moves(t, "retire", at[t]) \/ Moves(t, "idle", Nothing)
        \/ at[t].provider # None /\ Moves(t, "publish", at[t])
    BY <1>7, Here DEF Teardown, Ends, To, Moves
  <2>3. at[t].provider # None => MayGo(t, "publish", at[t])
    <3>1. at[t].provider \in Providers \cup {None}
      BY Here DEF Locals
    <3> QED
      BY <1>1, <3>1, Here DEF MayGo, Places, AtRecord, AtProvider, AtClose, AtEnd
  <2> QED
    BY <1>1, <1>2, <1>3, <2>1, <2>2, <2>3, ThreadStep
<1>8. CASE Finish(t)
  <2> DEFINE l == Local(None, row, "finish")
  <2>1. l \in Locals /\ l.rec = None /\ l.asker = "finish"
    BY Here DEF Local, Locals
  <2>2. Surroundings /\ (Moves(t, "fetch", l) \/ Moves(t, "close", at[t]))
    BY <1>1, <1>8, Here DEF Finish, To, Moves, Surroundings, handle
  <2> HIDE DEF l
  <2>3. MayGo(t, "fetch", l)
    BY <2>1 DEF MayGo, Places, AtRecord, AtProvider, AtClose, AtEnd
  <2> QED
    BY <1>1, <1>3, <2>2, <2>3, ThreadStep
<1>9. CASE CloseBacking(t)
  <2>1. Moves(t, "idle", Nothing) /\ Surroundings
    BY <1>1, <1>9, Here DEF CloseBacking, Ends, To, Moves, Surroundings
  <2> QED
    BY <1>1, <1>2, <2>1, ThreadStep
<1> QED
  BY <1>4, <1>5, <1>6, <1>7, <1>8, <1>9

\* The steps that make a record.
LEMMA MakingSteps ==
    ASSUME IInv, NEW t \in Threads, Renew(t) \/ Enrol(t) \/ Fetch(t)
    PROVE  IInv'
<1>1. ASSUME NEW p \in Providers, records' = Append(records, Admission(p))
      PROVE  Len(records') \in Indices' /\ Indices \subseteq Indices' /\ Len(records') \in Nat
  BY <1>1, MakeRecord DEF IInv
<1>2. CASE Renew(t)
  <2> DEFINE n == Len(records')
             l == [at[t] EXCEPT !.rec = n]
             p == at[t].provider
  <2>1. p \in Providers /\ records' = Append(records, Admission(p))
    BY <1>2, Here DEF Renew, Enlist, AtProvider
  <2>2. n \in Indices' /\ n \in Nat
    BY <1>1, <2>1
  <2>3. l \in Locals /\ l.rec = n /\ l.provider = p
    BY <2>2, Here DEF Locals
  <2>4. Moves(t, "hold", l) /\ Surroundings /\ uses' = uses
    BY <1>2, <2>2, Here DEF Renew, Enlist, Moves, To, Surroundings, handle
  <2> HIDE DEF l
  <2>5. MayGo(t, "hold", l)
    BY <2>2, <2>3 DEF MayGo, Places, AtRecord, AtProvider, AtClose, AtEnd
  <2> QED
    BY <2>1, <2>4, <2>5, MakeStep
<1>3. CASE Enrol(t)
  <2> DEFINE p == at[t].provider
  <2>1. p \in Providers /\ records' = Append(records, Admission(p))
    BY <1>3, Here DEF Enrol, Enlist, AtProvider
  <2>2. Len(records') \in Indices'
    BY <1>1, <2>1
  <2>3. Moves(t, "idle", Nothing) /\ Surroundings /\ uses' = uses
    BY <1>3, <2>2, Here DEF Enrol, Enlist, Ends, Moves, To, Surroundings, handle
  <2>4. MayGo(t, "idle", Nothing)
    BY Here, GoEnd
  <2> QED
    BY <2>1, <2>3, <2>4, MakeStep
<1>4. CASE Fetch(t)
  <2>1. at[t].asker \in {"only", "drop", "finish"} /\ uses' = uses
    BY <1>4, Here DEF Fetch, AtClose
  <2>2. CASE table # None /\ records' = records /\ Moves(t, "remove", [at[t] EXCEPT !.rec = table])
    <3> DEFINE l == [at[t] EXCEPT !.rec = table]
    <3>1. Indices' = Indices /\ table \in Indices
      BY <2>2, Here DEF Indices
    <3>2. l \in Locals /\ l.rec = table /\ l.asker = at[t].asker
      BY <3>1, Here DEF Locals
    <3>3. Surroundings
      BY <1>4, <3>1, Here DEF Fetch, Surroundings, handle
    <3> HIDE DEF l
    <3>4. MayGo(t, "remove", l)
      BY <2>1, <3>1, <3>2 DEF MayGo, Places, AtRecord, AtProvider, AtClose, AtEnd
    <3>5. Moves(t, "remove", l)
      BY <2>2 DEF l
    <3> QED
      BY <2>1, <2>2, <3>3, <3>4, <3>5, ThreadStep
  <2>3. CASE /\ row # None /\ records' = Append(records, Admission(row))
             /\ Moves(t, "remove", [at[t] EXCEPT !.rec = Len(records')])
    <3> DEFINE n == Len(records')
               l == [at[t] EXCEPT !.rec = n]
    <3>1. row \in Providers
      BY <2>3, Here
    <3>2. n \in Indices' /\ n \in Nat /\ Indices \subseteq Indices'
      BY <1>1, <2>3, <3>1
    <3>3. l \in Locals /\ l.rec = n /\ l.asker = at[t].asker
      BY <3>2, Here DEF Locals
    <3>4. Surroundings
      BY <1>4, <3>2, Here DEF Fetch, Surroundings, handle
    <3> HIDE DEF l
    <3>5. MayGo(t, "remove", l)
      BY <2>1, <3>2, <3>3 DEF MayGo, Places, AtRecord, AtProvider, AtClose, AtEnd
    <3>6. Moves(t, "remove", l)
      BY <2>3 DEF l
    <3> QED
      BY <2>1, <2>3, <3>1, <3>4, <3>5, <3>6, MakeStep
  <2>4. CASE records' = records /\ Moves(t, "idle", Nothing)
    <3>1. Indices' = Indices
      BY <2>4 DEF Indices
    <3>2. Surroundings /\ MayGo(t, "idle", Nothing)
      BY <1>4, <3>1, Here, GoEnd DEF Fetch, Surroundings, handle
    <3> QED
      BY <2>1, <2>4, <3>2, ThreadStep
  <2> QED
    BY <1>4, <2>2, <2>3, <2>4 DEF Fetch, Ends, To, Moves
<1> QED
  BY <1>2, <1>3, <1>4

\* A record that is marked.
LEMMA Marked ==
    ASSUME NEW a \in Admissions
    PROVE  /\ LET e == [a EXCEPT !.closing = TRUE]
              IN  /\ e \in Admissions /\ e.closing = TRUE /\ e.count = a.count
                  /\ e.holders = a.holders /\ e.pending = a.pending /\ e.waited = a.waited
           /\ LET e == [a EXCEPT !.pending = TRUE]
              IN  /\ e \in Admissions /\ e.closing = a.closing /\ e.count = a.count
                  /\ e.holders = a.holders /\ e.pending = TRUE /\ e.waited = a.waited
           /\ LET e == [a EXCEPT !.waited = TRUE]
              IN  /\ e \in Admissions /\ e.closing = a.closing /\ e.count = a.count
                  /\ e.holders = a.holders /\ e.pending = a.pending /\ e.waited = TRUE
<1>1. LET e == [a EXCEPT !.closing = TRUE]
      IN  /\ e \in Admissions /\ e.closing = TRUE /\ e.count = a.count
          /\ e.holders = a.holders /\ e.pending = a.pending /\ e.waited = a.waited
  BY DEF Admissions
<1>2. LET e == [a EXCEPT !.pending = TRUE]
      IN  /\ e \in Admissions /\ e.closing = a.closing /\ e.count = a.count
          /\ e.holders = a.holders /\ e.pending = TRUE /\ e.waited = a.waited
  BY DEF Admissions
<1>3. LET e == [a EXCEPT !.waited = TRUE]
      IN  /\ e \in Admissions /\ e.closing = a.closing /\ e.count = a.count
          /\ e.holders = a.holders /\ e.pending = a.pending /\ e.waited = TRUE
  BY DEF Admissions
<1> QED
  BY <1>1, <1>2, <1>3

\* The steps that mark a record.
LEMMA MarkingSteps ==
    ASSUME IInv, NEW t \in Threads, Stale(t) \/ Shut(t) \/ Retain(t) \/ Wait(t)
    PROVE  IInv'
<1> DEFINE r == at[t].rec
           old == records[r]
<1>1. /\ r \in Indices /\ old \in Admissions /\ old.count \in Nat
      /\ old.waited => old.closing /\ old.count = 0
      /\ old.pending => old.count > 0
  <2>1. r \in Indices
    BY Here DEF Stale, Shut, Retain, Wait, AtRecord
  <2>2. old \in Admissions
    BY <2>1, Here
  <2> QED
    BY <2>1, <2>2 DEF IInv, CloseInv, Admissions
<1>2. UNCHANGED <<row, table, uses, retired, dropped>>
  BY DEF Stale, Shut, Retain, Wait, handle
<1>3. ASSUME NEW e, e \in Admissions, records' = [records EXCEPT ![r] = e]
      PROVE  Indices' = Indices /\ records'[r] = e
  BY <1>1, <1>3, ChangeRecord DEF IInv
<1>4. CASE Stale(t)
  <2> DEFINE e == [old EXCEPT !.closing = TRUE]
  <2>1. records' = [records EXCEPT ![r] = e] /\ Moves(t, "renew", at[t]) /\ dropping' = dropping
    BY <1>4, Here DEF Stale, To, Moves, handle
  <2>2. /\ e \in Admissions /\ e.closing = TRUE /\ e.count = old.count
        /\ e.holders = old.holders /\ e.pending = old.pending /\ e.waited = old.waited
    BY <1>1, Marked
  <2> HIDE DEF e
  <2>3. Indices' = Indices
    BY <1>3, <2>1, <2>2
  <2>4. MayGo(t, "renew", at[t])
    BY <1>1, <1>4, <2>3, Here DEF Stale, MayGo, Places, AtRecord, AtProvider, AtClose, AtEnd
  <2>5. Surroundings
    BY <1>2, <2>1, <2>3, Here DEF Surroundings
  <2> HIDE DEF r, old
  <2> QED
    BY <1>1, <1>2, <2>1, <2>2, <2>4, <2>5, FlagStep DEF r, old
<1>5. CASE Shut(t)
  <2> DEFINE e == [old EXCEPT !.closing = TRUE]
             x == IF Rec(t).count = 0 THEN "unlist" ELSE Returned(t)
  <2>1. records' = [records EXCEPT ![r] = e] /\ Moves(t, x, at[t]) /\ dropping' = dropping
    BY <1>5, Here DEF Shut, To, Moves, handle
  <2>2. /\ e \in Admissions /\ e.closing = TRUE /\ e.count = old.count
        /\ e.holders = old.holders /\ e.pending = old.pending /\ e.waited = old.waited
    BY <1>1, Marked
  <2> HIDE DEF e
  <2>3. Indices' = Indices /\ records'[r] = e
    BY <1>3, <2>1, <2>2
  <2>4. at[t].asker \in {"only", "drop", "finish"}
    BY <1>5, Here DEF Shut, AtClose
  <2>5. x \in {"unlist", "returned", "asks", "wait"} /\ (x = "wait" => at[t].asker # "drop")
    BY <2>4 DEF Returned
  <2> HIDE DEF x
  <2>6. MayGo(t, x, at[t])
    BY <1>1, <2>2, <2>3, <2>4, <2>5, Here DEF MayGo, Places, AtRecord, AtProvider, AtClose, AtEnd
  <2>7. Surroundings
    BY <1>2, <2>1, <2>3, Here DEF Surroundings
  <2> QED
    BY <1>1, <1>2, <2>1, <2>2, <2>6, <2>7, FlagStep
<1>6. CASE Retain(t)
  <2>1. CASE IsHeld(r)
    <3> DEFINE e == [old EXCEPT !.pending = TRUE]
    <3>1. /\ records' = [records EXCEPT ![r] = e] /\ Moves(t, "idle", Nothing)
          /\ dropping' = dropping /\ old.count > 0
      BY <1>6, <2>1 DEF Retain, Ends, To, Moves, IsHeld
    <3>2. /\ e \in Admissions /\ e.closing = old.closing /\ e.count = old.count
          /\ e.holders = old.holders /\ e.pending = TRUE /\ e.waited = old.waited
      BY <1>1, Marked
    <3> HIDE DEF e
    <3>3. Indices' = Indices
      BY <1>3, <3>1, <3>2
    <3>4. MayGo(t, "idle", Nothing) /\ Surroundings
      BY <1>2, <3>1, <3>3, Here, GoEnd DEF Surroundings
    <3> QED
      BY <1>1, <1>2, <3>1, <3>2, <3>4, FlagStep
  <2>2. CASE ~IsHeld(r)
    <3>1. records' = records /\ Moves(t, "drop", at[t]) /\ dropping' = FALSE
      BY <1>6, <2>2, Here DEF Retain, To, Moves
    <3>2. Indices' = Indices
      BY <3>1 DEF Indices
    <3>3. MayGo(t, "drop", at[t]) /\ Surroundings
      BY <1>2, <3>1, <3>2, Here, GoEnd DEF Surroundings
    <3> QED
      BY <1>2, <3>1, <3>3, ThreadStep
  <2> QED
    BY <2>1, <2>2
<1>7. CASE Wait(t)
  <2> DEFINE e == [old EXCEPT !.waited = TRUE]
  <2>1. /\ records' = [records EXCEPT ![r] = e] /\ dropping' = dropping
        /\ Moves(t, "teardown", at[t]) \/ Moves(t, "close", at[t])
    BY <1>7, Here DEF Wait, To, Moves, handle
  <2>2. old.closing /\ old.count = 0
    BY <1>1, <1>7, Here DEF Wait, Released, IsHeld
  <2>3. /\ e \in Admissions /\ e.closing = old.closing /\ e.count = old.count
        /\ e.holders = old.holders /\ e.pending = old.pending /\ e.waited = TRUE
    BY <1>1, Marked
  <2> HIDE DEF e
  <2>4. Indices' = Indices
    BY <1>3, <2>1, <2>3
  <2>5. MayGo(t, "teardown", at[t]) /\ MayGo(t, "close", at[t]) /\ Surroundings
    BY <1>2, <2>1, <2>4, Here, GoEnd DEF Surroundings
  <2> QED
    BY <1>1, <1>2, <2>1, <2>2, <2>3, <2>5, FlagStep
<1> QED
  BY <1>4, <1>5, <1>6, <1>7

\* A use begins, or the door turns back from a record that is closing.
LEMMA HoldStep ==
    ASSUME IInv, NEW t \in Threads, Hold(t)
    PROVE  IInv'
<1> DEFINE r == at[t].rec
<1>1. r \in Indices /\ Moves(t, "idle", Nothing) /\ UNCHANGED <<row, table, handle>>
  BY Here DEF Hold, Ends, To, Moves, AtRecord
<1>2. CASE UNCHANGED <<records, uses>>
  <2>1. Indices' = Indices
    BY <1>2 DEF Indices
  <2>2. MayGo(t, "idle", Nothing) /\ Surroundings
    BY <1>1, <2>1, Here, GoEnd DEF Surroundings, handle
  <2> QED
    BY <1>1, <1>2, <2>2, ThreadStep
<1>3. ASSUME NEW u \in 1..MaxUses, Admits(r), uses[u] = None,
             uses' = [uses EXCEPT ![u] = [rec |-> r, holder |-> t]],
             records' = [records EXCEPT ![r].count = @ + 1, ![r].holders[t] = @ + 1]
      PROVE  IInv'
  <2>1. /\ records' \in Seq(Admissions) /\ Indices' = Indices
        /\ uses' \in [1..MaxUses -> Uses \cup {None}]
        /\ \A v \in 1..MaxUses : uses'[v] # None => uses'[v].rec \in Indices
        /\ \A q \in Indices : q # r => records'[q] = records[q]
        /\ records'[r].count = records[r].count + 1 /\ records[r].count \in Nat
        /\ records'[r].closing = records[r].closing
        /\ records'[r].waited = records[r].waited
        /\ CountInv'
    BY <1>1, <1>3, CountUse DEF IInv
  <2>2. MayGo(t, "idle", Nothing) /\ Surroundings
    BY <1>1, <2>1, Here, GoEnd DEF Surroundings, handle
  <2>3. Shape'
    BY <1>1, <2>1, <2>2, ShapeMove DEF IInv, MayGo, Surroundings
  <2>4. CloseInv'
    <3>1. ~records[r].closing /\ ~records[r].waited
      BY <1>1, <1>3 DEF Admits, IInv, CloseInv
    <3>2. ASSUME NEW q \in Indices
          PROVE  /\ records'[q].waited => records'[q].closing /\ records'[q].count = 0
                 /\ records'[q].pending => records'[q].count > 0
      BY <2>1, <3>1 DEF IInv, CloseInv
    <3>3. ASSUME NEW q \in Indices, records[q].closing
          PROVE  records'[q] = records[q]
      BY <2>1, <3>1, <3>3
    <3> QED
      BY <1>1, <2>1, <3>2, <3>3, CloseMove DEF IInv
  <2> QED
    BY <2>1, <2>3, <2>4 DEF IInv
<1> HIDE DEF r
<1> QED
  BY <1>2, <1>3 DEF Hold, r

\* A use ends, on whichever thread ends it.
LEMMA ReleaseStep ==
    ASSUME IInv, NEW t \in Threads, NEW u \in 1..MaxUses, Release(t, u)
    PROVE  IInv'
<1> DEFINE r == uses[u].rec
           h == uses[u].holder
           last == records[r].count = 1
           x == IF last THEN LastStep(r) ELSE "idle"
           l == IF last THEN Local(r, None, "door") ELSE Nothing
<1>1. uses[u] # None /\ r \in Indices /\ h \in Threads
  <2>1. uses[u] # None
    BY DEF Release
  <2>2. uses[u] \in Uses
    BY <2>1, Parts DEF IInv
  <2> QED
    BY <2>1, <2>2 DEF IInv, Shape, Uses
<1>2. /\ Moves(t, x, l) /\ uses' = [uses EXCEPT ![u] = None]
      /\ UNCHANGED <<row, table, handle>>
  BY DEF Release, Moves, To
<1>3. records' = [records EXCEPT ![r] = CountedOut(records[r], h, last)]
  BY ReleaseCountsOut DEF IInv
<1>4. /\ records' \in Seq(Admissions) /\ Indices' = Indices
      /\ uses' \in [1..MaxUses -> Uses \cup {None}]
      /\ \A v \in 1..MaxUses : uses'[v] # None => uses'[v].rec \in Indices
      /\ \A q \in Indices : q # r => records'[q] = records[q]
      /\ records[r].count \in Nat \ {0} /\ records'[r].count = records[r].count - 1
      /\ records[r].holders[h] # 0
      /\ \A s \in Threads : s # h => records'[r].holders[s] = records[r].holders[s]
      /\ records'[r].closing = records[r].closing
      /\ (records'[r].pending => records[r].pending /\ ~last)
      /\ records'[r].waited = records[r].waited
      /\ CountInv'
  <2> HIDE DEF r, h, last
  <2>1. uses[u].rec = r /\ uses[u].holder = h
    BY DEF r, h
  <2>2. Shape /\ CountInv
    BY DEF IInv
  <2>3. OneLess(r, h, last)
    BY <1>1, <1>2, <1>3, <2>1, <2>2, CountRelease
  <2> QED
    BY <2>3 DEF OneLess
<1>5. x \in {"idle", "last", "lastly"} /\ l \in Locals /\ l.rec \in Indices \cup {None}
      /\ (x # "idle" => l.rec = r)
  BY <1>1, Here DEF LastStep, Local, Locals
<1>6. Shape'
  <2> HIDE DEF x, l
  <2>1. MayGo(t, x, l)
    BY <1>1, <1>4, <1>5 DEF MayGo, Places, AtRecord, AtProvider, AtClose, AtEnd
  <2>2. Surroundings
    BY <1>2, <1>4, Here DEF Surroundings, handle
  <2> QED
    BY <1>2, <1>4, <2>1, <2>2, ShapeMove DEF IInv, MayGo, Surroundings
<1>7. CloseInv'
  <2>1. ~records[r].waited
    BY <1>1, <1>4 DEF IInv, CloseInv
  <2>2. records'[r].pending => records'[r].count > 0
    BY <1>4
  <2>3. \A q \in Indices :
            /\ records'[q].waited => records'[q].closing /\ records'[q].count = 0
            /\ records'[q].pending => records'[q].count > 0
    BY <1>4, <2>1, <2>2 DEF IInv, CloseInv
  <2>4. \A q \in Indices : records[q].closing =>
            /\ records'[q].closing
            /\ \A s \in Threads : s # t /\ records[q].holders[s] = 0 => records'[q].holders[s] = 0
    BY <1>1, <1>4
  <2> HIDE DEF x, l, r, h, last
  <2> QED
    BY <1>2, <1>4, <1>5, <2>3, <2>4, CloseMove DEF IInv
<1> QED
  BY <1>4, <1>6, <1>7 DEF IInv

-----------------------------------------------------------------------------
(* The theorems.                                                            *)

\* The invariant holds when the handle is made.
LEMMA InitHolds == Init => IInv
<1> SUFFICES ASSUME Init PROVE IInv
  OBVIOUS
<1>1. /\ Admission(Owned) \in Admissions
      /\ Admission(Owned).count = 0 /\ \A t \in Threads : Admission(Owned).holders[t] = 0
      /\ Admission(Owned).waited = FALSE /\ Admission(Owned).pending = FALSE
  BY OwnedAssumption DEF Admission, Admissions, NoHolders
<1>2. records \in Seq(Admissions) /\ Indices = {1} /\ records[1] = Admission(Owned)
  BY <1>1 DEF Init, Indices
<1>3. Nothing \in Locals /\ Nothing.rec = None
  BY DEF Nothing, Local, Locals
<1>4. Shape
  <2>1. pc \in [Threads -> Places] /\ at \in [Threads -> Locals]
    BY <1>3 DEF Init, Places, AtEnd
  <2>2. \A t \in Threads : at[t] = Nothing /\ pc[t] = "idle"
    BY DEF Init
  <2>3. /\ uses \in [1..MaxUses -> Uses \cup {None}] /\ \A u \in 1..MaxUses : uses[u] = None
        /\ row \in Providers /\ table = 1
        /\ {dropping, retired, dropped} \subseteq BOOLEAN
    BY OwnedAssumption DEF Init
  <2> QED
    BY <1>2, <1>3, <2>1, <2>2, <2>3 DEF Shape, AtRecord, AtProvider, AtClose
<1>5. CountInv
  <2>1. \A r \in Indices : OpenUses(r) = {} /\ \A t \in Threads : HeldUses(r, t) = {}
    BY DEF Init, OpenUses, HeldUses
  <2> QED
    BY <1>1, <1>2, <2>1, FS_EmptySet DEF CountInv
<1>6. CloseInv
  BY <1>1, <1>2 DEF Init, CloseInv
<1> QED
  BY <1>4, <1>5, <1>6 DEF IInv

\* Every step keeps the invariant.
LEMMA NextHolds == IInv /\ [Next]_vars => IInv'
<1> SUFFICES ASSUME IInv, [Next]_vars PROVE IInv'
  OBVIOUS
<1>1. ASSUME NEW t \in Threads, Steps(t)
      PROVE  IInv'
  BY <1>1, DoorSteps, RegisterSteps, UnregisterSteps, DropSteps, MakingSteps,
     MarkingSteps, HoldStep DEF Steps
<1>2. ASSUME NEW t \in Threads, Look(t) \/ Unregister(t) \/ Drop(t)
      PROVE  IInv'
  BY <1>2, DoorSteps, UnregisterSteps, DropSteps
<1>3. ASSUME NEW t \in Threads, NEW p \in Providers, Register(t, p)
      PROVE  IInv'
  BY <1>3, RegisterSteps
<1>4. ASSUME NEW t \in Threads, NEW u \in 1..MaxUses, Release(t, u)
      PROVE  IInv'
  BY <1>4, ReleaseStep
<1>5. CASE UNCHANGED vars
  <2>1. Indices' = Indices /\ Shape'
    BY <1>5 DEF vars, handle, IInv, Shape, Indices
  <2>2. CountInv'
    BY <1>5, <2>1 DEF vars, IInv, CountInv, OpenUses, HeldUses
  <2>3. CloseInv'
    BY <1>5, <2>1 DEF vars, IInv, CloseInv
  <2> QED
    BY <2>1, <2>2, <2>3 DEF IInv
<1> QED
  BY <1>1, <1>2, <1>3, <1>4, <1>5 DEF Next

\* Every reachable state of the records, the threads and the uses satisfies the
\* invariant: _admit, _release, after_last_release and _wait_released together
\* keep a record's count the number of its open uses.
THEOREM Inductive == Spec => []IInv
  BY InitHolds, NextHolds, PTL DEF Spec

\* The row, the table, the records and the locals keep their types, and no count
\* goes below zero: _release never counts out a use that was not counted in.
THEOREM TypeCorrect == Spec => []TypeOK
<1>1. IInv => TypeOK
  <2> SUFFICES ASSUME IInv PROVE TypeOK
    OBVIOUS
  <2>1. ASSUME NEW r \in Indices
        PROVE  /\ records[r].provider \in Providers
               /\ records[r].count \in 0..MaxUses
               /\ records[r].holders \in [Threads -> 0..MaxUses]
               /\ {records[r].closing, records[r].pending, records[r].waited} \subseteq BOOLEAN
    <3>1. records[r] \in Admissions /\ MaxUses \in Nat
      BY Parts DEF IInv
    <3>2. records[r].count \in 0..MaxUses
      BY FiniteUses, <3>1 DEF IInv, CountInv
    <3>3. \A t \in Threads : records[r].holders[t] \in 0..MaxUses
      BY FiniteUses, <3>1 DEF IInv, CountInv
    <3> QED
      BY <3>1, <3>2, <3>3 DEF Admissions
  <2> QED
    BY <2>1 DEF TypeOK, IInv, Shape
<1> QED
  BY <1>1, Inductive, PTL

\* Once _finish_drop or drop() has waited for a registration, no use of it is
\* open or will be: not one that read the record or the row before the close.
THEOREM WaitedUnused == Spec => []WaitedIsUnused
<1>1. IInv => WaitedIsUnused
  BY FiniteUses DEF IInv, CountInv, CloseInv, WaitedIsUnused
<1> QED
  BY <1>1, Inductive, PTL

\* A drop that waits for its registration holds no use of it, whoever ended the
\* caller's streams: held_by_caller counted the thread that holds each use.
THEOREM NeverSelf == Spec => []NoSelfWait
<1>1. IInv => NoSelfWait
  <2> SUFFICES ASSUME IInv, NEW t \in Threads, pc[t] = "wait", at[t].asker = "drop",
                      NEW u \in OpenUses(at[t].rec), uses[u].holder = t
               PROVE  FALSE
    BY DEF NoSelfWait
  <2>1. at[t].rec \in Indices /\ records[at[t].rec].holders[t] = 0
    BY Here DEF AtRecord, IInv, CloseInv
  <2>2. Cardinality(HeldUses(at[t].rec, t)) = 0
    BY <2>1 DEF IInv, CountInv
  <2>3. HeldUses(at[t].rec, t) = {}
    BY <2>2, FiniteUses, FS_EmptySet
  <2> QED
    BY <2>3 DEF HeldUses
<1> QED
  BY <1>1, Inductive, PTL

\* A drop that after_last_release retained has an open use whose _release runs it.
THEOREM RetainedOwed == Spec => []RetainedIsOwed
<1>1. IInv => RetainedIsOwed
  <2> SUFFICES ASSUME IInv, NEW r \in Indices, records[r].pending PROVE OpenUses(r) # {}
    BY DEF RetainedIsOwed
  <2>1. records[r].count > 0 /\ records[r].count = Cardinality(OpenUses(r))
    BY DEF IInv, CloseInv, CountInv
  <2> QED
    BY <2>1, FiniteUses, FS_EmptySet
<1> QED
  BY <1>1, Inductive, PTL

=============================================================================
