---------------------- MODULE PersistentJournalProofs ----------------------
(***************************************************************************)
(* What the persistent fact space keeps, for every set of facts, of        *)
(* attachments and of threads, and however often a process dies: the file  *)
(* and the stream replay to the facts in memory, recovery destroys no      *)
(* byte that the backup does not hold, a commit is exact, some constructor *)
(* accepts the file, and no state that was told safe is lost.              *)
(*                                                                         *)
(* The first part is about replay, which is a recursive function: what it  *)
(* computes is proved by the least position at which it would fail.        *)
(***************************************************************************)
EXTENDS PersistentJournal, FiniteSetTheorems, SequenceTheorems, WellFoundedInduction, TLAPS

-----------------------------------------------------------------------------
(* Positions.                                                               *)

\* Among some of the numbers up to n there is a least one.
LEMMA LeastPosition ==
    ASSUME NEW n \in Nat, NEW T, T \subseteq 0..n, T # {}
    PROVE  \E x \in T : \A y \in T : x <= y
<1> DEFINE V == {0..x : x \in T}
<1>1. IsFiniteSet(0..n)
  BY FS_Interval
<1>2. V \subseteq FiniteSubsetsOf(0..n) /\ V # {}
  <2>1. V \subseteq SUBSET (0..n)
    <3>1. \A x \in T : 0..x \subseteq 0..n
      OBVIOUS
    <3> QED
      BY <3>1
  <2>2. V # {}
    OBVIOUS
  <2>3. FiniteSubsetsOf(0..n) = SUBSET (0..n)
    BY <1>1, FS_FiniteSubsetsOfFinite
  <2> QED
    BY <2>1, <2>2, <2>3
<1>3. PICK W \in V : \A y \in V : <<y, W>> \notin StrictSubsetOrdering(0..n)
  BY <1>2, FS_StrictSubsetOrderingWellFounded, WFMin
<1>4. PICK x \in T : W = 0..x
  BY <1>3
<1>5. ASSUME NEW y \in T, y < x PROVE FALSE
  <2>1. 0..y \in V /\ 0..y \subseteq 0..x /\ 0..x \subseteq 0..n /\ x \in 0..x /\ x \notin 0..y
    BY <1>5
  <2> QED
    BY <1>3, <1>4, <2>1 DEF StrictSubsetOrdering
<1>6. \A y \in T : x <= y
  BY <1>5
<1> QED
  BY <1>6

\* A property that fails at no least number up to n fails at none.
LEMMA NoLeast ==
    ASSUME NEW n \in Nat, NEW T, T \subseteq 0..n,
           0 \notin T,
           \A m \in 1..n : m \in T => m - 1 \in T
    PROVE  T = {}
<1> SUFFICES ASSUME T # {} PROVE FALSE
  OBVIOUS
<1>1. PICK x \in T : \A y \in T : x <= y
  BY LeastPosition
<1>2. x \in 1..n /\ x - 1 \in T
  OBVIOUS
<1> QED
  BY <1>1, <1>2

\* Among some of the numbers from 1 to n there is a greatest one.
LEMMA GreatestPosition ==
    ASSUME NEW n \in Nat, NEW T, T \subseteq 1..n, T # {}
    PROVE  \E x \in T : \A y \in T : y <= x
<1> DEFINE U == {n - x : x \in T}
<1>1. U \subseteq 0..n /\ U # {}
  <2>1. \A x \in T : x \in 1..n
    OBVIOUS
  <2>2. \A x \in T : n - x \in 0..n
    BY <2>1
  <2>3. U # {}
    OBVIOUS
  <2> QED
    BY <2>2, <2>3
<1> HIDE DEF U
<1>2. PICK u \in U : \A v \in U : u <= v
  BY <1>1, LeastPosition
<1>3. PICK x \in T : u = n - x
  BY <1>2 DEF U
<1>4. ASSUME NEW y \in T PROVE y <= x
  <2>1. n - y \in U
    BY DEF U
  <2>2. n - x <= n - y
    BY <1>2, <1>3, <2>1
  <2>3. x \in Int /\ y \in Int
    OBVIOUS
  <2> QED
    BY <2>2, <2>3
<1> QED
  BY <1>4

-----------------------------------------------------------------------------
(* Replay.                                                                  *)

\* A readable record is applied, one that was cut is skipped.
Replayed(bag, e) == IF e.end = "torn" THEN bag ELSE Apply(bag, e.rec)

\* f counts the facts after each of the first n entries of s.
Counts(s, n, f) ==
    /\ f \in [0..n -> Bags] /\ f[0] = Empty
    /\ \A k \in 1..n : f[k] = Replayed(f[k - 1], s[k])

\* A record makes a bag of facts from a bag of facts.
LEMMA ReplayedBag ==
    ASSUME NEW bag \in Bags, NEW e \in Entries
    PROVE  Replayed(bag, e) \in Bags
<1>1. e.rec \in Records
  BY DEF Entries
<1>2. Empty \in Bags
  BY DEF Empty, Bags
<1>3. CASE e.rec.op \in {"assert", "retract"}
  <2>1. e.rec.fact \in Facts
    BY <1>1, <1>3 DEF Records
  <2>2. [bag EXCEPT ![e.rec.fact] = @ + 1] \in Bags
    BY <2>1 DEF Bags
  <2>3. [bag EXCEPT ![e.rec.fact] = IF @ > 0 THEN @ - 1 ELSE 0] \in Bags
    BY <2>1 DEF Bags
  <2> QED
    BY <1>3, <2>2, <2>3 DEF Replayed, Apply
<1>4. CASE e.rec.op = "retractall"
  BY <1>2, <1>4 DEF Replayed, Apply
<1> QED
  BY <1>1, <1>3, <1>4 DEF Records

\* The facts can be counted after every entry.
LEMMA CountsExist ==
    ASSUME NEW s \in Seq(Entries)
    PROVE  \E f : Counts(s, Len(s), f)
<1> DEFINE T == {n \in 0..Len(s) : ~ \E f : Counts(s, n, f)}
<1>1. Len(s) \in Nat /\ T \subseteq 0..Len(s)
  OBVIOUS
<1>2. 0 \notin T
  <2> DEFINE f == [k \in 0..0 |-> Empty]
  <2>1. Counts(s, 0, f)
    BY DEF Counts, Bags, Empty
  <2> QED
    BY <2>1
<1>3. ASSUME NEW m \in 1..Len(s), m - 1 \notin T
      PROVE  m \notin T
  <2>1. m - 1 \in 0..Len(s)
    BY <1>1
  <2>2. PICK g : Counts(s, m - 1, g)
    BY <1>3, <2>1
  <2> DEFINE f == [k \in 0..m |-> IF k = m THEN Replayed(g[m - 1], s[m]) ELSE g[k]]
  <2>3. s[m] \in Entries /\ m - 1 \in 0..(m - 1)
    BY <1>1
  <2>4. g \in [0..(m - 1) -> Bags] /\ g[0] = Empty
        /\ \A k \in 1..(m - 1) : g[k] = Replayed(g[k - 1], s[k])
    BY <2>2 DEF Counts
  <2>5. Replayed(g[m - 1], s[m]) \in Bags
    BY <2>3, <2>4, ReplayedBag
  <2>6. f \in [0..m -> Bags]
    <3>1. \A k \in 0..m : k # m => k \in 0..(m - 1)
      BY <1>1
    <3> QED
      BY <2>4, <2>5, <3>1
  <2>7. f[0] = Empty
    BY <1>1, <2>4
  <2>8. ASSUME NEW k \in 1..m PROVE f[k] = Replayed(f[k - 1], s[k])
    <3>1. k - 1 # m /\ k - 1 \in 0..m /\ f[k - 1] = g[k - 1]
      BY <1>1
    <3>2. CASE k = m
      BY <3>1, <3>2
    <3>3. CASE k # m
      <4>1. k \in 1..(m - 1) /\ f[k] = g[k]
        BY <1>1, <3>3
      <4> QED
        BY <2>4, <3>1, <4>1
    <3> QED
      BY <3>2, <3>3
  <2> HIDE DEF f
  <2>9. Counts(s, m, f)
    BY <2>6, <2>7, <2>8 DEF Counts
  <2> QED
    BY <2>9
<1>4. \A m \in 1..Len(s) : m \in T => m - 1 \in T
  BY <1>3
<1>5. T = {}
  <2> HIDE DEF T
  <2> QED
    BY <1>1, <1>2, <1>4, NoLeast
<1> QED
  BY <1>1, <1>5

\* Entries that read alike are counted alike.
LEMMA CountsAgree ==
    ASSUME NEW n \in Nat, NEW s, NEW t, NEW f, NEW g,
           Counts(s, n, f), Counts(t, n, g),
           \A k \in 1..n : \A bag \in Bags : Replayed(bag, s[k]) = Replayed(bag, t[k])
    PROVE  \A k \in 0..n : f[k] = g[k]
<1> DEFINE T == {k \in 0..n : f[k] # g[k]}
<1>1. T \subseteq 0..n /\ 0 \notin T
  BY DEF Counts
<1>2. ASSUME NEW m \in 1..n, m - 1 \notin T
      PROVE  m \notin T
  <2>1. m - 1 \in 0..n /\ f[m - 1] = g[m - 1]
    BY <1>2
  <2>2. f[m - 1] \in Bags
    BY <2>1 DEF Counts
  <2>3. f[m] = Replayed(f[m - 1], s[m]) /\ g[m] = Replayed(g[m - 1], t[m])
    BY DEF Counts
  <2> QED
    BY <2>1, <2>2, <2>3
<1>3. \A m \in 1..n : m \in T => m - 1 \in T
  BY <1>2
<1>4. T = {}
  <2> HIDE DEF T
  <2> QED
    BY <1>1, <1>3, NoLeast
<1> QED
  BY <1>4

\* The recursive function of Replay.
ReplayOf(s, f) ==
    f = [n \in 0..Len(s) |->
            IF n = 0 THEN Empty
            ELSE IF s[n].end = "torn" THEN f[n - 1]
            ELSE Apply(f[n - 1], s[n].rec)]

\* Replay is the last of the counts.
LEMMA ReplayCounts ==
    ASSUME NEW s \in Seq(Entries)
    PROVE  \E f : Counts(s, Len(s), f) /\ Replay(s) = f[Len(s)]
<1> DEFINE n == Len(s)
           g == CHOOSE f : ReplayOf(s, f)
<1>1. n \in Nat
  OBVIOUS
<1>2. PICK f : Counts(s, n, f)
  BY CountsExist
<1>3. ReplayOf(s, f)
  <2> DEFINE h == [k \in 0..n |->
                     IF k = 0 THEN Empty
                     ELSE IF s[k].end = "torn" THEN f[k - 1]
                     ELSE Apply(f[k - 1], s[k].rec)]
  <2>1. f \in [0..n -> Bags] /\ f[0] = Empty
        /\ \A k \in 1..n : f[k] = Replayed(f[k - 1], s[k])
    BY <1>2 DEF Counts
  <2>2. ASSUME NEW k \in 0..n PROVE f[k] = h[k]
    <3>1. CASE k = 0
      BY <2>1, <3>1
    <3>2. CASE k # 0
      <4>1. k \in 1..n
        BY <1>1, <3>2
      <4> QED
        BY <2>1, <3>2, <4>1 DEF Replayed
    <3> QED
      BY <3>1, <3>2
  <2>3. f = [k \in 0..n |-> f[k]]
    BY <2>1
  <2>4. f = h
    <3> HIDE DEF h
    <3>1. h = [k \in 0..n |-> h[k]]
      BY DEF h
    <3> QED
      BY <2>2, <2>3, <3>1
  <2> QED
    BY <2>4 DEF ReplayOf
<1>4. ReplayOf(s, g)
  BY <1>3
<1>5. Replay(s) = g[n]
  BY Zenon DEF Replay, ReplayOf
<1> HIDE DEF g
<1>6. /\ g[0] = Empty
      /\ \A k \in 1..n : g[k] = Replayed(g[k - 1], s[k])
  <2>1. g[0] = Empty
    BY <1>1, <1>4 DEF ReplayOf
  <2>2. ASSUME NEW k \in 1..n PROVE g[k] = Replayed(g[k - 1], s[k])
    <3>1. k \in 0..n /\ k # 0
      BY <1>1
    <3> QED
      BY <1>4, <3>1 DEF ReplayOf, Replayed
  <2> QED
    BY <2>1, <2>2
<1> DEFINE T == {k \in 0..n : f[k] # g[k]}
<1>7. T \subseteq 0..n /\ 0 \notin T
  BY <1>2, <1>6 DEF Counts
<1>8. ASSUME NEW m \in 1..n, m - 1 \notin T
      PROVE  m \notin T
  <2>1. f[m - 1] = g[m - 1]
    BY <1>1, <1>8
  <2>2. f[m] = Replayed(f[m - 1], s[m])
    BY <1>2 DEF Counts
  <2> QED
    BY <1>6, <2>1, <2>2
<1>9. \A m \in 1..n : m \in T => m - 1 \in T
  BY <1>8
<1>10. T = {}
  <2> HIDE DEF T, n
  <2> QED
    BY <1>1, <1>7, <1>9, NoLeast
<1>11. f[n] = g[n]
  BY <1>1, <1>10
<1> QED
  BY <1>2, <1>5, <1>11

\* Replay makes a bag of facts.
LEMMA ReplayBag ==
    ASSUME NEW s \in Seq(Entries)
    PROVE  Replay(s) \in Bags
<1>1. PICK f : Counts(s, Len(s), f) /\ Replay(s) = f[Len(s)]
  BY ReplayCounts
<1> QED
  BY <1>1 DEF Counts

\* Entries that read alike replay alike.
LEMMA ReplayAlike ==
    ASSUME NEW s \in Seq(Entries), NEW t \in Seq(Entries), Len(s) = Len(t),
           \A k \in 1..Len(s) : \A bag \in Bags : Replayed(bag, s[k]) = Replayed(bag, t[k])
    PROVE  Replay(s) = Replay(t)
<1>1. PICK f : Counts(s, Len(s), f) /\ Replay(s) = f[Len(s)]
  BY ReplayCounts
<1>2. PICK g : Counts(t, Len(t), g) /\ Replay(t) = g[Len(t)]
  BY ReplayCounts
<1>3. Len(s) \in Nat
  OBVIOUS
<1>4. \A k \in 0..Len(s) : f[k] = g[k]
  BY <1>1, <1>2, <1>3, CountsAgree
<1> QED
  BY <1>1, <1>2, <1>3, <1>4

\* One more entry is replayed behind the others.
LEMMA ReplayAppend ==
    ASSUME NEW s \in Seq(Entries), NEW e \in Entries
    PROVE  Replay(Append(s, e)) = Replayed(Replay(s), e)
<1> DEFINE t == Append(s, e)
           n == Len(s)
<1>1. t \in Seq(Entries) /\ Len(t) = n + 1 /\ n \in Nat /\ t[n + 1] = e
      /\ \A k \in 1..n : t[k] = s[k]
  OBVIOUS
<1> HIDE DEF t
<1>2. PICK g : Counts(t, n + 1, g) /\ Replay(t) = g[n + 1]
  BY <1>1, ReplayCounts
<1>3. PICK f : Counts(s, n, f) /\ Replay(s) = f[n]
  BY ReplayCounts
<1> DEFINE h == [k \in 0..n |-> g[k]]
<1>4. Counts(s, n, h)
  <2>1. /\ g \in [0..(n + 1) -> Bags] /\ g[0] = Empty
        /\ \A k \in 1..(n + 1) : g[k] = Replayed(g[k - 1], t[k])
    BY <1>2 DEF Counts
  <2>2. h \in [0..n -> Bags] /\ h[0] = Empty
    BY <1>1, <2>1
  <2>3. ASSUME NEW k \in 1..n PROVE h[k] = Replayed(h[k - 1], s[k])
    <3>1. k \in 1..(n + 1) /\ k - 1 \in 0..n /\ k \in 0..n
      BY <1>1
    <3> QED
      BY <1>1, <2>1, <3>1
  <2> HIDE DEF h
  <2> QED
    BY <2>2, <2>3 DEF Counts
<1>5. \A k \in 0..n : f[k] = h[k]
  <2> HIDE DEF h, n
  <2> QED
    BY <1>1, <1>3, <1>4, CountsAgree
<1>6. n \in 0..n /\ n + 1 \in 1..(n + 1) /\ (n + 1) - 1 = n
  BY <1>1
<1>7. g[n] = Replay(s)
  BY <1>3, <1>5, <1>6
<1>8. g[n + 1] = Replayed(g[n], t[n + 1])
  BY <1>2, <1>6 DEF Counts
<1> QED
  BY <1>1, <1>2, <1>7, <1>8 DEF t

-----------------------------------------------------------------------------
(* The invariants.                                                          *)

Holding == Opening \cup {"open", "closed"}

\* Whoever is opening, open or closing has the lock of the file.
LockInv == \A a \in Attachments : pc[a] \in Holding => lock = a

\* A stream belongs to an open attachment, a call to one that may write.
StreamInv ==
    /\ ~IsOpen => buffer = <<>>
    /\ writer # None => IsOpen /\ ~poisoned

\* What a repair or a migration has read is still what the file holds, and
\* the backup holds the tail the repair will cut.
RecoverInv ==
    \A a \in Attachments :
        /\ pc[a] \in {"torn", "saving", "saved"} => read[a] = disk
        /\ pc[a] \in {"saving", "saved"} =>
               backup \in Backups /\ backup.tail = TerminalTail(disk)
        /\ pc[a] = "saved" => backup.whole
        /\ pc[a] = "staged" => read[a] = [i \in DOMAIN disk |-> Entry(disk[i].rec, "nl")]

\* What a commit still has to write leads from its view of the facts to what
\* its thread staged.
Owes(w, top) ==
    /\ ~w.wipe
    /\ \A f \in Facts :
          /\ w.less[f] <= w.view[f]
          /\ w.view[f] + w.more[f] = top.atoms[f] + w.less[f]
CommitInv ==
    writer # None /\ stack[writer.thread] # <<>> =>
        /\ Len(stack[writer.thread]) = 1
        /\ mem = stack[writer.thread][1].base
        /\ Owes(writer, stack[writer.thread][1])

IInv == TypeOK /\ LockInv /\ StreamInv /\ JournalIsMemory /\ RecoverInv /\ CommitInv

-----------------------------------------------------------------------------
(* The file, when a write that stops never stops between a record's full    *)
(* stop and its newline.                                                    *)

Whole(s) == \A i \in DOMAIN s : s[i].end = "nl"

\* Only the last record of a file may have been cut.
WellFile(s) ==
    \A i \in DOMAIN s : s[i].end = "nl" \/ (i = Len(s) /\ s[i].end = "torn")

\* The heads of a file, and those an attachment knows.
HeadsIn(heads, s) == \A i \in DOMAIN s : s[i].head \in heads
KnownHeads(a) == IF a \in Renaming THEN {"old", "new"} ELSE {"new"}

\* What an open attachment wrote.
New(s) == \A i \in DOMAIN s : s[i].end = "nl" /\ s[i].head = "new"

\* Nothing is written behind a record that was cut, and what an attachment has
\* validated or repaired is whole.
Ready == {"rewrite", "staged", "valid"}
FileInv(heads) ==
    /\ WellFile(disk) /\ HeadsIn(heads, disk) /\ New(buffer)
    /\ buffer # <<>> => Whole(disk)
    /\ IsOpen /\ ~poisoned => Whole(disk)
    /\ \A a \in Attachments : pc[a] \in Ready => Whole(disk)

-----------------------------------------------------------------------------
(* Bags, records and the tail of the file.                                  *)

\* Nothing, and one fact, are bags; a record makes a bag from a bag.
LEMMA BagTypes ==
    /\ Empty \in Bags
    /\ \A f \in Facts : One(f) \in Bags
    /\ \A bag \in Bags, r \in Records : Apply(bag, r) \in Bags
    /\ \A left \in Bags, right \in Bags : Surplus(left, right) \in Bags
<1>1. Empty \in Bags
  BY DEF Empty, Bags
<1>2. \A f \in Facts : One(f) \in Bags
  BY DEF One, Empty, Bags
<1>3. ASSUME NEW bag \in Bags, NEW r \in Records PROVE Apply(bag, r) \in Bags
  <2>1. Entry(r, "nl") \in Entries /\ Entry(r, "nl").end # "torn" /\ Entry(r, "nl").rec = r
    BY DEF Entry, Entries
  <2>2. Replayed(bag, Entry(r, "nl")) = Apply(bag, r)
    BY <2>1 DEF Replayed
  <2> QED
    BY <2>1, <2>2, ReplayedBag
<1>4. ASSUME NEW left \in Bags, NEW right \in Bags PROVE Surplus(left, right) \in Bags
  BY DEF Surplus, Bags
<1> QED
  BY <1>1, <1>2, <1>3, <1>4

\* What an updater writes is an entry.
LEMMA EntryType ==
    /\ \A r \in Records : Entry(r, "nl") \in Entries
    /\ \A e \in Entries, cut \in Cuts : Entry(e.rec, cut) \in Entries
    /\ \A e \in Entries : e.rec \in Records /\ Entry(e.rec, "nl") \in Entries
BY CutsAssumption DEF Entry, Entries

\* The boundary of a file is its last newline.
LEMMA BoundaryIsLast ==
    ASSUME NEW s \in Seq(Entries)
    PROVE  /\ Boundary(s) \in 0..Len(s)
           /\ Boundary(s) # 0 => s[Boundary(s)].end = "nl"
           /\ \A j \in 1..Len(s) : s[j].end = "nl" => j <= Boundary(s)
<1> DEFINE T == {i \in 1..Len(s) : s[i].end = "nl"}
<1>1. Len(s) \in Nat /\ DOMAIN s = 1..Len(s)
  OBVIOUS
<1>2. CASE T = {}
  <2>1. Boundary(s) = 0
    BY <1>1, <1>2 DEF Boundary
  <2> QED
    BY <1>1, <1>2, <2>1
<1>3. CASE T # {}
  <2>1. \E i \in T : \A j \in T : j <= i
    <3> HIDE DEF T
    <3>1. T \subseteq 1..Len(s)
      BY DEF T
    <3> QED
      BY <1>1, <1>3, <3>1, GreatestPosition
  <2>2. \E i \in DOMAIN s : s[i].end = "nl"
    BY <1>1, <1>3
  <2>3. \E i \in DOMAIN s : /\ s[i].end = "nl"
                            /\ \A j \in DOMAIN s : s[j].end = "nl" => j <= i
    BY <1>1, <2>1
  <2>4. /\ Boundary(s) \in DOMAIN s /\ s[Boundary(s)].end = "nl"
        /\ \A j \in DOMAIN s : s[j].end = "nl" => j <= Boundary(s)
    BY <2>2, <2>3 DEF Boundary
  <2> QED
    BY <1>1, <2>4
<1> QED
  BY <1>2, <1>3

\* A file is what is kept of it and its tail.
LEMMA KeptAndTail ==
    ASSUME NEW s \in Seq(Entries)
    PROVE  /\ Kept(s) \in Seq(Entries) /\ TerminalTail(s) \in Seq(Entries)
           /\ s = Kept(s) \o TerminalTail(s)
           /\ Len(Kept(s)) = Boundary(s) /\ \A i \in 1..Boundary(s) : Kept(s)[i] = s[i]
           /\ Len(TerminalTail(s)) = Len(s) - Boundary(s)
<1> DEFINE b == Boundary(s)
           n == Len(s)
<1>1. b \in 0..n /\ n \in Nat
  BY BoundaryIsLast
<1> HIDE DEF b
<1>2. /\ SubSeq(s, 1, b) \in Seq(Entries) /\ SubSeq(s, b + 1, n) \in Seq(Entries)
      /\ Len(SubSeq(s, 1, b)) = b /\ Len(SubSeq(s, b + 1, n)) = n - b
      /\ \A i \in 1..b : SubSeq(s, 1, b)[i] = s[i]
  BY <1>1
<1>3. s = SubSeq(s, 1, b) \o SubSeq(s, b + 1, n)
  <2>1. SubSeq(s, 1, b) \o SubSeq(s, b + 1, n) = SubSeq(s, 1, n)
    <3>1. /\ 1 \in 1..(n + 1) /\ b \in (1 - 1)..n /\ n \in b..n
      BY <1>1
    <3> HIDE DEF n
    <3>2. /\ 1 \in 1..(Len(s) + 1) /\ b \in (1 - 1)..Len(s) /\ n \in b..Len(s)
      BY <3>1 DEF n
    <3> QED
      BY <3>2, ConcatAdjacentSubSeq
  <2>2. SubSeq(s, 1, n) = s
    BY SubSeqFull
  <2> QED
    BY <2>1, <2>2
<1> QED
  BY <1>2, <1>3 DEF b, Kept, TerminalTail

\* A step of the file behind the stream: the stream's next record is the
\* file's last.
LEMMA SpilledIsSame ==
    ASSUME NEW d \in Seq(Entries), NEW b \in Seq(Entries), b # <<>>
    PROVE  /\ Head(b) \in Entries /\ Tail(b) \in Seq(Entries)
           /\ Append(d, Head(b)) \in Seq(Entries)
           /\ Append(d, Head(b)) \o Tail(b) = d \o b
<1> DEFINE h == Head(b)
           u == Tail(b)
<1>1. h \in Entries /\ u \in Seq(Entries) /\ <<h>> \in Seq(Entries)
  BY HeadTailProperties
<1>2. b = <<h>> \o u
  <2>1. Len(<<h>> \o u) = Len(b) /\ <<h>> \o u \in Seq(Entries)
    BY <1>1, ConcatProperties, HeadTailProperties
  <2>2. \A i \in 1..Len(b) : (<<h>> \o u)[i] = b[i]
    BY <1>1, ConcatProperties, HeadTailProperties
  <2> QED
    BY <2>1, <2>2, SeqEqual
<1> HIDE DEF h, u
<1>3. Append(d, h) = d \o <<h>> /\ Append(d, h) \in Seq(Entries)
  BY <1>1, AppendIsConcat, AppendProperties
<1>4. (d \o <<h>>) \o u = d \o (<<h>> \o u)
  BY <1>1, ConcatAssociative
<1>5. Append(d, h) \o u = d \o b
  BY <1>2, <1>3, <1>4
<1> QED
  BY <1>1, <1>3, <1>5 DEF h, u

\* A record that enters the stream is the last of the file and the stream.
LEMMA WrittenIsLast ==
    ASSUME NEW d \in Seq(Entries), NEW b \in Seq(Entries), NEW e \in Entries
    PROVE  d \o Append(b, e) = Append(d \o b, e)
<1>1. <<e>> \in Seq(Entries) /\ d \o b \in Seq(Entries)
  BY ConcatProperties
<1>2. Append(b, e) = b \o <<e>> /\ Append(d \o b, e) = (d \o b) \o <<e>>
  BY <1>1, AppendIsConcat
<1>3. (d \o b) \o <<e>> = d \o (b \o <<e>>)
  BY <1>1, ConcatAssociative
<1> QED
  BY <1>2, <1>3

-----------------------------------------------------------------------------
(* Types.                                                                   *)

\* A call stays a call when one of its fields is brought up to date.
LEMMA CallTypes ==
    ASSUME NEW w \in Calls
    PROVE  /\ w.thread \in Threads /\ w.less \in Bags /\ w.more \in Bags
           /\ w.view \in Bags /\ w.wipe \in BOOLEAN
           /\ \A r \in Records : [w EXCEPT !.view = Apply(@, r)] \in Calls
           /\ [w EXCEPT !.wipe = FALSE] \in Calls
           /\ \A f \in Facts : w.less[f] > 0 => [w EXCEPT !.less[f] = @ - 1] \in Calls
           /\ \A f \in Facts : w.more[f] > 0 => [w EXCEPT !.more[f] = @ - 1] \in Calls
<1>1. /\ w.thread \in Threads /\ w.less \in Bags /\ w.more \in Bags
      /\ w.view \in Bags /\ w.wipe \in BOOLEAN
  BY DEF Calls
<1>2. ASSUME NEW r \in Records PROVE [w EXCEPT !.view = Apply(@, r)] \in Calls
  <2>1. Apply(w.view, r) \in Bags
    BY <1>1, BagTypes
  <2> QED
    BY <2>1 DEF Calls
<1>3. [w EXCEPT !.wipe = FALSE] \in Calls
  BY DEF Calls
<1>4. ASSUME NEW f \in Facts, w.less[f] > 0
      PROVE  [w EXCEPT !.less[f] = @ - 1] \in Calls
  <2>1. [w.less EXCEPT ![f] = @ - 1] \in Bags
    BY <1>1, <1>4 DEF Bags
  <2> QED
    BY <2>1 DEF Calls
<1>5. ASSUME NEW f \in Facts, w.more[f] > 0
      PROVE  [w EXCEPT !.more[f] = @ - 1] \in Calls
  <2>1. [w.more EXCEPT ![f] = @ - 1] \in Bags
    BY <1>1, <1>5 DEF Bags
  <2> QED
    BY <2>1 DEF Calls
<1> QED
  BY <1>1, <1>2, <1>3, <1>4, <1>5

\* The transactions a thread is in.
Frames == [base : Bags, atoms : Bags]
Stacks == [Threads -> Seq(Frames)]
Fits(st) == \A t \in Threads : Len(st[t]) <= MaxDepth[t]

\* Entering, changing and leaving a transaction keeps the stacks what they are.
LEMMA StackTypes ==
    ASSUME NEW st \in Stacks, Fits(st), NEW t \in Threads
    PROVE  /\ [st EXCEPT ![t] = IF @ = <<>> THEN @ ELSE Front(@)] \in Stacks
           /\ Fits([st EXCEPT ![t] = IF @ = <<>> THEN @ ELSE Front(@)])
           /\ st[t] # <<>> => Last(st[t]) \in Frames
           /\ \A b \in Bags : Len(st[t]) < MaxDepth[t] =>
                 LET new == [st EXCEPT ![t] = Append(@, [base |-> b, atoms |-> b])]
                 IN new \in Stacks /\ Fits(new)
           /\ \A b \in Bags : st[t] # <<>> =>
                 LET new == [st EXCEPT ![t][Len(st[t])].atoms = b]
                 IN new \in Stacks /\ Fits(new)
           /\ \A b \in Bags : Len(st[t]) > 1 =>
                 LET new == [st EXCEPT ![t] = [Front(@) EXCEPT ![Len(st[t]) - 1].atoms = b]]
                 IN new \in Stacks /\ Fits(new)
<1> DEFINE s == st[t]
<1>1. s \in Seq(Frames) /\ Len(s) \in Nat /\ Len(s) <= MaxDepth[t] /\ MaxDepth[t] \in Nat
  BY BoundAssumption DEF Stacks, Fits
<1>2. ASSUME NEW u \in Seq(Frames), Len(u) <= MaxDepth[t]
      PROVE  [st EXCEPT ![t] = u] \in Stacks /\ Fits([st EXCEPT ![t] = u])
  BY <1>2 DEF Stacks, Fits
<1>3. s # <<>> => /\ Len(s) > 0 /\ Last(s) = s[Len(s)] /\ Last(s) \in Frames
                  /\ Front(s) \in Seq(Frames) /\ Len(Front(s)) = Len(s) - 1
  BY <1>1 DEF Last, Front
<1>4. \A b \in Bags : [base |-> b, atoms |-> b] \in Frames
  BY DEF Frames
<1>5. \A e \in Frames, b \in Bags : [e EXCEPT !.atoms = b] \in Frames
  BY DEF Frames
<1>6. \A b \in Bags : s # <<>> => /\ [s EXCEPT ![Len(s)].atoms = b] \in Seq(Frames)
                                  /\ Len([s EXCEPT ![Len(s)].atoms = b]) = Len(s)
  <2> TAKE b \in Bags
  <2> HAVE s # <<>>
  <2>1. Len(s) \in 1..Len(s) /\ [s[Len(s)] EXCEPT !.atoms = b] \in Frames
    BY <1>1, <1>3, <1>5
  <2> HIDE DEF s
  <2> QED
    BY <1>1, <2>1, ExceptSeq
<1>7. \A b \in Bags : Len(s) > 1 =>
          /\ [Front(s) EXCEPT ![Len(s) - 1].atoms = b] \in Seq(Frames)
          /\ Len([Front(s) EXCEPT ![Len(s) - 1].atoms = b]) = Len(s) - 1
  <2> TAKE b \in Bags
  <2> HAVE Len(s) > 1
  <2> DEFINE u == Front(s)
  <2>1. u \in Seq(Frames) /\ Len(u) = Len(s) - 1
    BY <1>1, <1>3
  <2>2. Len(s) - 1 \in 1..Len(u) /\ u[Len(s) - 1] \in Frames
    <3> HIDE DEF u, s
    <3> QED
      BY <1>1, <2>1
  <2>3. [u[Len(s) - 1] EXCEPT !.atoms = b] \in Frames
    BY <1>5, <2>2
  <2> HIDE DEF s, u
  <2> QED
    BY <2>1, <2>2, <2>3, ExceptSeq DEF u
<1>8. [st EXCEPT ![t] = IF @ = <<>> THEN @ ELSE Front(@)] \in Stacks
      /\ Fits([st EXCEPT ![t] = IF @ = <<>> THEN @ ELSE Front(@)])
  <2> DEFINE u == IF s = <<>> THEN s ELSE Front(s)
  <2>1. u \in Seq(Frames) /\ Len(u) <= MaxDepth[t]
    BY <1>1, <1>3
  <2> QED
    BY <1>2, <2>1
<1>9. ASSUME NEW b \in Bags, Len(s) < MaxDepth[t]
      PROVE  /\ [st EXCEPT ![t] = Append(@, [base |-> b, atoms |-> b])] \in Stacks
             /\ Fits([st EXCEPT ![t] = Append(@, [base |-> b, atoms |-> b])])
  <2> DEFINE u == Append(s, [base |-> b, atoms |-> b])
  <2>1. u \in Seq(Frames) /\ Len(u) <= MaxDepth[t]
    BY <1>1, <1>4, <1>9, AppendProperties
  <2> QED
    BY <1>2, <2>1
<1>10. ASSUME NEW b \in Bags, s # <<>>
       PROVE  /\ [st EXCEPT ![t][Len(st[t])].atoms = b] \in Stacks
              /\ Fits([st EXCEPT ![t][Len(st[t])].atoms = b])
  <2> DEFINE u == [s EXCEPT ![Len(s)].atoms = b]
  <2>1. u \in Seq(Frames) /\ Len(u) <= MaxDepth[t]
    BY <1>1, <1>6, <1>10
  <2> HIDE DEF u
  <2>2. [st EXCEPT ![t] = u] \in Stacks /\ Fits([st EXCEPT ![t] = u])
    BY <1>2, <2>1
  <2> QED
    BY <2>2 DEF u
<1>11. ASSUME NEW b \in Bags, Len(s) > 1
       PROVE  /\ [st EXCEPT ![t] = [Front(@) EXCEPT ![Len(st[t]) - 1].atoms = b]] \in Stacks
              /\ Fits([st EXCEPT ![t] = [Front(@) EXCEPT ![Len(st[t]) - 1].atoms = b]])
  <2> DEFINE u == [Front(s) EXCEPT ![Len(s) - 1].atoms = b]
  <2>1. u \in Seq(Frames) /\ Len(u) <= MaxDepth[t]
    BY <1>1, <1>7, <1>11
  <2> HIDE DEF u
  <2>2. [st EXCEPT ![t] = u] \in Stacks /\ Fits([st EXCEPT ![t] = u])
    BY <1>2, <2>1
  <2> QED
    BY <2>2 DEF u
<1> QED
  BY <1>3, <1>8, <1>9, <1>10, <1>11

\* TypeOK, a variable at a time.
LEMMA TypeParts ==
    ASSUME TypeOK
    PROVE  /\ disk \in Seq(Entries) /\ buffer \in Seq(Entries)
           /\ backup \in Backups \cup {None}
           /\ active \subseteq {ProcessOf[a] : a \in Attachments}
           /\ lock \in Attachments \cup {None}
           /\ pc \in [Attachments -> Phases]
           /\ read \in [Attachments -> Seq(Entries)]
           /\ mem \in Bags /\ poisoned \in BOOLEAN /\ told \in BOOLEAN
           /\ writer \in Calls \cup {None}
           /\ stack \in Stacks /\ Fits(stack)
           /\ crashes \in 0..MaxCrashes
BY DEF TypeOK, Stacks, Fits, Frames

\* And after a step.
LEMMA TypePartsNext ==
    ASSUME /\ disk' \in Seq(Entries) /\ buffer' \in Seq(Entries)
           /\ backup' \in Backups \cup {None}
           /\ active' \subseteq {ProcessOf[a] : a \in Attachments}
           /\ lock' \in Attachments \cup {None}
           /\ pc' \in [Attachments -> Phases]
           /\ read' \in [Attachments -> Seq(Entries)]
           /\ mem' \in Bags /\ poisoned' \in BOOLEAN /\ told' \in BOOLEAN
           /\ writer' \in Calls \cup {None}
           /\ stack' \in Stacks /\ Fits(stack')
           /\ crashes' \in 0..MaxCrashes
    PROVE  TypeOK'
BY DEF TypeOK, Stacks, Fits, Frames

\* A phase an attachment may go to.
LEMMA PhaseTypes ==
    ASSUME TypeOK, NEW a \in Attachments, NEW p \in Phases, To(a, p)
    PROVE  pc' \in [Attachments -> Phases]
BY DEF TypeOK, To

\* The steps of an attachment, of the calls that write and of a transaction.
OpeningStep(a) ==
    \/ Claim(a) \/ Lock(a) \/ Validate(a) \/ CreateBackup(a)
    \/ FinishBackup(a) \/ Truncate(a) \/ Rewrite(a) \/ Replace(a)
    \/ Attach(a) \/ Abandon(a) \/ ReleasePath(a)
    \/ Close(a) \/ ReleaseLock(a)

StartingStep(t) ==
    \/ \E f \in Facts : AddFact(t, f) \/ RemoveFact(t, f)
    \/ ClearFacts(t)

RecordStep ==
    \/ WriteAll
    \/ \E f \in Facts : WriteRetract(f) \/ WriteAssert(f)

StreamStep == WriteDone \/ WriteFails \/ Spill \/ Flush \/ Compact

TransactionStep(t) ==
    \/ \E f \in Facts : StageAdd(t, f) \/ StageRemove(t, f)
    \/ Begin(t) \/ StageClear(t) \/ Rollback(t) \/ CommitNested(t) \/ Commit(t)

CrashStep == \E p \in {ProcessOf[a] : a \in Attachments} : Crash(p)

\* There are no other steps.
LEMMA StepCases ==
    ASSUME Next
    PROVE  \/ \E a \in Attachments : OpeningStep(a)
           \/ MoveAside
           \/ \E t \in Threads : StartingStep(t)
           \/ RecordStep
           \/ StreamStep
           \/ \E t \in Threads : TransactionStep(t)
           \/ CrashStep
BY DEF Next, OpeningStep, StartingStep, RecordStep, StreamStep, TransactionStep, CrashStep

\* The steps of a constructor keep the types.
LEMMA OpeningTypes ==
    ASSUME TypeOK, RecoverInv, NEW a \in Attachments, OpeningStep(a)
    PROVE  TypeOK'
<1> USE TypeParts DEF files, claims, live
<1>1. /\ \A p \in Phases : To(a, p) => pc' \in [Attachments -> Phases]
      /\ {"down", "claimed", "locked", "torn", "saving", "saved", "rewrite", "staged",
          "valid", "open", "closed", "abandoned"} \subseteq Phases
      /\ AfterValid(a) \in Phases
  <2>1. {"down", "claimed", "locked", "torn", "saving", "saved", "rewrite", "staged",
         "valid", "open", "closed", "abandoned"} \subseteq Phases
    BY DEF Phases, Opening
  <2> QED
    BY <2>1, PhaseTypes DEF AfterValid
<1>2. \A s \in Seq(Entries) : [read EXCEPT ![a] = s] \in [Attachments -> Seq(Entries)]
  OBVIOUS
<1>3. <<>> \in Seq(Entries) /\ None \in Backups \cup {None} /\ None \in Calls \cup {None}
  OBVIOUS
<1>4. [t \in Threads |-> <<>>] \in Stacks /\ Fits([t \in Threads |-> <<>>])
  BY BoundAssumption DEF Stacks, Fits
<1>5. CASE Claim(a)
  BY <1>1, <1>5, TypePartsNext DEF Claim
<1>6. CASE Lock(a)
  BY <1>1, <1>6, TypePartsNext DEF Lock
<1>7. CASE Validate(a)
  BY <1>1, <1>2, <1>7, TypePartsNext DEF Validate
<1>8. CASE CreateBackup(a)
  <2>1. TerminalTail(read[a]) \in Seq(Entries)
    BY KeptAndTail
  <2>2. [tail |-> TerminalTail(read[a]), whole |-> FALSE] \in Backups
    BY <2>1 DEF Backups
  <2> QED
    BY <1>1, <1>8, <2>2, TypePartsNext DEF CreateBackup
<1>9. CASE FinishBackup(a)
  <2>1. backup \in Backups
    BY <1>9 DEF FinishBackup, RecoverInv
  <2>2. [backup EXCEPT !.whole = TRUE] \in Backups
    BY <2>1 DEF Backups
  <2> QED
    BY <1>1, <1>9, <2>2, TypePartsNext DEF FinishBackup
<1>10. CASE Truncate(a)
  <2>1. read[a] = disk
    BY <1>10 DEF Truncate, MayTruncate, RecoverInv
  <2>2. disk' = Kept(disk)
    BY <1>10, <2>1 DEF Truncate, Kept
  <2>3. disk' \in Seq(Entries)
    BY <2>2, KeptAndTail
  <2> QED
    BY <1>1, <1>10, <2>3, TypePartsNext DEF Truncate
<1>11. CASE Rewrite(a)
  <2> DEFINE s == [i \in DOMAIN disk |-> Entry(disk[i].rec, "nl")]
  <2>1. Len(disk) \in Nat /\ DOMAIN disk = 1..Len(disk)
        /\ \A i \in 1..Len(disk) : Entry(disk[i].rec, "nl") \in Entries
    BY EntryType
  <2>2. s \in Seq(Entries)
    BY <2>1
  <2> QED
    BY <1>1, <1>2, <1>11, <2>2, TypePartsNext DEF Rewrite
<1>12. CASE Replace(a)
  BY <1>1, <1>12, TypePartsNext DEF Replace
<1>13. CASE Attach(a)
  BY <1>1, <1>2, <1>3, <1>4, <1>13, ReplayBag, TypePartsNext DEF Attach
<1>14. CASE Abandon(a)
  BY <1>1, <1>2, <1>3, <1>14, TypePartsNext DEF Abandon
<1>15. CASE ReleasePath(a)
  BY <1>1, <1>15, TypePartsNext DEF ReleasePath
<1>16. CASE Close(a)
  BY <1>1, <1>4, <1>16, BagTypes, TypePartsNext DEF Close
<1>17. CASE ReleaseLock(a)
  BY <1>1, <1>17, TypePartsNext DEF ReleaseLock
<1> QED
  BY <1>5, <1>6, <1>7, <1>8, <1>9, <1>10, <1>11, <1>12, <1>13, <1>14, <1>15, <1>16, <1>17
     DEF OpeningStep

\* A new call is a call.
LEMMA StartsTypes ==
    ASSUME TypeOK, NEW t \in Threads, NEW less \in Bags, NEW more \in Bags,
           NEW wipe \in BOOLEAN, Starts(t, less, more, wipe)
    PROVE  writer' \in Calls
BY TypeParts DEF Starts, Calls

\* Beginning a call keeps the types.
LEMMA StartingTypes ==
    ASSUME TypeOK, NEW t \in Threads, StartingStep(t)
    PROVE  TypeOK'
<1> USE TypeParts DEF files, claims, live
<1>1. ASSUME NEW f \in Facts, AddFact(t, f) PROVE TypeOK'
  <2>1. writer' \in Calls
    BY <1>1, BagTypes, StartsTypes DEF AddFact
  <2> QED
    BY <1>1, <2>1, TypePartsNext DEF AddFact
<1>2. ASSUME NEW f \in Facts, RemoveFact(t, f) PROVE TypeOK'
  <2>1. writer' \in Calls
    BY <1>2, BagTypes, StartsTypes DEF RemoveFact
  <2> QED
    BY <1>2, <2>1, TypePartsNext DEF RemoveFact
<1>3. CASE ClearFacts(t)
  <2>1. writer' \in Calls
    BY <1>3, BagTypes, StartsTypes DEF ClearFacts
  <2> QED
    BY <1>3, <2>1, TypePartsNext DEF ClearFacts
<1> QED
  BY <1>1, <1>2, <1>3 DEF StartingStep

\* What a record step writes, and what it leaves of the call.
LEMMA RecordCases ==
    ASSUME TypeOK, RecordStep
    PROVE  writer # None /\ \E r \in Records, w \in Calls : WriteRecord(r, w)
<1> USE TypeParts
<1>1. CASE WriteAll
  BY <1>1, CallTypes DEF WriteAll, Records
<1>2. ASSUME NEW f \in Facts, WriteRetract(f)
      PROVE  \E r \in Records, w \in Calls : WriteRecord(r, w)
  <2>1. [op |-> "retract", fact |-> f] \in Records
    BY DEF Records
  <2> QED
    BY <1>2, <2>1, CallTypes DEF WriteRetract
<1>3. ASSUME NEW f \in Facts, WriteAssert(f)
      PROVE  \E r \in Records, w \in Calls : WriteRecord(r, w)
  <2>1. [op |-> "assert", fact |-> f] \in Records
    BY DEF Records
  <2> QED
    BY <1>3, <2>1, CallTypes DEF WriteAssert
<1> QED
  BY <1>1, <1>2, <1>3 DEF RecordStep, WriteAll, WriteRetract, WriteAssert

\* Writing a record keeps the types.
LEMMA RecordTypes ==
    ASSUME TypeOK, RecordStep
    PROVE  TypeOK'
<1> USE TypeParts DEF files, claims, live
<1>1. PICK r \in Records, w \in Calls : WriteRecord(r, w)
  BY RecordCases
<1>2. buffer' \in Seq(Entries) /\ writer' \in Calls
  BY <1>1, CallTypes, EntryType, AppendProperties DEF WriteRecord
<1> QED
  BY <1>1, <1>2, TypePartsNext DEF WriteRecord

\* Ending a call, the stream and the flushes keep the types.
LEMMA StreamTypes ==
    ASSUME TypeOK, StreamStep
    PROVE  TypeOK'
<1> USE TypeParts DEF files, claims, live
<1>1. writer # None => /\ Popped(writer.thread) \in Stacks /\ Fits(Popped(writer.thread))
                       /\ writer.view \in Bags
  BY StackTypes, CallTypes DEF Popped
<1>2. CASE WriteDone
  <2>1. told' \in BOOLEAN /\ writer' = None /\ mem' \in Bags /\ stack' \in Stacks /\ Fits(stack')
    BY <1>1, <1>2 DEF WriteDone
  <2> QED
    BY <1>2, <2>1, TypePartsNext DEF WriteDone
<1>3. CASE WriteFails
  <2>1. stack' \in Stacks /\ Fits(stack')
    BY <1>1, <1>3 DEF WriteFails
  <2>2. disk' \in Seq(Entries) /\ buffer' \in Seq(Entries)
    <3>1. CASE UNCHANGED <<disk, buffer>>
      BY <3>1
    <3>2. CASE buffer # <<>> /\ buffer' = <<>>
               /\ \E cut \in Cuts : disk' = Append(disk, Entry(Head(buffer).rec, cut))
      BY <3>2, HeadTailProperties, EntryType, AppendProperties
    <3> QED
      BY <1>3, <3>1, <3>2 DEF WriteFails
  <2> QED
    BY <1>3, <2>1, <2>2, TypePartsNext DEF WriteFails, Poison
<1>4. CASE Spill
  BY <1>4, SpilledIsSame, TypePartsNext DEF Spill
<1>5. CASE Flush
  BY <1>5, TypePartsNext DEF Flush
<1>6. CASE Compact
  <2>1. disk' \in Seq(Entries)
    <3>1. PICK n \in 0..MaxRecords :
             disk' \in [1..n -> {Entry([op |-> "assert", fact |-> g], "nl") : g \in Facts}]
      BY <1>6 DEF Compact
    <3>2. {Entry([op |-> "assert", fact |-> g], "nl") : g \in Facts} \subseteq Entries
      BY EntryType DEF Records
    <3> DEFINE E == {Entry([op |-> "assert", fact |-> g], "nl") : g \in Facts}
    <3>3. n \in Nat /\ disk' \in [1..n -> Entries]
      <4>1. n \in Nat
        BY BoundAssumption
      <4>2. disk' \in [1..n -> E] /\ E \subseteq Entries
        BY <3>1, <3>2
      <4> HIDE DEF E
      <4>3. \A i \in 1..n : disk'[i] \in Entries
        BY <4>2
      <4> QED
        BY <4>1, <4>2, <4>3
    <3> QED
      BY <3>3
  <2> QED
    BY <1>6, <2>1, TypePartsNext DEF Compact
<1> QED
  BY <1>2, <1>3, <1>4, <1>5, <1>6 DEF StreamStep

\* The transaction steps keep the types.
LEMMA TransactionTypes ==
    ASSUME TypeOK, NEW t \in Threads, TransactionStep(t)
    PROVE  TypeOK'
<1> USE TypeParts DEF files, claims, live
<1>1. Len(stack[t]) \in Nat /\ (stack[t] # <<>> => Last(stack[t]).atoms \in Bags
                                                  /\ Last(stack[t]).base \in Bags)
      /\ (Len(stack[t]) > 0 => stack[t] # <<>>)
  <2>1. stack[t] \in Seq(Frames)
    BY DEF Stacks
  <2>2. stack[t] # <<>> => Last(stack[t]) \in Frames
    BY StackTypes
  <2> QED
    BY <2>1, <2>2 DEF Frames
<1>2. ASSUME NEW b \in Bags, Stage(t, b), stack[t] # <<>> PROVE TypeOK'
  <2>1. stack' \in Stacks /\ Fits(stack')
    BY <1>2, StackTypes DEF Stage
  <2> QED
    BY <1>2, <2>1, TypePartsNext DEF Stage
<1>3. Popped(t) \in Stacks /\ Fits(Popped(t))
  BY StackTypes DEF Popped
<1>4. CASE Begin(t)
  <2> DEFINE base == IF stack[t] = <<>> THEN mem ELSE Last(stack[t]).atoms
  <2>1. base \in Bags
    BY <1>1
  <2> HIDE DEF base
  <2>2. stack' = [stack EXCEPT ![t] = Append(@, [base |-> base, atoms |-> base])]
        /\ Len(stack[t]) < MaxDepth[t]
    BY <1>4 DEF Begin, base
  <2>3. stack' \in Stacks /\ Fits(stack')
    BY <2>1, <2>2, StackTypes
  <2> QED
    BY <1>4, <2>3, TypePartsNext DEF Begin
<1>5. ASSUME NEW f \in Facts, StageAdd(t, f) PROVE TypeOK'
  <2>1. stack[t] # <<>> /\ Stage(t, [Last(stack[t]).atoms EXCEPT ![f] = @ + 1])
    BY <1>5 DEF StageAdd
  <2>2. [Last(stack[t]).atoms EXCEPT ![f] = @ + 1] \in Bags
    BY <1>1, <2>1 DEF Bags
  <2> QED
    BY <1>2, <2>1, <2>2
<1>6. ASSUME NEW f \in Facts, StageRemove(t, f) PROVE TypeOK'
  <2>1. stack[t] # <<>> /\ Stage(t, [Last(stack[t]).atoms EXCEPT ![f] = @ - 1])
        /\ Last(stack[t]).atoms[f] > 0
    BY <1>6 DEF StageRemove
  <2>2. [Last(stack[t]).atoms EXCEPT ![f] = @ - 1] \in Bags
    BY <1>1, <2>1 DEF Bags
  <2> QED
    BY <1>2, <2>1, <2>2
<1>7. CASE StageClear(t)
  BY <1>2, <1>7, BagTypes DEF StageClear
<1>8. CASE Rollback(t)
  BY <1>3, <1>8, TypePartsNext DEF Rollback
<1>9. CASE CommitNested(t)
  <2>1. Len(stack[t]) > 1 /\ Last(stack[t]).atoms \in Bags
    BY <1>1, <1>9 DEF CommitNested
  <2>2. stack' \in Stacks /\ Fits(stack')
    BY <1>9, <2>1, StackTypes DEF CommitNested
  <2> QED
    BY <1>9, <2>2, TypePartsNext DEF CommitNested
<1>10. CASE Commit(t)
  <2> DEFINE top == Last(stack[t])
             less == Surplus(top.base, top.atoms)
             more == Surplus(top.atoms, top.base)
  <2>1. less \in Bags /\ more \in Bags
    <3>1. stack[t] # <<>>
      BY <1>1, <1>10 DEF Commit
    <3> QED
      BY <1>1, <3>1, BagTypes
  <2> HIDE DEF less, more
  <2>2. CASE Starts(t, less, more, FALSE) /\ UNCHANGED stack
    <3>1. writer' \in Calls
      BY <2>1, <2>2 DEF Starts, Calls
    <3> QED
      BY <1>10, <2>2, <3>1, TypePartsNext DEF Commit
  <2>3. CASE stack' = Popped(t) /\ UNCHANGED writer
    BY <1>3, <1>10, <2>3, TypePartsNext DEF Commit
  <2> QED
    BY <1>10, <2>2, <2>3 DEF Commit, less, more
<1> QED
  BY <1>4, <1>5, <1>6, <1>7, <1>8, <1>9, <1>10 DEF TransactionStep

\* What a crash leaves of the file: some of the stream's records, perhaps
\* another that was cut.
LEMMA CrashCases ==
    ASSUME TypeOK, NEW p, Crash(p), IsOpen, ProcessOf[lock] = p
    PROVE  /\ buffer' = <<>> /\ lock' = None /\ writer' = None
           /\ \E n \in 0..Len(buffer) :
                 \/ disk' = disk \o SubSeq(buffer, 1, n)
                 \/ /\ n < Len(buffer)
                    /\ \E cut \in Cuts :
                          disk' = disk \o Append(SubSeq(buffer, 1, n),
                                                 Entry(buffer[n + 1].rec, cut))
<1>1. lock \in {a \in Attachments : ProcessOf[a] = p}
  BY TypeParts DEF IsOpen
<1> QED
  BY <1>1 DEF Crash

\* A crash of another process leaves the file and the provider as they are.
LEMMA CrashElsewhere ==
    ASSUME TypeOK, NEW p, Crash(p), ~(IsOpen /\ ProcessOf[lock] = p)
    PROVE  UNCHANGED <<disk, buffer, mem, poisoned, writer, stack>>
<1>1. ~(IsOpen /\ lock \in {a \in Attachments : ProcessOf[a] = p})
  OBVIOUS
<1> QED
  BY <1>1 DEF Crash, live

\* The file after a crash, for whatever the stream held.
LEMMA CrashFile ==
    ASSUME NEW d \in Seq(Entries), NEW b \in Seq(Entries), NEW n \in 0..Len(b)
    PROVE  /\ SubSeq(b, 1, n) \in Seq(Entries) /\ Len(SubSeq(b, 1, n)) = n
           /\ d \o SubSeq(b, 1, n) \in Seq(Entries)
           /\ \A cut \in Cuts : n < Len(b) =>
                 /\ Entry(b[n + 1].rec, cut) \in Entries
                 /\ d \o Append(SubSeq(b, 1, n), Entry(b[n + 1].rec, cut)) \in Seq(Entries)
                 /\ d \o Append(SubSeq(b, 1, n), Entry(b[n + 1].rec, cut))
                      = Append(d \o SubSeq(b, 1, n), Entry(b[n + 1].rec, cut))
<1> DEFINE s == SubSeq(b, 1, n)
<1>1. s \in Seq(Entries) /\ Len(s) = n
  OBVIOUS
<1> HIDE DEF s
<1>2. d \o s \in Seq(Entries)
  BY <1>1, ConcatProperties
<1>3. ASSUME NEW cut \in Cuts, n < Len(b)
      PROVE  /\ Entry(b[n + 1].rec, cut) \in Entries
             /\ d \o Append(s, Entry(b[n + 1].rec, cut)) \in Seq(Entries)
             /\ d \o Append(s, Entry(b[n + 1].rec, cut)) = Append(d \o s, Entry(b[n + 1].rec, cut))
  <2>1. b[n + 1] \in Entries
    BY <1>3
  <2> DEFINE e == Entry(b[n + 1].rec, cut)
  <2>2. e \in Entries
    BY <2>1, EntryType
  <2> HIDE DEF e
  <2>3. d \o Append(s, e) = Append(d \o s, e) /\ Append(d \o s, e) \in Seq(Entries)
    BY <1>1, <1>2, <2>2, WrittenIsLast, AppendProperties
  <2>4. d \o Append(s, e) \in Seq(Entries)
    BY <2>3
  <2> QED
    BY <2>2, <2>3, <2>4 DEF e
<1> QED
  BY <1>1, <1>2, <1>3 DEF s

\* A crash keeps the types.
LEMMA CrashTypes ==
    ASSUME TypeOK, CrashStep
    PROVE  TypeOK'
<1> USE TypeParts
<1>1. PICK a \in Attachments : Crash(ProcessOf[a])
  BY DEF CrashStep
<1> DEFINE p == ProcessOf[a]
<1>2. Crash(p)
  BY <1>1
<1> HIDE DEF p
<1>3. /\ backup' \in Backups \cup {None} /\ told' \in BOOLEAN
      /\ active' \subseteq {ProcessOf[x] : x \in Attachments}
      /\ lock' \in Attachments \cup {None}
      /\ crashes' \in 0..MaxCrashes
  BY <1>2, BoundAssumption DEF Crash
<1>4. pc' \in [Attachments -> Phases]
  BY <1>2 DEF Crash, Phases
<1>5. read' \in [Attachments -> Seq(Entries)]
  <2>1. <<>> \in Seq(Entries)
    OBVIOUS
  <2> QED
    BY <1>2, <2>1 DEF Crash
<1>6. disk' \in Seq(Entries) /\ buffer' \in Seq(Entries)
  <2>1. CASE IsOpen /\ ProcessOf[lock] = p
    <3>1. PICK n \in 0..Len(buffer) :
             \/ disk' = disk \o SubSeq(buffer, 1, n)
             \/ /\ n < Len(buffer)
                /\ \E cut \in Cuts :
                      disk' = disk \o Append(SubSeq(buffer, 1, n),
                                             Entry(buffer[n + 1].rec, cut))
      BY <1>2, <2>1, CrashCases
    <3>2. buffer' = <<>>
      BY <1>2, <2>1, CrashCases
    <3>3. disk' \in Seq(Entries)
      <4>1. disk \o SubSeq(buffer, 1, n) \in Seq(Entries)
        BY CrashFile
      <4>2. ASSUME NEW cut \in Cuts, n < Len(buffer)
            PROVE  disk \o Append(SubSeq(buffer, 1, n), Entry(buffer[n + 1].rec, cut))
                     \in Seq(Entries)
        BY <4>2, CrashFile
      <4> QED
        BY <3>1, <4>1, <4>2
    <3> QED
      BY <3>2, <3>3
  <2>2. CASE ~(IsOpen /\ ProcessOf[lock] = p)
    BY <1>2, <2>2, CrashElsewhere
  <2> QED
    BY <2>1, <2>2
<1>7. mem' \in Bags /\ poisoned' \in BOOLEAN /\ writer' \in Calls \cup {None}
      /\ stack' \in Stacks /\ Fits(stack')
  <2>1. [t \in Threads |-> <<>>] \in Stacks /\ Fits([t \in Threads |-> <<>>])
    BY BoundAssumption DEF Stacks, Fits
  <2>2. CASE IsOpen /\ ProcessOf[lock] = p
    <3>1. mem' = Empty /\ poisoned' = FALSE /\ writer' = None /\ stack' = [t \in Threads |-> <<>>]
      <4>1. lock \in {x \in Attachments : ProcessOf[x] = p}
        BY <2>2 DEF IsOpen
      <4> QED
        BY <1>2, <2>2, <4>1 DEF Crash
    <3> QED
      BY <2>1, <3>1, BagTypes
  <2>3. CASE ~(IsOpen /\ ProcessOf[lock] = p)
    BY <1>2, <2>3, CrashElsewhere
  <2> QED
    BY <2>2, <2>3
<1> QED
  BY <1>3, <1>4, <1>5, <1>6, <1>7, TypePartsNext

\* Every step keeps the types.
LEMMA TypeStep ==
    ASSUME TypeOK, RecoverInv, [Next]_vars
    PROVE  TypeOK'
<1>1. CASE MoveAside
  BY <1>1, TypeParts, TypePartsNext DEF MoveAside, claims, live
<1>2. CASE UNCHANGED vars
  BY <1>2, TypeParts, TypePartsNext DEF vars, files, claims, live
<1> QED
  BY <1>1, <1>2, StepCases, OpeningTypes, StartingTypes, RecordTypes, StreamTypes,
     TransactionTypes, CrashTypes

-----------------------------------------------------------------------------
(* The lock.                                                                *)

\* Whoever has a phase that holds the lock is the only one.
LEMMA HolderIsOne ==
    ASSUME TypeOK, LockInv, NEW a \in Attachments, pc[a] \in Holding
    PROVE  /\ lock = a /\ a # None
           /\ \A b \in Attachments : b # a => pc[b] \notin Holding
           /\ (pc[a] # "open" => ~IsOpen)
BY NoneAssumption DEF LockInv, IsOpen

\* The phases that hold the lock.
LEMMA HoldingPhases ==
    /\ {"locked", "torn", "saving", "saved", "rewrite", "staged", "valid", "open", "closed"}
         = Holding
    /\ {"down", "claimed", "abandoned"} \cap Holding = {}
BY DEF Holding, Opening

\* A step that only moves one attachment on, and leaves the lock, keeps the
\* lock's owner.
LEMMA MovesOn ==
    ASSUME TypeOK, LockInv, NEW a \in Attachments, NEW q, To(a, q),
           pc[a] \in Holding \/ q \notin Holding, lock' = lock
    PROVE  LockInv'
BY TypeParts DEF LockInv, To

\* A step that gives the lock back leaves nobody with a phase that holds it.
LEMMA GivesBack ==
    ASSUME TypeOK, LockInv, NEW a \in Attachments, NEW q, To(a, q),
           pc[a] \in Holding, q \notin Holding, lock' = None
    PROVE  LockInv'
<1>1. \A b \in Attachments : pc'[b] \notin Holding
  BY TypeParts, HolderIsOne DEF To
<1> QED
  BY <1>1 DEF LockInv

\* The open attachment stays open while another moves on.
LEMMA OpenStays ==
    ASSUME TypeOK, NEW a \in Attachments, NEW q, To(a, q), lock' = lock,
           pc[a] # "open", q # "open"
    PROVE  IsOpen' <=> IsOpen
BY TypeParts DEF IsOpen, To

\* Every step keeps the lock with its owner, and the stream with the lock.
LEMMA LockStep ==
    ASSUME TypeOK, LockInv, StreamInv, [Next]_vars
    PROVE  LockInv' /\ StreamInv'
<1> USE TypeParts DEF files, claims, live
<1>1. ASSUME NEW a \in Attachments, OpeningStep(a)
      PROVE  LockInv' /\ StreamInv'
  <2>1. CASE \/ Claim(a) \/ ReleasePath(a) \/ (Lock(a) /\ lock # None)
    <3>1. \E q \in {"down", "claimed"} : To(a, q) /\ q \notin Holding
      BY <2>1, HoldingPhases DEF Claim, ReleasePath, Lock
    <3>2. lock' = lock /\ UNCHANGED <<buffer, poisoned, writer>> /\ pc[a] # "open"
      BY <2>1 DEF Claim, ReleasePath, Lock
    <3>3. LockInv' /\ (IsOpen' <=> IsOpen)
      BY <3>1, <3>2, MovesOn, OpenStays
    <3> QED
      BY <3>2, <3>3 DEF StreamInv
  <2>2. CASE Lock(a) /\ lock = None
    <3>1. lock' = a /\ To(a, "locked") /\ UNCHANGED <<buffer, poisoned, writer>>
      BY <2>2, NoneAssumption DEF Lock
    <3>2. \A b \in Attachments : pc[b] \notin Holding
      BY <2>2, NoneAssumption DEF LockInv
    <3>3. LockInv'
      BY <3>1, <3>2 DEF LockInv, To
    <3>4. ~IsOpen' /\ ~IsOpen
      BY <2>2, <3>1 DEF IsOpen, To
    <3> QED
      BY <3>1, <3>3, <3>4 DEF StreamInv
  <2>3. CASE \/ Validate(a) \/ CreateBackup(a) \/ FinishBackup(a) \/ Truncate(a)
             \/ Rewrite(a) \/ Replace(a)
    <3>1. \E q : To(a, q) /\ q # "open"
      BY <2>3 DEF Validate, CreateBackup, FinishBackup, Truncate, Rewrite, Replace, AfterValid
    <3>2. /\ lock' = lock /\ UNCHANGED <<buffer, poisoned, writer>>
          /\ pc[a] \in Holding /\ pc[a] # "open"
      BY <2>3, HoldingPhases DEF Validate, CreateBackup, FinishBackup, Truncate, MayTruncate,
         Rewrite, Replace
    <3>3. LockInv' /\ (IsOpen' <=> IsOpen)
      BY <3>1, <3>2, MovesOn, OpenStays
    <3> QED
      BY <3>2, <3>3 DEF StreamInv
  <2>4. CASE Attach(a)
    <3>1. To(a, "open") /\ lock' = lock /\ buffer' = buffer /\ writer' = None
          /\ pc[a] \in Holding /\ pc[a] # "open"
      BY <2>4, HoldingPhases DEF Attach
    <3>2. LockInv' /\ ~IsOpen
      BY <3>1, MovesOn, HolderIsOne
    <3> QED
      BY <3>1, <3>2 DEF StreamInv
  <2>5. CASE Abandon(a)
    <3>1. To(a, "abandoned") /\ lock' = None /\ UNCHANGED <<buffer, poisoned, writer>>
          /\ pc[a] \in Holding /\ pc[a] # "open" /\ "abandoned" \notin Holding
      BY <2>5, HoldingPhases DEF Abandon, Opening
    <3>2. LockInv' /\ ~IsOpen /\ ~IsOpen'
      BY <3>1, GivesBack, HolderIsOne DEF IsOpen
    <3> QED
      BY <3>1, <3>2 DEF StreamInv
  <2>6. CASE Close(a)
    <3>1. To(a, "closed") /\ lock' = lock /\ buffer' = <<>> /\ writer' = None
          /\ pc[a] \in Holding
      BY <2>6, HoldingPhases DEF Close
    <3>2. LockInv'
      BY <3>1, MovesOn
    <3> QED
      BY <3>1, <3>2 DEF StreamInv
  <2>7. CASE ReleaseLock(a)
    <3>1. To(a, "down") /\ lock' = None /\ UNCHANGED <<buffer, poisoned, writer>>
          /\ pc[a] \in Holding /\ pc[a] # "open" /\ "down" \notin Holding
      BY <2>7, HoldingPhases DEF ReleaseLock
    <3>2. LockInv' /\ ~IsOpen /\ ~IsOpen'
      BY <3>1, GivesBack, HolderIsOne DEF IsOpen
    <3> QED
      BY <3>1, <3>2 DEF StreamInv
  <2> QED
    BY <1>1, <2>1, <2>2, <2>3, <2>4, <2>5, <2>6, <2>7 DEF OpeningStep
<1>2. CASE MoveAside \/ UNCHANGED vars
  BY <1>2 DEF MoveAside, vars, LockInv, StreamInv, IsOpen
<1>3. ASSUME NEW t \in Threads, StartingStep(t)
      PROVE  LockInv' /\ StreamInv'
  <2>1. UNCHANGED <<lock, pc, buffer, poisoned>> /\ IsOpen /\ ~poisoned
    BY <1>3 DEF StartingStep, AddFact, RemoveFact, ClearFacts, Idle
  <2> QED
    BY <2>1 DEF LockInv, StreamInv, IsOpen
<1>4. CASE RecordStep
  <2>1. UNCHANGED <<lock, pc, poisoned>> /\ IsOpen /\ ~poisoned
    BY <1>4, RecordCases DEF WriteRecord, StreamInv
  <2> QED
    BY <2>1 DEF LockInv, StreamInv, IsOpen
<1>5. CASE StreamStep
  <2>1. UNCHANGED <<lock, pc>> /\ IsOpen
    BY <1>5 DEF StreamStep, WriteDone, WriteFails, Spill, Flush, Compact, Idle, StreamInv
  <2>2. writer' = None \/ UNCHANGED <<writer, poisoned>>
    BY <1>5 DEF StreamStep, WriteDone, WriteFails, Spill, Flush, Compact
  <2> QED
    BY <2>1, <2>2 DEF LockInv, StreamInv, IsOpen
<1>6. ASSUME NEW t \in Threads, TransactionStep(t)
      PROVE  LockInv' /\ StreamInv'
  <2>1. UNCHANGED <<lock, pc, buffer, poisoned>> /\ IsOpen
    BY <1>6 DEF TransactionStep, Begin, StageAdd, StageRemove, StageClear, Stage, Rollback,
       CommitNested, Commit, Idle
  <2>2. writer' = writer \/ ~poisoned
    BY <1>6 DEF TransactionStep, Begin, StageAdd, StageRemove, StageClear, Stage, Rollback,
       CommitNested, Commit, Idle
  <2> QED
    BY <2>1, <2>2 DEF LockInv, StreamInv, IsOpen
<1>7. CASE CrashStep
  <2>1. PICK x \in Attachments : Crash(ProcessOf[x])
    BY <1>7 DEF CrashStep
  <2> DEFINE p == ProcessOf[x]
             dies == {a \in Attachments : ProcessOf[a] = p}
  <2>2. /\ pc' = [a \in Attachments |-> IF a \in dies THEN "down" ELSE pc[a]]
        /\ lock' = IF lock \in dies THEN None ELSE lock
    BY <2>1 DEF Crash
  <2>3. LockInv'
    BY <2>2, HoldingPhases DEF LockInv
  <2>4. CASE IsOpen /\ ProcessOf[lock] = p
    <3>1. buffer' = <<>> /\ writer' = None
      BY <2>1, <2>4, CrashCases
    <3> QED
      BY <2>3, <3>1 DEF StreamInv
  <2>5. CASE ~(IsOpen /\ ProcessOf[lock] = p)
    <3>1. UNCHANGED <<buffer, poisoned, writer>>
      BY <2>1, <2>5, CrashElsewhere
    <3>2. IsOpen => IsOpen'
      BY <2>2, <2>5 DEF IsOpen
    <3> QED
      BY <2>3, <3>1, <3>2 DEF StreamInv
  <2> QED
    BY <2>4, <2>5
<1> QED
  BY <1>1, <1>2, <1>3, <1>4, <1>5, <1>6, <1>7, StepCases

-----------------------------------------------------------------------------
(* The file is the memory.                                                  *)

\* What the facts are for the call that is writing, or for everybody.
View == IF writer = None THEN mem ELSE writer.view

\* A record that is written changes the replay as it changes the view.
LEMMA RecordReplay ==
    ASSUME NEW d \in Seq(Entries), NEW b \in Seq(Entries), NEW r \in Records
    PROVE  Replay(d \o Append(b, Entry(r, "nl"))) = Apply(Replay(d \o b), r)
<1> DEFINE e == Entry(r, "nl")
<1>1. e \in Entries /\ e.end # "torn" /\ e.rec = r
  BY EntryType DEF Entry
<1> HIDE DEF e
<1>2. d \o b \in Seq(Entries)
  BY ConcatProperties
<1>3. d \o Append(b, e) = Append(d \o b, e)
  BY <1>1, WrittenIsLast
<1>4. Replay(Append(d \o b, e)) = Replayed(Replay(d \o b), e)
  BY <1>1, <1>2, ReplayAppend
<1>5. Replayed(Replay(d \o b), e) = Apply(Replay(d \o b), r)
  BY <1>1 DEF Replayed
<1>6. Replay(d \o Append(b, e)) = Apply(Replay(d \o b), r)
  BY <1>3, <1>4, <1>5
<1> QED
  BY <1>6 DEF e

\* Every record step is seen by the call that is writing.
LEMMA RecordView ==
    ASSUME TypeOK, RecordStep
    PROVE  \E r \in Records : View' = Apply(View, r) /\ buffer' = Append(buffer, Entry(r, "nl"))
<1> USE TypeParts
<1>1. writer # None /\ writer \in Calls
  BY RecordCases
<1>2. ASSUME NEW r \in Records, NEW w \in Calls, w.view = writer.view, WriteRecord(r, w)
      PROVE  View' = Apply(View, r) /\ buffer' = Append(buffer, Entry(r, "nl"))
  <2>1. writer' \in Calls /\ writer'.view = Apply(w.view, r)
    BY <1>2, CallTypes DEF WriteRecord, Calls
  <2>2. writer' # None
    BY <2>1, NoneAssumption
  <2> QED
    BY <1>1, <1>2, <2>1, <2>2 DEF View, WriteRecord
<1>3. CASE WriteAll
  <2>1. [writer EXCEPT !.wipe = FALSE] \in Calls /\ [writer EXCEPT !.wipe = FALSE].view = writer.view
    BY <1>1, CallTypes DEF Calls
  <2>2. [op |-> "retractall"] \in Records
    BY DEF Records
  <2> QED
    BY <1>2, <1>3, <2>1, <2>2 DEF WriteAll
<1>4. ASSUME NEW f \in Facts, WriteRetract(f)
      PROVE  \E r \in Records : View' = Apply(View, r) /\ buffer' = Append(buffer, Entry(r, "nl"))
  <2> DEFINE w == [writer EXCEPT !.less[f] = @ - 1]
  <2>1. w \in Calls /\ w.view = writer.view
    BY <1>1, <1>4, CallTypes DEF Calls, WriteRetract
  <2>2. [op |-> "retract", fact |-> f] \in Records
    BY DEF Records
  <2>3. WriteRecord([op |-> "retract", fact |-> f], w)
    BY <1>4 DEF WriteRetract
  <2> HIDE DEF w
  <2> QED
    BY <1>2, <2>1, <2>2, <2>3
<1>5. ASSUME NEW f \in Facts, WriteAssert(f)
      PROVE  \E r \in Records : View' = Apply(View, r) /\ buffer' = Append(buffer, Entry(r, "nl"))
  <2> DEFINE w == [writer EXCEPT !.more[f] = @ - 1]
  <2>1. w \in Calls /\ w.view = writer.view
    BY <1>1, <1>5, CallTypes DEF Calls, WriteAssert
  <2>2. [op |-> "assert", fact |-> f] \in Records
    BY DEF Records
  <2>3. WriteRecord([op |-> "assert", fact |-> f], w)
    BY <1>5 DEF WriteAssert
  <2> HIDE DEF w
  <2> QED
    BY <1>2, <2>1, <2>2, <2>3
<1> QED
  BY <1>3, <1>4, <1>5 DEF RecordStep

\* Only its own holder changes the file, and never while it is open.
LEMMA OpeningKeepsView ==
    ASSUME TypeOK, LockInv, StreamInv, JournalIsMemory,
           NEW a \in Attachments, OpeningStep(a)
    PROVE  JournalIsMemory'
<1> USE TypeParts DEF files, claims, live
<1>1. CASE \/ Claim(a) \/ ReleasePath(a) \/ (Lock(a) /\ lock # None)
  <2>1. \E q \in {"down", "claimed"} : To(a, q)
    BY <1>1 DEF Claim, ReleasePath, Lock
  <2>2. lock' = lock /\ UNCHANGED <<disk, buffer, poisoned, writer, mem>> /\ pc[a] # "open"
    BY <1>1 DEF Claim, ReleasePath, Lock
  <2>3. IsOpen' <=> IsOpen
    BY <2>1, <2>2, OpenStays
  <2> QED
    BY <2>2, <2>3 DEF JournalIsMemory
<1>2. CASE Lock(a) /\ lock = None
  <2>1. lock' = a /\ To(a, "locked")
    BY <1>2 DEF Lock
  <2> QED
    BY <2>1 DEF JournalIsMemory, IsOpen, To
<1>3. CASE \/ Validate(a) \/ CreateBackup(a) \/ FinishBackup(a) \/ Truncate(a)
           \/ Rewrite(a) \/ Replace(a)
  <2>1. \E q : To(a, q) /\ q # "open"
    BY <1>3 DEF Validate, CreateBackup, FinishBackup, Truncate, Rewrite, Replace, AfterValid
  <2>2. lock' = lock /\ pc[a] \in Holding /\ pc[a] # "open"
    BY <1>3, HoldingPhases DEF Validate, CreateBackup, FinishBackup, Truncate, MayTruncate,
       Rewrite, Replace
  <2>3. ~IsOpen'
    BY <2>1, <2>2, HolderIsOne, OpenStays
  <2> QED
    BY <2>3 DEF JournalIsMemory
<1>4. CASE Attach(a)
  <2>1. pc[a] \in Holding /\ pc[a] # "open"
    BY <1>4, HoldingPhases DEF Attach
  <2>2. buffer' = <<>> /\ disk' = disk /\ writer' = None /\ mem' = Replay(disk)
    BY <1>4, <2>1, HolderIsOne DEF Attach, StreamInv
  <2>3. disk \o <<>> = disk
    BY ConcatEmptySeq
  <2>4. Replay(disk' \o buffer') = mem'
    BY <2>2, <2>3
  <2> QED
    BY <2>2, <2>4 DEF JournalIsMemory
<1>5. CASE Abandon(a) \/ ReleaseLock(a)
  BY <1>5 DEF Abandon, ReleaseLock, JournalIsMemory, IsOpen
<1>6. CASE Close(a)
  <2>1. pc[a] \in Holding
    BY <1>6, HoldingPhases DEF Close
  <2>2. lock' = a /\ pc'[a] = "closed"
    BY <1>6, <2>1, HolderIsOne DEF Close, To
  <2> QED
    BY <2>2 DEF JournalIsMemory, IsOpen
<1> QED
  BY <1>1, <1>2, <1>3, <1>4, <1>5, <1>6 DEF OpeningStep

\* Every step keeps the file and the memory together.
LEMMA MemoryStep ==
    ASSUME TypeOK, LockInv, StreamInv, JournalIsMemory, [Next]_vars
    PROVE  JournalIsMemory'
<1> USE TypeParts DEF files, claims, live
<1>1. CASE MoveAside \/ UNCHANGED vars
  BY <1>1 DEF MoveAside, vars, JournalIsMemory, IsOpen
<1>2. ASSUME NEW t \in Threads, StartingStep(t)
      PROVE  JournalIsMemory'
  <2>1. UNCHANGED <<disk, buffer, lock, pc, poisoned, mem>> /\ writer = None /\ writer'.view = mem
    BY <1>2 DEF StartingStep, AddFact, RemoveFact, ClearFacts, Idle, Starts
  <2> QED
    BY <2>1 DEF JournalIsMemory, IsOpen
<1>3. CASE RecordStep
  <2>1. PICK r \in Records : View' = Apply(View, r) /\ buffer' = Append(buffer, Entry(r, "nl"))
    BY <1>3, RecordView
  <2>2. UNCHANGED <<disk, lock, pc, poisoned>>
    BY <1>3, RecordCases DEF WriteRecord
  <2>3. Replay(disk \o Append(buffer, Entry(r, "nl"))) = Apply(Replay(disk \o buffer), r)
    BY RecordReplay
  <2> QED
    BY <2>1, <2>2, <2>3 DEF JournalIsMemory, IsOpen, View
<1>4. CASE WriteDone
  BY <1>4 DEF WriteDone, JournalIsMemory, IsOpen
<1>5. CASE WriteFails
  BY <1>5 DEF WriteFails, Poison, JournalIsMemory
<1>6. CASE Spill
  <2>1. Append(disk, Head(buffer)) \o Tail(buffer) = disk \o buffer
    BY <1>6, SpilledIsSame DEF Spill
  <2>2. disk' \o buffer' = disk \o buffer
    BY <1>6, <2>1 DEF Spill
  <2> QED
    BY <1>6, <2>2 DEF Spill, JournalIsMemory, IsOpen
<1>7. CASE Flush
  BY <1>7 DEF Flush, JournalIsMemory, IsOpen
<1>8. CASE Compact
  <2>1. TypeOK'
    BY <1>8, StreamTypes DEF StreamStep
  <2>2. disk' \in Seq(Entries)
    BY <2>1 DEF TypeOK
  <2>3. Replay(disk') = mem /\ buffer' = <<>> /\ writer' = None /\ mem' = mem
    BY <1>8 DEF Compact, Idle
  <2>4. disk' \o <<>> = disk'
    BY <2>2, ConcatEmptySeq
  <2>5. Replay(disk' \o buffer') = mem'
    BY <2>3, <2>4
  <2> QED
    BY <2>3, <2>5 DEF JournalIsMemory
<1>9. ASSUME NEW t \in Threads, TransactionStep(t)
      PROVE  JournalIsMemory'
  <2>1. UNCHANGED <<disk, buffer, lock, pc, poisoned, mem>>
    BY <1>9 DEF TransactionStep, Begin, StageAdd, StageRemove, StageClear, Stage, Rollback,
       CommitNested, Commit
  <2>2. writer' = writer \/ (writer = None /\ writer'.view = mem)
    <3>1. CASE Commit(t)
      <4>1. writer = None
        BY <3>1 DEF Commit, Idle
      <4>2. writer' = writer \/ \E less, more : Starts(t, less, more, FALSE)
        BY <3>1 DEF Commit
      <4> QED
        BY <4>1, <4>2 DEF Starts
    <3>2. CASE ~Commit(t)
      BY <1>9, <3>2 DEF TransactionStep, Begin, StageAdd, StageRemove, StageClear, Stage,
         Rollback, CommitNested
    <3> QED
      BY <3>1, <3>2
  <2> QED
    BY <2>1, <2>2 DEF JournalIsMemory, IsOpen
<1>10. CASE CrashStep
  <2>1. PICK x \in Attachments : Crash(ProcessOf[x])
    BY <1>10 DEF CrashStep
  <2> DEFINE p == ProcessOf[x]
             dies == {a \in Attachments : ProcessOf[a] = p}
  <2>2. CASE IsOpen /\ ProcessOf[lock] = p
    <3>1. lock' = None
      BY <2>1, <2>2, CrashCases
    <3> QED
      BY <3>1 DEF JournalIsMemory, IsOpen
  <2>3. CASE ~(IsOpen /\ ProcessOf[lock] = p)
    <3>1. UNCHANGED <<disk, buffer, poisoned, writer, mem>>
      BY <2>1, <2>3, CrashElsewhere
    <3>2. /\ pc' = [a \in Attachments |-> IF a \in dies THEN "down" ELSE pc[a]]
          /\ lock' = IF lock \in dies THEN None ELSE lock
      BY <2>1 DEF Crash
    <3>3. IsOpen' => IsOpen
      BY <3>2 DEF IsOpen
    <3> QED
      BY <3>1, <3>3 DEF JournalIsMemory
  <2> QED
    BY <2>2, <2>3
<1> QED
  BY <1>1, <1>2, <1>3, <1>4, <1>5, <1>6, <1>7, <1>8, <1>9, <1>10, OpeningKeepsView, StepCases
     DEF StreamStep

-----------------------------------------------------------------------------
(* Recovery.                                                                *)

\* What recovery knows of an attachment.
Recovers(a) ==
    /\ pc[a] \in {"torn", "saving", "saved"} => read[a] = disk
    /\ pc[a] \in {"saving", "saved"} =>
           backup \in Backups /\ backup.tail = TerminalTail(disk)
    /\ pc[a] = "saved" => backup.whole
    /\ pc[a] = "staged" => read[a] = [i \in DOMAIN disk |-> Entry(disk[i].rec, "nl")]

Repairing == {"torn", "saving", "saved", "staged"}

\* A step that leaves the file and the backup, and brings no attachment into
\* repair, leaves what recovery knows.
LEMMA RecoversLeft ==
    ASSUME RecoverInv, UNCHANGED <<disk, backup>>, NEW a \in Attachments,
           pc'[a] \in Repairing => pc'[a] = pc[a] /\ read'[a] = read[a]
    PROVE  Recovers(a)'
BY DEF RecoverInv, Recovers, Repairing

\* While one attachment holds the lock no other is in repair, nor after a step
\* that only moves the first one on.
LEMMA OthersIdle ==
    ASSUME TypeOK, LockInv, NEW a \in Attachments, pc[a] \in Holding,
           NEW q, To(a, q), NEW b \in Attachments, b # a
    PROVE  pc'[b] \notin Repairing /\ pc'[b] = pc[b]
BY TypeParts, HolderIsOne DEF To, Repairing, Holding, Opening

\* Of an attachment that is not in repair there is nothing to know.
LEMMA NotRepairing ==
    ASSUME NEW a, pc'[a] \notin Repairing
    PROVE  Recovers(a)'
BY DEF Recovers, Repairing

\* The steps of the attachment that holds the lock.
LEMMA OpeningRecovers ==
    ASSUME TypeOK, LockInv, StreamInv, RecoverInv, NEW a \in Attachments, OpeningStep(a),
           NEW b \in Attachments
    PROVE  Recovers(b)'
<1> USE TypeParts DEF files, claims, live
<1>1. CASE Claim(a) \/ Lock(a) \/ Abandon(a) \/ ReleasePath(a) \/ ReleaseLock(a)
  <2>1. \E q \in {"claimed", "locked", "down", "abandoned"} : To(a, q) /\ q \notin Repairing
    BY <1>1 DEF Claim, Lock, Abandon, ReleasePath, ReleaseLock, Repairing
  <2>2. UNCHANGED <<disk, backup>>
    BY <1>1 DEF Claim, Lock, Abandon, ReleasePath, ReleaseLock
  <2>3. b # a => read'[b] = read[b]
    BY <1>1 DEF Claim, Lock, Abandon, ReleasePath, ReleaseLock
  <2>4. pc'[b] \in Repairing => pc'[b] = pc[b] /\ read'[b] = read[b]
    BY <2>1, <2>3 DEF To
  <2> QED
    BY <2>2, <2>4, RecoversLeft
<1>2. CASE b # a /\ pc[a] \in Holding
  <2>1. \E q : To(a, q)
    BY <1>2, HoldingPhases DEF OpeningStep, Claim, Lock, Validate, CreateBackup, FinishBackup,
       Truncate, Rewrite, Replace, Attach, Abandon, ReleasePath, Close, ReleaseLock
  <2> QED
    BY <1>2, <2>1, OthersIdle, NotRepairing
<1>3. CASE b = a /\ Validate(a)
  <2>1. read'[a] = disk /\ disk' = disk /\ pc'[a] \in {"torn", "rewrite", "valid"}
    BY <1>3 DEF Validate, To, AfterValid
  <2> QED
    BY <1>3, <2>1 DEF Recovers
<1>4. CASE b = a /\ CreateBackup(a)
  <2>1. pc[a] = "torn" /\ pc'[a] = "saving" /\ disk' = disk /\ read' = read
        /\ backup' = [tail |-> TerminalTail(read[a]), whole |-> FALSE]
    BY <1>4 DEF CreateBackup, To
  <2>2. read[a] = disk /\ TypeOK'
    BY <1>4, <2>1, OpeningTypes DEF RecoverInv
  <2>3. TerminalTail(disk) \in Seq(Entries)
    BY KeptAndTail
  <2>4. backup' \in Backups /\ backup'.tail = TerminalTail(disk)
    BY <2>1, <2>2, <2>3 DEF Backups
  <2>5. TerminalTail(disk') = TerminalTail(disk)
    BY <2>1
  <2> QED
    BY <1>4, <2>1, <2>2, <2>4, <2>5 DEF Recovers
<1>5. CASE b = a /\ FinishBackup(a)
  <2>1. pc[a] = "saving" /\ pc'[a] = "saved" /\ disk' = disk /\ read' = read
        /\ backup' = [backup EXCEPT !.whole = TRUE]
    BY <1>5 DEF FinishBackup, To
  <2>2. read[a] = disk /\ backup \in Backups /\ backup.tail = TerminalTail(disk)
    BY <2>1 DEF RecoverInv
  <2>3. backup' \in Backups /\ backup'.tail = TerminalTail(disk) /\ backup'.whole
    BY <2>1, <2>2 DEF Backups
  <2>4. TerminalTail(disk') = TerminalTail(disk)
    BY <2>1
  <2> QED
    BY <1>5, <2>1, <2>2, <2>3, <2>4 DEF Recovers
<1>6. CASE b = a /\ Rewrite(a)
  <2>1. disk' = disk /\ pc'[a] = "staged"
        /\ read'[a] = [i \in DOMAIN disk |-> Entry(disk[i].rec, "nl")]
    BY <1>6 DEF Rewrite, To
  <2> QED
    BY <1>6, <2>1 DEF Recovers
<1>7. CASE b = a /\ (Truncate(a) \/ Replace(a) \/ Attach(a) \/ Close(a))
  <2>1. pc'[a] \notin Repairing
    BY <1>7 DEF Truncate, Replace, Attach, Close, To, AfterValid, Repairing
  <2> QED
    BY <1>7, <2>1, NotRepairing
<1>8. \/ Claim(a) \/ Lock(a) \/ Abandon(a) \/ ReleasePath(a) \/ ReleaseLock(a)
      \/ pc[a] \in Holding
  BY HoldingPhases DEF OpeningStep, Validate, CreateBackup, FinishBackup, Truncate, MayTruncate,
     Rewrite, Replace, Attach, Close
<1> QED
  BY <1>1, <1>2, <1>3, <1>4, <1>5, <1>6, <1>7, <1>8 DEF OpeningStep

\* Every step keeps what recovery knows.
LEMMA RecoverStep ==
    ASSUME TypeOK, LockInv, StreamInv, RecoverInv, [Next]_vars
    PROVE  RecoverInv'
<1> USE TypeParts DEF files, claims, live
<1> SUFFICES ASSUME NEW b \in Attachments PROVE Recovers(b)'
  BY DEF RecoverInv, Recovers
<1>1. CASE MoveAside
  <2>1. pc'[b] \notin Repairing
    BY <1>1 DEF MoveAside, Repairing, Opening
  <2> QED
    BY <2>1, NotRepairing
<1>2. CASE UNCHANGED vars
  BY <1>2, RecoversLeft DEF vars
<1>3. CASE \/ \E t \in Threads : StartingStep(t) \/ TransactionStep(t)
           \/ RecordStep \/ StreamStep
  <2>1. UNCHANGED pc /\ IsOpen
    <3>1. ASSUME NEW t \in Threads, StartingStep(t) PROVE UNCHANGED pc /\ IsOpen
      BY <3>1 DEF StartingStep, AddFact, RemoveFact, ClearFacts, Idle
    <3>2. ASSUME NEW t \in Threads, TransactionStep(t) PROVE UNCHANGED pc /\ IsOpen
      BY <3>2 DEF TransactionStep, Begin, StageAdd, StageRemove, StageClear, Stage, Rollback,
         CommitNested, Commit, Idle
    <3>3. CASE RecordStep
      BY <3>3, RecordCases DEF WriteRecord, StreamInv
    <3>4. CASE StreamStep
      BY <3>4 DEF StreamStep, WriteDone, WriteFails, Spill, Flush, Compact, Idle, StreamInv
    <3> QED
      BY <1>3, <3>1, <3>2, <3>3, <3>4
  <2>2. lock \in Attachments /\ pc[lock] = "open"
    BY <2>1 DEF IsOpen
  <2>3. pc[b] \notin Repairing
    BY <2>2, HolderIsOne DEF Repairing, Holding, Opening
  <2> QED
    BY <2>1, <2>3, NotRepairing
<1>4. CASE CrashStep
  <2>1. PICK x \in Attachments : Crash(ProcessOf[x])
    BY <1>4 DEF CrashStep
  <2> DEFINE p == ProcessOf[x]
             dies == {a \in Attachments : ProcessOf[a] = p}
  <2>2. /\ pc' = [a \in Attachments |-> IF a \in dies THEN "down" ELSE pc[a]]
        /\ read' = [a \in Attachments |-> IF a \in dies THEN <<>> ELSE read[a]]
        /\ backup' = backup
    BY <2>1 DEF Crash
  <2>3. CASE IsOpen /\ ProcessOf[lock] = p
    <3>1. pc[b] \notin Repairing
      BY <2>3, HolderIsOne DEF IsOpen, Repairing, Holding, Opening
    <3>2. pc'[b] \notin Repairing
      BY <2>2, <3>1 DEF Repairing
    <3> QED
      BY <3>2, NotRepairing
  <2>4. CASE ~(IsOpen /\ ProcessOf[lock] = p)
    <3>1. UNCHANGED <<disk, backup>>
      BY <2>1, <2>2, <2>4, CrashElsewhere
    <3>2. pc'[b] \in Repairing => pc'[b] = pc[b] /\ read'[b] = read[b]
      BY <2>2 DEF Repairing
    <3> QED
      BY <3>1, <3>2, RecoversLeft
  <2> QED
    BY <2>3, <2>4
<1> QED
  BY <1>1, <1>2, <1>3, <1>4, OpeningRecovers, StepCases

-----------------------------------------------------------------------------
(* Commit.                                                                  *)

\* The call that has just begun owes the whole difference.
LEMMA DifferenceOwed ==
    ASSUME NEW base \in Bags, NEW atoms \in Bags, NEW w,
           w.less = Surplus(base, atoms), w.more = Surplus(atoms, base),
           w.wipe = FALSE, w.view = base, NEW top, top.atoms = atoms
    PROVE  Owes(w, top)
<1>1. ASSUME NEW f \in Facts
      PROVE  /\ w.less[f] <= w.view[f]
             /\ w.view[f] + w.more[f] = top.atoms[f] + w.less[f]
  <2>1. base[f] \in Nat /\ atoms[f] \in Nat
    BY DEF Bags
  <2>2. w.less[f] = (IF base[f] > atoms[f] THEN base[f] - atoms[f] ELSE 0)
        /\ w.more[f] = (IF atoms[f] > base[f] THEN atoms[f] - base[f] ELSE 0)
    BY DEF Surplus
  <2> QED
    BY <2>1, <2>2
<1> QED
  BY <1>1 DEF Owes

\* A retract that is written is owed no more.
LEMMA RetractOwed ==
    ASSUME NEW w \in Calls, NEW f \in Facts, w.less[f] > 0, NEW top, top.atoms \in Bags,
           Owes(w, top), NEW v,
           v = [[w EXCEPT !.less[f] = @ - 1] EXCEPT
                   !.view = Apply(@, [op |-> "retract", fact |-> f])]
    PROVE  Owes(v, top) /\ v.thread = w.thread
<1>1. w.less \in Bags /\ w.more \in Bags /\ w.view \in Bags
  BY CallTypes
<1>2. v.less = [w.less EXCEPT ![f] = @ - 1] /\ v.more = w.more /\ v.wipe = w.wipe
      /\ v.thread = w.thread
      /\ v.view = Apply(w.view, [op |-> "retract", fact |-> f])
  BY DEF Calls
<1>3. Apply(w.view, [op |-> "retract", fact |-> f])
        = [w.view EXCEPT ![f] = IF @ > 0 THEN @ - 1 ELSE 0]
  BY DEF Apply
<1>4. ASSUME NEW g \in Facts
      PROVE  v.less[g] <= v.view[g] /\ v.view[g] + v.more[g] = top.atoms[g] + v.less[g]
  <2>1. /\ w.less[g] \in Nat /\ w.more[g] \in Nat /\ w.view[g] \in Nat /\ top.atoms[g] \in Nat
        /\ w.less[g] <= w.view[g] /\ w.view[g] + w.more[g] = top.atoms[g] + w.less[g]
    BY <1>1 DEF Bags, Owes
  <2>2. /\ v.less[g] = (IF g = f THEN w.less[g] - 1 ELSE w.less[g])
        /\ v.view[g] = (IF g = f THEN IF w.view[g] > 0 THEN w.view[g] - 1 ELSE 0 ELSE w.view[g])
    BY <1>1, <1>2, <1>3 DEF Bags
  <2> QED
    BY <1>2, <2>1, <2>2
<1> QED
  BY <1>2, <1>4 DEF Owes

\* Neither is an assert.
LEMMA AssertOwed ==
    ASSUME NEW w \in Calls, NEW f \in Facts, w.more[f] > 0, NEW top, top.atoms \in Bags,
           Owes(w, top), NEW v,
           v = [[w EXCEPT !.more[f] = @ - 1] EXCEPT
                   !.view = Apply(@, [op |-> "assert", fact |-> f])]
    PROVE  Owes(v, top) /\ v.thread = w.thread
<1>1. w.less \in Bags /\ w.more \in Bags /\ w.view \in Bags
  BY CallTypes
<1>2. v.more = [w.more EXCEPT ![f] = @ - 1] /\ v.less = w.less /\ v.wipe = w.wipe
      /\ v.thread = w.thread
      /\ v.view = Apply(w.view, [op |-> "assert", fact |-> f])
  BY DEF Calls
<1>3. Apply(w.view, [op |-> "assert", fact |-> f]) = [w.view EXCEPT ![f] = @ + 1]
  BY DEF Apply
<1>4. ASSUME NEW g \in Facts
      PROVE  v.less[g] <= v.view[g] /\ v.view[g] + v.more[g] = top.atoms[g] + v.less[g]
  <2>1. /\ w.less[g] \in Nat /\ w.more[g] \in Nat /\ w.view[g] \in Nat /\ top.atoms[g] \in Nat
        /\ w.less[g] <= w.view[g] /\ w.view[g] + w.more[g] = top.atoms[g] + w.less[g]
    BY <1>1 DEF Bags, Owes
  <2>2. /\ v.more[g] = (IF g = f THEN w.more[g] - 1 ELSE w.more[g])
        /\ v.view[g] = (IF g = f THEN w.view[g] + 1 ELSE w.view[g])
    BY <1>1, <1>2, <1>3 DEF Bags
  <2> QED
    BY <1>2, <2>1, <2>2
<1> QED
  BY <1>2, <1>4 DEF Owes

\* When nothing is owed the view is what was staged.
LEMMA NothingOwed ==
    ASSUME NEW w \in Calls, NEW top, top.atoms \in Bags, Owes(w, top),
           AllOf(w.less), AllOf(w.more)
    PROVE  w.view = top.atoms
<1>1. w.view \in Bags
  BY CallTypes
<1>2. \A f \in Facts : w.view[f] = top.atoms[f]
  BY <1>1 DEF Owes, AllOf, Bags
<1> QED
  BY <1>1, <1>2 DEF Bags

\* A step that leaves the call, its thread's transaction and the memory, or
\* ends the call, leaves what the commit owes.
LEMMA CommitLeft ==
    ASSUME CommitInv,
           \/ writer' = None
           \/ writer' = writer /\ mem' = mem /\ stack'[writer.thread] = stack[writer.thread]
    PROVE  CommitInv'
BY DEF CommitInv, Owes

\* Only the call that is writing changes what its commit owes.
LEMMA CommitStep ==
    ASSUME TypeOK, LockInv, StreamInv, CommitInv, [Next]_vars
    PROVE  CommitInv'
<1> USE TypeParts DEF files, claims, live
<1>1. CASE MoveAside \/ UNCHANGED vars
  BY <1>1, CommitLeft DEF MoveAside, vars
<1>2. ASSUME NEW a \in Attachments, OpeningStep(a)
      PROVE  CommitInv'
  <2>1. CASE Attach(a)
    BY <2>1, CommitLeft DEF Attach
  <2>2. CASE Close(a)
    BY <2>2, CommitLeft DEF Close
  <2>3. CASE ~Attach(a) /\ ~Close(a)
    BY <1>2, <2>3, CommitLeft DEF OpeningStep, Claim, Lock, Validate, CreateBackup, FinishBackup,
       Truncate, Rewrite, Replace, Abandon, ReleasePath, ReleaseLock
  <2> QED
    BY <2>1, <2>2, <2>3
<1>3. ASSUME NEW t \in Threads, StartingStep(t)
      PROVE  CommitInv'
  <2>1. stack' = stack /\ stack[t] = <<>> /\ writer'.thread = t
    BY <1>3 DEF StartingStep, AddFact, RemoveFact, ClearFacts, Starts
  <2> QED
    BY <2>1 DEF CommitInv
<1>4. CASE RecordStep
  <2>1. writer # None /\ writer \in Calls /\ writer.thread \in Threads
    BY <1>4, RecordCases, CallTypes
  <2> DEFINE s == stack[writer.thread]
  <2>2. s # <<>> => s[1].atoms \in Bags
    <3>1. s \in Seq(Frames)
      BY <2>1 DEF Stacks
    <3> HIDE DEF s
    <3>2. s # <<>> => 1 \in 1..Len(s)
      BY <3>1
    <3>3. s # <<>> => s[1] \in Frames
      BY <3>1, <3>2, ElementOfSeq
    <3> QED
      BY <3>3 DEF Frames
  <2>3. CASE WriteAll
    <3>1. s = <<>> /\ stack' = stack /\ writer'.thread = writer.thread
      BY <2>1, <2>3 DEF WriteAll, WriteRecord, CommitInv, Owes, Calls
    <3> QED
      BY <3>1 DEF CommitInv
  <2>4. ASSUME NEW f \in Facts, WriteRetract(f)
        PROVE  CommitInv'
    <3>1. /\ writer.less[f] > 0 /\ stack' = stack /\ mem' = mem
          /\ writer' = [[writer EXCEPT !.less[f] = @ - 1] EXCEPT
                           !.view = Apply(@, [op |-> "retract", fact |-> f])]
      BY <2>4 DEF WriteRetract, WriteRecord
    <3>2. s # <<>> => Owes(writer', s[1])
      BY <2>1, <2>2, <3>1, RetractOwed DEF CommitInv
    <3>3. writer'.thread = writer.thread
      BY <2>1, <3>1 DEF Calls
    <3> QED
      BY <2>1, <3>1, <3>2, <3>3 DEF CommitInv, Owes
  <2>5. ASSUME NEW f \in Facts, WriteAssert(f)
        PROVE  CommitInv'
    <3>1. /\ writer.more[f] > 0 /\ stack' = stack /\ mem' = mem
          /\ writer' = [[writer EXCEPT !.more[f] = @ - 1] EXCEPT
                           !.view = Apply(@, [op |-> "assert", fact |-> f])]
      BY <2>5 DEF WriteAssert, WriteRecord
    <3>2. s # <<>> => Owes(writer', s[1])
      BY <2>1, <2>2, <3>1, AssertOwed DEF CommitInv
    <3>3. writer'.thread = writer.thread
      BY <2>1, <3>1 DEF Calls
    <3> QED
      BY <2>1, <3>1, <3>2, <3>3 DEF CommitInv, Owes
  <2> QED
    BY <1>4, <2>3, <2>4, <2>5 DEF RecordStep
<1>5. CASE StreamStep
  BY <1>5, CommitLeft DEF StreamStep, WriteDone, WriteFails, Spill, Flush, Compact, Idle
<1>6. ASSUME NEW t \in Threads, TransactionStep(t)
      PROVE  CommitInv'
  <2>1. CASE Begin(t) \/ Rollback(t)
    <3>1. writer' = writer /\ mem' = mem /\ (writer = None \/ writer.thread # t)
      BY <2>1 DEF Begin, Rollback, Idle, Writes
    <3>2. \A u \in Threads : u # t => stack'[u] = stack[u]
      BY <2>1 DEF Begin, Rollback, Popped, Stacks
    <3> QED
      BY <3>1, <3>2, CallTypes, CommitLeft
  <2>2. ASSUME NEW b, Stage(t, b) PROVE CommitInv'
    <3>1. writer' = writer /\ mem' = mem /\ (writer = None \/ writer.thread # t)
      BY <2>2 DEF Stage, Writes
    <3>2. \A u \in Threads : u # t => stack'[u] = stack[u]
      BY <2>2 DEF Stage, Stacks
    <3> QED
      BY <3>1, <3>2, CallTypes, CommitLeft
  <2>3. CASE CommitNested(t)
    <3>1. writer' = writer /\ mem' = mem /\ Len(stack[t]) > 1
      BY <2>3 DEF CommitNested
    <3>2. \A u \in Threads : u # t => stack'[u] = stack[u]
      BY <2>3 DEF CommitNested, Stacks
    <3>3. writer = None \/ writer.thread # t
      <4>1. stack[t] \in Seq(Frames)
        BY DEF Stacks
      <4>2. stack[t] # <<>>
        BY <3>1, <4>1
      <4>3. ASSUME writer # None, writer.thread = t PROVE FALSE
        <5>1. Len(stack[t]) = 1
          BY <4>2, <4>3 DEF CommitInv
        <5> QED
          BY <3>1, <5>1
      <4> QED
        BY <4>3
    <3> QED
      BY <3>1, <3>2, <3>3, CallTypes, CommitLeft
  <2>4. CASE Commit(t)
    <3> DEFINE top == Last(stack[t])
    <3>1. writer = None /\ Len(stack[t]) = 1 /\ mem' = mem
      BY <2>4 DEF Commit, Idle
    <3>2. CASE writer' = writer
      BY <3>1, <3>2, CommitLeft
    <3>3. CASE /\ mem = top.base /\ stack' = stack
               /\ Starts(t, Surplus(top.base, top.atoms), Surplus(top.atoms, top.base), FALSE)
      <4>1. stack[t] \in Seq(Frames)
        BY DEF Stacks
      <4>2. top = stack[t][1] /\ top \in Frames
        BY <3>1, <4>1 DEF Last
      <4>3. top.base \in Bags /\ top.atoms \in Bags
        BY <4>2 DEF Frames
      <4>4. /\ writer'.thread = t /\ writer'.less = Surplus(top.base, top.atoms)
            /\ writer'.more = Surplus(top.atoms, top.base)
            /\ writer'.wipe = FALSE /\ writer'.view = top.base
        BY <3>3 DEF Starts
      <4> HIDE DEF top
      <4>5. Owes(writer', top)
        BY <4>3, <4>4, DifferenceOwed
      <4>6. Owes(writer', stack'[t][1]) /\ mem' = stack'[t][1].base /\ Len(stack'[t]) = 1
        BY <3>1, <3>3, <4>2, <4>5
      <4> QED
        BY <4>4, <4>6 DEF CommitInv, Owes
    <3> QED
      BY <2>4, <3>2, <3>3 DEF Commit, SameMultiset
  <2> QED
    BY <1>6, <2>1, <2>2, <2>3, <2>4 DEF TransactionStep, StageAdd, StageRemove, StageClear
<1>7. CASE CrashStep
  <2>1. PICK x \in Attachments : Crash(ProcessOf[x])
    BY <1>7 DEF CrashStep
  <2>2. CASE IsOpen /\ ProcessOf[lock] = ProcessOf[x]
    BY <2>1, <2>2, CrashCases, CommitLeft
  <2>3. CASE ~(IsOpen /\ ProcessOf[lock] = ProcessOf[x])
    BY <2>1, <2>3, CrashElsewhere, CommitLeft
  <2> QED
    BY <2>2, <2>3
<1> QED
  BY <1>1, <1>2, <1>3, <1>4, <1>5, <1>6, <1>7, StepCases

-----------------------------------------------------------------------------
(* The invariant.                                                           *)

\* The invariant holds at first.
LEMMA InitIInv ==
    ASSUME Init
    PROVE  IInv
<1>1. TypeOK
  <2>1. disk \in Seq(Entries) /\ <<>> \in Seq(Entries)
    BY StartAssumption DEF Init
  <2>2. [t \in Threads |-> <<>>] \in Stacks /\ Fits([t \in Threads |-> <<>>])
    BY BoundAssumption DEF Stacks, Fits
  <2>3. Empty \in Bags
    BY BagTypes
  <2>4. crashes \in 0..MaxCrashes
    BY BoundAssumption DEF Init
  <2> QED
    BY <2>1, <2>2, <2>3, <2>4 DEF Init, TypeOK, Phases, Stacks, Fits, Frames
<1>2. LockInv /\ RecoverInv
  BY HoldingPhases DEF Init, LockInv, RecoverInv
<1>3. StreamInv /\ JournalIsMemory /\ CommitInv
  BY DEF Init, StreamInv, JournalIsMemory, CommitInv, IsOpen
<1> QED
  BY <1>1, <1>2, <1>3 DEF IInv

\* The persistent fact space keeps its invariant.
THEOREM Inductive == Spec => []IInv
<1>1. Init => IInv
  BY InitIInv
<1>2. IInv /\ [Next]_vars => IInv'
  BY TypeStep, LockStep, MemoryStep, RecoverStep, CommitStep DEF IInv
<1> QED
  BY <1>1, <1>2, PTL DEF Spec

\* The file, the claims and the provider's fields keep their types.
THEOREM TypeCorrect == Spec => []TypeOK
<1>1. IInv => TypeOK
  BY DEF IInv
<1> QED
  BY <1>1, Inductive, PTL

\* While an attachment is open and no write of it failed, replaying the file
\* and the stream gives the facts in memory, whatever other attachments and
\* crashes did before (_claim_journal_lock, db_attach, db_detach).
THEOREM JournalReplays == Spec => []JournalIsMemory
<1>1. IInv => JournalIsMemory
  BY DEF IInv
<1> QED
  BY <1>1, Inductive, PTL

\* A step while no attachment is open shortens the file only by what the synced
\* backup holds.
LEMMA KeepsBytesStep ==
    ASSUME IInv, [Next]_vars, ~IsOpen, Len(disk') < Len(disk)
    PROVE  backup # None /\ backup.whole /\ disk = disk' \o backup.tail
<1> USE DEF IInv, files, claims, live
<1>1. disk \in Seq(Entries) /\ Len(disk) \in Nat
  BY TypeParts
<1>2. disk' # disk
  BY <1>1
<1>3. PICK a \in Attachments : Truncate(a) \/ Replace(a)
  <2>1. ASSUME NEW t \in Threads, StartingStep(t) PROVE FALSE
    BY <2>1 DEF StartingStep, AddFact, RemoveFact, ClearFacts, Idle
  <2>2. ASSUME NEW t \in Threads, TransactionStep(t) PROVE FALSE
    BY <2>2 DEF TransactionStep, Begin, StageAdd, StageRemove, StageClear, Stage, Rollback,
       CommitNested, Commit, Idle
  <2>3. CASE RecordStep
    BY <2>3, RecordCases DEF WriteRecord, StreamInv
  <2>4. CASE StreamStep
    BY <2>4 DEF StreamStep, WriteDone, WriteFails, Spill, Flush, Compact, Idle, StreamInv
  <2>5. CASE CrashStep
    BY <1>2, <2>5, CrashElsewhere DEF CrashStep
  <2>6. CASE MoveAside \/ UNCHANGED vars
    BY <1>2, <2>6 DEF MoveAside, vars
  <2>7. ASSUME NEW a \in Attachments, OpeningStep(a) PROVE Truncate(a) \/ Replace(a)
    BY <1>2, <2>7 DEF OpeningStep, Claim, Lock, Validate, CreateBackup, FinishBackup, Rewrite,
       Attach, Abandon, ReleasePath, Close, ReleaseLock
  <2> QED
    BY <2>1, <2>2, <2>3, <2>4, <2>5, <2>6, <2>7, StepCases
<1>4. CASE Truncate(a)
  <2>1. read[a] = disk /\ backup \in Backups /\ backup.tail = TerminalTail(disk) /\ backup.whole
    BY <1>4 DEF Truncate, MayTruncate, RecoverInv
  <2>2. disk' = Kept(disk)
    BY <1>4, <2>1 DEF Truncate, Kept
  <2>3. disk = Kept(disk) \o TerminalTail(disk)
    BY <1>1, KeptAndTail
  <2> QED
    BY <2>1, <2>2, <2>3, NoneAssumption
<1>5. CASE Replace(a)
  <2>1. disk' = [i \in DOMAIN disk |-> Entry(disk[i].rec, "nl")]
    BY <1>5 DEF Replace, RecoverInv
  <2>2. Len(disk') = Len(disk)
    BY <1>1, <2>1
  <2> QED
    BY <1>1, <2>2
<1> QED
  BY <1>3, <1>4, <1>5

\* Recovery never destroys the only copy of a byte (_save_tail_backup before
\* _validate_or_repair_tail truncates).
THEOREM BytesKept == Spec => RecoveryKeepsBytes
<1>1. IInv /\ [Next]_vars =>
        (~IsOpen /\ Len(disk') < Len(disk) =>
            backup # None /\ backup.whole /\ disk = disk' \o backup.tail)
  BY KeepsBytesStep
<1> QED
  BY <1>1, Inductive, PTL DEF Spec, RecoveryKeepsBytes

\* A step that changes the facts of an attachment that stays open is the end of
\* a call; the call of a thread in a transaction is its commit.
LEMMA CommitExactStep ==
    ASSUME IInv, [Next]_vars, NEW t \in Threads,
           IsOpen, Writes(t), stack[t] # <<>>, mem' # mem, pc'[lock] = "open"
    PROVE  mem = stack[t][1].base /\ mem' = stack[t][1].atoms
<1> USE DEF IInv, files, claims, live
<1> USE TypeParts
<1>1. writer # None /\ writer.thread = t /\ writer \in Calls
  BY DEF Writes
<1>2. WriteDone
  <2>1. ASSUME NEW u \in Threads, StartingStep(u) PROVE FALSE
    BY <2>1 DEF StartingStep, AddFact, RemoveFact, ClearFacts
  <2>2. ASSUME NEW u \in Threads, TransactionStep(u) PROVE FALSE
    BY <2>2 DEF TransactionStep, Begin, StageAdd, StageRemove, StageClear, Stage, Rollback,
       CommitNested, Commit
  <2>3. ~RecordStep
    BY RecordCases DEF WriteRecord
  <2>4. ~WriteFails /\ ~Spill /\ ~Flush /\ ~Compact /\ ~MoveAside /\ ~UNCHANGED vars
    BY DEF WriteFails, Spill, Flush, Compact, MoveAside, vars
  <2>5. ASSUME NEW x \in Attachments, Crash(ProcessOf[x]) PROVE FALSE
    <3>1. CASE ProcessOf[lock] = ProcessOf[x]
      BY <2>5, <3>1 DEF Crash, IsOpen
    <3>2. CASE ProcessOf[lock] # ProcessOf[x]
      BY <2>5, <3>2, CrashElsewhere
    <3> QED
      BY <3>1, <3>2
  <2>6. ASSUME NEW a \in Attachments, OpeningStep(a) PROVE FALSE
    <3>1. CASE Attach(a)
      BY <3>1, HolderIsOne, HoldingPhases DEF Attach
    <3>2. CASE Close(a)
      BY <1>1, <3>2 DEF Close
    <3> QED
      BY <2>6, <3>1, <3>2 DEF OpeningStep, Claim, Lock, Validate, CreateBackup, FinishBackup,
         Truncate, Rewrite, Replace, Abandon, ReleasePath, ReleaseLock
  <2> QED
    BY <2>1, <2>2, <2>3, <2>4, <2>5, <2>6, StepCases DEF CrashStep, StreamStep
<1>3. mem = stack[t][1].base /\ Owes(writer, stack[t][1]) /\ Len(stack[t]) = 1
  BY <1>1 DEF CommitInv
<1>4. mem' = writer.view /\ AllOf(writer.less) /\ AllOf(writer.more)
  BY <1>2 DEF WriteDone
<1>5. stack[t][1].atoms \in Bags
  <2>1. stack[t] \in Seq(Frames) /\ 1 \in 1..Len(stack[t])
    BY <1>3 DEF Stacks
  <2>2. stack[t][1] \in Frames
    BY <2>1, ElementOfSeq
  <2> QED
    BY <2>2 DEF Frames
<1>6. writer.view = stack[t][1].atoms
  BY <1>1, <1>3, <1>4, <1>5, NothingOwed
<1> QED
  BY <1>3, <1>4, <1>6

\* A commit takes the facts from the base its transaction began with to what
\* its thread staged (_commit_diff).
THEOREM CommitsExact == Spec => CommitIsExact
<1>1. IInv /\ [Next]_vars =>
        (\A t \in Threads :
           IsOpen /\ Writes(t) /\ stack[t] # <<>> /\ mem' # mem /\ pc'[lock] = "open"
           => mem = stack[t][1].base /\ mem' = stack[t][1].atoms)
  BY CommitExactStep
<1> QED
  BY <1>1, Inductive, PTL DEF Spec, CommitIsExact

-----------------------------------------------------------------------------
(* Reopening.                                                               *)

\* One more record behind a whole file.
LEMMA OneMore ==
    ASSUME NEW s \in Seq(Entries), NEW e \in Entries, NEW heads, "new" \in heads
    PROVE  /\ Whole(s) /\ e.end = "nl" => Whole(Append(s, e))
           /\ Whole(s) /\ e.end = "torn" => WellFile(Append(s, e))
           /\ HeadsIn(heads, s) /\ e.head = "new" => HeadsIn(heads, Append(s, e))
           /\ New(s) /\ e.end = "nl" /\ e.head = "new" => New(Append(s, e))
<1> DEFINE u == Append(s, e)
           n == Len(s)
<1>1. /\ n \in Nat /\ DOMAIN s = 1..n /\ u \in Seq(Entries) /\ Len(u) = n + 1
      /\ DOMAIN u = 1..(n + 1) /\ u[n + 1] = e /\ \A i \in 1..n : u[i] = s[i]
  BY AppendProperties
<1>2. \A i \in 1..(n + 1) : i \in 1..n \/ i = n + 1
  BY <1>1
<1> HIDE DEF u, n
<1>3. Whole(s) /\ e.end = "nl" => Whole(u)
  BY <1>1, <1>2 DEF Whole
<1>4. Whole(s) /\ e.end = "torn" => WellFile(u)
  BY <1>1, <1>2 DEF Whole, WellFile
<1>5. HeadsIn(heads, s) /\ e.head = "new" => HeadsIn(heads, u)
  BY <1>1, <1>2 DEF HeadsIn
<1>6. New(s) /\ e.end = "nl" /\ e.head = "new" => New(u)
  BY <1>1, <1>2 DEF New
<1> QED
  BY <1>3, <1>4, <1>5, <1>6 DEF u

\* Some of the stream behind a whole file.
LEMMA SomeMore ==
    ASSUME NEW d \in Seq(Entries), NEW b \in Seq(Entries), NEW n \in 0..Len(b), NEW heads, "new" \in heads,
           HeadsIn(heads, d), New(b), Whole(d) \/ b = <<>>
    PROVE  /\ HeadsIn(heads, d \o SubSeq(b, 1, n))
           /\ b # <<>> => Whole(d \o SubSeq(b, 1, n))
           /\ b = <<>> => d \o SubSeq(b, 1, n) = d
<1> DEFINE s == SubSeq(b, 1, n)
           u == d \o s
<1>1. s \in Seq(Entries) /\ Len(s) = n /\ n \in Nat /\ Len(d) \in Nat
      /\ \A i \in 1..n : s[i] = b[i] /\ i \in 1..Len(b)
  OBVIOUS
<1>2. u \in Seq(Entries) /\ Len(u) = Len(d) + n
      /\ \A i \in 1..(Len(d) + n) : u[i] = IF i <= Len(d) THEN d[i] ELSE s[i - Len(d)]
  <2> HIDE DEF s
  <2> QED
    BY <1>1, ConcatProperties
<1>3. DOMAIN u = 1..(Len(d) + n) /\ DOMAIN d = 1..Len(d) /\ DOMAIN b = 1..Len(b)
  BY <1>2
<1>4. ASSUME NEW i \in 1..(Len(d) + n)
      PROVE  (i \in 1..Len(d) /\ u[i] = d[i]) \/ (\E j \in 1..Len(b) : u[i] = b[j])
  <2> HIDE DEF u, s
  <2>1. CASE i <= Len(d)
    BY <1>1, <1>2, <2>1
  <2>2. CASE i > Len(d)
    <3>1. i - Len(d) \in 1..n /\ u[i] = s[i - Len(d)]
      BY <1>1, <1>2, <2>2
    <3> QED
      BY <1>1, <3>1
  <2> QED
    BY <1>1, <2>1, <2>2
<1>5. b = <<>> => u = d
  <2>1. b = <<>> => s = <<>>
    BY <1>1
  <2> HIDE DEF s
  <2> QED
    BY <2>1, ConcatEmptySeq
<1> HIDE DEF u, s
<1>6. HeadsIn(heads, u)
  <2>1. \A i \in 1..Len(d) : d[i].head \in heads
    BY <1>3 DEF HeadsIn
  <2>2. \A j \in 1..Len(b) : b[j].head \in heads
    BY <1>3 DEF New
  <2>3. \A i \in 1..(Len(d) + n) : u[i].head \in heads
    BY <1>4, <2>1, <2>2
  <2> QED
    BY <1>3, <2>3 DEF HeadsIn
<1>7. b # <<>> => Whole(u)
  <2> HAVE b # <<>>
  <2>1. \A i \in 1..Len(d) : d[i].end = "nl"
    BY <1>3 DEF Whole
  <2>2. \A j \in 1..Len(b) : b[j].end = "nl"
    BY <1>3 DEF New
  <2>3. \A i \in 1..(Len(d) + n) : u[i].end = "nl"
    BY <1>4, <2>1, <2>2
  <2> QED
    BY <1>3, <2>3 DEF Whole
<1> QED
  BY <1>5, <1>6, <1>7 DEF u, s

\* A file up to its last newline is whole, and all that can be missing of it is
\* its last record.
LEMMA KeptIsWhole ==
    ASSUME NEW s \in Seq(Entries), WellFile(s), NEW heads, "new" \in heads
    PROVE  /\ Whole(Kept(s)) /\ (HeadsIn(heads, s) => HeadsIn(heads, Kept(s)))
           /\ Whole(s) => Kept(s) = s
           /\ ~Whole(s) => /\ Len(s) > 0 /\ s[Len(s)].end = "torn"
                           /\ Boundary(s) = Len(s) - 1 /\ TerminalTail(s) # <<>>
<1> DEFINE b == Boundary(s)
           n == Len(s)
           k == Kept(s)
<1>1. n \in Nat /\ DOMAIN s = 1..n
  OBVIOUS
<1>2. /\ b \in 0..n /\ (b # 0 => s[b].end = "nl")
      /\ \A j \in 1..n : s[j].end = "nl" => j <= b
  BY BoundaryIsLast
<1>3. /\ k \in Seq(Entries) /\ Len(k) = b /\ \A i \in 1..b : k[i] = s[i]
      /\ Len(TerminalTail(s)) = n - b
  BY KeptAndTail
<1>4. DOMAIN k = 1..b
  BY <1>3
<1> HIDE DEF b, n, k
<1>5. ASSUME NEW i \in 1..b PROVE s[i].end = "nl"
  <2>1. i \in 1..n
    BY <1>1, <1>2
  <2>2. CASE i = n
    BY <1>1, <1>2, <2>2
  <2>3. CASE i # n
    BY <1>1, <2>1, <2>3 DEF WellFile, n
  <2> QED
    BY <2>2, <2>3
<1>6. Whole(k) /\ (HeadsIn(heads, s) => HeadsIn(heads, k))
  <2>1. \A i \in 1..b : i \in 1..n
    BY <1>1, <1>2
  <2> QED
    BY <1>1, <1>3, <1>4, <1>5, <2>1 DEF Whole, HeadsIn
<1>7. Whole(s) => k = s
  <2> HAVE Whole(s)
  <2>1. n > 0 => b = n
    <3>1. n > 0 => n \in 1..n /\ s[n].end = "nl"
      BY <1>1 DEF Whole
    <3> QED
      BY <1>1, <1>2, <3>1
  <2>2. b = n
    BY <1>1, <1>2, <2>1
  <2> QED
    BY <1>3, <2>2, SeqEqual DEF n
<1>8. ASSUME ~Whole(s)
      PROVE  n > 0 /\ s[n].end = "torn" /\ b = n - 1 /\ TerminalTail(s) # <<>>
  <2>1. PICK i \in 1..n : s[i].end # "nl"
    BY <1>1, <1>8 DEF Whole
  <2>2. i = n /\ s[n].end = "torn"
    <3>1. s[i].end = "nl" \/ (i = n /\ s[i].end = "torn")
      BY <1>1 DEF WellFile, n
    <3> QED
      BY <2>1, <3>1
  <2>3. n > 0 /\ \A j \in 1..n : j # n => s[j].end = "nl"
    <3>1. \A j \in 1..n : s[j].end = "nl" \/ j = n
      BY <1>1 DEF WellFile, n
    <3> QED
      BY <1>1, <2>1, <3>1
  <2>4. b # n
    BY <1>1, <1>2, <2>2
  <2>5. n > 1 => b >= n - 1
    <3>1. n > 1 => n - 1 \in 1..n /\ n - 1 # n
      BY <1>1
    <3> QED
      BY <1>2, <2>3, <3>1
  <2>6. b = n - 1
    BY <1>1, <1>2, <2>3, <2>4, <2>5
  <2>7. Len(TerminalTail(s)) = 1
    BY <1>1, <1>3, <2>6
  <2> QED
    <3>1. Len(<<>>) = 0
      OBVIOUS
    <3>2. ASSUME TerminalTail(s) = <<>> PROVE FALSE
      <4>1. Len(TerminalTail(s)) = 0
        BY <3>1, <3>2
      <4> QED
        BY <2>7, <4>1
    <3> QED
      BY <2>2, <2>3, <2>6, <3>2
<1> QED
  BY <1>6, <1>7, <1>8 DEF b, n, k

\* A whole file whose heads an attachment knows is accepted as it is, and one
\* whose last record was cut after the cut.
LEMMA WellReopens ==
    ASSUME NEW s \in Seq(Entries), WellFile(s), NEW a, HeadsIn(KnownHeads(a), s)
    PROVE  Valid(a, s) \/ Repairable(a, s)
<1>1. \A u : HeadsIn(KnownHeads(a), u) /\ Whole(u) => Valid(a, u)
  BY DEF HeadsIn, KnownHeads, Whole, Valid, HeadIsKnown
<1>2. CASE Whole(s)
  BY <1>1, <1>2
<1>3. CASE ~Whole(s)
  <2>1. s[Len(s)].end = "torn" /\ TerminalTail(s) # <<>>
    BY <1>3, KeptIsWhole DEF KnownHeads
  <2>2. Last(s).end = "torn"
    BY <2>1 DEF Last
  <2>3. "new" \in KnownHeads(a)
    BY DEF KnownHeads
  <2>4. Whole(Kept(s)) /\ HeadsIn(KnownHeads(a), Kept(s))
    BY <2>3, KeptIsWhole
  <2> QED
    BY <1>1, <2>1, <2>2, <2>4 DEF Repairable
<1> QED
  BY <1>2, <1>3

\* A whole file may be read as it is.
LEMMA WholeIsWell ==
    ASSUME NEW s, Whole(s)
    PROVE  WellFile(s)
BY DEF Whole, WellFile

\* A step that leaves the file and the stream, and neither opens nor validates.
LEMMA FileLeft ==
    ASSUME NEW heads, "new" \in heads, FileInv(heads), UNCHANGED <<disk, buffer>>,
           Whole(disk) \/ (IsOpen' /\ ~poisoned' => IsOpen /\ ~poisoned),
           Whole(disk) \/ (\A a \in Attachments : pc'[a] \in Ready => pc[a] \in Ready)
    PROVE  FileInv(heads)'
<1>1. WellFile(disk') /\ HeadsIn(heads, disk') /\ New(buffer')
  BY DEF FileInv
<1>2. /\ buffer' # <<>> => Whole(disk')
      /\ (IsOpen /\ ~poisoned)' => Whole(disk')
      /\ \A a \in Attachments : pc'[a] \in Ready => Whole(disk')
  BY DEF FileInv
<1> QED
  BY <1>1, <1>2 DEF FileInv

\* A step that leaves a whole file.
LEMMA FileWhole ==
    ASSUME NEW heads, "new" \in heads, Whole(disk'), HeadsIn(heads, disk'), New(buffer')
    PROVE  FileInv(heads)'
<1>1. WellFile(disk')
  BY WholeIsWell
<1> QED
  BY <1>1 DEF FileInv

\* The steps of the attachments keep the file.
LEMMA OpeningFile ==
    ASSUME IInv, NEW heads, "new" \in heads, FileInv(heads),
           NEW a \in Attachments, OpeningStep(a)
    PROVE  FileInv(heads)'
<1> USE TypeParts DEF IInv, files, claims, live
<1>1. CASE Claim(a) \/ Lock(a) \/ CreateBackup(a) \/ FinishBackup(a) \/ Rewrite(a)
           \/ Abandon(a) \/ ReleasePath(a) \/ Close(a) \/ ReleaseLock(a)
  <2>1. UNCHANGED <<disk, buffer>>
    BY <1>1 DEF Claim, Lock, CreateBackup, FinishBackup, Rewrite, Abandon, ReleasePath, Close,
       ReleaseLock
  <2>2. \A b \in Attachments : pc'[b] \in Ready => pc[b] \in Ready
    <3>1. \E q \in Phases : To(a, q) /\ (q \in Ready => pc[a] \in Ready)
      BY <1>1 DEF Claim, Lock, CreateBackup, FinishBackup, Rewrite, Abandon, ReleasePath, Close,
         ReleaseLock, Ready, Phases, Opening
    <3> QED
      BY <3>1 DEF To
  <2>3. IsOpen' /\ ~poisoned' => IsOpen /\ ~poisoned
    <3>1. CASE Close(a)
      <4>1. lock' = a /\ pc'[a] = "closed"
        BY <3>1, HolderIsOne, HoldingPhases DEF Close, To
      <4> QED
        BY <4>1 DEF IsOpen
    <3>2. CASE ~Close(a)
      <4>1. poisoned' = poisoned
        BY <1>1, <3>2 DEF Claim, Lock, CreateBackup, FinishBackup, Rewrite, Abandon, ReleasePath,
           ReleaseLock
      <4>2. \E q \in Phases : To(a, q) /\ q # "open"
        BY <1>1, <3>2 DEF Claim, Lock, CreateBackup, FinishBackup, Rewrite, Abandon, ReleasePath,
           ReleaseLock, Phases, Opening
      <4>3. pc[a] # "open" /\ (lock' = lock \/ lock' = a \/ lock' = None)
        BY <1>1, <3>2 DEF Claim, Lock, CreateBackup, FinishBackup, Rewrite, Abandon, ReleasePath,
           ReleaseLock, Opening
      <4> QED
        BY <4>1, <4>2, <4>3 DEF IsOpen, To
    <3> QED
      BY <3>1, <3>2
  <2> QED
    BY <2>1, <2>2, <2>3, FileLeft
<1>2. CASE Validate(a)
  <2>1. UNCHANGED <<disk, buffer, lock, poisoned>> /\ pc[a] = "locked"
    BY <1>2 DEF Validate
  <2>2. CASE Valid(a, disk)
    <3>1. Whole(disk)
      BY <2>2 DEF Valid, Whole, FileInv, WellFile
    <3> QED
      BY <2>1, <3>1, FileLeft
  <2>3. CASE To(a, "torn")
    <3>1. \A b \in Attachments : pc'[b] \in Ready => pc[b] \in Ready
      BY <2>3 DEF To, Ready
    <3>2. IsOpen' => IsOpen
      BY <2>1, <2>3 DEF IsOpen, To
    <3> QED
      BY <2>1, <3>1, <3>2, FileLeft
  <2> QED
    BY <1>2, <2>2, <2>3 DEF Validate
<1>3. CASE Truncate(a)
  <2>1. read[a] = disk
    BY <1>3 DEF Truncate, MayTruncate, RecoverInv
  <2>2. disk' = Kept(disk) /\ buffer' = buffer
    BY <1>3, <2>1 DEF Truncate, Kept
  <2>3. Whole(Kept(disk)) /\ HeadsIn(heads, Kept(disk))
    BY KeptIsWhole DEF FileInv
  <2> QED
    BY <2>2, <2>3, FileWhole DEF FileInv
<1>4. CASE Replace(a)
  <2> DEFINE s == [i \in DOMAIN disk |-> Entry(disk[i].rec, "nl")]
  <2>1. disk' = s /\ buffer' = buffer
    BY <1>4 DEF Replace, RecoverInv
  <2>2. Whole(s) /\ HeadsIn(heads, s)
    BY DEF Whole, HeadsIn, Entry
  <2> HIDE DEF s
  <2> QED
    BY <2>1, <2>2, FileWhole DEF FileInv
<1>5. CASE Attach(a)
  <2>1. UNCHANGED <<disk, buffer>> /\ pc[a] = "valid"
    BY <1>5 DEF Attach
  <2>2. Whole(disk)
    BY <2>1 DEF FileInv, Ready
  <2> QED
    BY <2>1, <2>2, FileLeft
<1> QED
  BY <1>1, <1>2, <1>3, <1>4, <1>5 DEF OpeningStep

\* Every step keeps the file, when a write is cut only inside a record.
LEMMA FileStep ==
    ASSUME Cuts \subseteq {"torn"},
           IInv, NEW heads, "new" \in heads, FileInv(heads), [Next]_vars
    PROVE  FileInv(heads)'
<1> USE TypeParts DEF IInv, files, claims, live
<1>1. CASE MoveAside \/ UNCHANGED vars
  <2>1. UNCHANGED <<disk, buffer, lock, pc, poisoned>>
    BY <1>1 DEF MoveAside, vars
  <2> QED
    BY <2>1, FileLeft DEF IsOpen
<1>2. ASSUME NEW t \in Threads, StartingStep(t)
      PROVE  FileInv(heads)'
  <2>1. UNCHANGED <<disk, buffer, lock, pc, poisoned>>
    BY <1>2 DEF StartingStep, AddFact, RemoveFact, ClearFacts
  <2> QED
    BY <2>1, FileLeft DEF IsOpen
<1>3. CASE RecordStep
  <2>1. PICK r \in Records, w \in Calls : WriteRecord(r, w)
    BY <1>3, RecordCases
  <2>2. disk' = disk /\ buffer' = Append(buffer, Entry(r, "nl"))
    BY <2>1 DEF WriteRecord
  <2>3. Entry(r, "nl") \in Entries /\ Entry(r, "nl").end = "nl" /\ Entry(r, "nl").head = "new"
    BY EntryType DEF Entry
  <2>4. New(Append(buffer, Entry(r, "nl")))
    BY <2>3, OneMore DEF FileInv
  <2>5. Whole(disk)
    BY <1>3, RecordCases DEF StreamInv, FileInv
  <2> QED
    BY <2>2, <2>4, <2>5, FileWhole DEF FileInv
<1>4. CASE WriteDone \/ Flush
  <2>1. UNCHANGED <<disk, buffer, lock, pc, poisoned>>
    BY <1>4 DEF WriteDone, Flush
  <2> QED
    BY <2>1, FileLeft DEF IsOpen
<1>5. CASE WriteFails
  <2>1. IsOpen /\ Whole(disk) /\ poisoned' /\ pc' = pc /\ lock' = lock
    BY <1>5 DEF WriteFails, Poison, FileInv
  <2>2. CASE UNCHANGED <<disk, buffer>>
    BY <2>1, <2>2, FileLeft
  <2>3. ASSUME buffer # <<>>, buffer' = <<>>, NEW cut \in Cuts,
               disk' = Append(disk, Entry(Head(buffer).rec, cut))
        PROVE  FileInv(heads)'
    <3> DEFINE e == Entry(Head(buffer).rec, cut)
    <3>1. e \in Entries /\ e.end = "torn" /\ e.head = "new"
      BY <2>3, HeadTailProperties, EntryType DEF Entry
    <3> HIDE DEF e
    <3>2. WellFile(Append(disk, e)) /\ HeadsIn(heads, Append(disk, e))
      BY <2>1, <3>1, OneMore DEF FileInv
    <3>3. \A b \in Attachments : pc'[b] \notin Ready
      BY <2>1, HolderIsOne DEF IsOpen, Ready, Holding, Opening
    <3>4. New(buffer')
      BY <2>3 DEF New
    <3>5. disk' = Append(disk, e)
      BY <2>3 DEF e
    <3> QED
      BY <2>1, <2>3, <3>2, <3>3, <3>4, <3>5 DEF FileInv
  <2> QED
    BY <1>5, <2>2, <2>3 DEF WriteFails
<1>6. CASE Spill
  <2>1. buffer # <<>> /\ disk' = Append(disk, Head(buffer)) /\ buffer' = Tail(buffer)
    BY <1>6 DEF Spill
  <2>2. Head(buffer) \in Entries /\ Head(buffer) = buffer[1] /\ 1 \in DOMAIN buffer
    BY <2>1, HeadTailProperties
  <2>3. Head(buffer).end = "nl" /\ Head(buffer).head = "new" /\ Whole(disk)
    BY <2>1, <2>2 DEF FileInv, New
  <2>4. Whole(Append(disk, Head(buffer))) /\ HeadsIn(heads, Append(disk, Head(buffer)))
    BY <2>2, <2>3, OneMore DEF FileInv
  <2>5. New(Tail(buffer))
    <3>1. Len(buffer) \in Nat /\ Len(buffer) > 0
      BY <2>1, EmptySeq
    <3>2. \A i \in DOMAIN Tail(buffer) : i + 1 \in DOMAIN buffer /\ Tail(buffer)[i] = buffer[i + 1]
      BY <2>1, <3>1, HeadTailProperties
    <3> QED
      BY <3>2 DEF New, FileInv
  <2> QED
    BY <2>1, <2>4, <2>5, FileWhole
<1>7. CASE Compact
  <2>1. PICK n \in 0..MaxRecords :
           disk' \in [1..n -> {Entry([op |-> "assert", fact |-> g], "nl") : g \in Facts}]
    BY <1>7 DEF Compact
  <2>2. \A i \in DOMAIN disk' : \E r : disk'[i] = Entry(r, "nl")
    BY <2>1
  <2>3. Whole(disk') /\ HeadsIn(heads, disk')
    BY <2>2 DEF Whole, HeadsIn, Entry
  <2>4. New(buffer')
    BY <1>7 DEF Compact, New
  <2> QED
    BY <2>3, <2>4, FileWhole
<1>8. ASSUME NEW t \in Threads, TransactionStep(t)
      PROVE  FileInv(heads)'
  <2>1. UNCHANGED <<disk, buffer, lock, pc, poisoned>>
    BY <1>8 DEF TransactionStep, Begin, StageAdd, StageRemove, StageClear, Stage, Rollback,
       CommitNested, Commit
  <2> QED
    BY <2>1, FileLeft DEF IsOpen
<1>9. CASE CrashStep
  <2>1. PICK x \in Attachments : Crash(ProcessOf[x])
    BY <1>9 DEF CrashStep
  <2> DEFINE p == ProcessOf[x]
             dies == {a \in Attachments : ProcessOf[a] = p}
  <2>2. /\ pc' = [a \in Attachments |-> IF a \in dies THEN "down" ELSE pc[a]]
        /\ lock' = IF lock \in dies THEN None ELSE lock
    BY <2>1 DEF Crash
  <2>3. \A b \in Attachments : pc'[b] \in Ready => pc[b] \in Ready
    BY <2>2 DEF Ready
  <2>4. CASE IsOpen /\ ProcessOf[lock] = p
    <3>1. PICK n \in 0..Len(buffer) :
             \/ disk' = disk \o SubSeq(buffer, 1, n)
             \/ /\ n < Len(buffer)
                /\ \E cut \in Cuts :
                      disk' = disk \o Append(SubSeq(buffer, 1, n),
                                             Entry(buffer[n + 1].rec, cut))
      BY <2>1, <2>4, CrashCases
    <3>2. buffer' = <<>> /\ ~IsOpen'
      BY <2>1, <2>4, CrashCases DEF IsOpen
    <3>3. \A b \in Attachments : pc'[b] \notin Ready
      BY <2>3, <2>4, HolderIsOne DEF IsOpen, Ready, Holding, Opening
    <3> DEFINE s == disk \o SubSeq(buffer, 1, n)
    <3>4. /\ s \in Seq(Entries) /\ HeadsIn(heads, s)
          /\ (buffer # <<>> => Whole(s)) /\ (buffer = <<>> => s = disk)
      BY CrashFile, SomeMore DEF FileInv
    <3> HIDE DEF s
    <3>5. WellFile(disk') /\ HeadsIn(heads, disk')
      <4>1. CASE disk' = s
        BY <3>4, <4>1, WholeIsWell DEF FileInv
      <4>2. ASSUME n < Len(buffer), NEW cut \in Cuts,
                   disk' = disk \o Append(SubSeq(buffer, 1, n), Entry(buffer[n + 1].rec, cut))
            PROVE  WellFile(disk') /\ HeadsIn(heads, disk')
        <5> DEFINE e == Entry(buffer[n + 1].rec, cut)
        <5>1. e.end = "torn" /\ e.head = "new"
          BY <4>2 DEF Entry
        <5>2. e \in Entries /\ disk' = Append(s, e)
          BY <4>2, CrashFile, ZenonT(60) DEF s
        <5>3. buffer # <<>>
          BY <4>2, EmptySeq
        <5> HIDE DEF e
        <5>4. WellFile(Append(s, e)) /\ HeadsIn(heads, Append(s, e))
          BY <3>4, <5>1, <5>2, <5>3, OneMore
        <5> QED
          BY <5>2, <5>4
      <4> QED
        BY <3>1, <4>1, <4>2 DEF s
    <3>6. New(buffer')
      BY <3>2 DEF New
    <3> QED
      BY <3>2, <3>3, <3>5, <3>6 DEF FileInv
  <2>5. CASE ~(IsOpen /\ ProcessOf[lock] = p)
    <3>1. UNCHANGED <<disk, buffer, poisoned>>
      BY <2>1, <2>5, CrashElsewhere
    <3>2. IsOpen' => IsOpen
      BY <2>2 DEF IsOpen
    <3> QED
      BY <2>3, <3>1, <3>2, FileLeft
  <2> QED
    BY <2>4, <2>5
<1> QED
  BY <1>1, <1>2, <1>3, <1>4, <1>5, <1>6, <1>7, <1>8, <1>9, OpeningFile, StepCases DEF StreamStep

\* The file is well formed at first.
LEMMA InitFile ==
    ASSUME NEW heads, "new" \in heads, \A s \in Start : HeadsIn(heads, s), Init
    PROVE  FileInv(heads)
<1>1. disk \in Start /\ buffer = <<>> /\ ~IsOpen
  BY DEF Init, IsOpen
<1>2. WellFile(disk) /\ HeadsIn(heads, disk)
  BY <1>1, StartAssumption DEF WellFile
<1>3. New(buffer)
  BY <1>1 DEF New
<1>4. \A a \in Attachments : pc[a] \notin Ready
  BY DEF Init, Ready
<1> QED
  BY <1>1, <1>2, <1>3, <1>4 DEF FileInv

\* When no write stops between a record's full stop and its newline, and some
\* attachment knows every head of the first journal, a constructor accepts the
\* file whatever crashed or failed (_validate_or_repair_tail): "every torn prefix
\* of it is recoverable". The run PersistentJournalCut shows that the condition
\* on where a write stops is needed.
THEOREM Reopens ==
    ASSUME Cuts \subseteq {"torn"},
           NEW a \in Attachments, \A s \in Start : \A i \in DOMAIN s : HeadIsKnown(a, s[i])
    PROVE  Spec => []Reopenable
<1> DEFINE heads == KnownHeads(a)
<1>1. "new" \in heads
  BY DEF KnownHeads
<1>2. \A s \in Start : HeadsIn(heads, s)
  <2>1. \A e \in Entries : HeadIsKnown(a, e) => e.head \in heads
    BY DEF Entries, HeadIsKnown, KnownHeads
  <2>2. \A s \in Start : \A i \in DOMAIN s : s[i] \in Entries
    BY StartAssumption
  <2> QED
    BY <2>1, <2>2 DEF HeadsIn
<1>3. IInv /\ FileInv(heads) => Reopenable
  BY WellReopens DEF IInv, TypeOK, FileInv, Reopenable
<1> HIDE DEF heads
<1>4. Init => FileInv(heads)
  BY <1>1, <1>2, InitFile
<1>5. IInv /\ FileInv(heads) /\ [Next]_vars => FileInv(heads)'
  BY <1>1, FileStep
<1> QED
  BY <1>3, <1>4, <1>5, Inductive, PTL DEF Spec

-----------------------------------------------------------------------------
(* What is told safe is kept.                                               *)

\* The states a crash may fall back to, of a file and a stream.
HistOf(d, b) == [i \in 1..Len(b) + 1 |-> Replay(d \o SubSeq(b, 1, i - 1))]

\* There is one state for the file and one more for each record of the stream.
LEMMA HistShape ==
    ASSUME NEW d \in Seq(Entries), NEW b \in Seq(Entries)
    PROVE  /\ HistOf(d, b) \in Seq(Bags) /\ Len(HistOf(d, b)) = Len(b) + 1
           /\ \A i \in 1..(Len(b) + 1) :
                 HistOf(d, b)[i] = Replay(d \o SubSeq(b, 1, i - 1))
<1>1. Len(b) \in Nat /\ Len(b) + 1 \in Nat
  OBVIOUS
<1>2. ASSUME NEW i \in 1..(Len(b) + 1) PROVE Replay(d \o SubSeq(b, 1, i - 1)) \in Bags
  <2>1. i - 1 \in 0..Len(b)
    BY <1>1
  <2> DEFINE u == d \o SubSeq(b, 1, i - 1)
  <2>2. u \in Seq(Entries)
    BY <2>1, CrashFile
  <2> HIDE DEF u
  <2>3. Replay(u) \in Bags
    BY <2>2, ReplayBag
  <2> QED
    BY <2>3 DEF u
<1> DEFINE h == HistOf(d, b)
<1>3. h \in [1..(Len(b) + 1) -> Bags]
  BY <1>2 DEF HistOf
<1>4. \A i \in 1..(Len(b) + 1) : h[i] = Replay(d \o SubSeq(b, 1, i - 1))
  BY DEF HistOf
<1> HIDE DEF h
<1>5. h \in Seq(Bags) /\ Len(h) = Len(b) + 1
  BY <1>1, <1>3
<1> QED
  BY <1>4, <1>5 DEF h

\* The first state is the file's, the last that of the file and the stream.
LEMMA HistEnds ==
    ASSUME NEW d \in Seq(Entries), NEW b \in Seq(Entries)
    PROVE  /\ HistOf(d, b)[1] = Replay(d)
           /\ HistOf(d, b)[Len(b) + 1] = Replay(d \o b)
           /\ b = <<>> => HistOf(d, b) = <<Replay(d)>>
<1>1. Len(b) \in Nat /\ 1 \in 1..(Len(b) + 1) /\ Len(b) + 1 \in 1..(Len(b) + 1)
      /\ 1 - 1 = 0 /\ (Len(b) + 1) - 1 = Len(b)
  OBVIOUS
<1>2. SubSeq(b, 1, 0) = <<>> /\ d \o <<>> = d
  BY SubSeqEmpty, ConcatEmptySeq
<1>3. SubSeq(b, 1, Len(b)) = b
  BY SubSeqFull
<1>4. HistOf(d, b)[1] = Replay(d)
  <2>1. HistOf(d, b)[1] = Replay(d \o SubSeq(b, 1, 1 - 1))
    BY <1>1, HistShape
  <2>2. d \o SubSeq(b, 1, 1 - 1) = d
    BY <1>1, <1>2
  <2> QED
    BY <2>1, <2>2
<1>5. HistOf(d, b)[Len(b) + 1] = Replay(d \o b)
  <2> DEFINE n == Len(b) + 1
  <2>1. n \in 1..(Len(b) + 1)
    BY <1>1
  <2>2. HistOf(d, b)[n] = Replay(d \o SubSeq(b, 1, n - 1))
    <3> HIDE DEF n
    <3> QED
      BY <2>1, HistShape
  <2>3. SubSeq(b, 1, n - 1) = b
    BY <1>1, <1>3
  <2> HIDE DEF n
  <2>4. HistOf(d, b)[n] = Replay(d \o b)
    BY <2>2, <2>3
  <2> QED
    BY <2>4 DEF n
<1>6. b = <<>> => HistOf(d, b) = <<Replay(d)>>
  <2> HAVE b = <<>>
  <2> DEFINE h == HistOf(d, b)
  <2>1. Len(b) = 0
    OBVIOUS
  <2>2. h \in Seq(Bags) /\ Len(h) = 1
    <3>1. h \in Seq(Bags) /\ Len(h) = Len(b) + 1
      BY HistShape
    <3> HIDE DEF h
    <3> QED
      BY <2>1, <3>1
  <2> HIDE DEF h
  <2>3. h = <<h[1]>>
    BY <2>2
  <2> QED
    BY <1>4, <2>3 DEF h
<1> QED
  BY <1>4, <1>5, <1>6

\* A record that enters the stream makes one more state.
LEMMA HistChange ==
    ASSUME NEW d \in Seq(Entries), NEW b \in Seq(Entries), NEW e \in Entries
    PROVE  /\ Len(HistOf(d, Append(b, e))) = Len(HistOf(d, b)) + 1
           /\ SubSeq(HistOf(d, Append(b, e)), 1, Len(HistOf(d, b))) = HistOf(d, b)
<1> DEFINE c == Append(b, e)
           h == HistOf(d, b)
           g == HistOf(d, c)
           n == Len(b) + 1
<1>1. c \in Seq(Entries) /\ Len(c) = n /\ n \in Nat /\ Len(b) \in Nat
  BY AppendProperties
<1>2. h \in Seq(Bags) /\ Len(h) = n /\ g \in Seq(Bags) /\ Len(g) = n + 1
  <2> HIDE DEF c
  <2> QED
    BY <1>1, HistShape
<1>3. ASSUME NEW i \in 1..n PROVE g[i] = h[i]
  <2>1. i - 1 \in 0..Len(b) /\ i \in 1..(Len(c) + 1)
    BY <1>1
  <2>2. SubSeq(c, 1, i - 1) = SubSeq(b, 1, i - 1)
    <3> DEFINE k == i - 1
    <3>1. k \in Nat /\ k <= Len(b)
      BY <2>1
    <3> HIDE DEF k
    <3>2. \A j \in 1..k : c[j] = b[j] /\ b[j] \in Entries
      BY <1>1, <3>1, AppendProperties
    <3> DEFINE x == SubSeq(c, 1, k)
               y == SubSeq(b, 1, k)
    <3>3. x \in Seq(Entries) /\ y \in Seq(Entries) /\ Len(x) = k /\ Len(y) = k
      BY <1>1, <3>1
    <3>4. \A j \in 1..k : x[j] = c[j] /\ y[j] = b[j]
      BY <1>1, <3>1
    <3> HIDE DEF x, y, c
    <3>5. x = y
      BY <3>2, <3>3, <3>4, SeqEqual
    <3> QED
      BY <3>5 DEF x, y, k
  <2>3. g[i] = Replay(d \o SubSeq(c, 1, i - 1))
    <3> HIDE DEF c
    <3> QED
      BY <1>1, <2>1, HistShape
  <2>4. h[i] = Replay(d \o SubSeq(b, 1, i - 1))
    BY HistShape
  <2> QED
    BY <2>2, <2>3, <2>4
<1> HIDE DEF c, h, g, n
<1>4. SubSeq(g, 1, n) \in Seq(Bags) /\ Len(SubSeq(g, 1, n)) = n
      /\ \A i \in 1..n : SubSeq(g, 1, n)[i] = g[i]
  BY <1>1, <1>2
<1>5. SubSeq(g, 1, n) = h
  BY <1>2, <1>3, <1>4, SeqEqual
<1> QED
  BY <1>2, <1>5 DEF c, h, g, n

\* A record that leaves the stream for the file makes the first state go.
LEMMA HistSpill ==
    ASSUME NEW d \in Seq(Entries), NEW b \in Seq(Entries), b # <<>>
    PROVE  /\ 2 \in 1..Len(HistOf(d, b))
           /\ HistOf(Append(d, Head(b)), Tail(b)) = SubSeq(HistOf(d, b), 2, Len(HistOf(d, b)))
<1> DEFINE x == Append(d, Head(b))
           y == Tail(b)
           h == HistOf(d, b)
           g == HistOf(x, y)
           n == Len(b)
<1>1. /\ n \in Nat /\ n > 0 /\ x \in Seq(Entries) /\ y \in Seq(Entries) /\ Len(y) = n - 1
  BY EmptySeq, SpilledIsSame, HeadTailProperties
<1>2. h \in Seq(Bags) /\ Len(h) = n + 1 /\ g \in Seq(Bags) /\ Len(g) = n
  <2> HIDE DEF x, y
  <2> QED
    BY <1>1, HistShape
<1>3. ASSUME NEW i \in 1..n PROVE g[i] = h[i + 1]
  <2> DEFINE s == SubSeq(b, 1, i)
  <2>1. s \in Seq(Entries) /\ Len(s) = i /\ s # <<>>
    BY <1>1
  <2>2. Head(s) = Head(b)
    BY <1>1
  <2>3. Tail(s) = SubSeq(y, 1, i - 1)
    <3> DEFINE k == i - 1
               u == Tail(s)
               v == SubSeq(y, 1, k)
    <3>1. k \in Nat /\ k <= n - 1 /\ i = k + 1
      BY <1>1
    <3>2. u \in Seq(Entries) /\ Len(u) = k
      <4> HIDE DEF s, k
      <4> QED
        BY <2>1, <3>1, HeadTailProperties
    <3>3. v \in Seq(Entries) /\ Len(v) = k /\ \A j \in 1..k : v[j] = y[j]
      <4> HIDE DEF y, k
      <4> QED
        BY <1>1, <3>1
    <3>4. \A j \in 1..k : u[j] = s[j + 1]
      <4> HIDE DEF s
      <4> QED
        BY <2>1, <3>2, HeadTailProperties
    <3>5. \A j \in 1..k : s[j + 1] = b[j + 1] /\ y[j] = b[j + 1]
      <4>1. \A j \in 1..(n - 1) : y[j] = b[j + 1]
        BY <1>1, HeadTailProperties
      <4>2. \A j \in 1..i : s[j] = b[j]
        BY <1>1
      <4>3. \A j \in 1..k : j + 1 \in 1..i /\ j \in 1..(n - 1)
        BY <3>1
      <4> HIDE DEF s, y, k
      <4> QED
        BY <4>1, <4>2, <4>3
    <3> HIDE DEF u, v, s, y, k
    <3>6. u = v
      BY <3>2, <3>3, <3>4, <3>5, SeqEqual
    <3> QED
      BY <3>6 DEF u, v, k
  <2>4. Append(d, Head(s)) \o Tail(s) = d \o s
    <3> HIDE DEF s
    <3> QED
      BY <2>1, SpilledIsSame
  <2>5. g[i] = Replay(x \o SubSeq(y, 1, i - 1))
    <3>1. i \in 1..(Len(y) + 1)
      BY <1>1
    <3> HIDE DEF x, y
    <3> QED
      BY <1>1, <3>1, HistShape
  <2>6. h[i + 1] = Replay(d \o SubSeq(b, 1, i))
    <3>1. i + 1 \in 1..(n + 1) /\ (i + 1) - 1 = i
      BY <1>1
    <3> QED
      BY <3>1, HistShape
  <2>7. x \o SubSeq(y, 1, i - 1) = d \o s
    <3> HIDE DEF s, y
    <3> QED
      BY <2>2, <2>3, <2>4
  <2> HIDE DEF g, h, x, y
  <2> QED
    BY <2>5, <2>6, <2>7
<1> HIDE DEF x, y, h, g, n
<1>4. SubSeq(h, 2, n + 1) \in Seq(Bags) /\ Len(SubSeq(h, 2, n + 1)) = n
      /\ \A i \in 1..n : SubSeq(h, 2, n + 1)[i] = h[i + 1]
  BY <1>1, <1>2
<1>5. g = SubSeq(h, 2, n + 1)
  BY <1>2, <1>3, <1>4, SeqEqual
<1> QED
  BY <1>1, <1>2, <1>5 DEF x, y, h, g, n

\* Cutting off the record that was cut short leaves what the file replays to.
LEMMA KeptReplay ==
    ASSUME NEW s \in Seq(Entries), WellFile(s)
    PROVE  Replay(Kept(s)) = Replay(s)
<1> DEFINE k == Kept(s)
           z == TerminalTail(s)
<1>1. k \in Seq(Entries) /\ z \in Seq(Entries) /\ s = k \o z
      /\ Len(k) = Boundary(s) /\ Len(z) = Len(s) - Boundary(s)
  BY KeptAndTail
<1>2. CASE Whole(s)
  BY <1>2, KeptIsWhole
<1>3. CASE ~Whole(s)
  <2>1. Len(s) \in Nat /\ Len(s) > 0 /\ s[Len(s)].end = "torn" /\ Boundary(s) = Len(s) - 1
    <3>1. "new" \in {"new"}
      OBVIOUS
    <3>2. Len(s) \in Nat
      OBVIOUS
    <3>3. Len(s) > 0 /\ s[Len(s)].end = "torn" /\ Boundary(s) = Len(s) - 1
      <4> HIDE DEF k, z
      <4> QED
        BY <1>3, <3>1, KeptIsWhole
    <3> QED
      BY <3>2, <3>3
  <2> HIDE DEF k, z
  <2>2. Len(z) = 1 /\ Len(k) = Len(s) - 1
    BY <1>1, <2>1
  <2>3. s[Len(s)] = z[1]
    <3>1. (k \o z)[Len(k) + 1] = z[1]
      BY <1>1, <2>1, <2>2, ConcatProperties
    <3>2. Len(s) = Len(k) + 1
      BY <2>1, <2>2
    <3> QED
      BY <1>1, <3>1, <3>2
  <2>4. z[1] \in Entries /\ z[1].end = "torn" /\ z = <<z[1]>>
    BY <1>1, <2>1, <2>2, <2>3
  <2>5. s = Append(k, z[1])
    BY <1>1, <2>4, AppendIsConcat
  <2>6. Replay(s) = Replayed(Replay(k), z[1])
    BY <1>1, <2>4, <2>5, ReplayAppend
  <2>7. Replayed(Replay(k), z[1]) = Replay(k)
    BY <2>4 DEF Replayed
  <2> QED
    BY <2>6, <2>7 DEF k
<1> QED
  BY <1>2, <1>3

\* The readable records under their new head replay to the same facts.
LEMMA RewrittenReplay ==
    ASSUME NEW s \in Seq(Entries), Whole(s), NEW t,
           t = [i \in DOMAIN s |-> Entry(s[i].rec, "nl")]
    PROVE  t \in Seq(Entries) /\ Replay(t) = Replay(s)
<1>1. Len(s) \in Nat /\ DOMAIN s = 1..Len(s) /\ \A i \in 1..Len(s) : s[i] \in Entries
  OBVIOUS
<1>2. t \in Seq(Entries) /\ Len(t) = Len(s) /\ \A i \in 1..Len(s) : t[i] = Entry(s[i].rec, "nl")
  <2>1. \A i \in 1..Len(s) : Entry(s[i].rec, "nl") \in Entries
    BY <1>1, EntryType
  <2>2. t \in [1..Len(s) -> Entries]
    BY <1>1, <2>1
  <2> QED
    BY <1>1, <2>2
<1>3. ASSUME NEW i \in 1..Len(s), NEW bag \in Bags
      PROVE  Replayed(bag, s[i]) = Replayed(bag, t[i])
  <2>1. s[i].end = "nl" /\ t[i].end = "nl" /\ t[i].rec = s[i].rec
    BY <1>1, <1>2 DEF Whole, Entry
  <2> QED
    BY <2>1 DEF Replayed
<1>4. Replay(s) = Replay(t)
  BY <1>2, <1>3, ReplayAlike
<1> QED
  BY <1>2, <1>4

\* A record that was cut short is not replayed.
LEMMA TornReplay ==
    ASSUME NEW s \in Seq(Entries), NEW e \in Entries, e.end = "torn"
    PROVE  Replay(Append(s, e)) = Replay(s)
BY ReplayAppend DEF Replayed

\* The mapped history, before and after a step.
LEMMA HistNow == Hist = HistOf(disk, buffer) /\ Hist' = HistOf(disk', buffer')
BY DEF Hist, HistOf

\* A step that leaves the file, the stream and what was told.
LEMMA SafeLeft ==
    ASSUME UNCHANGED <<disk, buffer, told>>
    PROVE  UNCHANGED Durable!vars
<1>1. Hist' = Hist
  BY HistNow
<1> QED
  BY <1>1 DEF Durable!vars

\* A step with an empty stream that leaves what the file replays to.
LEMMA SafeTold ==
    ASSUME disk \in Seq(Entries), disk' \in Seq(Entries), Replay(disk') = Replay(disk),
           buffer = <<>>, buffer' = <<>>, told' = told \/ told' = TRUE
    PROVE  Durable!Persist
<1>1. <<>> \in Seq(Entries)
  OBVIOUS
<1>2. HistOf(disk, <<>>) = <<Replay(disk)>> /\ HistOf(disk', <<>>) = <<Replay(disk')>>
  BY <1>1, HistEnds
<1>3. Hist = <<Replay(disk)>> /\ Hist' = <<Replay(disk)>>
  BY <1>2, HistNow
<1> DEFINE r == Replay(disk)
<1> HIDE DEF r
<1>4. Hist = <<r>> /\ Hist' = <<r>>
  BY <1>3 DEF r
<1>5. Len(<<r>>) = 1 /\ SubSeq(<<r>>, 1, 1) = <<r>> /\ 1 \in 1..1
  <2>1. <<r>> \in Seq({r}) /\ Len(<<r>>) = 1
    OBVIOUS
  <2>2. SubSeq(<<r>>, 1, Len(<<r>>)) = <<r>>
    BY <2>1, SubSeqFull
  <2> QED
    BY <2>1, <2>2
<1>6. Hist' = SubSeq(Hist, 1, Len(Hist)) /\ 1 \in 1..Len(Hist) /\ 1 = Len(Hist)
  BY <1>4, <1>5
<1>7. told' \in {told} \cup {1 = Len(Hist)}
  BY <1>6
<1> QED
  BY <1>6, <1>7 DEF Durable!Persist

\* A step that falls back to one of the states.
LEMMA SafeBack ==
    ASSUME disk \in Seq(Entries), buffer \in Seq(Entries), disk' \in Seq(Entries),
           buffer' = <<>>, told' = told,
           NEW k \in 1..(Len(buffer) + 1), Replay(disk') = HistOf(disk, buffer)[k]
    PROVE  Durable!Crash
<1>1. HistOf(disk', <<>>) = <<Replay(disk')>>
  <2>1. <<>> \in Seq(Entries)
    OBVIOUS
  <2> QED
    BY <2>1, HistEnds
<1>2. Len(HistOf(disk, buffer)) = Len(buffer) + 1
  BY HistShape
<1>3. k \in 1..Len(Hist)
  BY <1>2, HistNow
<1>4. Hist' = <<Hist[k]>>
  BY <1>1, HistNow
<1> QED
  BY <1>3, <1>4 DEF Durable!Crash

\* Every step of the journal is a step of what it promises.
LEMMA SafeStep ==
    ASSUME Cuts \subseteq {"torn"}, NEW heads, IInv, FileInv(heads), [Next]_vars
    PROVE  [Durable!Next]_Durable!vars
<1> USE TypeParts DEF IInv, files, claims, live
<1>1. CASE MoveAside \/ UNCHANGED vars
  <2>1. UNCHANGED <<disk, buffer, told>>
    BY <1>1 DEF MoveAside, vars
  <2> QED
    BY <2>1, SafeLeft
<1>2. ASSUME NEW t \in Threads, StartingStep(t)
      PROVE  UNCHANGED Durable!vars
  <2>1. UNCHANGED <<disk, buffer, told>>
    BY <1>2 DEF StartingStep, AddFact, RemoveFact, ClearFacts
  <2> QED
    BY <2>1, SafeLeft
<1>3. ASSUME NEW t \in Threads, TransactionStep(t)
      PROVE  UNCHANGED Durable!vars
  <2>1. UNCHANGED <<disk, buffer, told>>
    BY <1>3 DEF TransactionStep, Begin, StageAdd, StageRemove, StageClear, Stage, Rollback,
       CommitNested, Commit
  <2> QED
    BY <2>1, SafeLeft
<1>4. CASE RecordStep
  <2>1. PICK r \in Records, w \in Calls : WriteRecord(r, w)
    BY <1>4, RecordCases
  <2> DEFINE e == Entry(r, "nl")
  <2>2. e \in Entries
    BY EntryType
  <2>3. disk' = disk /\ buffer' = Append(buffer, e) /\ told' = FALSE
    BY <2>1 DEF WriteRecord
  <2> HIDE DEF e
  <2>4. /\ Len(HistOf(disk, Append(buffer, e))) = Len(HistOf(disk, buffer)) + 1
        /\ SubSeq(HistOf(disk, Append(buffer, e)), 1, Len(HistOf(disk, buffer)))
             = HistOf(disk, buffer)
    BY <2>2, HistChange
  <2>5. Hist = HistOf(disk, buffer) /\ Hist' = HistOf(disk, Append(buffer, e))
    BY <2>3, HistNow
  <2>6. Durable!Change
    BY <2>3, <2>4, <2>5 DEF Durable!Change
  <2> QED
    BY <2>6 DEF Durable!Next
<1>5. CASE WriteDone
  <2>1. CASE buffer = <<>>
    <3>1. disk' = disk /\ buffer' = <<>> /\ (told' = told \/ told' = TRUE)
      BY <1>5, <2>1 DEF WriteDone
    <3>2. Durable!Persist
      BY <2>1, <3>1, SafeTold
    <3> QED
      BY <3>2 DEF Durable!Next
  <2>2. CASE buffer # <<>>
    <3>1. UNCHANGED <<disk, buffer, told>>
      BY <1>5, <2>2 DEF WriteDone, Flushed
    <3> QED
      BY <3>1, SafeLeft
  <2> QED
    BY <2>1, <2>2
<1>6. CASE WriteFails
  <2>1. CASE UNCHANGED <<disk, buffer>>
    <3>1. UNCHANGED <<disk, buffer, told>>
      BY <1>6, <2>1 DEF WriteFails
    <3> QED
      BY <3>1, SafeLeft
  <2>2. ASSUME buffer # <<>>, buffer' = <<>>, NEW cut \in Cuts,
               disk' = Append(disk, Entry(Head(buffer).rec, cut))
        PROVE  Durable!Crash
    <3> DEFINE e == Entry(Head(buffer).rec, cut)
    <3>1. e \in Entries /\ e.end = "torn"
      BY <2>2, HeadTailProperties, EntryType DEF Entry
    <3>2. disk' = Append(disk, e) /\ told' = told
      BY <1>6, <2>2 DEF WriteFails
    <3> HIDE DEF e
    <3>3. disk' \in Seq(Entries) /\ Replay(disk') = Replay(disk)
      BY <3>1, <3>2, TornReplay, AppendProperties
    <3>4. 1 \in 1..(Len(buffer) + 1)
      OBVIOUS
    <3>5. Replay(disk') = HistOf(disk, buffer)[1]
      BY <3>3, HistEnds
    <3> QED
      BY <2>2, <3>2, <3>3, <3>4, <3>5, SafeBack
  <2> QED
    BY <1>6, <2>1, <2>2 DEF WriteFails, Durable!Next
<1>7. CASE Spill
  <2>1. buffer # <<>> /\ disk' = Append(disk, Head(buffer)) /\ buffer' = Tail(buffer)
        /\ told' = told
    BY <1>7 DEF Spill
  <2>2. 2 \in 1..Len(Hist) /\ Hist' = SubSeq(Hist, 2, Len(Hist))
    BY <2>1, HistSpill, HistNow
  <2>3. Durable!Persist
    BY <2>1, <2>2 DEF Durable!Persist
  <2> QED
    BY <2>3 DEF Durable!Next
<1>8. CASE Flush
  <2>1. buffer = <<>> /\ disk' = disk /\ buffer' = <<>> /\ told' = TRUE
    BY <1>8 DEF Flush
  <2>2. Durable!Persist
    BY <2>1, SafeTold
  <2> QED
    BY <2>2 DEF Durable!Next
<1>9. CASE Compact
  <2>1. Replay(disk') = mem /\ buffer' = <<>> /\ told' = told /\ IsOpen /\ ~poisoned
        /\ writer = None
    BY <1>9 DEF Compact, Idle
  <2>2. disk' \in Seq(Entries)
    <3>1. TypeOK'
      BY <1>9, StreamTypes DEF StreamStep
    <3> QED
      BY <3>1 DEF TypeOK
  <2>3. Replay(disk') = Replay(disk \o buffer)
    BY <2>1 DEF JournalIsMemory
  <2>4. Replay(disk') = HistOf(disk, buffer)[Len(buffer) + 1]
    BY <2>3, HistEnds
  <2>5. Len(buffer) + 1 \in 1..(Len(buffer) + 1)
    OBVIOUS
  <2>6. Durable!Crash
    BY <2>1, <2>2, <2>4, <2>5, SafeBack
  <2> QED
    BY <2>6 DEF Durable!Next
<1>10. ASSUME NEW a \in Attachments, OpeningStep(a)
       PROVE  [Durable!Next]_Durable!vars
  <2>1. CASE ~Truncate(a) /\ ~Replace(a) /\ ~Close(a)
    <3>1. UNCHANGED <<disk, buffer, told>>
      BY <1>10, <2>1 DEF OpeningStep, Claim, Lock, Validate, CreateBackup, FinishBackup,
         Rewrite, Attach, Abandon, ReleasePath, ReleaseLock
    <3> QED
      BY <3>1, SafeLeft
  <2>2. CASE Close(a)
    <3>1. buffer = <<>> /\ disk' = disk /\ buffer' = <<>> /\ (told' = told \/ told' = TRUE)
      BY <2>2 DEF Close
    <3>2. Durable!Persist
      BY <3>1, SafeTold
    <3> QED
      BY <3>2 DEF Durable!Next
  <2>3. CASE Truncate(a)
    <3>1. read[a] = disk /\ pc[a] = "saved"
      BY <2>3 DEF Truncate, MayTruncate, RecoverInv
    <3>2. disk' = Kept(disk) /\ buffer' = buffer /\ told' = told
      BY <2>3, <3>1 DEF Truncate, Kept
    <3>3. buffer = <<>>
      BY <3>1, HolderIsOne, HoldingPhases DEF StreamInv
    <3>4. Replay(Kept(disk)) = Replay(disk) /\ Kept(disk) \in Seq(Entries)
      BY KeptReplay, KeptAndTail DEF FileInv
    <3>5. Durable!Persist
      BY <3>2, <3>3, <3>4, SafeTold
    <3> QED
      BY <3>5 DEF Durable!Next
  <2>4. CASE Replace(a)
    <3>1. /\ disk' = [i \in DOMAIN disk |-> Entry(disk[i].rec, "nl")]
          /\ buffer' = buffer /\ told' = told /\ pc[a] = "staged"
      BY <2>4 DEF Replace, RecoverInv
    <3>2. buffer = <<>> /\ Whole(disk)
      BY <3>1, HolderIsOne, HoldingPhases DEF StreamInv, FileInv, Ready
    <3>3. disk' \in Seq(Entries) /\ Replay(disk') = Replay(disk)
      BY <3>1, <3>2, RewrittenReplay
    <3>4. Durable!Persist
      BY <3>1, <3>2, <3>3, SafeTold
    <3> QED
      BY <3>4 DEF Durable!Next
  <2> QED
    BY <2>1, <2>2, <2>3, <2>4
<1>11. CASE CrashStep
  <2>1. PICK x \in Attachments : Crash(ProcessOf[x])
    BY <1>11 DEF CrashStep
  <2>2. told' = told
    BY <2>1 DEF Crash
  <2>3. CASE IsOpen /\ ProcessOf[lock] = ProcessOf[x]
    <3>1. PICK n \in 0..Len(buffer) :
             \/ disk' = disk \o SubSeq(buffer, 1, n)
             \/ /\ n < Len(buffer)
                /\ \E cut \in Cuts :
                      disk' = disk \o Append(SubSeq(buffer, 1, n),
                                             Entry(buffer[n + 1].rec, cut))
      BY <2>1, <2>3, CrashCases
    <3>2. buffer' = <<>>
      BY <2>1, <2>3, CrashCases
    <3> DEFINE s == disk \o SubSeq(buffer, 1, n)
    <3>3. s \in Seq(Entries)
      BY CrashFile
    <3>4. disk' \in Seq(Entries) /\ Replay(disk') = Replay(s)
      <4>1. CASE disk' = s
        BY <3>3, <4>1
      <4>2. ASSUME n < Len(buffer), NEW cut \in Cuts,
                   disk' = disk \o Append(SubSeq(buffer, 1, n), Entry(buffer[n + 1].rec, cut))
            PROVE  disk' \in Seq(Entries) /\ Replay(disk') = Replay(s)
        <5> DEFINE e == Entry(buffer[n + 1].rec, cut)
        <5>1. e.end = "torn"
          BY <4>2 DEF Entry
        <5>2. e \in Entries /\ disk' = Append(s, e)
          BY <4>2, CrashFile, ZenonT(60)
        <5> HIDE DEF e, s
        <5> QED
          BY <3>3, <5>1, <5>2, TornReplay, AppendProperties
      <4> QED
        BY <3>1, <4>1, <4>2
    <3> DEFINE k == n + 1
    <3>5. k \in 1..(Len(buffer) + 1) /\ k - 1 = n
      OBVIOUS
    <3>6. Replay(s) = HistOf(disk, buffer)[k]
      <4>1. HistOf(disk, buffer)[k] = Replay(disk \o SubSeq(buffer, 1, k - 1))
        <5> HIDE DEF k
        <5> QED
          BY <3>5, HistShape
      <4> QED
        BY <3>5, <4>1
    <3> HIDE DEF s, k
    <3>7. Durable!Crash
      BY <2>2, <3>2, <3>4, <3>5, <3>6, SafeBack
    <3> QED
      BY <3>7 DEF Durable!Next
  <2>4. CASE ~(IsOpen /\ ProcessOf[lock] = ProcessOf[x])
    <3>1. UNCHANGED <<disk, buffer, told>>
      BY <2>1, <2>2, <2>4, CrashElsewhere
    <3> QED
      BY <3>1, SafeLeft
  <2> QED
    BY <2>3, <2>4
<1> QED
  BY <1>1, <1>2, <1>3, <1>4, <1>5, <1>6, <1>7, <1>8, <1>9, <1>10, <1>11, StepCases DEF StreamStep

\* The journal implements DurableFacts: no state that flush(), close() or a write
\* in sync="flush" returned for is lost, whatever recovers, migrates, compacts,
\* fails or crashes, when no write stops between a full stop and its newline.
THEOREM SafeKept ==
    ASSUME Cuts \subseteq {"torn"}
    PROVE  Spec => SafeIsKept
<1> DEFINE heads == {"old", "new"}
<1>1. \A s \in Start : HeadsIn(heads, s)
  <2>1. \A s \in Start : \A i \in DOMAIN s : s[i] \in Entries
    BY StartAssumption
  <2>2. \A e \in Entries : e.head \in heads
    BY DEF Entries
  <2> QED
    BY <2>1, <2>2 DEF HeadsIn
<1>2. "new" \in heads
  OBVIOUS
<1> HIDE DEF heads
<1>3. Init => FileInv(heads)
  BY <1>1, <1>2, InitFile
<1>4. IInv /\ FileInv(heads) /\ [Next]_vars => FileInv(heads)'
  BY <1>2, FileStep
<1>5. IInv /\ FileInv(heads) /\ [Next]_vars => [Durable!Next]_Durable!vars
  BY SafeStep
<1>6. Init => Durable!Init
  <2> SUFFICES ASSUME Init PROVE Durable!Init
    OBVIOUS
  <2>1. disk \in Seq(Entries) /\ buffer = <<>> /\ told = FALSE
    BY StartAssumption DEF Init
  <2>2. Len(HistOf(disk, <<>>)) = Len(<<>>) + 1 /\ Len(<<>>) = 0
    <3>1. <<>> \in Seq(Entries)
      OBVIOUS
    <3> QED
      BY <2>1, <3>1, HistShape
  <2>3. Len(Hist) = 1
    BY <2>1, <2>2, HistNow
  <2> QED
    BY <2>1, <2>3 DEF Durable!Init
<1> QED
  BY <1>3, <1>4, <1>5, <1>6, Inductive, PTL DEF Spec, SafeIsKept, Durable!Spec

=============================================================================
