------------------------- MODULE PersistentJournal -------------------------
(***************************************************************************)
(* The persistent fact space of metta.foreign: one journal file, the       *)
(* attachments that open, repair, migrate, write and close it, from        *)
(* several processes, and the crash that may come between any two steps.   *)
(*                                                                         *)
(* A journal entry is a replay record with its head and its end: "nl" when *)
(* its newline was written, "torn" when the write stopped before its full  *)
(* stop, "stop" when it stopped between the full stop and the newline.     *)
(***************************************************************************)
EXTENDS Integers, SequencesExt

CONSTANTS
    Facts,        \* rows of the one declared head
    Attachments,  \* PersistentFactSpace objects, one after the other per name
    ProcessOf,    \* the process an attachment lives in
    Renaming,     \* attachments opened with rename={"old": "new"}
    SyncOf,       \* sync= of an attachment: "none" or "flush"
    Threads,      \* threads that use the open attachment
    Cuts,         \* where inside a record a write may stop: "torn", "stop"
    Start,        \* contents the journal may have at first
    None,
    MaxRecords,   \* bound on the journal's length
    MaxCopies,    \* bound on equal rows
    MaxDepth,     \* bound on a thread's nested transactions
    MaxCrashes    \* bound on crashes

ASSUME CutsAssumption == Cuts \subseteq {"torn", "stop"}
ASSUME SyncAssumption == SyncOf \in [Attachments -> {"none", "flush"}]
ASSUME BoundAssumption ==
    /\ MaxDepth \in [Threads -> Nat]
    /\ MaxRecords \in Nat /\ MaxCopies \in Nat /\ MaxCrashes \in Nat

VARIABLES
    disk,      \* the journal file
    backup,    \* the .tail file beside it, or None
    buffer,    \* records in the open journal stream
    active,    \* _ACTIVE_PATHS: the processes that claimed the path
    lock,      \* flock on the .lock file: an attachment or None
    pc,        \* how far each attachment is
    read,      \* what a constructor read from the journal
    mem,       \* the facts in the engine's memory
    poisoned,  \* _write_failure is not None
    writer,    \* the call under _call_lock that is writing, or None
    stack,     \* _transaction_local.stack of each thread
    told,      \* the caller was told that every write is in the file
    crashes

files == <<disk, backup, buffer>>
claims == <<active, lock, pc, read>>
live == <<mem, poisoned, writer, stack>>
vars == <<files, claims, live, told, crashes>>

(***************************************************************************)
(* Facts and records.                                                      *)
(***************************************************************************)
Bags == [Facts -> Nat]
Empty == [f \in Facts |-> 0]
One(f) == [Empty EXCEPT ![f] = 1]

Records == [op : {"assert", "retract"}, fact : Facts] \cup [op : {"retractall"}]
Entries == [rec : Records, head : {"old", "new"}, end : {"nl", "torn", "stop"}]
Entry(r, end) == [rec |-> r, head |-> "new", end |-> end]

\* The journal starts as an earlier process left it: whole records, after
\* which one may have been cut.
ASSUME StartAssumption ==
    \A s \in Start :
        /\ s \in Seq(Entries)
        /\ \A i \in DOMAIN s : s[i].end = "nl" \/ (i = Len(s) /\ s[i].end = "torn")

\* The saved bytes of a tail, and the call that is writing.
Backups == [tail : Seq(Entries), whole : BOOLEAN]
Calls == [thread : Threads, less : Bags, more : Bags, wipe : BOOLEAN, view : Bags]

ASSUME NoneAssumption ==
    None \notin Attachments /\ None \notin Backups /\ None \notin Calls

Apply(bag, r) ==
    CASE r.op = "assert"     -> [bag EXCEPT ![r.fact] = @ + 1]
      [] r.op = "retract"    -> [bag EXCEPT ![r.fact] = IF @ > 0 THEN @ - 1 ELSE 0]
      [] r.op = "retractall" -> Empty

\* db_attach: what replay of the readable entries leaves in memory.
Replay(entries) ==
    LET after[n \in 0..Len(entries)] ==
            IF n = 0 THEN Empty
            ELSE IF entries[n].end = "torn" THEN after[n - 1]
            ELSE Apply(after[n - 1], entries[n].rec)
    IN after[Len(entries)]

Surplus(left, right) ==
    [f \in Facts |-> IF left[f] > right[f] THEN left[f] - right[f] ELSE 0]

(***************************************************************************)
(* Opening: claim, lock, validate, repair, migrate, attach.                *)
(***************************************************************************)
Init ==
    /\ disk \in Start /\ backup = None /\ buffer = <<>>
    /\ active = {} /\ lock = None
    /\ pc = [a \in Attachments |-> "down"]
    /\ read = [a \in Attachments |-> <<>>]
    /\ mem = Empty /\ poisoned = FALSE /\ writer = None
    /\ stack = [t \in Threads |-> <<>>]
    /\ told = FALSE /\ crashes = 0

To(a, phase) == pc' = [pc EXCEPT ![a] = phase]

Claim(a) ==
    /\ pc[a] = "down" /\ ProcessOf[a] \notin active
    /\ active' = active \cup {ProcessOf[a]}
    /\ To(a, "claimed")
    /\ UNCHANGED <<files, lock, read, live, told, crashes>>

\* _claim_journal_lock: LOCK_NB refuses at once, and the path is released.
Lock(a) ==
    /\ pc[a] = "claimed"
    /\ \/ lock = None /\ lock' = a /\ To(a, "locked") /\ UNCHANGED active
       \/ lock # None /\ To(a, "down") /\ active' = active \ {ProcessOf[a]}
          /\ UNCHANGED lock
    /\ UNCHANGED <<files, read, live, told, crashes>>

HeadIsKnown(a, e) == e.head = "new" \/ a \in Renaming

\* Mutant: an unreadable last record is left for the reader to skip.
SkipsTail(a, entries) ==
    \A i \in DOMAIN entries :
        /\ HeadIsKnown(a, entries[i])
        /\ entries[i].end = "nl" \/ i = Len(entries)

\* validate: read_term takes a full stop at the end of the file for an end,
\* and one that another record follows for an operator.
Valid(a, entries) ==
    \A i \in DOMAIN entries :
        /\ HeadIsKnown(a, entries[i])
        /\ \/ entries[i].end = "nl"
           \/ entries[i].end = "stop" /\ i = Len(entries)

\* _terminal_tail: the entries up to the last newline.
Boundary(entries) ==
    IF \E i \in DOMAIN entries : entries[i].end = "nl"
    THEN CHOOSE i \in DOMAIN entries :
             /\ entries[i].end = "nl"
             /\ \A j \in DOMAIN entries : entries[j].end = "nl" => j <= i
    ELSE 0
Kept(entries) == SubSeq(entries, 1, Boundary(entries))
TerminalTail(entries) == SubSeq(entries, Boundary(entries) + 1, Len(entries))

\* _validate_or_repair_tail goes on to the backup.
Repairable(a, entries) ==
    /\ TerminalTail(entries) # <<>> /\ Last(entries).end = "torn"
    /\ Valid(a, Kept(entries))

AfterValid(a) == IF a \in Renaming THEN "rewrite" ELSE "valid"

Validate(a) ==
    /\ pc[a] = "locked"
    /\ \/ Valid(a, disk) /\ To(a, AfterValid(a))
       \/ ~Valid(a, disk) /\ Repairable(a, disk) /\ To(a, "torn")
    /\ read' = [read EXCEPT ![a] = disk]
    /\ UNCHANGED <<files, active, lock, live, told, crashes>>

\* _save_tail_backup: "xb" creates the file; its bytes are whole after fsync.
CreateBackup(a) ==
    /\ pc[a] = "torn" /\ backup = None
    /\ backup' = [tail |-> TerminalTail(read[a]), whole |-> FALSE]
    /\ To(a, "saving")
    /\ UNCHANGED <<disk, buffer, active, lock, read, live, told, crashes>>

FinishBackup(a) ==
    /\ pc[a] = "saving"
    /\ backup' = [backup EXCEPT !.whole = TRUE]
    /\ To(a, "saved")
    /\ UNCHANGED <<disk, buffer, active, lock, read, live, told, crashes>>

\* Mutant: the journal is truncated before the backup is synced.
TruncatesEarly(a) == pc[a] \in {"saving", "saved"}

MayTruncate(a) == pc[a] = "saved"

Truncate(a) ==
    /\ MayTruncate(a)
    /\ disk' = SubSeq(disk, 1, Boundary(read[a]))
    /\ To(a, AfterValid(a))
    /\ UNCHANGED <<backup, buffer, active, lock, read, live, told, crashes>>

\* rewrite_replay into the temporary file; every old head must occur.
Rewrite(a) ==
    /\ pc[a] = "rewrite"
    /\ \E i \in DOMAIN disk : disk[i].head = "old"
    /\ read' = [read EXCEPT ![a] =
                   [i \in DOMAIN disk |-> Entry(disk[i].rec, "nl")]]
    /\ To(a, "staged")
    /\ UNCHANGED <<files, active, lock, live, told, crashes>>

Replace(a) ==
    /\ pc[a] = "staged"
    /\ disk' = read[a]
    /\ To(a, "valid")
    /\ UNCHANGED <<backup, buffer, active, lock, read, live, told, crashes>>

Attach(a) ==
    /\ pc[a] = "valid"
    /\ mem' = Replay(disk)
    /\ poisoned' = FALSE /\ writer' = None
    /\ stack' = [t \in Threads |-> <<>>]
    /\ To(a, "open")
    /\ read' = [read EXCEPT ![a] = <<>>]
    /\ UNCHANGED <<files, active, lock, told, crashes>>

Opening == {"locked", "torn", "saving", "saved", "rewrite", "staged", "valid"}

\* A refusal or a failed step: the ExitStacks give back the module and the
\* lock, then the path. A backup that was begun stays.
Abandon(a) ==
    /\ pc[a] \in Opening
    /\ lock' = None
    /\ To(a, "abandoned")
    /\ read' = [read EXCEPT ![a] = <<>>]
    /\ UNCHANGED <<files, active, live, told, crashes>>

ReleasePath(a) ==
    /\ pc[a] = "abandoned"
    /\ active' = active \ {ProcessOf[a]}
    /\ To(a, "down")
    /\ UNCHANGED <<files, lock, read, live, told, crashes>>

\* The operator moves the backup aside, as the refusal asks.
MoveAside ==
    /\ backup # None
    /\ \A a \in Attachments : pc[a] \notin Opening
    /\ backup' = None
    /\ UNCHANGED <<disk, buffer, claims, live, told, crashes>>

(***************************************************************************)
(* Writing. The open attachment holds the lock; a call under _call_lock    *)
(* excludes every other, and its memory changes show when it is done.      *)
(***************************************************************************)
IsOpen == lock # None /\ pc[lock] = "open"
Idle == IsOpen /\ writer = None
Room == Len(disk) + Len(buffer) < MaxRecords
AllOf(rest) == \A f \in Facts : rest[f] = 0

\* _write_call: the writer's remaining records and its transaction's view.
Starts(t, less, more, wipe) ==
    writer' = [thread |-> t, less |-> less, more |-> more, wipe |-> wipe,
               view |-> mem]

AddFact(t, f) ==
    /\ Idle /\ stack[t] = <<>> /\ ~poisoned
    /\ mem[f] < MaxCopies /\ Room
    /\ Starts(t, Empty, One(f), FALSE)
    /\ UNCHANGED <<files, claims, mem, poisoned, stack, told, crashes>>

\* A fact that is not there is no record.
RemoveFact(t, f) ==
    /\ Idle /\ stack[t] = <<>> /\ ~poisoned
    /\ mem[f] > 0 /\ Room
    /\ Starts(t, One(f), Empty, FALSE)
    /\ UNCHANGED <<files, claims, mem, poisoned, stack, told, crashes>>

ClearFacts(t) ==
    /\ Idle /\ stack[t] = <<>> /\ ~poisoned
    /\ mem # Empty /\ Room
    /\ Starts(t, Empty, Empty, TRUE)
    /\ UNCHANGED <<files, claims, mem, poisoned, stack, told, crashes>>

\* Mutant: a write is acknowledged while its record is in the stream.
NeverFlushes == TRUE

\* library(persistency) flushes the stream after each record in sync(flush).
Flushed == SyncOf[lock] = "flush" => buffer = <<>>

\* One updater: retractall, then the retracts, then the asserts.
WriteRecord(r, rest) ==
    /\ Flushed /\ Room
    /\ buffer' = Append(buffer, Entry(r, "nl"))
    /\ writer' = [rest EXCEPT !.view = Apply(@, r)]
    /\ told' = FALSE
    /\ UNCHANGED <<disk, backup, claims, mem, poisoned, stack, crashes>>

WriteAll ==
    /\ writer # None /\ writer.wipe
    /\ WriteRecord([op |-> "retractall"], [writer EXCEPT !.wipe = FALSE])

WriteRetract(f) ==
    /\ writer # None /\ writer.less[f] > 0
    /\ WriteRecord([op |-> "retract", fact |-> f],
                   [writer EXCEPT !.less[f] = @ - 1])

WriteAssert(f) ==
    /\ writer # None /\ AllOf(writer.less) /\ writer.more[f] > 0
    /\ WriteRecord([op |-> "assert", fact |-> f],
                   [writer EXCEPT !.more[f] = @ - 1])

\* Leaves the transaction of the writer's thread, if it is in one.
Popped(t) == [stack EXCEPT ![t] = IF @ = <<>> THEN @ ELSE Front(@)]

WriteDone ==
    /\ writer # None /\ Flushed
    /\ ~writer.wipe /\ AllOf(writer.less) /\ AllOf(writer.more)
    /\ mem' = writer.view
    /\ stack' = Popped(writer.thread)
    /\ writer' = None
    /\ told' = (told \/ SyncOf[lock] = "flush")
    /\ UNCHANGED <<files, claims, poisoned, crashes>>

\* Mutant: a failed updater leaves the provider writable.
StaysWritable == UNCHANGED poisoned

Poison == poisoned' = TRUE

\* An updater, a flush or a compaction raises: memory is rolled back, the
\* stream keeps its records or stops inside the next one and drops the rest.
WriteFails ==
    /\ IsOpen /\ ~poisoned
    /\ Poison
    /\ \/ UNCHANGED <<disk, buffer>>
       \/ /\ buffer # <<>>
          /\ \E cut \in Cuts :
                 disk' = Append(disk, Entry(Head(buffer).rec, cut))
          /\ buffer' = <<>>
    /\ writer' = None
    /\ stack' = IF writer = None THEN stack ELSE Popped(writer.thread)
    /\ UNCHANGED <<backup, claims, mem, told, crashes>>

\* The stream writes its next record to the file.
Spill ==
    /\ IsOpen /\ buffer # <<>>
    /\ disk' = Append(disk, Head(buffer))
    /\ buffer' = Tail(buffer)
    /\ UNCHANGED <<backup, claims, live, told, crashes>>

\* flush(): db_sync(close) returns once the stream is empty.
Flush ==
    /\ Idle /\ ~poisoned /\ buffer = <<>>
    /\ told' = TRUE
    /\ UNCHANGED <<files, claims, live, crashes>>

\* compact(): db_sync(gc) replaces the journal by one that asserts the facts.
Compact ==
    /\ Idle /\ ~poisoned
    /\ \E entries \in UNION {[1..n -> {Entry([op |-> "assert", fact |-> f], "nl") :
                                         f \in Facts}] : n \in 0..MaxRecords} :
           Replay(entries) = mem /\ disk' = entries
    /\ buffer' = <<>>
    /\ UNCHANGED <<backup, claims, live, told, crashes>>

(***************************************************************************)
(* Transactions: staged per thread, written as one diff.                   *)
(***************************************************************************)
Begin(t) ==
    /\ Idle /\ Len(stack[t]) < MaxDepth[t]
    /\ LET base == IF stack[t] = <<>> THEN mem ELSE Last(stack[t]).atoms
       IN stack' = [stack EXCEPT ![t] = Append(@, [base |-> base, atoms |-> base])]
    /\ UNCHANGED <<files, claims, mem, poisoned, writer, told, crashes>>

Writes(t) == writer # None /\ writer.thread = t

\* The top of the thread's stack; the lock is not needed.
Stage(t, bag) ==
    /\ IsOpen /\ ~Writes(t)
    /\ stack' = [stack EXCEPT ![t][Len(stack[t])].atoms = bag]
    /\ UNCHANGED <<files, claims, mem, poisoned, writer, told, crashes>>

StageAdd(t, f) ==
    /\ stack[t] # <<>> /\ Last(stack[t]).atoms[f] < MaxCopies
    /\ Stage(t, [Last(stack[t]).atoms EXCEPT ![f] = @ + 1])

StageRemove(t, f) ==
    /\ stack[t] # <<>> /\ Last(stack[t]).atoms[f] > 0
    /\ Stage(t, [Last(stack[t]).atoms EXCEPT ![f] = @ - 1])

StageClear(t) ==
    /\ stack[t] # <<>> /\ Last(stack[t]).atoms # Empty
    /\ Stage(t, Empty)

Rollback(t) ==
    /\ IsOpen /\ stack[t] # <<>> /\ ~Writes(t)
    /\ stack' = Popped(t)
    /\ UNCHANGED <<files, claims, mem, poisoned, writer, told, crashes>>

CommitNested(t) ==
    /\ IsOpen /\ Len(stack[t]) > 1
    /\ LET top == Last(stack[t]) IN
       stack' = [stack EXCEPT ![t] =
                    [Front(@) EXCEPT ![Len(stack[t]) - 1].atoms = top.atoms]]
    /\ UNCHANGED <<files, claims, mem, poisoned, writer, told, crashes>>

\* Mutant: the base is not compared with the facts at commit.
NeverStale(base) == TRUE

SameMultiset(base) == mem = base

\* _commit_diff: a stale base or a poisoned provider refuses, nothing changed
\* writes nothing, and the transaction is left in every case.
Commit(t) ==
    /\ Idle /\ Len(stack[t]) = 1
    /\ LET top == Last(stack[t])
           less == Surplus(top.base, top.atoms)
           more == Surplus(top.atoms, top.base)
       IN IF SameMultiset(top.base) /\ ~poisoned /\ ~(AllOf(less) /\ AllOf(more))
          THEN Starts(t, less, more, FALSE) /\ UNCHANGED stack
          ELSE stack' = Popped(t) /\ UNCHANGED writer
    /\ UNCHANGED <<files, claims, mem, poisoned, told, crashes>>

(***************************************************************************)
(* Closing and crashing.                                                   *)
(***************************************************************************)

\* close(): db_detach empties the stream, then path, module and lock go.
Close(a) ==
    /\ pc[a] = "open" /\ writer = None /\ buffer = <<>>
    /\ mem' = Empty /\ poisoned' = FALSE
    /\ stack' = [t \in Threads |-> <<>>]
    /\ told' = (told \/ ~poisoned)
    /\ active' = active \ {ProcessOf[a]}
    /\ To(a, "closed")
    /\ UNCHANGED <<files, lock, read, writer, crashes>>

ReleaseLock(a) ==
    /\ pc[a] = "closed"
    /\ lock' = None
    /\ To(a, "down")
    /\ UNCHANGED <<files, active, read, live, told, crashes>>

\* A process dies: its lock and claim with it, and the stream's records up to
\* any byte are in the file.
Crash(p) ==
    /\ crashes < MaxCrashes /\ crashes' = crashes + 1
    /\ \E a \in Attachments : ProcessOf[a] = p /\ pc[a] # "down"
    /\ LET dies == {a \in Attachments : ProcessOf[a] = p}
           owner == IsOpen /\ lock \in dies
       IN /\ pc' = [a \in Attachments |-> IF a \in dies THEN "down" ELSE pc[a]]
          /\ read' = [a \in Attachments |-> IF a \in dies THEN <<>> ELSE read[a]]
          /\ active' = active \ {p}
          /\ lock' = IF lock \in dies THEN None ELSE lock
          /\ IF owner
             THEN /\ \E n \in 0..Len(buffer) :
                         \/ disk' = disk \o SubSeq(buffer, 1, n)
                         \/ /\ n < Len(buffer)
                            /\ \E cut \in Cuts :
                                 disk' = disk \o Append(SubSeq(buffer, 1, n),
                                             Entry(buffer[n + 1].rec, cut))
                  /\ buffer' = <<>> /\ mem' = Empty /\ poisoned' = FALSE
                  /\ writer' = None /\ stack' = [t \in Threads |-> <<>>]
             ELSE UNCHANGED <<disk, buffer, live>>
    /\ UNCHANGED <<backup, told>>

Next ==
    \/ \E a \in Attachments :
          \/ Claim(a) \/ Lock(a) \/ Validate(a) \/ CreateBackup(a)
          \/ FinishBackup(a) \/ Truncate(a) \/ Rewrite(a) \/ Replace(a)
          \/ Attach(a) \/ Abandon(a) \/ ReleasePath(a)
          \/ Close(a) \/ ReleaseLock(a)
    \/ MoveAside
    \/ \E t \in Threads, f \in Facts :
          AddFact(t, f) \/ RemoveFact(t, f) \/ StageAdd(t, f) \/ StageRemove(t, f)
    \/ \E t \in Threads :
          \/ ClearFacts(t) \/ Begin(t) \/ StageClear(t) \/ Rollback(t)
          \/ CommitNested(t) \/ Commit(t)
    \/ \E f \in Facts : WriteRetract(f) \/ WriteAssert(f)
    \/ WriteAll \/ WriteDone \/ WriteFails \/ Spill \/ Flush \/ Compact
    \/ \E p \in {ProcessOf[a] : a \in Attachments} : Crash(p)

Spec == Init /\ [][Next]_vars

(***************************************************************************)
(* Properties.                                                             *)
(***************************************************************************)
Phases == Opening \cup {"down", "claimed", "abandoned", "open", "closed"}

\* Type correctness of the file, the claims and the provider's fields.
TypeOK ==
    /\ disk \in Seq(Entries) /\ buffer \in Seq(Entries)
    /\ backup \in Backups \cup {None}
    /\ active \subseteq {ProcessOf[a] : a \in Attachments}
    /\ lock \in Attachments \cup {None}
    /\ pc \in [Attachments -> Phases]
    /\ read \in [Attachments -> Seq(Entries)]
    /\ mem \in Bags /\ poisoned \in BOOLEAN /\ told \in BOOLEAN
    /\ writer \in Calls \cup {None}
    /\ stack \in [Threads -> Seq([base : Bags, atoms : Bags])]
    /\ \A t \in Threads : Len(stack[t]) <= MaxDepth[t]
    /\ crashes \in 0..MaxCrashes

\* While an attachment is open and no write of it failed, replaying the file
\* and the stream gives exactly the facts in memory, or in the transaction of
\* the call that is writing: no other attachment rewrote the file under it
\* (_claim_journal_lock), and every earlier close emptied its stream.
JournalIsMemory ==
    IsOpen /\ ~poisoned =>
        Replay(disk \o buffer) = IF writer = None THEN mem ELSE writer.view

\* "every torn prefix of it is recoverable": whatever crashed or failed, some
\* constructor accepts the file, as it is or after cutting its last record.
Reopenable ==
    \E a \in Attachments : Valid(a, disk) \/ Repairable(a, disk)

\* Outside an open attachment the file only grows shorter by bytes that the
\* synced backup holds: recovery never destroys the only copy.
RecoveryKeepsBytes ==
    [][~IsOpen /\ Len(disk') < Len(disk) =>
         /\ backup # None /\ backup.whole
         /\ disk = disk' \o backup.tail]_vars

\* A transaction that changes the facts changes them from the base it began
\* with to what its thread staged, whatever other threads did in between.
CommitIsExact ==
    [][\A t \in Threads :
         IsOpen /\ Writes(t) /\ stack[t] # <<>> /\ mem' # mem /\ pc'[lock] = "open"
         => mem = stack[t][1].base /\ mem' = stack[t][1].atoms]_vars

\* The states a crash may fall back to: the file, and the file with each
\* prefix of what the stream holds.
Hist ==
    [i \in 1..Len(buffer) + 1 |-> Replay(disk \o SubSeq(buffer, 1, i - 1))]

Durable == INSTANCE DurableFacts WITH hist <- Hist

\* The journal implements DurableFacts: recovery, migration, compaction, failed
\* writes and crashes never lose a state after flush(), close() or a write in
\* sync="flush" returned for it.
SafeIsKept == Durable!Spec
=============================================================================
