------------------------- MODULE ProviderAdmission -------------------------
(***************************************************************************)
(* Provider admission of metta.foreign for one space name: the engine's    *)
(* registration row, the table of admission records, the doors that hold a *)
(* provider for one use, registration, unregistration, and the drop of the *)
(* handle that owns a provider's backing. Every read of the row and every  *)
(* critical section is a step of its own.                                  *)
(***************************************************************************)
EXTENDS Integers, Sequences, FiniteSets

CONSTANTS
    Providers,
    Owned,        \* the provider whose backing the handle closes
    Threads,
    Droppers,     \* threads that drop the handle
    Managers,     \* threads that register and unregister
    None,
    MaxRecords,   \* bound on admission records
    MaxUses       \* bound on uses open at once

ASSUME OwnedAssumption == Owned \in Providers
ASSUME RoleAssumption == Droppers \cup Managers \subseteq Threads
ASSUME UseAssumption == MaxUses \in Nat /\ None \notin [rec : Nat, holder : Threads]

VARIABLES
    row,        \* the engine's registration: a provider or None
    table,      \* _ADMISSIONS[name]: the index of a record or None
    records,    \* every Admission made so far
    uses,       \* open _Use tokens by slot, or None
    pc,         \* where each thread is
    at,         \* each thread's locals: a record, a provider, who asked
    dropping,   \* the handle's _drop_pending
    retired,    \* the handle's _drop_engine_done
    dropped     \* the handle's _dropped: its backing is closed

handle == <<dropping, retired, dropped>>
vars == <<row, table, records, uses, pc, at, handle>>

(***************************************************************************)
(* Records.                                                                *)
(***************************************************************************)
NoHolders == [t \in Threads |-> 0]
Admission(p) ==
    [provider |-> p, count |-> 0, holders |-> NoHolders,
     closing |-> FALSE, pending |-> FALSE, waited |-> FALSE]
Local(r, p, a) == [rec |-> r, provider |-> p, asker |-> a]
Nothing == Local(None, None, "door")

\* The handle was made with its provider registered.
Init ==
    /\ row = Owned /\ table = 1 /\ records = <<Admission(Owned)>>
    /\ uses = [u \in 1..MaxUses |-> None]
    /\ pc = [t \in Threads |-> "idle"]
    /\ at = [t \in Threads |-> Nothing]
    /\ dropping = FALSE /\ retired = FALSE /\ dropped = FALSE

To(t, next) == pc' = [pc EXCEPT ![t] = next]
Ends(t) == To(t, "idle") /\ at' = [at EXCEPT ![t] = Nothing]
Rec(t) == records[at[t].rec]

\* The bounds: every operation under way can still make its record and its use.
Room ==
    Len(records) + Cardinality({t \in Threads : pc[t] \notin {"idle", "wait"}})
        < MaxRecords
Slot ==
    Cardinality({u \in 1..MaxUses : uses[u] # None})
        + Cardinality({t \in Threads : pc[t] \in {"row", "stale", "renew", "hold"}})
        < MaxUses

\* The record leaves the table if it is still the one there.
Unlist(r) == table' = IF table = r THEN None ELSE table

(***************************************************************************)
(* A door: _admit in the order of its reads, then the use itself.          *)
(***************************************************************************)
Look(t) ==
    /\ pc[t] = "idle" /\ table # None /\ Room /\ Slot
    /\ at' = [at EXCEPT ![t] = Local(table, None, "door")]
    /\ To(t, "row")
    /\ UNCHANGED <<row, table, records, uses, handle>>

ReadRow(t) ==
    /\ pc[t] = "row"
    /\ at' = [at EXCEPT ![t].provider = row]
    /\ To(t, CASE row = None              -> "gone"
               [] row = Rec(t).provider   -> "hold"
               [] OTHER                   -> "stale")
    /\ UNCHANGED <<row, table, records, uses, handle>>

\* A record without a row admits nothing and leaves the table when unused.
Gone(t) ==
    /\ pc[t] = "gone"
    /\ IF Rec(t).count = 0 THEN Unlist(at[t].rec) ELSE UNCHANGED table
    /\ Ends(t)
    /\ UNCHANGED <<row, records, uses, handle>>

\* The row names another provider: the record follows it.
Stale(t) ==
    /\ pc[t] = "stale"
    /\ records' = [records EXCEPT ![at[t].rec].closing = TRUE]
    /\ To(t, "renew")
    /\ UNCHANGED <<row, table, uses, at, handle>>

\* A new record of the provider in the thread's locals enters the table.
Enlist(t) ==
    /\ records' = Append(records, Admission(at[t].provider))
    /\ table' = Len(records')
    /\ UNCHANGED <<row, uses, handle>>

Renew(t) ==
    /\ pc[t] = "renew" /\ Enlist(t)
    /\ at' = [at EXCEPT ![t].rec = Len(records')]
    /\ To(t, "hold")

\* Mutant: the record that was read is held without asking whether it closes.
HoldsAnyway(r) == TRUE

Admits(r) == ~records[r].closing

Hold(t) ==
    /\ pc[t] = "hold"
    /\ \/ /\ Admits(at[t].rec)
          /\ records' = [records EXCEPT ![at[t].rec].count = @ + 1,
                                        ![at[t].rec].holders[t] = @ + 1]
          /\ \E u \in 1..MaxUses :
                 /\ uses[u] = None
                 /\ uses' = [uses EXCEPT ![u] = [rec |-> at[t].rec, holder |-> t]]
       \/ ~Admits(at[t].rec) /\ UNCHANGED <<records, uses>>
    /\ Ends(t)
    /\ UNCHANGED <<row, table, handle>>

(***************************************************************************)
(* _release, on whichever thread ends the use.                             *)
(***************************************************************************)
\* Mutant: the thread that ends the use is counted out.
EndingThread(t, use) == t

HolderOf(t, use) == use.holder

LastStep(r) == IF records[r].pending THEN "lastly" ELSE "last"

Release(t, u) ==
    /\ pc[t] = "idle" /\ uses[u] # None
    /\ LET r == uses[u].rec
           last == records[r].count = 1
       IN /\ records' = [records EXCEPT
                ![r].count = @ - 1,
                ![r].holders[HolderOf(t, uses[u])] = @ - 1,
                ![r].pending = @ /\ ~last]
          /\ To(t, IF last THEN LastStep(r) ELSE "idle")
          /\ at' = [at EXCEPT ![t] = IF last THEN Local(r, None, "door") ELSE Nothing]
    /\ uses' = [uses EXCEPT ![u] = None]
    /\ UNCHANGED <<row, table, handle>>

Forget(r) == IF records[r].closing THEN Unlist(r) ELSE UNCHANGED table

\* The last release forgets a closing record, then runs what was retained.
AfterLast(t) ==
    /\ pc[t] \in {"last", "lastly"}
    /\ Forget(at[t].rec)
    /\ IF pc[t] = "last"
       THEN Ends(t) /\ UNCHANGED dropping
       ELSE To(t, "drop") /\ dropping' = FALSE
            /\ at' = [at EXCEPT ![t] = Nothing]
    /\ UNCHANGED <<row, records, uses, retired, dropped>>

(***************************************************************************)
(* register_provider.                                                      *)
(***************************************************************************)
\* Nobody begins to register a backing that is closed.
Usable(p) == ~(p = Owned /\ dropped)

Register(t, p) ==
    /\ pc[t] = "idle" /\ t \in Managers
    /\ row \in {None, p} /\ Usable(p) /\ Room
    /\ at' = [at EXCEPT ![t] = Local(None, p, "door")]
    /\ To(t, "publish")
    /\ UNCHANGED <<row, table, records, uses, handle>>

\* The engine refuses another provider's name and takes the same one again.
Publish(t) ==
    /\ pc[t] = "publish"
    /\ IF row \in {None, at[t].provider}
       THEN row' = at[t].provider /\ To(t, "enlist") /\ UNCHANGED at
       ELSE Ends(t) /\ UNCHANGED row
    /\ UNCHANGED <<table, records, uses, handle>>

Enrol(t) == pc[t] = "enlist" /\ Enlist(t) /\ Ends(t)

(***************************************************************************)
(* unregister_provider, on its own, in drop() or in _finish_drop().        *)
(***************************************************************************)
Unregister(t) ==
    /\ pc[t] = "idle" /\ t \in Managers /\ row # None /\ Room
    /\ at' = [at EXCEPT ![t] = Local(None, row, "only")]
    /\ To(t, "fetch")
    /\ UNCHANGED <<row, table, records, uses, handle>>

\* The record is the table's, or a fresh one that nobody else reaches.
Fetch(t) ==
    /\ pc[t] = "fetch"
    /\ \/ /\ table # None
          /\ at' = [at EXCEPT ![t].rec = table] /\ To(t, "remove")
          /\ UNCHANGED records
       \/ /\ table = None /\ row # None
          /\ records' = Append(records, Admission(row))
          /\ at' = [at EXCEPT ![t].rec = Len(records')] /\ To(t, "remove")
       \/ table = None /\ row = None /\ Ends(t) /\ UNCHANGED records
    /\ UNCHANGED <<row, table, uses, handle>>

\* The engine removes the row, or refuses because it is gone already.
RemoveRow(t) ==
    /\ pc[t] = "remove"
    /\ row' = None
    /\ IF row # None THEN To(t, "shut") /\ UNCHANGED at ELSE Ends(t)
    /\ UNCHANGED <<table, records, uses, handle>>

Returned(t) ==
    CASE at[t].asker = "only"   -> "returned"
      [] at[t].asker = "drop"   -> "asks"
      [] at[t].asker = "finish" -> "wait"

Shut(t) ==
    /\ pc[t] = "shut"
    /\ records' = [records EXCEPT ![at[t].rec].closing = TRUE]
    /\ To(t, IF Rec(t).count = 0 THEN "unlist" ELSE Returned(t))
    /\ UNCHANGED <<row, table, uses, at, handle>>

UnlistShut(t) ==
    /\ pc[t] = "unlist"
    /\ Unlist(at[t].rec)
    /\ To(t, Returned(t))
    /\ UNCHANGED <<row, records, uses, at, handle>>

Return(t) ==
    /\ pc[t] = "returned" /\ Ends(t)
    /\ UNCHANGED <<row, table, records, uses, handle>>

(***************************************************************************)
(* drop() of the handle that owns the backing.                             *)
(***************************************************************************)
Drop(t) ==
    /\ pc[t] = "idle" /\ t \in Droppers /\ Room
    /\ To(t, "drop")
    /\ UNCHANGED <<row, table, records, uses, at, handle>>

\* A pending or finished drop is left alone; a retired space only cleans up.
Enter(t) ==
    /\ pc[t] = "drop"
    /\ at' = [at EXCEPT ![t] = IF dropped \/ dropping THEN Nothing
                               ELSE Local(None, row, "drop")]
    /\ To(t, IF dropped \/ dropping THEN "idle"
             ELSE IF retired THEN "finish"
             ELSE IF row # None THEN "fetch" ELSE "teardown")
    /\ UNCHANGED <<row, table, records, uses, handle>>

HeldByCaller(t) == Rec(t).holders[t] > 0

\* A drop from inside a use cannot wait for itself.
Asks(t) ==
    /\ pc[t] = "asks"
    /\ IF HeldByCaller(t)
       THEN To(t, "retain") /\ dropping' = TRUE
       ELSE To(t, "wait") /\ UNCHANGED dropping
    /\ UNCHANGED <<row, table, records, uses, at, retired, dropped>>

\* Mutant: the drop is left to the last release without asking for one.
RetainsAlways(r) == TRUE

IsHeld(r) == records[r].count > 0

\* after_last_release: the use may have ended on another thread meanwhile.
Retain(t) ==
    /\ pc[t] = "retain"
    /\ IF IsHeld(at[t].rec)
       THEN /\ records' = [records EXCEPT ![at[t].rec].pending = TRUE]
            /\ Ends(t) /\ UNCHANGED dropping
       ELSE /\ dropping' = FALSE
            /\ To(t, "drop") /\ UNCHANGED <<records, at>>
    /\ UNCHANGED <<row, table, uses, retired, dropped>>

\* Mutant: the close waits for the name instead of its own registration.
NameIsFree(t) == ~IsHeld(at[t].rec) /\ table = None

Released(t) == ~IsHeld(at[t].rec)

Wait(t) ==
    /\ pc[t] = "wait" /\ Released(t)
    /\ records' = [records EXCEPT ![at[t].rec].waited = TRUE]
    /\ To(t, IF at[t].asker = "drop" THEN "teardown" ELSE "close")
    /\ UNCHANGED <<row, table, uses, at, handle>>

\* The engine retires the space, or fails and the provider is put back.
Teardown(t) ==
    /\ pc[t] = "teardown"
    /\ \/ /\ dropping' = TRUE /\ To(t, "retire") /\ UNCHANGED at
       \/ /\ dropping' = FALSE
          /\ IF at[t].provider # None
             THEN To(t, "publish") /\ UNCHANGED at
             ELSE Ends(t)
    /\ UNCHANGED <<row, table, records, uses, retired, dropped>>

Retire(t) ==
    /\ pc[t] = "retire"
    /\ dropping' = FALSE /\ retired' = TRUE
    /\ To(t, "finish")
    /\ UNCHANGED <<row, table, records, uses, at, dropped>>

\* A registration that still stands is detached and waited for.
Finish(t) ==
    /\ pc[t] = "finish"
    /\ IF row # None /\ ~dropped
       THEN /\ at' = [at EXCEPT ![t] = Local(None, row, "finish")]
            /\ To(t, "fetch")
       ELSE To(t, "close") /\ UNCHANGED at
    /\ UNCHANGED <<row, table, records, uses, handle>>

CloseBacking(t) ==
    /\ pc[t] = "close"
    /\ dropped' = TRUE
    /\ Ends(t)
    /\ UNCHANGED <<row, table, records, uses, dropping, retired>>

Steps(t) ==
    \/ ReadRow(t) \/ Gone(t) \/ Stale(t) \/ Renew(t) \/ Hold(t) \/ AfterLast(t)
    \/ Publish(t) \/ Enrol(t)
    \/ Fetch(t) \/ RemoveRow(t) \/ Shut(t) \/ UnlistShut(t) \/ Return(t)
    \/ Enter(t) \/ Asks(t) \/ Retain(t) \/ Wait(t)
    \/ Teardown(t) \/ Retire(t) \/ Finish(t) \/ CloseBacking(t)

Next ==
    \/ \E t \in Threads :
          \/ Look(t) \/ Unregister(t) \/ Drop(t) \/ Steps(t)
          \/ \E p \in Providers : Register(t, p)
          \/ \E u \in 1..MaxUses : Release(t, u)

Spec == Init /\ [][Next]_vars

\* A thread inside an operation goes on, and every use is ended by some
\* thread: its stream is exhausted, closed or collected.
FairSpec ==
    /\ Spec
    /\ \A t \in Threads : WF_vars(Steps(t))
    /\ \A u \in 1..MaxUses : SF_vars(\E t \in Threads : Release(t, u))

(***************************************************************************)
(* Properties.                                                             *)
(***************************************************************************)
Indices == 1..Len(records)
OpenUses(r) == {u \in 1..MaxUses : uses[u] # None /\ uses[u].rec = r}

\* Type correctness; a record's count and its holders agree.
TypeOK ==
    /\ row \in Providers \cup {None}
    /\ table \in Indices \cup {None}
    /\ \A r \in Indices :
          /\ records[r].provider \in Providers
          /\ records[r].count \in 0..MaxUses
          /\ records[r].holders \in [Threads -> 0..MaxUses]
          /\ {records[r].closing, records[r].pending, records[r].waited}
                \subseteq BOOLEAN
    /\ \A t \in Threads : at[t].rec \in Indices \cup {None}
    /\ {dropping, retired, dropped} \subseteq BOOLEAN

\* Once a close has waited for a registration, no use of it is open or will be:
\* not one that read the record, or the row, before the close began.
WaitedIsUnused ==
    \A r \in Indices : records[r].waited => OpenUses(r) = {}

\* A thread that waits for a registration in drop() holds no use of it, although
\* its streams may have been ended by others and its count kept by them.
NoSelfWait ==
    \A t \in Threads : pc[t] = "wait" /\ at[t].asker = "drop" =>
        \A u \in OpenUses(at[t].rec) : uses[u].holder # t

\* A drop that was retained has a use whose release will run it, although the
\* caller's own use may have ended between held_by_caller and
\* after_last_release.
RetainedIsOwed ==
    \A r \in Indices : records[r].pending => OpenUses(r) # {}

\* A drop() that waits for a registration returns once the uses it waits for
\* have ended, whatever is registered and held under the name meanwhile.
WaitEnds ==
    \A t \in Threads : pc[t] = "wait" /\ at[t].asker = "drop" ~> pc[t] # "wait"
=============================================================================
