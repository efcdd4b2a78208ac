-------------------------------- MODULE Saga --------------------------------
(***************************************************************************)
(* The saga runner of metta/_history/saga.py: every effect of a forward    *)
(* step leaves a receipt (did op args result) in a receipt space, and an   *)
(* exceptional end compensates them in reverse order.                      *)
(*                                                                         *)
(* A step and a compensation each run in one engine transaction.  The      *)
(* engine decides first and notifies the runner; a provider commits its    *)
(* own part afterwards, and may refuse.  Effects of host operations may    *)
(* survive a rollback of the engine; effects of native ones do not.        *)
(*                                                                         *)
(* The runner's lock is held for the whole of run(), rollback() and        *)
(* __exit__(), so `pc` is one program counter.  Other writers of the       *)
(* receipt space do not take it, and come between any two steps.  An       *)
(* action is one transaction, or one reading of the receipt space.         *)
(* Receipts that are equal are not told apart.                             *)
(***************************************************************************)
EXTENDS Naturals, Sequences, SequencesExt, FiniteSets

CONSTANTS
    Receipts,     \* the receipts a step may leave
    Host,         \* those of host operations: the engine cannot undo them
    Losing,       \* "forward", "reverse": where another provider may lose its writes
    Repeats,      \* how often an operation is performed
    MaxStep,      \* operations in one step
    MaxForeign,   \* receipts other writers add
    MaxScopes,    \* times the context is entered
    None

ASSUME SagaAssumption ==
    /\ Host \subseteq Receipts
    /\ Losing \subseteq {"forward", "reverse"}
    /\ Repeats \in [Receipts -> Nat] /\ MaxStep \in Nat /\ MaxForeign \in Nat /\ MaxScopes \in Nat
    /\ None \notin Nat

VARIABLES
    entered, failed,   \* _entered, _recovery_failed
    foreign,      \* _foreign is not empty
    committed,    \* _committed: [atom, journalled]
    receipts,     \* how often the receipt space holds each receipt
    handle,       \* _subscription
    observers,    \* the subscriptions that still deliver
    closing,      \* subscriptions a close() is cancelling
    scopes,       \* subscriptions made so far
    pc,           \* where the operation under the lock is
    by,           \* the operation: "run", "rollback" or "exit"
    start,        \* obligations before this step, or before this recovery
    pending,      \* receipts captured, then those of what survived
    lost,         \* metta_foreign_writes_lost: another provider lost its part
    plan,         \* compensations to run: [atom, stored]
    performed, reversed, standing,   \* history: operations performed,
                  \* compensations committed, effects neither undone nor kept,
    forgotten,    \* effects let go by an error path or a lost compensation,
    astray,       \* journalled obligations such a path left without a receipt
    others, tampered   \* history: receipts others added, one was removed

scope == <<entered, foreign, handle, observers, closing, scopes>>
locals == <<pc, by, start, pending, lost, plan>>
world == <<others, tampered>>
history == <<performed, reversed, standing, forgotten, astray>>
vars == <<scope, failed, committed, receipts, locals, world, history>>

Places == {"idle", "body", "after", "persist", "preflight", "undo"}
Obligations == [atom : Receipts, journalled : BOOLEAN]

TypeOK ==
    /\ entered \in BOOLEAN /\ failed \in BOOLEAN /\ foreign \in BOOLEAN
    /\ lost \in BOOLEAN /\ tampered \in BOOLEAN
    /\ committed \in Seq(Obligations) /\ pending \in Seq(Receipts)
    /\ plan \in Seq([atom : Receipts, stored : BOOLEAN])
    /\ receipts \in [Receipts -> Nat] /\ performed \in [Receipts -> Nat]
    /\ reversed \in [Receipts -> Nat] /\ standing \in [Receipts -> Nat]
    /\ forgotten \in [Receipts -> Nat] /\ astray \in [Receipts -> Nat]
    /\ handle \in 1..MaxScopes \cup {None}
    /\ observers \subseteq 1..MaxScopes /\ closing \subseteq 1..MaxScopes
    /\ scopes \in 0..MaxScopes /\ others \in 0..MaxForeign
    /\ pc \in Places /\ by \in {"run", "rollback", "exit"} /\ start \in Nat

Nothing == [r \in Receipts |-> 0]

Init ==
    /\ entered = FALSE /\ failed = FALSE /\ foreign = FALSE
    /\ committed = <<>> /\ receipts = Nothing
    /\ handle = None /\ observers = {} /\ closing = {} /\ scopes = 0
    /\ pc = "idle" /\ by = "run" /\ start = 0
    /\ pending = <<>> /\ lost = FALSE /\ plan = <<>>
    /\ performed = Nothing /\ reversed = Nothing /\ standing = Nothing
    /\ forgotten = Nothing /\ astray = Nothing
    /\ others = 0 /\ tampered = FALSE

\* How often r occurs at the positions P of a sequence of receipts.
Occurs(s, r, P) == Cardinality({i \in P : s[i] = r})

\* A bag of receipts with those at the positions P of s, and without them.
With(bag, s) == [r \in Receipts |-> bag[r] + Occurs(s, r, DOMAIN s)]
Without(bag, s, P) == [r \in Receipts |-> bag[r] - Occurs(s, r, P)]
Less(bag, r) == [bag EXCEPT ![r] = IF @ = 0 THEN 0 ELSE @ - 1]

Atoms(obligations) == [i \in DOMAIN obligations |-> obligations[i].atom]

\* The members of s at the positions P, in order.
Rank(P, i) == Cardinality({j \in P : j <= i})
At(s, P) == [k \in 1..Cardinality(P) |-> s[CHOOSE i \in P : Rank(P, i) = k]]

\* An obligation that claims a receipt, and those for a sequence of receipts.
Journalled(r) == [atom |-> r, journalled |-> TRUE]
Owing(s, journalled) == [i \in DOMAIN s |-> [atom |-> s[i], journalled |-> journalled]]

Unlocked == pc = "idle"

\* The lock is free, or held by the thread that runs a step or a handler.
LockOrCallback == pc \in {"idle", "body", "undo"}

\* The operation is over, and its locals with it.
Done == pc' = "idle" /\ by' = "run" /\ start' = 0 /\ pending' = <<>> /\ lost' = FALSE /\ plan' = <<>>

-----------------------------------------------------------------------------
(* The context.                                                             *)

\* __enter__() refuses a runner that still has something to recover.
Enter ==
    /\ Unlocked /\ ~entered /\ committed = <<>> /\ ~failed /\ handle = None
    /\ scopes < MaxScopes
    /\ entered' = TRUE
    /\ scopes' = scopes + 1 /\ handle' = scopes' /\ observers' = observers \cup {scopes'}
    /\ UNCHANGED <<foreign, closing, failed, committed, receipts, locals, world,
                   history>>

\* Mutant: every exceptional exit recovers.
RecoversAlways == TRUE

\* A failed recovery is the caller's to retry.
MayRecover == ~failed

\* __exit__() of a body that raised: recover, unless rollback() refuses.
ExitRaising ==
    /\ Unlocked /\ entered
    /\ entered' = FALSE
    /\ IF MayRecover /\ committed # <<>> /\ ~foreign
       THEN /\ pc' = "preflight" /\ by' = "exit" /\ start' = 0
            /\ UNCHANGED <<pending, lost, plan>>
       ELSE UNCHANGED locals
    /\ UNCHANGED <<foreign, handle, observers, closing, scopes, failed, committed, receipts, world,
                   history>>

\* __exit__() of a body that completed: its work is kept, and no longer owed.
ExitKeeping ==
    /\ Unlocked /\ entered
    /\ entered' = FALSE
    /\ IF failed THEN UNCHANGED <<committed, standing, forgotten, astray>>
       ELSE committed' = <<>> /\ standing' = Nothing /\ forgotten' = Nothing /\ astray' = Nothing
    /\ UNCHANGED <<foreign, handle, observers, closing, scopes, failed, receipts, locals, world, performed, reversed>>

\* close() takes the handle under the lock, which user code may hold ...
Close ==
    /\ LockOrCallback /\ handle # None
    /\ closing' = closing \cup {handle} /\ handle' = None
    /\ UNCHANGED <<entered, foreign, observers, scopes, failed, committed, receipts, locals, world, history>>

\* ... cancels without it, and puts the handle back if that fails.
CloseEnds(s) ==
    /\ s \in closing /\ closing' = closing \ {s}
    /\ \/ observers' = observers \ {s} /\ UNCHANGED handle
       \/ /\ LockOrCallback /\ handle' = (IF handle = None THEN s ELSE handle)
          /\ UNCHANGED observers
    /\ UNCHANGED <<entered, foreign, scopes, failed, committed, receipts, locals, world, history>>

-----------------------------------------------------------------------------
(* run()                                                                    *)

Run ==
    /\ Unlocked /\ entered /\ ~failed
    /\ pc' = "body" /\ by' = "run" /\ start' = Len(committed)
    /\ UNCHANGED <<scope, failed, committed, receipts, pending, lost, plan, world, history>>

\* An operation answers, and dispatch captures its receipt.
Perform(r) ==
    /\ pc = "body" /\ Len(pending) < MaxStep /\ performed[r] < Repeats[r]
    /\ pending' = Append(pending, r)
    /\ performed' = [performed EXCEPT ![r] = @ + 1]
    /\ standing' = [standing EXCEPT ![r] = @ + 1]
    /\ UNCHANGED <<scope, failed, committed, receipts, pc, by, start, lost, plan, world, reversed,
                   forgotten, astray>>

\* _unenlisted()
Unenlisted(s) == At(s, {i \in DOMAIN s : s[i] \in Host})

\* Recover what survived, or nothing did and run() is over.
Recover(survivors) ==
    \/ survivors = <<>> /\ Done
    \/ /\ survivors # <<>> /\ pending' = survivors /\ pc' = "persist"
       /\ UNCHANGED <<by, start, lost, plan>>

\* The engine rolls back, and with it what a host operation wrote through it.
RollsBack ==
    \E undone \in SUBSET DOMAIN pending :
        /\ \A i \in DOMAIN pending : pending[i] \notin Host => i \in undone
        /\ standing' = Without(standing, pending, undone)

\* The step answers nothing.
StepFails ==
    /\ pc = "body" /\ RollsBack
    /\ Recover(Unenlisted(pending))
    /\ UNCHANGED <<scope, failed, committed, receipts, world, performed, reversed, forgotten, astray>>

\* The step raises, or the engine refuses it: whether another provider lost
\* its part is asked first.
StepRaises ==
    /\ pc = "body" /\ RollsBack
    /\ pc' = "after" /\ lost' \in {FALSE, "forward" \in Losing /\ pending # <<>>}
    /\ UNCHANGED <<scope, failed, committed, receipts, by, start, pending, plan, world,
                   performed, reversed, forgotten, astray>>

\* The engine commits and committed() records the obligations.  The receipt
\* space keeps its part or refuses; another provider may lose the writes of
\* some operations.  A watcher may raise although all was kept.
StepCommits ==
    /\ pc = "body"
    /\ committed' = committed \o Owing(pending, TRUE)
    /\ \/ receipts' = With(receipts, pending) /\ Done /\ UNCHANGED standing
       \/ /\ pc' = "after" /\ receipts' \in {receipts, With(receipts, pending)}
          /\ \/ lost' = FALSE /\ UNCHANGED standing
             \/ /\ "forward" \in Losing /\ pending # <<>> /\ lost' = TRUE
                /\ \E gone \in SUBSET DOMAIN pending : standing' = Without(standing, pending, gone)
          /\ UNCHANGED <<by, start, pending, plan>>
    /\ UNCHANGED <<scope, failed, world, performed, reversed, forgotten, astray>>

\* Mutant: whatever was recorded is taken for durable.
AllDurable == {}

\* _undurable(): earlier obligations claim the stored receipts first.
Undurable ==
    {i \in (start + 1)..Len(committed) :
        Occurs(Atoms(committed), committed[i].atom, 1..(i - 1)) >= receipts[committed[i].atom]}

\* _after_failed_step(): a mixed outcome is kept for the caller to decide, and
\* what survived without a receipt is recovered.  Asking what was lost or what
\* is stored may itself raise: then all is left as it was recorded, or not.
AfterStep ==
    /\ pc = "after"
    /\ \/ /\ lost /\ failed' = TRUE
          /\ committed' = SubSeq(committed, 1, start) \o Owing(pending, FALSE)
          /\ Done /\ UNCHANGED <<forgotten, astray>>
       \/ /\ ~lost /\ Len(committed) = start
          /\ Recover(Unenlisted(pending)) /\ UNCHANGED <<committed, failed, forgotten, astray>>
       \/ /\ ~lost /\ Len(committed) > start
          /\ committed' = At(committed, DOMAIN committed \ Undurable)
          /\ Recover(Atoms(At(committed, Undurable)))
          /\ UNCHANGED <<failed, forgotten, astray>>
       \/ /\ forgotten' = IF Len(committed) = start THEN With(forgotten, Unenlisted(pending)) ELSE forgotten
          /\ astray' = With(astray, Atoms(At(committed, Undurable)))
          /\ Done /\ UNCHANGED <<committed, failed>>
    /\ UNCHANGED <<scope, receipts, world, performed, reversed, standing>>

\* Mutant: a receipt that was refused takes its obligation along.
OnlyJournalled(survivors, kept) == IF kept THEN Owing(survivors, TRUE) ELSE <<>>

\* An effect is owed whatever becomes of its receipt.
Retained(survivors, kept) == Owing(survivors, kept)

\* _recover_survivors(): write the receipts of what survived, and reverse it
\* at once.  After any failure of the write its fate is taken as unknown.
Persist ==
    /\ pc = "persist"
    /\ \E kept \in BOOLEAN :
         /\ committed' = committed \o Retained(pending, kept)
         /\ receipts' \in (IF kept THEN {} ELSE {receipts}) \cup {With(receipts, pending)}
    /\ start' = Len(committed) /\ pending' = <<>>
    /\ pc' = "preflight"
    /\ UNCHANGED <<scope, failed, by, lost, plan, world, history>>

-----------------------------------------------------------------------------
(* Recovery: rollback() and _rollback_committed().                          *)

\* rollback() refuses a journal in which others write.
Rollback ==
    /\ Unlocked /\ ~foreign /\ (entered \/ committed # <<>>)
    /\ pc' = "preflight" /\ by' = "rollback" /\ start' = 0
    /\ UNCHANGED <<scope, failed, committed, receipts, pending, lost, plan, world, history>>

\* The recovery raises: what it left is for a later rollback().
Raised(left) ==
    /\ failed' = (Len(left) > start)
    /\ Done

\* The obligations of this pass, those with a receipt among them, and how
\* many before position i have the same one.
Due == (start + 1)..Len(committed)
Claims == {i \in Due : committed[i].journalled}
Ahead(i, P) == Occurs(Atoms(committed), committed[i].atom, {j \in P : j < i})

\* Journalled obligations claim first, and an unjournalled one what is left.
Stored(i) ==
    LET a == committed[i].atom IN
    IF i \in Claims THEN Ahead(i, Claims) < receipts[a]
    ELSE Occurs(Atoms(committed), a, Claims) + Ahead(i, Due \ Claims) < receipts[a]

\* Every receipt is there before any handler runs.  To read the space may
\* raise, and so does a compensation that is undeclared or cannot be called.
Prepared == \A i \in Claims : Stored(i)

Preflight ==
    /\ pc = "preflight"
    /\ \/ /\ Prepared
          /\ plan' = Reverse([k \in 1..(Len(committed) - start) |->
                                [atom |-> committed[start + k].atom, stored |-> Stored(start + k)]])
          /\ pc' = "undo" /\ UNCHANGED <<failed, by, start, pending, lost>>
       \/ Raised(committed)
    /\ UNCHANGED <<scope, committed, receipts, world, history>>

\* Mutant: the obligation is retired once the call has returned.
RetiresOnReturn(raises) == ~raises

\* committed() retires it once the engine has decided, whatever raises later.
Retires(raises) == TRUE

\* The obligation of this compensation has no receipt of its own, while one
\* that this pass has not looked at has such a receipt.
Competes(r) ==
    /\ ~committed[Len(committed)].journalled
    /\ \E i \in 1..start : committed[i] = Journalled(r)

\* One compensation commits.  The receipt space may refuse its part, another
\* provider lose the handler's writes, a watcher raise: then the pass ends.
Undo ==
    /\ pc = "undo" /\ plan # <<>>
    /\ LET step == Head(plan) r == step.atom IN
       /\ step.stored => receipts[r] > 0
       /\ \E raises, keeps, gone \in BOOLEAN :
            /\ (keeps \/ gone) => raises
            /\ gone => "reverse" \in Losing
            /\ receipts' = IF step.stored /\ ~keeps THEN Less(receipts, r) ELSE receipts
            /\ standing' = IF gone THEN standing ELSE Less(standing, r)
            /\ forgotten' = IF gone THEN With(forgotten, <<r>>) ELSE forgotten
            /\ astray' = IF step.stored /\ ~keeps /\ Competes(r) THEN With(astray, <<r>>) ELSE astray
            /\ reversed' = [reversed EXCEPT ![r] = @ + 1]
            /\ committed' = IF Retires(raises) THEN Front(committed) ELSE committed
            /\ IF raises THEN Raised(committed')
               ELSE plan' = Tail(plan) /\ UNCHANGED <<failed, pc, by, start, pending, lost>>
    /\ UNCHANGED <<scope, world, performed>>

\* The handler fails, or the receipt has disappeared: its transaction rolls
\* back and the obligation stays.
UndoFails ==
    /\ pc = "undo" /\ plan # <<>>
    /\ Raised(committed)
    /\ UNCHANGED <<scope, committed, receipts, world, history>>

\* The pass is over; only rollback() lifts the mark of a failed recovery.
Recovered ==
    /\ pc = "undo" /\ plan = <<>>
    /\ failed' = (failed /\ by = "run")
    /\ Done
    /\ UNCHANGED <<scope, committed, receipts, world, history>>

-----------------------------------------------------------------------------
(* Others who use the receipt space.                                        *)

\* Another writer adds a receipt; _observe_receipt() notices one that no
\* obligation accounts for, while a subscription delivers.
WriteReceipt(r) ==
    /\ others < MaxForeign /\ others' = others + 1
    /\ receipts' = [receipts EXCEPT ![r] = @ + 1]
    /\ foreign' = (foreign \/ (observers # {} /\ \A i \in DOMAIN committed : committed[i].atom # r))
    /\ UNCHANGED <<entered, handle, observers, closing, scopes, failed, committed, locals, tampered, history>>

\* Somebody removes one.
RemoveReceipt(r) ==
    /\ ~tampered /\ tampered' = TRUE
    /\ receipts[r] > 0 /\ receipts' = Less(receipts, r)
    /\ UNCHANGED <<scope, failed, committed, locals, others, history>>

-----------------------------------------------------------------------------
Operation ==
    \/ Enter \/ ExitRaising \/ ExitKeeping \/ Close \/ \E s \in closing : CloseEnds(s)
    \/ Run \/ \E r \in Receipts : Perform(r)
    \/ StepFails \/ StepRaises \/ StepCommits \/ AfterStep \/ Persist
    \/ Rollback \/ Preflight \/ Undo \/ UndoFails \/ Recovered

Next == Operation \/ \E r \in Receipts : WriteReceipt(r) \/ RemoveReceipt(r)

Spec == Init /\ [][Next]_vars

-----------------------------------------------------------------------------
(* Properties.                                                              *)

\* "A failed durable write never costs the obligation it was recording": when
\* the runner is at rest, an effect that stands and was not kept by a scope
\* that completed has an obligation, however step and recovery failed.  Two
\* paths of the code lose it: the question what was lost raises before
\* anything was recorded, and a compensation commits whose writes another
\* provider then loses.
EffectsAreOwed ==
    Unlocked =>
        \A r \in Receipts :
            standing[r] <= Occurs(Atoms(committed), r, DOMAIN committed) + forgotten[r]

\* "A committed undo retires its obligation before its event error escapes":
\* no compensation commits more often than its operation was performed.
ReversedOnce == \A r \in Receipts : reversed[r] <= performed[r]

\* "A receipt that never became durable is never a standing obligation": at
\* rest, each journalled obligation has a receipt of its own, so that no retry
\* refuses for want of it, unless somebody removed one.  Two paths of the code
\* break it: the question what is stored raises, and the recovery of one step
\* takes the receipt of an earlier one.
JournalledIsStored ==
    (Unlocked /\ ~tampered) =>
        \A r \in Receipts :
            Occurs(committed, Journalled(r), DOMAIN committed) <= receipts[r] + astray[r]

\* A recovery that failed, or a mixed outcome that the runner refused to
\* guess about, is compensated further only when the caller asks for it.
RetryIsCalledFor ==
    [][reversed' # reversed => (~failed \/ by = "rollback")]_vars
=============================================================================
