---------------------------- MODULE FoldRegistry ----------------------------
(***************************************************************************)
(* Standing queries: the fold registry of metta/events.py and the          *)
(* subscriptions metta/subscribe.py builds on it.                          *)
(*                                                                         *)
(* Every write delivers an event, on the writing thread, to each fold that *)
(* was registered when the delivery began.  A subscription with a callback *)
(* is a stateless fold, whose steps run concurrently; one without queues   *)
(* its events under a lock of its own, for drain() and events().  cancel() *)
(* unregisters a fold, withdraws the fact that reflects it in &metta, and  *)
(* waits for the steps of other threads.  A finaliser may only mark a      *)
(* subscription and leave it to the next subscribe() or cancel().          *)
(*                                                                         *)
(* An action is one section under the registry's lock, one under a fold's  *)
(* lock, or one engine crossing.  Every fold matches every write.          *)
(***************************************************************************)
EXTENDS Naturals, Sequences, SequencesExt, FiniteSets

CONSTANTS
    Folds,       \* what may be registered
    Plain,       \* folds of events().fold(): no fact and no transaction
    Queued,      \* folds that accumulate; the others call back
    FactOf,      \* the reflection fact of a subscription
    QueueMax,    \* queue_max
    Writers, Managers, Waiters,   \* threads that write, subscribe and cancel, wait
    Cancelling,  \* writers whose callbacks cancel their own subscription
    Failing,     \* subscriptions whose withdrawal the engine may refuse
    Collected,   \* subscriptions a finaliser may cancel
    MaxWrites,   \* writes a thread makes
    NoThread, NoFold

Threads == Writers \cup Managers \cup Waiters
Facts == {FactOf[f] : f \in Folds \ Plain}

ASSUME FoldRegistryAssumption ==
    /\ Plain \subseteq Folds /\ Queued \subseteq Folds
    /\ Collected \subseteq Folds \ Plain /\ Failing \subseteq Folds \ Plain
    /\ Cancelling \subseteq Writers
    /\ QueueMax \in Nat \ {0} /\ MaxWrites \in Nat
    /\ NoThread \notin Threads /\ NoFold \notin Folds
    /\ IsFiniteSet(Threads)

VARIABLES
    registered,   \* _folds, in registration order
    active,       \* folds whose _active is set
    counts,       \* _deliveries: steps of a thread in flight for a fold
    items,        \* the state of a queued fold
    version, consumed,
    lock,         \* holder of a fold's _state_lock
    waiters,      \* threads inside wait()
    txn,          \* holder of _TRANSACTION_LOCK
    abandoned,    \* _ABANDONED
    facts,        \* what &metta reflects
    pc,           \* where a thread is
    plan,         \* the folds a delivery has still to visit
    inside,       \* the fold whose step a thread runs
    before,       \* the state that step read
    target,       \* the fold a thread subscribes, cancels or waits for
    work,         \* the fold a transaction is withdrawing
    receipt,      \* the _Cancellation of that withdrawal
    writes,       \* writes a thread has made
    born,         \* folds that were ever added
    collected,    \* folds whose finaliser ran
    quiet,        \* history: folds whose cancel() returned outside their own step
    owed          \* history: events a fold accepted and has not handed out

registry == <<registered, active, counts, born>>
queues == <<items, version, consumed, lock, waiters, before, owed>>
reflection == <<txn, abandoned, collected, facts, work, receipt>>
vars == <<registry, queues, reflection, pc, plan, inside, target, writes, quiet>>

Places == {"idle", "begin", "step", "locked", "gate", "arrive", "end",
           "txn", "expunge", "unregister", "unreflect", "unregisterOwn", "unreflectOwn",
           "reflect", "add", "drain",
           "check", "asleep", "take"}

Events == Seq(Threads \X Nat)

RegistryTypeOK ==
    /\ registered \in Seq(Folds) /\ active \subseteq Folds /\ born \subseteq Folds
    /\ counts \in [Folds -> [Threads -> Nat]]

QueueTypeOK ==
    /\ items \in [Folds -> Events] /\ owed \in [Folds -> Events]
    /\ before \in [Threads -> Events]
    /\ version \in [Folds -> Nat] /\ consumed \in [Folds -> Nat]
    /\ lock \in [Folds -> Threads \cup {NoThread}]
    /\ waiters \in Nat

ReflectionTypeOK ==
    /\ txn \in Threads \cup {NoThread}
    /\ abandoned \in Seq(Folds \ Plain) /\ collected \subseteq Folds /\ facts \subseteq Facts
    /\ work \in Folds \cup {NoFold}
    /\ receipt \in [order : Seq(Folds), active : BOOLEAN]

ThreadTypeOK ==
    /\ pc \in [Threads -> Places] /\ plan \in [Threads -> Seq(Folds)]
    /\ inside \in [Threads -> Folds \cup {NoFold}]
    /\ target \in [Threads -> Folds \cup {NoFold}]
    /\ writes \in [Threads -> 0..MaxWrites]
    /\ quiet \subseteq Folds

TypeOK == RegistryTypeOK /\ QueueTypeOK /\ ReflectionTypeOK /\ ThreadTypeOK

NoReceipt == [order |-> <<>>, active |-> FALSE]

Init ==
    /\ registered = <<>> /\ active = {} /\ born = {}
    /\ counts = [f \in Folds |-> [t \in Threads |-> 0]]
    /\ items = [f \in Folds |-> <<>>]
    /\ version = [f \in Folds |-> 0] /\ consumed = [f \in Folds |-> 0]
    /\ lock = [f \in Folds |-> NoThread] /\ waiters = 0
    /\ before = [t \in Threads |-> <<>>]
    /\ owed = [f \in Folds |-> <<>>]
    /\ txn = NoThread /\ abandoned = <<>> /\ collected = {} /\ facts = {}
    /\ work = NoFold /\ receipt = NoReceipt
    /\ pc = [t \in Threads |-> "idle"]
    /\ plan = [t \in Threads |-> <<>>]
    /\ inside = [t \in Threads |-> NoFold] /\ target = [t \in Threads |-> NoFold]
    /\ writes = [t \in Threads |-> 0]
    /\ quiet = {}

\* A thread moves on.
Goto(t, place) == pc' = [pc EXCEPT ![t] = place]

\* cancel() returns to the step that called it, or to its caller outside.
Return(t) == Goto(t, IF inside[t] = NoFold THEN "idle" ELSE "step")

IsRegistered(f) == Contains(registered, f)
PlaceOf(order, f) == CHOOSE i \in 1..Len(order) : order[i] = f

\* candidate.pop(index)
Popped(f) == RemoveAt(registered, PlaceOf(registered, f))

\* A fold's _state_lock can be taken.
LockIgnored(f) == TRUE
Free(f) == lock[f] = NoThread

-----------------------------------------------------------------------------
(* Delivery: _deliver() and Fold._run().                                    *)

\* A write: candidates() is a snapshot of the registered folds, and each is
\* visited in that order.
Write(t) ==
    /\ pc[t] = "idle" /\ writes[t] < MaxWrites
    /\ writes' = [writes EXCEPT ![t] = @ + 1]
    /\ plan' = [plan EXCEPT ![t] = registered]
    /\ Goto(t, "begin")
    /\ UNCHANGED <<registry, queues, reflection, inside, target, quiet>>

\* begin_delivery(): claim a step, or pass by a fold cancelled meanwhile.
Begin(t) ==
    /\ pc[t] = "begin" /\ plan[t] # <<>>
    /\ LET f == Head(plan[t]) IN
       \/ /\ f \notin active
          /\ plan' = [plan EXCEPT ![t] = Tail(@)]
          /\ UNCHANGED <<counts, inside, pc>>
       \/ /\ f \in active
          /\ counts' = [counts EXCEPT ![f][t] = @ + 1]
          /\ inside' = [inside EXCEPT ![t] = f]
          /\ Goto(t, "step") /\ UNCHANGED plan
    /\ UNCHANGED <<registered, active, born, queues, reflection, target, writes, quiet>>

Delivered(t) ==
    /\ pc[t] = "begin" /\ plan[t] = <<>>
    /\ Goto(t, "idle")
    /\ UNCHANGED <<registry, queues, reflection, plan, inside, target, writes, quiet>>

\* A callback returns, or raises what _deliver() reports once all have run.
CallbackEnds(t) ==
    /\ pc[t] = "step" /\ inside[t] \notin Queued
    /\ Goto(t, "end")
    /\ UNCHANGED <<registry, queues, reflection, plan, inside, target, writes, quiet>>

\* A queued fold's step: read the state under the fold's lock ...
StepReads(t) ==
    LET f == inside[t] IN
    /\ pc[t] = "step" /\ f \in Queued /\ Free(f)
    /\ lock' = [lock EXCEPT ![f] = t]
    /\ before' = [before EXCEPT ![t] = items[f]]
    /\ Goto(t, "locked")
    /\ UNCHANGED <<registry, items, version, consumed, waiters, owed,
                   reflection, plan, inside, target, writes, quiet>>

\* _step_over() refuses what the queue has no room for.
Full(held) == Len(held) >= QueueMax

\* ... and write it back, unless the queue is full and the step refuses.
StepWrites(t) ==
    LET f == inside[t] event == <<t, writes[t]>> IN
    /\ pc[t] = "locked"
    /\ lock' = [lock EXCEPT ![f] = NoThread]
    /\ \/ /\ Full(before[t])
          /\ Goto(t, "end") /\ UNCHANGED <<items, version, owed>>
       \/ /\ ~Full(before[t])
          /\ items' = [items EXCEPT ![f] = Append(before[t], event)]
          /\ owed' = [owed EXCEPT ![f] = Append(@, event)]
          /\ version' = [version EXCEPT ![f] = @ + 1]
          /\ Goto(t, "gate")
    /\ before' = [before EXCEPT ![t] = <<>>]
    /\ UNCHANGED <<registry, consumed, waiters, reflection, plan, inside, target,
                   writes, quiet>>

\* waiters is read without the lock: nobody to wake, nothing to pay.
SeveralWait == waiters > 1
SomeoneWaits == waiters > 0

Gate(t) ==
    /\ pc[t] = "gate"
    /\ Goto(t, IF SomeoneWaits THEN "arrive" ELSE "end")
    /\ UNCHANGED <<registry, queues, reflection, plan, inside, target, writes, quiet>>

\* Everyone asleep on the shared condition looks again.
Woken == [t \in Threads |-> IF pc[t] = "asleep" THEN "check" ELSE pc[t]]

\* arrived(): notify_all.
Arrive(t) ==
    /\ pc[t] = "arrive"
    /\ pc' = [Woken EXCEPT ![t] = "end"]
    /\ UNCHANGED <<registry, queues, reflection, plan, inside, target, writes, quiet>>

\* end_delivery()
End(t) ==
    /\ pc[t] = "end"
    /\ counts' = [counts EXCEPT ![inside[t]][t] = @ - 1]
    /\ inside' = [inside EXCEPT ![t] = NoFold]
    /\ plan' = [plan EXCEPT ![t] = Tail(@)]
    /\ Goto(t, "begin")
    /\ UNCHANGED <<registered, active, born, queues, reflection, target, writes, quiet>>

-----------------------------------------------------------------------------
(* Reading: wait() and take().                                              *)

\* wait() registers itself before it looks, in one section.
Wait(t, f) ==
    /\ pc[t] = "idle" /\ f \in Queued /\ f \in born
    /\ target' = [target EXCEPT ![t] = f]
    /\ waiters' = waiters + 1
    /\ Goto(t, "check")
    /\ UNCHANGED <<registry, items, version, consumed, lock, before, owed,
                   reflection, plan, inside, writes, quiet>>

\* The condition holds and the thread sleeps, or it goes on to take.
Check(t) ==
    LET f == target[t] IN
    /\ pc[t] = "check"
    /\ IF f \in active /\ version[f] = consumed[f]
       THEN Goto(t, "asleep") /\ UNCHANGED waiters
       ELSE Goto(t, "take") /\ waiters' = waiters - 1
    /\ UNCHANGED <<registry, items, version, consumed, lock, before, owed,
                   reflection, plan, inside, target, writes, quiet>>

\* The deadline passes.
WaitExpires(t) ==
    /\ pc[t] = "asleep"
    /\ waiters' = waiters - 1
    /\ Goto(t, "take")
    /\ UNCHANGED <<registry, items, version, consumed, lock, before, owed,
                   reflection, plan, inside, target, writes, quiet>>

\* take(): the state, reset, under the fold's lock.
Take(t) ==
    LET f == target[t] IN
    /\ pc[t] = "take" /\ Free(f)
    /\ owed' = [owed EXCEPT ![f] = <<>>]
    /\ items' = [items EXCEPT ![f] = <<>>]
    /\ consumed' = [consumed EXCEPT ![f] = version[f]]
    /\ target' = [target EXCEPT ![t] = NoFold]
    /\ Goto(t, "idle")
    /\ UNCHANGED <<registry, version, lock, waiters, before, reflection, plan,
                   inside, writes, quiet>>

-----------------------------------------------------------------------------
(* Registration and cancellation.                                           *)

\* subscribe() of a new subscription: constructed active, then published.
Subscribe(t, f) ==
    /\ pc[t] = "idle" /\ f \notin Plain /\ f \notin born
    /\ \A u \in Threads : target[u] # f
    /\ active' = active \cup {f}
    /\ target' = [target EXCEPT ![t] = f]
    /\ Goto(t, "txn")
    /\ UNCHANGED <<registered, counts, born, queues, reflection, plan, inside, writes, quiet>>

\* cancel() of a subscription, by a manager or inside its own callback.
Cancel(t, f) ==
    /\ f \notin Plain /\ f \in born
    /\ \/ t \in Managers /\ pc[t] = "idle"
       \/ t \in Cancelling /\ pc[t] = "step" /\ inside[t] = f /\ f \notin Queued
    /\ target' = [target EXCEPT ![t] = f]
    /\ Goto(t, "txn")
    /\ UNCHANGED <<registry, queues, reflection, plan, inside, writes, quiet>>

\* events().fold() and its cancel() need no transaction.
AddPlain(t, f) ==
    /\ pc[t] = "idle" /\ f \in Plain /\ f \notin born
    /\ registered' = Append(registered, f) /\ active' = active \cup {f}
    /\ born' = born \cup {f}
    /\ UNCHANGED <<counts, queues, reflection, pc, plan, inside, target, writes, quiet>>

CancelPlain(t, f) ==
    /\ pc[t] = "idle" /\ f \in Plain /\ f \in born
    /\ \/ /\ IsRegistered(f)
          /\ registered' = Popped(f) /\ active' = active \ {f}
          /\ pc' = [Woken EXCEPT ![t] = "drain"]
       \/ ~IsRegistered(f) /\ Goto(t, "drain") /\ UNCHANGED <<registered, active>>
    /\ target' = [target EXCEPT ![t] = f]
    /\ UNCHANGED <<counts, born, queues, reflection, plan, inside, writes, quiet>>

\* A finaliser's cancel(): no lock, no crossing.
Abandon(f) ==
    /\ f \in Collected \ collected /\ f \in born
    /\ collected' = collected \cup {f}
    /\ active' = active \ {f}
    /\ abandoned' = Append(abandoned, f)
    /\ UNCHANGED <<registered, counts, born, queues, txn, facts, work, receipt, pc, plan,
                   inside, target, writes, quiet>>

\* _TRANSACTION_LOCK
EnterTransaction(t) ==
    /\ pc[t] = "txn" /\ txn = NoThread
    /\ txn' = t
    /\ Goto(t, "expunge")
    /\ UNCHANGED <<registry, queues, abandoned, collected, facts, work, receipt, plan, inside, target,
                   writes, quiet>>

\* _withdraw_abandoned() first, then the caller's own change.
Expunge(t) ==
    /\ pc[t] = "expunge"
    /\ \/ /\ abandoned # <<>>
          /\ work' = Head(abandoned) /\ abandoned' = Tail(abandoned)
          /\ Goto(t, "unregister")
       \/ /\ abandoned = <<>> /\ target[t] \notin born
          /\ Goto(t, "reflect") /\ UNCHANGED <<work, abandoned>>
       \/ /\ abandoned = <<>> /\ target[t] \in born
          /\ work' = target[t]
          /\ Goto(t, "unregisterOwn") /\ UNCHANGED abandoned
    /\ UNCHANGED <<registry, queues, txn, collected, facts, receipt, plan, inside, target, writes, quiet>>

\* The withdrawal is the caller's own, not one a finaliser left behind.
Own(t) == pc[t] \in {"unregisterOwn", "unreflectOwn"}

\* Withdrawn: the transaction goes on, or ends and cancel() waits.
Withdrawn(t) ==
    IF Own(t) THEN txn' = NoThread /\ Goto(t, "drain")
                        ELSE Goto(t, "expunge") /\ UNCHANGED txn

\* fold._active = False
Deactivated(f) == active \ {f}

\* _FoldRegistry.cancel(): one that is no longer registered answers None.
Unregister(t) ==
    /\ pc[t] \in {"unregister", "unregisterOwn"}
    /\ IF IsRegistered(work)
       THEN /\ receipt' = [order |-> registered, active |-> work \in active]
            /\ registered' = Popped(work)
            /\ active' = Deactivated(work)
            /\ pc' = [Woken EXCEPT ![t] = IF Own(t) THEN "unreflectOwn" ELSE "unreflect"]
            /\ UNCHANGED <<txn, work>>
       ELSE /\ Withdrawn(t) /\ work' = NoFold
            /\ UNCHANGED <<receipt, registered, active>>
    /\ UNCHANGED <<counts, born, queues, abandoned, collected, facts, plan, inside, target, writes, quiet>>

\* _has_fact(): another live subscription owns the same reflection fact.
NeverShared(f) == FALSE
HasFact(f) ==
    \E g \in active \ Plain : IsRegistered(g) /\ FactOf[g] = FactOf[f]

\* The fact goes with the last subscription it reflects.
Unreflect(t) ==
    /\ pc[t] \in {"unreflect", "unreflectOwn"}
    /\ facts' = IF HasFact(work) THEN facts ELSE facts \ {FactOf[work]}
    /\ Withdrawn(t) /\ work' = NoFold /\ receipt' = NoReceipt
    /\ UNCHANGED <<registry, queues, abandoned, collected, plan, inside, target, writes, quiet>>

\* _restoration_index(): before the first successor that is still there, else
\* after the last predecessor, else where it was or at the end.
AtTheEnd(order, f) == Len(registered) + 1
RestorationIndex(order, f) ==
    LET at == PlaceOf(order, f)
        after == {i \in (at + 1)..Len(order) : IsRegistered(order[i])}
        prior == {i \in 1..(at - 1) : IsRegistered(order[i])}
    IN  IF after # {} THEN PlaceOf(registered, order[Min(after)])
        ELSE IF prior # {} THEN PlaceOf(registered, order[Max(prior)]) + 1
        ELSE IF at <= Len(registered) + 1 THEN at ELSE Len(registered) + 1

\* A failure leaves the transaction; an abandoned subscription waits again.
Raise(t) ==
    /\ abandoned' = IF Own(t) THEN abandoned ELSE <<work>> \o abandoned
    /\ txn' = NoThread /\ work' = NoFold /\ receipt' = NoReceipt
    /\ Return(t) /\ target' = [target EXCEPT ![t] = NoFold]

\* The engine refuses the new guard: _publish_locked() raises first of all.
UnregisterFails(t) ==
    /\ pc[t] \in {"unregister", "unregisterOwn"}
    /\ work \in Failing /\ IsRegistered(work)
    /\ Raise(t)
    /\ UNCHANGED <<registry, queues, collected, facts, plan, inside, writes, quiet>>

\* The engine refuses the withdrawal: the fact is ensured, the fold restored.
UnreflectFails(t) ==
    /\ pc[t] \in {"unreflect", "unreflectOwn"} /\ work \in Failing
    /\ facts' = facts \cup {FactOf[work]}
    /\ registered' = InsertAt(registered, RestorationIndex(receipt.order, work), work)
    /\ active' = IF receipt.active THEN active \cup {work} ELSE active
    /\ Raise(t)
    /\ UNCHANGED <<counts, born, queues, collected, plan, inside, writes, quiet>>

\* The fact goes in before the subscription is registered.
Reflect(t) ==
    /\ pc[t] = "reflect"
    /\ facts' = facts \cup {FactOf[target[t]]}
    /\ Goto(t, "add")
    /\ UNCHANGED <<registry, queues, txn, abandoned, collected, work, receipt, plan, inside, target,
                   writes, quiet>>

\* _FoldRegistry.add(), and the end of the transaction.
Add(t) ==
    LET f == target[t] IN
    /\ pc[t] = "add"
    /\ registered' = Append(registered, f) /\ born' = born \cup {f}
    /\ txn' = NoThread
    /\ target' = [target EXCEPT ![t] = NoFold]
    /\ Goto(t, "idle")
    /\ UNCHANGED <<active, counts, queues, abandoned, collected, facts, work, receipt, plan, inside,
                   writes, quiet>>

\* The engine refuses the guard: the fold dies, and so does an unshared fact.
AddFails(t) ==
    LET f == target[t] IN
    /\ pc[t] = "add" /\ f \in Failing
    /\ active' = active \ {f}
    /\ facts' = IF HasFact(f) THEN facts ELSE facts \ {FactOf[f]}
    /\ txn' = NoThread
    /\ target' = [target EXCEPT ![t] = NoFold]
    /\ Goto(t, "idle")
    /\ UNCHANGED <<registered, counts, born, queues, abandoned, collected, work, receipt, plan, inside,
                   writes, quiet>>

\* wait_for_deliveries(): the steps of other threads.
NeverWaits(t, f) == TRUE
OthersIdle(t, f) == \A u \in Threads \ {t} : counts[f][u] = 0

\* cancel() returns.
Drain(t) ==
    LET f == target[t] IN
    /\ pc[t] = "drain" /\ OthersIdle(t, f)
    /\ quiet' = IF inside[t] = NoFold THEN quiet \cup {f} ELSE quiet
    /\ target' = [target EXCEPT ![t] = NoFold]
    /\ Return(t)
    /\ UNCHANGED <<registry, queues, reflection, plan, inside, writes>>

-----------------------------------------------------------------------------
DeliveryStep(t) ==
    \/ Begin(t) \/ Delivered(t) \/ CallbackEnds(t) \/ StepReads(t) \/ StepWrites(t)
    \/ Gate(t) \/ Arrive(t) \/ End(t)

TransactionStep(t) ==
    \/ EnterTransaction(t) \/ Expunge(t) \/ Unregister(t) \/ Unreflect(t)
    \/ UnregisterFails(t) \/ UnreflectFails(t) \/ Reflect(t) \/ Add(t) \/ AddFails(t) \/ Drain(t)

WaitStep(t) == Check(t) \/ WaitExpires(t) \/ Take(t)

ThreadStep(t) == DeliveryStep(t) \/ TransactionStep(t) \/ Check(t) \/ Take(t)

Next ==
    \/ \E t \in Writers : Write(t) \/ DeliveryStep(t)
    \/ \E t \in Writers \cup Managers : TransactionStep(t)
    \/ \E t \in Waiters : WaitStep(t) \/ \E f \in Folds : Wait(t, f)
    \/ \E t \in Managers, f \in Folds : Subscribe(t, f) \/ AddPlain(t, f) \/ CancelPlain(t, f)
    \/ \E t \in Managers \cup Cancelling, f \in Folds : Cancel(t, f)
    \/ \E f \in Folds : Abandon(f)

Spec == Init /\ [][Next]_vars

-----------------------------------------------------------------------------
(* Properties.                                                              *)

\* Once cancel() has returned, no step of the fold is running on any thread
\* and none will start.
CancelledIsQuiet ==
    \A f \in quiet : f \notin active /\ \A t \in Threads : counts[f][t] = 0

\* A thread asleep in wait() while events are there to take is about to be
\* woken: reading `waiters` without the lock loses no wake-up.
NoLostWakeup ==
    \A t \in Threads :
        (pc[t] = "asleep" /\ version[target[t]] # consumed[target[t]]) =>
            \E u \in Threads : pc[u] = "arrive" \/ (pc[u] = "gate" /\ inside[u] = target[t])

\* Two deliveries, or a delivery and a take(), never lose or repeat an event,
\* and a queue never holds more than its bound.
EveryEventOnce ==
    \A f \in Folds : items[f] = owed[f] /\ Len(items[f]) <= QueueMax

\* Between transactions &metta reflects every live subscription, and nothing
\* that is not registered.
ReflectionIsExact ==
    txn = NoThread =>
        /\ \A f \in active \ Plain : IsRegistered(f) => FactOf[f] \in facts
        /\ \A x \in facts : \E f \in Folds \ Plain : IsRegistered(f) /\ FactOf[f] = x

\* f stands before g.
Before(order, f, g) ==
    \E i, j \in 1..Len(order) : i < j /\ order[i] = f /\ order[j] = g

\* "Restoration puts a fold back where it WAS": after a failed withdrawal no
\* two folds that were registered together have changed places, whatever was
\* cancelled or added meanwhile.
RestoredInPlace ==
    [][(~IsRegistered(work) /\ Contains(registered', work)) =>
         \A f, g \in Folds : Before(receipt.order, f, g) => ~Before(registered', g, f)]_vars

\* Threads run; callbacks return, also if they cancel again and again; and
\* whoever asks for the transaction lock gets it once it is free often enough.
Fairness ==
    /\ \A t \in Threads : WF_vars(ThreadStep(t))
    /\ \A t \in Writers : SF_vars(CallbackEnds(t))
    /\ \A t \in Writers \cup Managers : SF_vars(EnterTransaction(t))

FairSpec == Spec /\ Fairness

\* Two threads inside the callback of f that both cancel it: each waits for the
\* other's step, which cannot end.
Embraced(f) ==
    \E t, u \in Threads :
        /\ t # u /\ inside[t] = f /\ inside[u] = f
        /\ pc[t] = "drain" /\ pc[u] = "drain" /\ target[t] = f /\ target[u] = f


\* "Wait for other threads; a step may cancel its own fold safely": the step
\* that asked for it goes on.
OwnCancelIsSafe ==
    \A t \in Cancelling : (pc[t] = "txn" /\ inside[t] # NoFold) ~> (pc[t] = "step")

=============================================================================
