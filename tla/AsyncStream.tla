---------------------------- MODULE AsyncStream ----------------------------
(***************************************************************************)
(* _AsyncSubscription of metta/aio/_views.py: a standing query delivered   *)
(* as an asynchronous stream.                                              *)
(*                                                                         *)
(* A consumer's first __anext__() registers a fold on the engine's worker; *)
(* its callback runs on whichever thread writes and posts each event to    *)
(* the event loop, which queues it.  aclose(), the close of the owning     *)
(* connection, its stop() on another thread and a callback that finds the  *)
(* loop closed all take the stream down, each in its own order.            *)
(*                                                                         *)
(* Coroutines interleave at an await; the worker, the writers and the      *)
(* thread of a stop() run beside them, and an action of theirs is one      *)
(* section under the stream's condition or one engine crossing.            *)
(***************************************************************************)
EXTENDS Naturals, Sequences, SequencesExt, FiniteSets

CONSTANTS
    Consumers,    \* coroutines that iterate
    Closers,      \* coroutines that call the stream's aclose()
    Owners,       \* coroutines that call the connection's aclose()
    Stoppers,     \* threads that call the connection's stop()
    Writers,      \* threads whose writes match
    Cancellable,  \* consumers whose task may be cancelled
    Deadlined,    \* consumers of a stream with a deadline
    Refusing,     \* callers whom the engine may refuse
    LoopMayClose, \* the loop may be closed under pending tasks
    QueueMax, MaxEvents,
    None, End

Coroutines == Consumers \cup Closers \cup Owners
Procs == Coroutines \cup Stoppers \cup Writers

ASSUME AsyncStreamAssumption ==
    /\ QueueMax \in Nat \ {0} /\ MaxEvents \in Nat
    /\ None \notin Procs /\ End \notin Nat \cup (Consumers \X Nat)
    /\ Cancellable \subseteq Consumers /\ Deadlined \subseteq Consumers
    /\ Refusing \subseteq Procs /\ LoopMayClose \in BOOLEAN
    /\ Consumers \cap (Closers \cup Owners \cup Stoppers \cup Writers) = {}
    /\ Writers \cap (Closers \cup Owners \cup Stoppers) = {}
    /\ Stoppers \cap (Closers \cup Owners) = {} /\ Closers \cap Owners = {}

\* A registration is named after the consumer that made it: each makes one.
VARIABLES
    handle,      \* _subscription
    published,   \* the registration whose queue is _queue
    acquiring, closed, orphaned, dropped,
    opening,     \* the _opening lock: its holder and those waiting, in order
    tracked,     \* the connection's close scope holds the stream
    parent,      \* the connection: open, closing or closed
    live,        \* registrations whose fold the engine still delivers to
    pc,
    sub,         \* the fold a process is cancelling
    crossing,    \* a coroutine's request on the worker: queued, running or over
    fold,        \* the registration a writer is delivering to
    cancelled,   \* consumers whose task was cancelled
    events,      \* the queue of a registration
    loop, posted, \* the event loop and the callbacks it has still to run
    sent,        \* events posted
    taken,       \* history: events handed to a consumer
    lost, told,  \* history: events dropped, and those whose loss was reported
    abandoned,   \* history: registrations given up whose undo() failed
    answered,    \* history: a consumer was handed the terminator
    late         \* history: the queue was published on a stream already closed

history == <<taken, lost, told, answered>>
calls == <<crossing, abandoned, late>>
stream == <<handle, published, acquiring, closed, orphaned>>
scope == <<opening, tracked, parent>>
delivery == <<dropped, events, posted, sent, history, fold>>
vars == <<stream, scope, delivery, live, pc, sub, calls, cancelled, loop>>

Registering == {"submit", "begin", "subscribe", "assign", "finish"}
Places == Registering \cup
    {"idle", "opening", "publish", "undo", "raise", "ready", "get", "ended", "gone",
     "interrupt", "release", "wait", "cancel", "mark", "hold", "stopCancel", "stopMark", "post",
     "deliver", "retire", "retireCancel", "retireMark", "done"}

Registrations == Consumers \cup {None}

\* A request on the worker: queued as an ordinary one or as one that a closing
\* connection still takes; running, signalled while it ran, or sure to raise
\* when it next calls the engine; or over.
Running == {"running", "interrupted", "stopped"}
Crossings == Running \cup {"none", "ordinary", "resource", "done", "failed"}

TypeOK ==
    /\ handle \in Registrations /\ published \in Registrations
    /\ acquiring \in BOOLEAN /\ closed \in BOOLEAN /\ orphaned \in BOOLEAN
    /\ dropped \in Nat /\ opening \in Seq(Coroutines)
    /\ tracked \in BOOLEAN /\ parent \in {"open", "closing", "closed"}
    /\ live \subseteq Consumers /\ pc \in [Procs -> Places]
    /\ sub \in [Procs -> Registrations] /\ fold \in [Writers -> Registrations]
    /\ crossing \in [Coroutines -> Crossings] /\ abandoned \subseteq Consumers
    /\ answered \in BOOLEAN /\ late \in BOOLEAN
    /\ cancelled \subseteq Consumers /\ loop \in {"open", "closed"}
    /\ posted \in Seq((Consumers \X Nat) \cup {End})
    /\ sent \in Nat /\ taken \subseteq Nat /\ lost \subseteq Nat /\ told \subseteq Nat
    /\ events \in [Consumers -> Seq(Nat \cup {End})]

Init ==
    /\ handle = None /\ published = None
    /\ acquiring = FALSE /\ closed = FALSE /\ orphaned = FALSE /\ dropped = 0
    /\ opening = <<>> /\ tracked = FALSE /\ parent = "open" /\ live = {}
    /\ pc = [p \in Procs |-> "idle"] /\ sub = [p \in Procs |-> None]
    /\ fold = [w \in Writers |-> None]
    /\ cancelled = {} /\ events = [r \in Consumers |-> <<>>]
    /\ loop = "open" /\ posted = <<>> /\ sent = 0
    /\ crossing = [p \in Coroutines |-> "none"]
    /\ taken = {} /\ lost = {} /\ told = {} /\ abandoned = {} /\ answered = FALSE /\ late = FALSE

Goto(p, place) == pc' = [pc EXCEPT ![p] = place]

\* A coroutine or callback may run: the loop is open and no other is between
\* two awaits.
LoopFree(p) ==
    loop = "open" /\ \A c \in Coroutines \ {p} : pc[c] \notin {"publish", "ready", "interrupt"}

\* asyncio.Lock is taken in the order it was asked for.
Ask(p) == opening' = Append(opening, p)
Holds(p) == opening # <<>> /\ Head(opening) = p
Leave == opening' = Tail(opening)

\* A waiter that is cancelled leaves the queue.
GiveUp(p) == \E i \in DOMAIN opening : opening[i] = p /\ opening' = RemoveAt(opening, i)

\* The worker runs one request at a time.
WorkerFree == \A p \in Coroutines : crossing[p] \notin Running

Becomes(p, state) == crossing' = [crossing EXCEPT ![p] = state]

\* wait_for_deliveries(): no other thread is inside this fold's callback.
InFlight == {"deliver", "post", "retire", "retireCancel", "retireMark"}
Quiet(p, r) == \A w \in Writers \ {p} : ~(fold[w] = r /\ pc[w] \in InFlight)

-----------------------------------------------------------------------------
(* A consumer: __anext__() and _ensure().                                   *)

Anext(c) ==
    /\ LoopFree(c) /\ pc[c] = "idle"
    /\ \/ closed /\ Goto(c, "ended") /\ UNCHANGED opening
       \/ ~closed /\ published # None /\ Goto(c, "ready") /\ UNCHANGED opening
       \/ ~closed /\ published = None /\ Goto(c, "opening") /\ Ask(c)
    /\ UNCHANGED <<stream, tracked, parent, delivery, live, sub, calls, cancelled, loop>>

\* The lock: another consumer registered meanwhile, or this one tracks the
\* stream, which a closing connection refuses, and goes to register.
EnterOpening(c) ==
    /\ LoopFree(c) /\ pc[c] = "opening" /\ Holds(c)
    /\ \/ /\ published # None /\ Goto(c, "ready") /\ Leave /\ UNCHANGED tracked
       \/ /\ published = None /\ parent # "open"
          /\ Goto(c, "gone") /\ Leave /\ UNCHANGED tracked
       \/ /\ published = None /\ parent = "open"
          /\ tracked' = TRUE /\ Goto(c, "submit") /\ UNCHANGED opening
    /\ UNCHANGED <<stream, parent, delivery, live, sub, calls, cancelled, loop>>

\* call() runs in a task of its own and checks the connection again.
Submit(c) ==
    /\ LoopFree(c) /\ pc[c] = "submit"
    /\ \/ parent = "open" /\ Goto(c, "begin") /\ Becomes(c, "ordinary")
       \/ parent # "open" /\ Goto(c, "raise") /\ UNCHANGED crossing
    /\ UNCHANGED <<stream, scope, delivery, live, sub, abandoned, late, cancelled, loop>>

\* _register() on the worker is refused once the stream is closed; one that a
\* close has signalled by now cannot subscribe.
RegBegin(c) ==
    /\ pc[c] = "begin" /\ crossing[c] \in Running
    /\ \/ /\ closed /\ Goto(c, "raise") /\ Becomes(c, "none") /\ UNCHANGED acquiring
       \/ /\ ~closed /\ Goto(c, "subscribe") /\ acquiring' = TRUE
          /\ Becomes(c, IF crossing[c] = "interrupted" THEN "stopped" ELSE crossing[c])
    /\ UNCHANGED <<handle, published, closed, orphaned, scope, delivery, live, sub, abandoned,
                   late, cancelled, loop>>

\* space.subscribe(): from here on the callback may run.  The engine refuses
\* the subscription, or the signal of a close stops it.
RegSubscribe(c) ==
    /\ pc[c] = "subscribe"
    /\ \/ /\ crossing[c] # "stopped" /\ live' = live \cup {c} /\ Goto(c, "assign")
          /\ UNCHANGED <<acquiring, crossing>>
       \/ /\ crossing[c] # "running" \/ c \in Refusing
          /\ acquiring' = FALSE /\ Goto(c, "raise") /\ Becomes(c, "none") /\ UNCHANGED live
    /\ UNCHANGED <<handle, published, closed, orphaned, scope, delivery, sub, abandoned, late,
                   cancelled, loop>>

\* The handle is published and the acquisition over; or the scope refuses to
\* own it, and the fold is cancelled again, which may fail as well.
RegAssign(c) ==
    /\ pc[c] = "assign" /\ acquiring' = FALSE /\ Becomes(c, "none")
    /\ \/ /\ handle' = c
          /\ Goto(c, "finish") /\ UNCHANGED <<live, abandoned>>
       \/ /\ c \in Refusing /\ Quiet(c, c)
          /\ handle' = None /\ live' = live \ {c} /\ Goto(c, "raise") /\ UNCHANGED abandoned
       \/ /\ c \in Refusing /\ Goto(c, "raise") /\ UNCHANGED live
          /\ handle' = c /\ abandoned' = abandoned \cup {c}
    /\ UNCHANGED <<published, closed, orphaned, scope, delivery, sub, late, cancelled, loop>>

\* A failed registration leaves the close scope, and its error the lock; so
\* does one that was undone, and one whose undo() failed, which is only logged.
RegRaises(c) ==
    /\ LoopFree(c)
    /\ \/ pc[c] = "raise" /\ UNCHANGED abandoned
       \/ pc[c] = "begin" /\ crossing[c] = "failed" /\ UNCHANGED abandoned
       \/ pc[c] = "undo" /\ crossing[c] = "done" /\ UNCHANGED abandoned
       \/ pc[c] = "undo" /\ crossing[c] = "failed" /\ abandoned' = abandoned \cup {c}
    /\ Becomes(c, "none") /\ tracked' = FALSE /\ Leave /\ Goto(c, "gone")
    /\ UNCHANGED <<stream, parent, delivery, live, sub, late, cancelled, loop>>

\* The coroutine resumes: cancelled, it undoes the acquisition; closed
\* meanwhile, it raises; else it goes on to publish the queue.
RegFinish(c) ==
    /\ LoopFree(c) /\ pc[c] = "finish"
    /\ \/ c \in cancelled /\ Goto(c, "undo") /\ UNCHANGED opening
       \/ c \notin cancelled /\ closed /\ Leave /\ Goto(c, "gone")
       \/ c \notin cancelled /\ ~closed /\ Goto(c, "publish") /\ UNCHANGED opening
    /\ sub' = IF c \in cancelled THEN [sub EXCEPT ![c] = c] ELSE sub
    /\ UNCHANGED <<stream, tracked, parent, delivery, live, calls, cancelled, loop>>

\* self._queue = events: after the check, in the same coroutine step, but not
\* under the condition the check was made under.
Publish(c) ==
    /\ LoopFree(c) /\ pc[c] = "publish"
    /\ published' = c /\ Leave /\ Goto(c, "ready") /\ late' = closed
    /\ UNCHANGED <<handle, acquiring, closed, orphaned, tracked, parent, delivery, live, sub,
                   crossing, abandoned, cancelled, loop>>

\* The consumer's task is cancelled where it waits.
TaskCancelled(c) ==
    /\ LoopFree(c) /\ c \in Cancellable \ cancelled
    /\ \/ pc[c] = "opening" /\ Goto(c, "gone") /\ GiveUp(c)
       \/ pc[c] = "get" /\ Goto(c, "gone") /\ UNCHANGED opening
       \/ pc[c] \in Registering /\ UNCHANGED <<pc, opening>>
    /\ cancelled' = cancelled \cup {c}
    /\ UNCHANGED <<stream, tracked, parent, delivery, live, sub, calls, loop>>

\* __anext__() with the queue: report a gap once nothing is queued, else get().
Get(c) ==
    LET q == events[published] IN
    /\ LoopFree(c) /\ pc[c] \in {"ready", "get"}
    /\ \/ /\ pc[c] = "ready" /\ dropped > 0 /\ q = <<>> /\ Goto(c, "idle")
          /\ dropped' = 0 /\ lost' = {} /\ told' = told \cup lost
          /\ UNCHANGED <<events, taken, answered>>
       \/ /\ pc[c] = "ready" /\ dropped = 0 /\ q = <<>> /\ Goto(c, "get")
          /\ UNCHANGED <<dropped, events, history>>
       \/ /\ q # <<>> /\ events' = [events EXCEPT ![published] = Tail(q)]
          /\ \/ Head(q) = End /\ Goto(c, "ended") /\ answered' = TRUE /\ UNCHANGED taken
             \/ /\ Head(q) # End /\ Goto(c, "idle") /\ taken' = taken \cup {Head(q)}
                /\ UNCHANGED answered
          /\ UNCHANGED <<dropped, lost, told>>
    /\ UNCHANGED <<stream, scope, posted, sent, fold, live, sub, calls, cancelled, loop>>

\* wait_for() times out: the consumer closes the stream itself.
Deadline(c) ==
    /\ LoopFree(c) /\ pc[c] = "get" /\ c \in Deadlined /\ events[published] = <<>>
    /\ Goto(c, IF closed THEN "gone" ELSE "release")
    /\ UNCHANGED <<stream, scope, delivery, live, sub, calls, cancelled, loop>>

-----------------------------------------------------------------------------
(* Requests on the worker: a registration, and the cancel() of an undo() or *)
(* a _release().                                                            *)

\* _subscription_call(): a request that a closing connection still takes, if
\* it is closing now, else an ordinary one; a closed connection refuses it.
AskCancel(p) ==
    /\ LoopFree(p) /\ pc[p] \in {"undo", "cancel"} /\ crossing[p] = "none"
    /\ Becomes(p, IF parent = "closing" THEN "resource"
                  ELSE IF parent = "open" THEN "ordinary" ELSE "failed")
    /\ UNCHANGED <<stream, scope, delivery, live, pc, sub, abandoned, late, cancelled, loop>>

\* The worker takes the next request: an ordinary one loses to a close that
\* began meanwhile, and the worker of a closed connection may be ending.
Dispatch(p) ==
    /\ crossing[p] \in {"ordinary", "resource"} /\ WorkerFree
    /\ \/ (crossing[p] = "resource" \/ parent = "open") /\ Becomes(p, "running")
       \/ (IF crossing[p] = "resource" THEN parent = "closed" ELSE parent # "open")
          /\ Becomes(p, "failed")
    /\ UNCHANGED <<stream, scope, delivery, live, pc, sub, abandoned, late, cancelled, loop>>

\* Mutant: the worker answers and the fold delivers on.
StillLive(r) == live

\* The fold is cancelled.
Undone(r) == live \ {r}

\* It runs, or is refused by the engine, or stopped by a close.
RunCancel(p) ==
    /\ pc[p] \in {"undo", "cancel"} /\ crossing[p] \in Running
    /\ \/ Quiet(p, sub[p]) /\ live' = Undone(sub[p]) /\ Becomes(p, "done")
       \/ /\ crossing[p] # "running" \/ parent = "closed" \/ p \in Refusing
          /\ Becomes(p, "failed") /\ UNCHANGED live
    /\ UNCHANGED <<stream, scope, delivery, pc, sub, abandoned, late, cancelled, loop>>

-----------------------------------------------------------------------------
(* Release on the event loop: aclose(), the owner's aclose(), a deadline.   *)

Aclose(p) ==
    /\ LoopFree(p) /\ p \in Closers /\ pc[p] = "idle"
    /\ Goto(p, IF closed THEN "done" ELSE "release")
    /\ UNCHANGED <<stream, scope, delivery, live, sub, calls, cancelled, loop>>

\* _begin_close() of the connection: refused while another close is under
\* way, and over at once when the stream is not in its close scope.
BeginClose(p) ==
    /\ pc[p] = "idle"
    /\ \/ LoopFree(p) /\ p \in Owners
       \/ p \in Stoppers
    /\ \/ parent = "closing" /\ Goto(p, "done") /\ UNCHANGED parent
       \/ parent # "closing" /\ ~tracked /\ parent' = "closed" /\ Goto(p, "done")
       \/ parent # "closing" /\ tracked /\ parent' = "closing" /\ Goto(p, "interrupt")
    /\ UNCHANGED <<stream, opening, tracked, delivery, live, sub, calls, cancelled, loop>>

\* interrupt_if_running(), before anything is released.
Interrupt(p) ==
    /\ pc[p] = "interrupt" /\ (p \in Owners => LoopFree(p))
    /\ crossing' = [q \in Coroutines |->
                      IF crossing[q] = "running" THEN "interrupted" ELSE crossing[q]]
    /\ Goto(p, IF p \in Owners THEN "release" ELSE "hold")
    /\ UNCHANGED <<stream, scope, delivery, live, sub, abandoned, late, cancelled, loop>>

\* _release() runs in a task of its own: the lock first ...
AskRelease(p) ==
    /\ LoopFree(p) /\ pc[p] = "release"
    /\ Ask(p) /\ Goto(p, "wait")
    /\ UNCHANGED <<stream, tracked, parent, delivery, live, sub, calls, cancelled, loop>>

\* ... then the handle.
Release(p) ==
    /\ LoopFree(p) /\ pc[p] = "wait" /\ Holds(p)
    /\ sub' = [sub EXCEPT ![p] = handle]
    /\ Goto(p, IF handle = None THEN "mark" ELSE "cancel")
    /\ UNCHANGED <<stream, scope, delivery, live, calls, cancelled, loop>>

\* The connection is closed once its stream is, or open again.
NoAbort(p, ok) == IF p \notin Owners \cup Stoppers THEN parent ELSE "closed"
ParentAfter(p, ok) ==
    IF p \notin Owners \cup Stoppers THEN parent ELSE IF ok THEN "closed" ELSE "open"

\* An error leaves everything retryable.
ReleaseFails(p) ==
    /\ LoopFree(p) /\ pc[p] = "cancel" /\ crossing[p] = "failed" /\ Becomes(p, "none")
    /\ Leave /\ parent' = ParentAfter(p, FALSE)
    /\ Goto(p, IF p \in Consumers THEN "gone" ELSE "idle")
    /\ UNCHANGED <<stream, tracked, delivery, live, sub, abandoned, late, cancelled, loop>>

\* _end(): the terminator, in the place of the oldest event when full.
Ended(q) == Append(IF Len(q) < QueueMax THEN q ELSE Tail(q), End)

\* The terminator goes into the published queue.
NotTold(es) == es
Told(es) == IF published = None THEN es ELSE [es EXCEPT ![published] = Ended(@)]

ReleaseMarks(p) ==
    /\ LoopFree(p)
    /\ pc[p] = "mark" \/ (pc[p] = "cancel" /\ crossing[p] = "done")
    /\ Becomes(p, "none")
    /\ handle' = None /\ closed' = TRUE /\ tracked' = FALSE
    /\ events' = Told(events)
    /\ Leave /\ parent' = ParentAfter(p, TRUE)
    /\ Goto(p, IF p \in Consumers THEN "gone" ELSE "done")
    /\ UNCHANGED <<published, acquiring, orphaned, dropped, posted, sent, history, fold,
                   live, sub, abandoned, late, cancelled, loop>>

-----------------------------------------------------------------------------
(* _stop(), on the thread of the connection's stop().                       *)

\* wait_for(lambda: not self._acquiring)
AnyTime == TRUE
Settled == ~acquiring

StopReads(p) ==
    /\ pc[p] = "hold" /\ Settled
    /\ sub' = [sub EXCEPT ![p] = handle]
    /\ Goto(p, IF handle = None THEN "stopMark" ELSE "stopCancel")
    /\ UNCHANGED <<stream, scope, delivery, live, calls, cancelled, loop>>

StopCancels(p) ==
    /\ pc[p] = "stopCancel"
    /\ \/ Quiet(p, sub[p]) /\ live' = live \ {sub[p]} /\ Goto(p, "stopMark")
          /\ UNCHANGED parent
       \/ p \in Refusing /\ parent' = ParentAfter(p, FALSE) /\ Goto(p, "idle")
          /\ UNCHANGED live
    /\ UNCHANGED <<stream, opening, tracked, delivery, sub, calls, cancelled, loop>>

StopMarks(p) ==
    /\ pc[p] = "stopMark"
    /\ handle' = None /\ closed' = TRUE /\ tracked' = FALSE
    /\ Goto(p, "post")
    /\ UNCHANGED <<published, acquiring, orphaned, opening, parent, delivery, live, sub, calls,
                   cancelled, loop>>

\* The terminator is posted to the loop, if there is a queue to end.
StopPosts(p) ==
    /\ p \in Stoppers /\ pc[p] = "post"
    /\ posted' = IF published # None /\ loop = "open" THEN Append(posted, End) ELSE posted
    /\ parent' = ParentAfter(p, TRUE) /\ Goto(p, "done")
    /\ UNCHANGED <<stream, opening, tracked, dropped, events, sent, history, fold, live, sub, calls,
                   cancelled, loop>>

-----------------------------------------------------------------------------
(* Delivery: deliver() on a writing thread, _offer() on the loop.           *)

\* A write reaches a live fold: begin_delivery().
Write(w) ==
    /\ pc[w] = "idle" /\ sent < MaxEvents
    /\ \E r \in live : fold' = [fold EXCEPT ![w] = r]
    /\ Goto(w, "deliver")
    /\ UNCHANGED <<stream, scope, dropped, events, posted, sent, history, live, sub, calls,
                   cancelled, loop>>

\* The check under the condition ...
Deliver(w) ==
    /\ pc[w] = "deliver"
    /\ Goto(w, IF closed \/ orphaned THEN "idle" ELSE "post")
    /\ UNCHANGED <<stream, scope, delivery, live, sub, calls, cancelled, loop>>

\* ... and call_soon_threadsafe() after it.
Post(w) ==
    /\ w \in Writers /\ pc[w] = "post"
    /\ \/ /\ loop = "open" /\ Goto(w, "idle")
          /\ sent' = sent + 1 /\ posted' = Append(posted, <<fold[w], sent + 1>>)
       \/ loop = "closed" /\ Goto(w, "retire") /\ UNCHANGED <<posted, sent>>
    /\ UNCHANGED <<stream, scope, dropped, events, history, fold, live, sub, calls, cancelled, loop>>

\* _retire_closed_loop(): with no handle yet it is left to _ensure().
Retire(w) ==
    /\ pc[w] = "retire" /\ orphaned' = TRUE
    /\ sub' = [sub EXCEPT ![w] = handle]
    /\ Goto(w, IF handle = None THEN "idle" ELSE "retireCancel")
    /\ UNCHANGED <<handle, published, acquiring, closed, scope, delivery, live, calls, cancelled,
                   loop>>

\* A failure is logged, and the stream stays tracked for its owner to retry.
RetireCancels(w) ==
    /\ pc[w] = "retireCancel"
    /\ \/ Quiet(w, sub[w]) /\ live' = live \ {sub[w]} /\ Goto(w, "retireMark")
       \/ w \in Refusing /\ Goto(w, "idle") /\ UNCHANGED live
    /\ UNCHANGED <<stream, scope, delivery, sub, calls, cancelled, loop>>

RetireMarks(w) ==
    /\ pc[w] = "retireMark"
    /\ handle' = IF handle = sub[w] THEN None ELSE handle
    /\ closed' = TRUE /\ tracked' = FALSE /\ Goto(w, "idle")
    /\ UNCHANGED <<published, acquiring, orphaned, opening, parent, delivery, live, sub, calls,
                   cancelled, loop>>

\* _offer() counts what does not fit.
DropQuietly(e) == UNCHANGED <<dropped, lost>>
Drop(e) == dropped' = dropped + 1 /\ lost' = lost \cup {e}

\* The loop runs the next callback: _end(), or _offer(), which ignores a closed
\* stream.
RunCallback ==
    /\ LoopFree(None) /\ posted # <<>> /\ posted' = Tail(posted)
    /\ LET call == Head(posted) IN
       \/ /\ call = End /\ events' = Told(events) /\ UNCHANGED <<dropped, lost>>
       \/ /\ call # End /\ closed /\ UNCHANGED <<events, dropped, lost>>
       \/ /\ call # End /\ ~closed /\ Len(events[call[1]]) < QueueMax
          /\ events' = [events EXCEPT ![call[1]] = Append(@, call[2])]
          /\ UNCHANGED <<dropped, lost>>
       \/ /\ call # End /\ ~closed /\ Len(events[call[1]]) >= QueueMax
          /\ Drop(call[2]) /\ UNCHANGED events
    /\ UNCHANGED <<stream, scope, sent, taken, told, answered, fold, live, pc, sub, calls,
                   cancelled, loop>>

\* The loop is closed under pending tasks: no coroutine runs again.
LoopCloses ==
    /\ LoopMayClose /\ LoopFree(None) /\ loop' = "closed" /\ posted' = <<>>
    /\ UNCHANGED <<stream, scope, dropped, events, sent, history, fold, live, pc, sub, calls, cancelled>>

-----------------------------------------------------------------------------
ConsumerStep(c) ==
    \/ EnterOpening(c) \/ Submit(c) \/ RegBegin(c) \/ RegSubscribe(c) \/ RegAssign(c)
    \/ RegRaises(c) \/ RegFinish(c) \/ Publish(c) \/ Get(c)

CallStep(p) == AskCancel(p) \/ Dispatch(p) \/ RunCancel(p)

ReleaseStep(p) == AskRelease(p) \/ Release(p) \/ ReleaseFails(p) \/ ReleaseMarks(p)

StopStep(p) == StopReads(p) \/ StopCancels(p) \/ StopMarks(p) \/ StopPosts(p)

DeliverStep(w) ==
    \/ Deliver(w) \/ Post(w) \/ Retire(w) \/ RetireCancels(w) \/ RetireMarks(w)

Next ==
    \/ \E c \in Consumers : Anext(c) \/ ConsumerStep(c) \/ TaskCancelled(c) \/ Deadline(c)
    \/ \E p \in Closers : Aclose(p)
    \/ \E p \in Owners \cup Stoppers : BeginClose(p) \/ Interrupt(p)
    \/ \E p \in Coroutines : CallStep(p) \/ ReleaseStep(p)
    \/ \E p \in Stoppers : StopStep(p)
    \/ \E w \in Writers : Write(w) \/ DeliverStep(w)
    \/ RunCallback \/ LoopCloses

Spec == Init /\ [][Next]_vars

-----------------------------------------------------------------------------
(* Properties.                                                              *)

\* A fold whose registration could not be undone: undo() failed, which
\* _acquire() logs, or the cancel() in _register() did, and _ensure() has
\* forgotten the stream.
GivenUp(r) == r \in abandoned

\* A registration that was under way when a writer found the loop closed: the
\* writer may have cancelled the handle of an earlier one in its place, and
\* the consumer does not run again.
Overtaken(r) == orphaned /\ pc[r] \in {"assign", "finish"}

\* "aclose refuses further work only after the engine has let go": a closed
\* stream has no fold the engine still delivers to, whoever closed it and
\* whatever registration was under way, but for one that could not be undone.
ClosedHoldsNothing == closed => \A r \in live : GivenUp(r) \/ Overtaken(r)

\* A fold the engine delivers to is within reach of the close of its
\* connection, or in the hands of the registration that is to give it up,
\* or could not be undone.
LiveIsOwned ==
    \A r \in live :
        (handle = r /\ tracked) \/ pc[r] \in {"assign", "finish", "undo"} \/ GivenUp(r)

\* "What it can do is refuse to lose the event quietly": until the stream is
\* closed, and while there is a loop to deliver on, every event posted was
\* handed out, is on its way, or is counted in a gap that was reported or will
\* be; a full queue is what loses one.
NoSilentLoss ==
    /\ \A r \in Consumers : Len(events[r]) <= QueueMax
    /\ (loop = "open" /\ ~closed) =>
        /\ dropped = Cardinality(lost)
        /\ \A e \in 1..sent :
             \/ e \in taken \cup lost \cup told
             \/ \E i \in 1..Len(posted) : posted[i] # End /\ posted[i][2] = e
             \/ \E r \in Consumers : \E i \in 1..Len(events[r]) : events[r][i] = e

\* A closed connection has no fold left, and no stream of it can get one, but
\* for one that could not be undone.
ParentHoldsNothing == parent = "closed" => \A r \in live : GivenUp(r) \/ Overtaken(r)

\* "Wake a consumer blocked on this queue, a full queue included": a close
\* queues a terminator that stays until a consumer has taken it, whatever is
\* delivered meanwhile and however many close at once; unless it was the
\* stop() that found no queue yet, published since.
CloseWakesOne ==
    (loop = "open" /\ closed /\ published # None /\ ~late) =>
        \/ answered
        \/ \E i \in 1..Len(events[published]) : events[published][i] = End
        \/ \E i \in 1..Len(posted) : posted[i] = End
        \/ \E p \in Stoppers : pc[p] = "post"

=============================================================================
