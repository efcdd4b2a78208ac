---------------------------- MODULE AsyncWorker ----------------------------
(***************************************************************************)
(* The engine worker behind metta.aio (metta/aio/_worker.py).              *)
(*                                                                         *)
(* One daemon thread owns one attached Prolog engine.  Coroutines submit   *)
(* requests through a queue; an AsyncMeTTa connection owns the thread and  *)
(* others borrow it.  Any thread may interrupt the running request with a  *)
(* thread_signal, close a connection or stop the worker.                   *)
(*                                                                         *)
(* Two locks order everything: _state_lock guards the life-cycle state,    *)
(* the engine identity and queue admission; _transition guards the change  *)
(* of the current request against a signaller.  An action below is one     *)
(* critical section, so what the code does between two sections is where   *)
(* other threads interleave.                                               *)
(***************************************************************************)
EXTENDS Naturals, Sequences, FiniteSets

CONSTANTS
    Conns,      \* AsyncMeTTa objects sharing the worker
    Owner,      \* the one that owns it (_owner = True)
    Requests,   \* calls that may be made
    Releases,   \* those that release a child while their connection closes
    ConnOf,     \* the connection a request is made through
    Scoped,     \* requests whose scope cancels them from its own thread
    Stoppers,   \* connections closed by stop() on a thread, not by aclose()
    Users,      \* threads that call the public interrupt()
    NoReq,      \* None, where a request could stand
    Stop        \* the None that ends the worker's queue

Callers == Requests \cup Conns \cup Users
LoopCallers == (Requests \ Scoped) \cup (Conns \ Stoppers)

ASSUME AsyncWorkerAssumption ==
    /\ Owner \in Conns
    /\ Releases \subseteq Requests
    /\ ConnOf \in [Requests -> Conns]
    /\ Scoped \subseteq Requests /\ Stoppers \subseteq Conns
    /\ Conns \cap Requests = {} /\ Users \cap (Conns \cup Requests) = {}
    /\ NoReq \notin Requests
    /\ Stop \notin Requests
    /\ Stop # NoReq

VARIABLES
    state,        \* _state
    pc,           \* where the worker thread is; "none" until it is spawned
    engine,       \* _swi_thread is published
    startup,      \* the startup future
    launcher,     \* the request whose start() launched the thread, while it waits
    queue,        \* work
    job,          \* the request the worker took from the queue
    current,      \* _current
    outcome,      \* what job's function did, until it is delivered
    signals,      \* thread_signals sent for a request and not yet thrown
    phase,        \* how far a request's coroutine has come
    abandoned, interrupted,
    fut,          \* the awaiting future
    receipt,      \* completion receipts published to the owning scope
    closing, closed,   \* _closing and _closed of a connection
    closer,       \* where a connection's aclose() or stop() is
    call,         \* an interrupt_if_running() in progress
    loop          \* the event loop accepts call_soon_threadsafe

worker == <<state, pc, engine, startup, launcher, queue, job, current, outcome>>
requests == <<phase, abandoned, fut, receipt>>
conns == <<closing, closed, closer>>
interrupts == <<signals, interrupted, call>>
vars == <<worker, requests, conns, interrupts, loop>>

States == {"unstarted", "starting", "live", "failed", "closing", "closed"}
Places == {"none", "attach", "get", "dispatch", "run", "finish", "deliver",
           "fail", "detach", "dead"}
Phases == {"new", "startup", "admit", "sent", "done"}
Futures == {"none", "pending", "value", "error", "refused", "cancelled"}
CloserPlaces == {"idle", "interrupt", "release", "finish", "worker",
                 "signal", "join", "late", "joined", "timeout"}

WorkerTypeOK ==
    /\ state \in States /\ pc \in Places /\ engine \in {"none", "attached"}
    /\ startup \in {"none", "pending", "ok", "error"}
    /\ launcher \in Requests \cup {NoReq}
    /\ queue \in Seq(Requests \cup {Stop})
    /\ job \in Requests \cup {NoReq} /\ current \in Requests \cup {NoReq}
    /\ pc \in {"dispatch", "run", "finish", "deliver", "fail"} => job # NoReq
    /\ outcome \in {"none", "value", "error"}
    /\ loop \in {"open", "closed"}

RequestTypeOK ==
    /\ phase \in [Requests -> Phases]
    /\ abandoned \subseteq Requests
    /\ fut \in [Requests -> Futures]
    /\ receipt \in [Requests -> Nat]

ConnTypeOK ==
    /\ closing \subseteq Conns /\ closed \subseteq Conns
    /\ closer \in [Conns -> CloserPlaces]

InterruptTypeOK ==
    /\ signals \in [Requests -> Nat]
    /\ interrupted \subseteq Requests
    /\ call \in [Callers -> {"idle", "called", "noEngine", "engine"}]

TypeOK == WorkerTypeOK /\ RequestTypeOK /\ ConnTypeOK /\ InterruptTypeOK

Init ==
    /\ state = "unstarted" /\ pc = "none" /\ engine = "none"
    /\ startup = "none" /\ launcher = NoReq
    /\ queue = <<>> /\ job = NoReq /\ current = NoReq /\ outcome = "none"
    /\ signals = [r \in Requests |-> 0]
    /\ phase = [r \in Requests |-> "new"]
    /\ abandoned = {}
    /\ interrupted = {}
    /\ fut = [r \in Requests |-> "none"]
    /\ receipt = [r \in Requests |-> 0]
    /\ closing = {} /\ closed = {}
    /\ closer = [c \in Conns |-> "idle"]
    /\ call = [x \in Callers |-> "idle"]
    /\ loop = "open"

-----------------------------------------------------------------------------
(* Settling a request.                                                      *)

\* _deliver, for every request of a set: the future resolves unless it is
\* done or its loop is gone, and the scope receives its receipt either way.
FutAfter(R, how) ==
    [r \in Requests |-> IF r \in R /\ fut[r] = "pending" /\ loop = "open" THEN how ELSE fut[r]]
ReceiptAfter(R) == [r \in Requests |-> IF r \in R THEN receipt[r] + 1 ELSE receipt[r]]
PhaseAfter(R) == [r \in Requests |-> IF r \in R THEN "done" ELSE phase[r]]
Deliver(R, how) ==
    /\ fut' = FutAfter(R, how)
    /\ receipt' = ReceiptAfter(R)
    /\ phase' = PhaseAfter(R)

\* What the queue still holds, its stop marker aside.
Queued == {r \in Requests : \E i \in 1..Len(queue) : queue[i] = r}

\* _require_open_locked
IsOpen(c) == c \notin closing /\ c \notin closed

\* The loop thread is inside start(), between publishing "starting" and
\* starting the thread, or inside an interrupt_if_running() of a coroutine:
\* no other coroutine of this loop can run there.
Launching == startup = "pending" /\ pc = "none"
LoopFree == loop = "open" /\ ~Launching /\ \A x \in LoopCallers : call[x] = "idle"

-----------------------------------------------------------------------------
(* Making a request: call(), _resource_call(), start() and _submit().       *)

\* A coroutine that raises before a request object exists.
Refuse(r) ==
    /\ phase' = [phase EXCEPT ![r] = "done"]
    /\ fut' = [fut EXCEPT ![r] = "refused"]

\* _EngineThread.start() as the request's coroutine runs it.
Start(r) ==
    \/ /\ state = "live" /\ pc # "dead"
       /\ phase' = [phase EXCEPT ![r] = "admit"]
       /\ UNCHANGED <<state, startup, launcher, fut>>
    \/ /\ state = "live" /\ pc = "dead"
       /\ state' = "failed" /\ Refuse(r)
       /\ UNCHANGED <<startup, launcher>>
    \/ /\ state = "unstarted"
       /\ state' = "starting" /\ startup' = "pending" /\ launcher' = r
       /\ phase' = [phase EXCEPT ![r] = "startup"]
       /\ UNCHANGED fut
    \/ /\ state = "starting"
       /\ phase' = [phase EXCEPT ![r] = "startup"]
       /\ UNCHANGED <<state, startup, launcher, fut>>
    \/ /\ state \in {"failed", "closing", "closed"}
       /\ Refuse(r)
       /\ UNCHANGED <<state, startup, launcher>>

\* call(), which a closing connection refuses, and _resource_call(), which
\* the close itself makes to release a child.
Call(r) ==
    LET c == ConnOf[r] IN
    /\ LoopFree /\ phase[r] = "new"
    /\ r \in Releases => c \in closing /\ closer[c] = "release"
    /\ \/ (r \in Releases \/ IsOpen(c)) /\ Start(r)
       \/ r \notin Releases /\ ~IsOpen(c) /\ Refuse(r)
          /\ UNCHANGED <<state, startup, launcher>>
    /\ UNCHANGED <<pc, engine, queue, job, current, outcome, abandoned, receipt, conns,
                   interrupts, loop>>

\* The launcher starts the thread, or the operating system refuses it.
Spawn ==
    /\ Launching
    /\ \/ pc' = "attach" /\ UNCHANGED <<state, phase, fut>>
       \/ pc' = "dead" /\ state' = "failed" /\ Refuse(launcher)
    /\ UNCHANGED <<engine, startup, launcher, queue, job, current, outcome,
                   abandoned, receipt, conns, interrupts, loop>>

\* A coroutine awaiting the shared startup future resumes.
StartupDone(r) ==
    /\ LoopFree /\ phase[r] = "startup"
    /\ \/ startup = "ok" /\ phase' = [phase EXCEPT ![r] = "admit"] /\ UNCHANGED fut
       \/ startup = "error" /\ Refuse(r)
    /\ launcher' = IF launcher = r THEN NoReq ELSE launcher
    /\ UNCHANGED <<state, pc, engine, startup, queue, job, current, outcome, abandoned,
                   receipt, conns, interrupts, loop>>

\* _submit() and _EngineThread.submit(): the request object is created, and
\* admitted if its connection is open and the worker is live.
Admit(r) ==
    LET open == r \in Releases \/ IsOpen(ConnOf[r])
        accepted == open /\ state = "live" /\ pc # "dead"
    IN
    /\ LoopFree /\ phase[r] = "admit"
    /\ queue' = IF accepted THEN Append(queue, r) ELSE queue
    /\ IF accepted
       THEN /\ phase' = [phase EXCEPT ![r] = "sent"]
            /\ fut' = [fut EXCEPT ![r] = "pending"]
            /\ UNCHANGED <<state, receipt>>
       ELSE /\ Refuse(r)
            /\ receipt' = [receipt EXCEPT ![r] = 1]
            /\ state' = IF open /\ state = "live" THEN "failed" ELSE state
    /\ UNCHANGED <<pc, engine, startup, launcher, job, current, outcome, abandoned,
                   conns, interrupts, loop>>

-----------------------------------------------------------------------------
(* Closing the worker.                                                      *)

\* Mutant: the queue is emptied and no stop marker follows.
NoMarker == <<>>

\* All that close_soon() leaves in the queue.
LastWord == <<Stop>>

\* close_soon(): the queued requests are abandoned and rejected, and the stop
\* marker is the last thing the worker will read.
Rejected == IF state \in {"starting", "live"} THEN Queued ELSE {}
CloseSoon ==
    /\ state' = CASE state \in {"unstarted", "failed"} -> "closed"
                  [] state \in {"starting", "live"} -> "closing"
                  [] OTHER -> state
    /\ queue' = IF state \in {"starting", "live"} THEN LastWord ELSE queue
    /\ abandoned' = abandoned \cup Rejected
    /\ receipt' = ReceiptAfter(Rejected)

\* A coroutine cancelled while it awaits startup; the launcher takes the
\* worker with it, because nobody else will ever stop it.
CancelStartup(r) ==
    LET lost == IF launcher = r THEN Rejected ELSE {} IN
    /\ LoopFree /\ phase[r] = "startup"
    /\ IF launcher = r THEN CloseSoon ELSE UNCHANGED <<state, queue, abandoned, receipt>>
    /\ phase' = [PhaseAfter(lost) EXCEPT ![r] = "done"]
    /\ fut' = [FutAfter(lost, "error") EXCEPT ![r] = "cancelled"]
    /\ launcher' = IF launcher = r THEN NoReq ELSE launcher
    /\ UNCHANGED <<pc, engine, startup, job, current, outcome,
                   conns, interrupts, loop>>

-----------------------------------------------------------------------------
(* The worker thread.                                                       *)

\* attach_engine() succeeds: the engine is published before "live" admits a
\* request.  With the loop gone there is nobody to report to and nobody to
\* stop this thread, so it closes itself.
Attach ==
    /\ pc = "attach"
    /\ pc' = "get" /\ engine' = "attached"
    /\ IF loop = "open"
       THEN /\ startup' = "ok"
            /\ state' = IF state = "starting" THEN "live" ELSE state
            /\ UNCHANGED queue
       ELSE /\ state' = IF state = "starting" THEN "closing" ELSE state
            /\ queue' = IF state = "starting" THEN LastWord ELSE queue
            /\ UNCHANGED startup
    /\ UNCHANGED <<launcher, job, current, outcome, requests, conns, interrupts, loop>>

AttachFails ==
    /\ pc = "attach"
    /\ pc' = "dead" /\ state' = "failed"
    /\ startup' = IF loop = "open" THEN "error" ELSE startup
    /\ UNCHANGED <<engine, launcher, queue, job, current, outcome, requests, conns,
                   interrupts, loop>>

\* Mutant: None is not told from a request.
NeverStops(r) == FALSE

\* `if request is None: return`
IsStop(r) == r = Stop

\* work.get(): stop, skip what was abandoned while queued, or take it.
Get ==
    /\ pc = "get" /\ queue # <<>>
    /\ queue' = Tail(queue)
    /\ LET r == Head(queue) IN
       \/ /\ IsStop(r)
          /\ pc' = "detach" /\ UNCHANGED <<job, phase, receipt>>
       \/ /\ ~IsStop(r) /\ r \in abandoned
          /\ receipt' = [receipt EXCEPT ![r] = @ + 1]
          /\ phase' = [phase EXCEPT ![r] = "done"]
          /\ UNCHANGED <<pc, job>>
       \/ /\ ~IsStop(r) /\ r \notin abandoned
          /\ pc' = "dispatch" /\ job' = r /\ UNCHANGED <<phase, receipt>>
    /\ UNCHANGED <<state, engine, startup, launcher, current, outcome,
                   abandoned, fut, conns, interrupts, loop>>

\* Under _transition: accepted work still loses to a close of the worker or
\* of its connection, unless it is a release the close itself asked for.
Dispatch ==
    LET lost == state = "closing" \/ (job \notin Releases /\ ~IsOpen(ConnOf[job])) IN
    /\ pc = "dispatch"
    /\ IF lost
       THEN /\ abandoned' = abandoned \cup {job}
            /\ Deliver({job}, "error")
            /\ pc' = "get" /\ job' = NoReq /\ UNCHANGED current
       ELSE /\ current' = job /\ pc' = "run"
            /\ UNCHANGED <<abandoned, fut, receipt, phase, job>>
    /\ UNCHANGED <<state, engine, startup, launcher, queue, outcome, conns,
                   interrupts, loop>>

\* The request's function returns or raises on its own.
RunEnds ==
    /\ pc = "run" /\ pc' = "finish"
    /\ outcome' \in {"value", "error"}
    /\ UNCHANGED <<state, engine, startup, launcher, queue, job, current, requests,
                   conns, interrupts, loop>>

\* A pending thread_signal is thrown inside the running goal.
Thrown ==
    /\ pc = "run"
    /\ \E r \in Requests :
         /\ signals[r] > 0
         /\ signals' = [signals EXCEPT ![r] = @ - 1]
    /\ pc' = "finish" /\ outcome' = "error"
    /\ UNCHANGED <<state, engine, startup, launcher, queue, job, current, requests,
                   conns, interrupted, call, loop>>

\* Mutant: no engine call at the end of a request.
NoDrain == UNCHANGED signals

\* _drain: its no-op engine call takes one signal that raced the goal's end.
Drain ==
    IF \E r \in Requests : signals[r] > 0
    THEN \E r \in Requests :
           /\ signals[r] > 0
           /\ signals' = [signals EXCEPT ![r] = @ - 1]
    ELSE UNCHANGED signals

\* Under _transition: no request is current, and stale signals are drained.
Finish ==
    /\ pc = "finish"
    /\ current' = NoReq
    /\ Drain
    /\ pc' = "deliver"
    /\ UNCHANGED <<state, engine, startup, launcher, queue, job, outcome, requests,
                   conns, interrupted, call, loop>>

\* The drain itself fails with anything but a stale interrupt.
FinishFails ==
    /\ pc = "finish"
    /\ current' = NoReq
    /\ outcome' = "error" /\ pc' = "fail"
    /\ UNCHANGED <<state, engine, startup, launcher, queue, job, requests,
                   conns, interrupts, loop>>

\* _deliver of the outcome.
DeliverOutcome ==
    /\ pc = "deliver"
    /\ Deliver({job}, outcome)
    /\ pc' = "get" /\ job' = NoReq /\ outcome' = "none"
    /\ UNCHANGED <<state, engine, startup, launcher, queue, current, abandoned,
                   conns, interrupts, loop>>

\* Mutant: the queue is emptied without an answer.
OnlyTheJob == {job}

\* Whom a failed worker still answers.
FailedRequests == {job} \cup Queued

\* After a failed drain: _deliver, then _fail_worker rejects the queue.
FailWorker ==
    /\ pc = "fail"
    /\ Deliver(FailedRequests, "error")
    /\ state' = "failed" /\ queue' = <<>>
    /\ pc' = "detach" /\ job' = NoReq /\ outcome' = "none"
    /\ UNCHANGED <<engine, startup, launcher, current, abandoned, conns,
                   interrupts, loop>>

\* detach_engine(), or its failure.
Detach ==
    /\ pc = "detach"
    /\ pc' = "dead" /\ engine' = "none"
    /\ \/ state' = CASE state = "closing" -> "closed"
                     [] state = "live" -> "failed"
                     [] OTHER -> state
       \/ state' = "failed"
    /\ UNCHANGED <<startup, launcher, queue, job, current, outcome, requests, conns,
                   interrupts, loop>>

-----------------------------------------------------------------------------
(* Interrupting: interrupt_if_running() is two critical sections.           *)

\* _Request.cancel(): the awaiting task was cancelled, or a scope's timer
\* thread cancels the request; the loop wakes the waiter if there is one.
Cancel(r) ==
    /\ phase[r] = "sent" /\ fut[r] = "pending" /\ r \notin abandoned /\ call[r] = "idle"
    /\ r \in Scoped \/ LoopFree
    /\ fut' = FutAfter({r}, "cancelled")
    /\ abandoned' = abandoned \cup {r}
    /\ call' = [call EXCEPT ![r] = "called"]
    /\ UNCHANGED <<worker, phase, receipt, conns, signals, interrupted, loop>>

\* interrupt(), from any thread.
Interrupt(u) ==
    /\ call[u] = "idle"
    /\ call' = [call EXCEPT ![u] = "called"]
    /\ UNCHANGED <<worker, requests, conns, signals, interrupted, loop>>

\* First section, under _state_lock: read the engine to signal.
ReadEngine(x) ==
    /\ call[x] = "called"
    /\ call' = [call EXCEPT ![x] = IF engine = "attached" THEN "engine" ELSE "noEngine"]
    /\ UNCHANGED <<worker, requests, conns, signals, interrupted, loop>>

\* Mutant: the connection of the running request is not looked at.
SignalsAnyone(x) ==
    /\ current # NoReq
    /\ x \in Requests => current = x
    /\ current \notin interrupted

\* Mutant: repeated stops of one request do not coalesce.
SignalsAgain(x) ==
    /\ current # NoReq
    /\ x \in Requests => current = x
    /\ x \in Conns \ {Owner} => ConnOf[current] = x

\* Whom a call may signal: a cancelled request itself, a borrower its own
\* request, the owner and the user whatever runs; never the same one twice.
Signals(x) ==
    /\ current # NoReq
    /\ x \in Requests => current = x
    /\ current \notin interrupted
    /\ x \in Conns \ {Owner} => ConnOf[current] = x

\* Second section, under _transition.  The RuntimeError ends the aclose()
\* that made the call; one that was still releasing children is aborted.
SendSignal(x) ==
    /\ call[x] \in {"noEngine", "engine"}
    /\ call' = [call EXCEPT ![x] = "idle"]
    /\ IF Signals(x) /\ call[x] = "engine"
       THEN /\ signals' = [signals EXCEPT ![current] = @ + 1]
            /\ interrupted' = interrupted \cup {current}
       ELSE UNCHANGED <<signals, interrupted>>
    /\ IF Signals(x) /\ call[x] = "noEngine"
       THEN /\ closing' = IF x \in Conns THEN closing \ {x} ELSE closing
            /\ closer' = IF x \in Conns THEN [closer EXCEPT ![x] = "idle"] ELSE closer
       ELSE UNCHANGED <<closing, closer>>
    /\ UNCHANGED <<worker, requests, closed, loop>>

-----------------------------------------------------------------------------
(* Closing a connection: aclose() and stop().                               *)

\* aclose() runs on the loop, stop() on a thread of its own.
Runs(c) == c \in Stoppers \/ LoopFree

\* _begin_close() claims the close; when there are children to release, what
\* runs for this connection is interrupted first.
BeginClose(c) ==
    /\ Runs(c) /\ closer[c] \in {"idle", "timeout"} /\ c \notin closing
    /\ closing' = closing \cup {c}
    /\ \/ closer' = [closer EXCEPT ![c] = "finish"] /\ UNCHANGED call
       \/ closer' = [closer EXCEPT ![c] = "interrupt"] /\ call' = [call EXCEPT ![c] = "called"]
    /\ UNCHANGED <<worker, requests, closed, signals, interrupted, loop>>

CloseInterrupted(c) ==
    /\ Runs(c) /\ closer[c] = "interrupt" /\ call[c] = "idle"
    /\ closer' = [closer EXCEPT ![c] = "release"]
    /\ UNCHANGED <<worker, requests, closing, closed, interrupts, loop>>

\* The releases are over: all succeeded, or _abort_close() keeps the
\* connection usable for a retry.  (AsyncStream models a child.)
CloseReleased(c) ==
    /\ Runs(c) /\ closer[c] = "release"
    /\ \A r \in Releases : ConnOf[r] = c => phase[r] \in {"new", "done"}
    /\ \/ closing' = closing \ {c} /\ closer' = [closer EXCEPT ![c] = "idle"]
       \/ closer' = [closer EXCEPT ![c] = "finish"] /\ UNCHANGED closing
    /\ UNCHANGED <<worker, requests, closed, interrupts, loop>>

\* _finish_close(); a borrower is done.
FinishClose(c) ==
    /\ Runs(c) /\ closer[c] = "finish"
    /\ closing' = closing \ {c}
    /\ closed' = closed \cup {c}
    /\ closer' = [closer EXCEPT ![c] = IF c = Owner THEN "worker" ELSE "idle"]
    /\ UNCHANGED <<worker, requests, interrupts, loop>>

\* thread is not None and thread.is_alive()
Alive == pc \notin {"none", "dead"}

\* Mutant: a close leaves the running request alone.
NoCall(c) == call[c]

\* The interrupt_if_running() that follows close_soon().
InterruptCall(c) == IF Alive THEN "called" ELSE call[c]

\* The owner closes the worker, and interrupts it if the thread is alive.
CloseWorker(c) ==
    /\ Runs(c) /\ closer[c] = "worker"
    /\ CloseSoon
    /\ fut' = FutAfter(Rejected, "error") /\ phase' = PhaseAfter(Rejected)
    /\ closer' = [closer EXCEPT ![c] = IF Alive THEN "signal" ELSE "joined"]
    /\ call' = [call EXCEPT ![c] = InterruptCall(c)]
    /\ UNCHANGED <<pc, engine, startup, launcher, job, current, outcome, closing,
                   closed, signals, interrupted, loop>>

\* `if thread.is_alive()` after the join.
Ended == ~Alive

\* join(timeout): the thread ended, or the time did; then one more interrupt.
Join(c) ==
    /\ Runs(c) /\ call[c] = "idle"
    /\ \/ closer[c] = "signal" /\ closer' = [closer EXCEPT ![c] = "join"]
       \/ closer[c] = "join" /\ Ended /\ closer' = [closer EXCEPT ![c] = "joined"]
       \/ closer[c] = "late" /\ closer' = [closer EXCEPT ![c] = "timeout"]
    /\ UNCHANGED <<worker, requests, closing, closed, interrupts, loop>>

JoinTimeout(c) ==
    /\ Runs(c) /\ closer[c] = "join" /\ Alive
    /\ closer' = [closer EXCEPT ![c] = "late"]
    /\ call' = [call EXCEPT ![c] = "called"]
    /\ UNCHANGED <<worker, requests, closing, closed, signals, interrupted, loop>>

\* The event loop closes under whatever was awaiting on it.
LoopCloses ==
    /\ LoopFree
    /\ loop' = "closed"
    /\ UNCHANGED <<worker, requests, conns, interrupts>>

-----------------------------------------------------------------------------
WorkerStep ==
    \/ Attach \/ AttachFails \/ Get \/ Dispatch \/ RunEnds \/ Thrown \/ Finish
    \/ FinishFails \/ DeliverOutcome \/ FailWorker \/ Detach

RequestStep ==
    \/ Spawn
    \/ \E r \in Requests :
         Call(r) \/ StartupDone(r) \/ Admit(r) \/ CancelStartup(r) \/ Cancel(r)

InterruptStep ==
    \/ \E u \in Users : Interrupt(u)
    \/ \E x \in Callers : ReadEngine(x) \/ SendSignal(x)

CloseStep ==
    \E c \in Conns :
        \/ BeginClose(c) \/ CloseInterrupted(c) \/ CloseReleased(c) \/ FinishClose(c)
        \/ CloseWorker(c) \/ Join(c) \/ JoinTimeout(c)

Next == WorkerStep \/ RequestStep \/ InterruptStep \/ CloseStep \/ LoopCloses

Spec == Init /\ [][Next]_vars

-----------------------------------------------------------------------------
(* Properties.                                                              *)

\* The worker still reads its queue.
Serving == pc \in {"get", "dispatch", "run", "finish", "deliver"}

\* "It can never poison the next request" (_EngineThread): while the worker
\* serves, a signal that is still pending is aimed at the current request,
\* and there is at most one, so the drain's single engine call clears it.
SignalsAimAtCurrent ==
    Serving => \A r \in Requests : signals[r] > 0 => (r = current /\ signals[r] = 1)

\* A request the queue accepted is owed to somebody: its coroutine waits for
\* exactly one completion receipt, and until it came the request is in the
\* queue of a thread that will read it, or in that thread's hands.
AcceptedIsOwed ==
    \A r \in Requests :
        /\ receipt[r] <= 1
        /\ phase[r] = "sent" =>
             /\ receipt[r] = 0
             /\ r = job \/ r \in Queued
             /\ pc \notin {"none", "attach", "detach", "dead"}

\* Some call made for r, by its connection, by the owner or by a user returns.
CallReturns(r) ==
    \E x \in {r, ConnOf[r], Owner} \cup Users : call[x] # "idle" /\ call'[x] = "idle"

\* Only the request itself, its own connection, the owner or the user makes
\* a signal hit it: closing a borrower leaves another connection's work be.
BorrowersAreIsolated ==
    [][\A r \in Requests : signals'[r] > signals[r] => CallReturns(r)]_vars

\* The threads run: every step of the worker but the end of a goal that may
\* compute for ever, and every step of a call that was begun.
Fairness ==
    /\ WF_vars(Attach \/ AttachFails) /\ WF_vars(Get) /\ WF_vars(Dispatch)
    /\ WF_vars(Thrown) /\ WF_vars(Finish \/ FinishFails)
    /\ WF_vars(DeliverOutcome) /\ WF_vars(FailWorker) /\ WF_vars(Detach)
    /\ WF_vars(Spawn)
    /\ \A x \in Callers : WF_vars(ReadEngine(x)) /\ WF_vars(SendSignal(x))
    /\ \A c \in Conns :
         /\ WF_vars(CloseInterrupted(c)) /\ WF_vars(CloseReleased(c))
         /\ WF_vars(FinishClose(c)) /\ WF_vars(CloseWorker(c)) /\ WF_vars(Join(c))
    /\ \A r \in Requests : WF_vars(StartupDone(r)) /\ WF_vars(Admit(r))

FairSpec == Spec /\ Fairness

\* The coroutine that is closing can be lost with its loop; a thread cannot.
CloserLost == Owner \notin Stoppers /\ loop = "closed"

\* "Close refuses new work, interrupts a running request, rejects queued
\* requests": once the owner is closed every accepted request settles, a goal
\* that would compute for ever included.
CloseSettlesRequests ==
    \A r \in Requests : (Owner \in closed /\ phase[r] = "sent") ~> (phase[r] # "sent" \/ CloserLost)

\* The worker thread ends with its owner, so no engine stays attached.
ClosedWorkerEnds ==
    (Owner \in closed /\ pc \notin {"none", "dead"}) ~> (pc = "dead" \/ CloserLost)

=============================================================================
