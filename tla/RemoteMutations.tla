-------------------------- MODULE RemoteMutations --------------------------
(***************************************************************************)
(* Keyed mutations of a served space (metta/remote): the client that       *)
(* negotiates a key and retries, the HTTP handler threads, the one engine  *)
(* worker they share, and the gateway's replay ledger.                     *)
(*                                                                         *)
(* A client's attempt is a POST.  Its handler thread queues a request for  *)
(* the worker and waits, at most ten minutes; the client waits less.  The  *)
(* worker runs the gateway, which executes a key at most once and replays  *)
(* the recorded answer.  Executing a mutation may call the gateway again,  *)
(* so the gateway's calls nest.                                            *)
(*                                                                         *)
(* Requests that change nothing are left out: /health is the one step that *)
(* mints a token.  A mutation's atoms are its identity.                    *)
(***************************************************************************)
EXTENDS Naturals, Sequences, FiniteSets

CONSTANTS
    Mutations,      \* mutations a client may send; a fresh key is named after its mutation
    Direct,         \* those sent by a provider that calls the gateway while it executes
    Supplied,       \* those whose caller supplies the token of another mutation
    TTL,            \* mutation_ttl
    Limit,          \* mutation_limit
    None,           \* Python's None
    Stop,           \* the None that ends the worker's queue
    MaxTime, MaxAttempts, MaxDepth, MaxInstances    \* bounds of the model

ASSUME RemoteMutationsAssumption ==
    /\ Direct \subseteq Mutations /\ Supplied \subseteq Mutations
    /\ TTL \in Nat \ {0} /\ Limit \in Nat \ {0}
    /\ None \notin Mutations \cup (Mutations \X Nat) \cup {"ok", "unknown", "error", "fatal"}
    /\ None \notin [expires : Nat, of : Mutations, answer : {"ok", "unknown"}]
    /\ None \notin [scope : Nat, expires : Nat, key : Mutations]
    /\ Stop \notin Mutations \X Nat
    /\ {MaxTime, MaxAttempts} \subseteq Nat /\ {MaxDepth, MaxInstances} \subseteq Nat \ {0}

Attempts == (Mutations \ Direct) \X (1..MaxAttempts)

VARIABLES
    now,            \* time.monotonic() of the gateway
    scope,          \* _mutation_scope
    ledger,         \* _mutations: the entry a key holds
    heap,           \* _mutation_expiries
    calls,          \* the gateway calls on the worker's stack, innermost last
    state,          \* _RemoteWorker._state
    alive,          \* the worker thread is running
    failing,        \* a fatal error is on its way to _fail_running
    work,           \* _work
    current,        \* _current
    abandoned, interrupted,     \* requests with these marks
    signal,         \* a thread_signal is pending at the worker's engine
    http,           \* where an attempt and its handler thread are
    client, tries, token,       \* a client's knowledge, attempts and key
    applied         \* how often a mutation changed the space

time == <<now, scope>>
gateway == <<ledger, heap, calls, applied>>
worker == <<state, alive, failing, work, current, signal>>
requests == <<abandoned, interrupted, http>>
clients == <<client, tries, token>>
vars == <<time, gateway, worker, requests, clients>>

Tokens == [scope : 1..MaxInstances, expires : 0..(MaxTime + TTL), key : Mutations]
Entries == [expires : 0..(MaxTime + TTL), of : Mutations, answer : {"ok", "unknown"}]
Calls == [of : Mutations, inner : BOOLEAN, did : BOOLEAN,
          result : {None, "ok", "unknown", "error", "fatal"}]
Responses == {"ok", "unknown", "refused"}

TypeOK ==
    /\ now \in 0..MaxTime /\ scope \in 1..MaxInstances
    /\ ledger \in [Mutations -> Entries \cup {None}]
    /\ heap \subseteq (0..(MaxTime + TTL)) \X Mutations
    /\ calls \in Seq(Calls) /\ Len(calls) <= MaxDepth
    /\ state \in {"live", "closing", "failed"}
    /\ alive \in BOOLEAN /\ failing \in BOOLEAN /\ signal \in BOOLEAN
    /\ work \in Seq(Attempts \cup {Stop})
    /\ current \in Attempts \cup {None}
    /\ (calls = <<>>) = (current = None)
    /\ abandoned \subseteq Attempts /\ interrupted \subseteq Attempts
    /\ http \in [Attempts -> {"none", "wire", "waiting", "expired", "lost"} \cup Responses]
    /\ client \in [Mutations -> {"new", "ready", "waiting", "acked", "refused", "unknown"}]
    /\ tries \in [Mutations -> 0..MaxAttempts]
    /\ token \in [Mutations -> Tokens \cup {None}]
    /\ applied \in [Mutations -> Nat]

Init ==
    /\ now = 0 /\ scope = 1
    /\ ledger = [m \in Mutations |-> None] /\ heap = {} /\ calls = <<>>
    /\ state = "live" /\ alive = TRUE /\ failing = FALSE
    /\ work = <<>> /\ current = None /\ signal = FALSE
    /\ abandoned = {} /\ interrupted = {}
    /\ http = [a \in Attempts |-> "none"]
    /\ client = [m \in Mutations |-> "new"]
    /\ tries = [m \in Mutations |-> 0]
    /\ token = [m \in Mutations |-> None]
    /\ applied = [m \in Mutations |-> 0]

-----------------------------------------------------------------------------
(* The client: _mutate, attempt and OutcomeUnknown.retry.                   *)

\* The contract /health advertises, with a fresh key; a caller's own token
\* is accepted when it names this gateway instance.
Minted(m) == [scope |-> scope, expires |-> now + TTL, key |-> m]
Offered == {token[m] : m \in {n \in Mutations : token[n] # None /\ token[n].scope = scope}}

Negotiate(m) ==
    /\ client[m] = "new" /\ alive /\ state = "live"
    /\ (calls # <<>>) = (m \in Direct)
    /\ \E t \in {Minted(m)} \cup (IF m \in Supplied THEN Offered ELSE {}) :
           token' = [token EXCEPT ![m] = t]
    /\ client' = [client EXCEPT ![m] = "ready"]
    /\ UNCHANGED <<time, gateway, worker, requests, tries>>

\* The first attempt, or a retry.
Attempt(m) ==
    /\ client[m] \in {"ready", "unknown"} /\ tries[m] < MaxAttempts
    /\ tries' = [tries EXCEPT ![m] = @ + 1]
    /\ client' = [client EXCEPT ![m] = "waiting"]
    /\ UNCHANGED token

Send(m) ==
    /\ m \notin Direct /\ Attempt(m)
    /\ http' = [http EXCEPT ![<<m, tries'[m]>>] = "wire"]
    /\ UNCHANGED <<time, gateway, worker, abandoned, interrupted>>

\* What an answer tells the client: a refused retry settles nothing.
Learn(m, response) ==
    client' = [client EXCEPT ![m] =
        IF response = "ok" THEN "acked"
        ELSE IF response = "refused" /\ tries[m] = 1 THEN "refused"
        ELSE "unknown"]

Hear(m) ==
    /\ m \notin Direct /\ client[m] = "waiting"
    /\ LET response == http[<<m, tries[m]>>] IN
       response \in Responses /\ Learn(m, response)
    /\ UNCHANGED <<time, gateway, worker, requests, tries, token>>

\* The transport's timeout, a broken connection or a lost response.
GiveUp(m) ==
    /\ m \notin Direct /\ client[m] = "waiting"
    /\ Learn(m, "unknown")
    /\ UNCHANGED <<time, gateway, worker, requests, tries, token>>

-----------------------------------------------------------------------------
(* The gateway: Gateway._mutate.                                            *)

\* Mutant: a token is accepted at the instant its entry is pruned.
LiveAtExpiry(t) == t.scope = scope /\ now <= t.expires /\ t.expires <= now + TTL

\* _idempotency_token_is_live
IsLive(t) == t.scope = scope /\ now < t.expires /\ t.expires <= now + TTL

\* Mutant: an entry is pruned one tick before its key expires.
StaleEarly == {e \in heap : e[1] <= now + 1}

\* The entries that every keyed call prunes first.
Stale == {e \in heap : e[1] <= now}
Pruned == [k \in Mutations |-> IF \E e \in Stale : e[2] = k THEN None ELSE ledger[k]]
Held(book) == {k \in Mutations : book[k] # None}

\* A call enters _mutate: it is refused, replays an answer, or reserves its
\* key and begins to execute.
Enter(m, inner) ==
    LET t == token[m]
        held == Pruned[t.key]
        push(result) ==
            calls' = Append(calls, [of |-> m, inner |-> inner, did |-> FALSE, result |-> result])
    IN  \/ /\ ~IsLive(t) /\ push("error")
           /\ UNCHANGED <<ledger, heap>>
        \/ /\ IsLive(t) /\ heap' = heap \ Stale /\ ledger' = Pruned
           /\ \/ held # None /\ held.of = m /\ push(held.answer)
              \/ held # None /\ held.of # m /\ push("error")
              \/ held = None /\ Cardinality(Held(Pruned)) >= Limit /\ push("error")
        \/ /\ IsLive(t) /\ held = None /\ Cardinality(Held(Pruned)) < Limit
           /\ ledger' = [Pruned EXCEPT ![t.key] =
                            [expires |-> t.expires, of |-> m, answer |-> "unknown"]]
           /\ heap' = (heap \ Stale) \cup {<<t.expires, t.key>>}
           /\ push(None)

Top == calls[Len(calls)]
Executing == calls # <<>> /\ Top.result = None
Outcome(result) == calls' = [calls EXCEPT ![Len(calls)].result = result]

\* Mutant: a late completion writes its entry whether or not it was pruned.
RecordAlways(answer) ==
    LET t == token[Top.of] IN
    ledger' = [ledger EXCEPT ![t.key] = [expires |-> t.expires, of |-> Top.of, answer |-> answer]]

\* The recorded answer, if the reservation is still this call's.
Record(answer) ==
    LET k == token[Top.of].key IN
    IF ledger[k] # None /\ ledger[k].of = Top.of
    THEN ledger' = [ledger EXCEPT ![k].answer = answer]
    ELSE UNCHANGED ledger

\* The space changes.
Perform ==
    /\ Executing /\ ~Top.did
    /\ applied' = [applied EXCEPT ![Top.of] = @ + 1]
    /\ calls' = [calls EXCEPT ![Len(calls)].did = TRUE]
    /\ UNCHANGED <<time, ledger, heap, worker, requests, clients>>

Complete ==
    /\ Executing /\ Top.did
    /\ Outcome("ok") /\ Record("ok")
    /\ UNCHANGED <<time, heap, applied, worker, requests, clients>>

\* The operation raises, before or after the change; an interrupt does it too.
Raise ==
    /\ Executing
    /\ Outcome("unknown") /\ Record("unknown")
    /\ signal' \in {signal, FALSE}
    /\ UNCHANGED <<time, heap, applied, state, alive, failing, work, current, requests, clients>>

\* It raises a BaseException, which _mutate does not catch.
Abort ==
    /\ Executing /\ Len(calls) = 1
    /\ Outcome("fatal")
    /\ UNCHANGED <<time, ledger, heap, applied, worker, requests, clients>>

\* The executing operation calls the gateway: another mutation with its own
\* key, or the key being executed once more.
Reenter(m) ==
    /\ Executing /\ Len(calls) < MaxDepth
    /\ \/ m \in Direct /\ Attempt(m) /\ Enter(m, TRUE)
       \/ /\ \E i \in 1..Len(calls) : calls[i].of = m
          /\ Enter(m, FALSE)
          /\ UNCHANGED clients
    /\ UNCHANGED <<time, applied, worker, requests>>

\* A nested call returns to the operation; a direct client learns its answer.
Return ==
    /\ Len(calls) > 1 /\ Top.result # None
    /\ calls' = SubSeq(calls, 1, Len(calls) - 1)
    /\ IF Top.inner
       THEN Learn(Top.of, IF Top.result = "error" THEN "refused" ELSE Top.result)
       ELSE UNCHANGED client
    /\ UNCHANGED <<time, ledger, heap, applied, worker, requests, tries, token>>

-----------------------------------------------------------------------------
(* The worker thread: _RemoteWorker._work_loop and _fail_running.           *)

Serve ==
    /\ alive /\ ~failing /\ current = None /\ work # <<>>
    /\ work' = Tail(work)
    /\ LET a == Head(work) IN
       \/ /\ a = Stop /\ alive' = FALSE
          /\ UNCHANGED <<current, ledger, heap, calls>>
       \/ /\ a # Stop /\ a \in abandoned
          /\ UNCHANGED <<alive, current, ledger, heap, calls>>
       \/ /\ a # Stop /\ a \notin abandoned
          /\ current' = a /\ Enter(a[1], FALSE)
          /\ UNCHANGED alive
    /\ UNCHANGED <<time, applied, state, failing, signal, requests, clients>>

\* An error of the gateway is answered as an unknown outcome.
ReplyTo(result) == IF result = "ok" THEN "ok" ELSE "unknown"

\* Mutant: no engine call at the end of an interrupted request.
NoDrain == signal

\* _drain: a signal that raced the end of its request is thrown here.
Drain == FALSE

\* The outcome is known: in one transition the worker forgets the request,
\* drains a late signal and replies unless the handler has left.
Finish ==
    /\ Len(calls) = 1 /\ Top.result # None
    /\ \E drained \in {TRUE} \cup {current \notin interrupted} :
       /\ failing' = (Top.result = "fatal" \/ ~drained)
       /\ http' = IF current \in abandoned THEN http
                  ELSE [http EXCEPT ![current] = IF drained THEN ReplyTo(Top.result) ELSE "unknown"]
    /\ current' = None /\ calls' = <<>> /\ signal' = Drain
    /\ UNCHANGED <<time, ledger, heap, applied, state, alive, work, abandoned, interrupted, clients>>

Queued == {a \in Attempts : \E i \in 1..Len(work) : work[i] = a}

FailRunning ==
    /\ failing
    /\ state' = "failed" /\ alive' = FALSE /\ failing' = FALSE
    /\ work' = <<>>
    /\ abandoned' = abandoned \cup Queued
    /\ http' = [a \in Attempts |-> IF a \in Queued /\ http[a] = "waiting" THEN "unknown" ELSE http[a]]
    /\ UNCHANGED <<time, gateway, current, signal, interrupted, clients>>

-----------------------------------------------------------------------------
(* The handler threads: do_POST, _worker_response and _RemoteWorker.call.   *)

\* Mutant: a closing worker takes requests while its thread runs.
AliveIsEnough == alive

Accepting == state = "live" /\ alive

Receive(a) ==
    /\ http[a] = "wire"
    /\ IF Accepting
       THEN http' = [http EXCEPT ![a] = "waiting"] /\ work' = Append(work, a)
       ELSE http' = [http EXCEPT ![a] = "refused"] /\ UNCHANGED work
    /\ UNCHANGED <<time, gateway, state, alive, failing, current, signal, abandoned, interrupted, clients>>

\* The ten minutes are over.
Expire(a) ==
    /\ http[a] = "waiting"
    /\ http' = [http EXCEPT ![a] = "expired"]
    /\ abandoned' = abandoned \cup {a}
    /\ UNCHANGED <<time, gateway, worker, interrupted, clients>>

\* _interrupt_if_running, then a TimeoutError, which is an unknown outcome.
Interrupt(a) ==
    /\ http[a] = "expired"
    /\ \/ /\ current # a
          /\ http' = [http EXCEPT ![a] = "unknown"]
          /\ UNCHANGED <<signal, interrupted>>
       \/ /\ current = a /\ signal' = TRUE
          /\ interrupted' = interrupted \cup {a}
          /\ http' = [http EXCEPT ![a] = "unknown"]
    /\ UNCHANGED <<time, gateway, state, alive, failing, work, current, abandoned, clients>>

-----------------------------------------------------------------------------
(* The server and its host.                                                 *)

\* Server.close: the worker is told to end once its queue is served.
CloseServer ==
    /\ state = "live"
    /\ state' = "closing" /\ work' = Append(work, Stop)
    /\ UNCHANGED <<time, gateway, alive, failing, current, signal, requests, clients>>

\* The process dies, at any point, and a new one serves the same address: a
\* new gateway with a new scope, an empty ledger and another monotonic clock.
Restart ==
    /\ scope < MaxInstances
    /\ scope' = scope + 1 /\ now' \in {0, now}
    /\ ledger' = [m \in Mutations |-> None] /\ heap' = {} /\ calls' = <<>>
    /\ state' = "live" /\ alive' = TRUE /\ failing' = FALSE
    /\ work' = <<>> /\ current' = None /\ signal' = FALSE
    /\ http' = [a \in Attempts |-> IF http[a] \in {"waiting", "expired"} THEN "lost" ELSE http[a]]
    /\ UNCHANGED <<applied, abandoned, interrupted, clients>>

Tick ==
    /\ now < MaxTime /\ now' = now + 1
    /\ UNCHANGED <<scope, gateway, worker, requests, clients>>

Next ==
    \/ \E m \in Mutations : Negotiate(m) \/ Send(m) \/ Hear(m) \/ GiveUp(m) \/ Reenter(m)
    \/ Perform \/ Complete \/ Raise \/ Abort \/ Return
    \/ Serve \/ Finish \/ FailRunning
    \/ \E a \in Attempts : Receive(a) \/ Expire(a) \/ Interrupt(a)
    \/ CloseServer \/ Restart \/ Tick

Spec == Init /\ [][Next]_vars

-----------------------------------------------------------------------------
(* Properties.                                                              *)

Verdict(m) ==
    CASE client[m] \in {"new", "ready", "waiting"} -> IF tries[m] <= 1 THEN "open" ELSE "doubt"
      [] client[m] = "unknown" -> "doubt"
      [] OTHER -> client[m]

Promise == INSTANCE MutationOnce WITH
    effect <- applied, verdict <- [m \in Mutations |-> Verdict(m)]

\* Whatever is lost, delayed, retried, interrupted or restarted, a mutation
\* changes the space at most once, is acknowledged only if it did, and is
\* refused only if it never will (Gateway._mutate, OutcomeUnknown).
AtMostOnce == Promise!Spec

\* Every ledger entry is scheduled for pruning exactly once, and nothing else
\* is: a late completion never revives an entry that nested work pruned
\* (Gateway._mutate), so the ledger stays bounded and pruning never fails.
LedgerIsPrunable == heap = {<<ledger[k].expires, k>> : k \in Held(ledger)}

\* While a gateway runs, an answer it recorded stays what a retry is told
\* until the key expires (OutcomeUnknown.retry returns the original
\* acknowledgement).
AnswersAreRetained ==
    [][\A k \in Mutations :
         scope' = scope /\ ledger[k] # None /\ now < ledger[k].expires
         => /\ ledger'[k] # None
            /\ ledger'[k].of = ledger[k].of
            /\ ledger[k].answer = "ok" => ledger'[k].answer = "ok"]_vars

\* A handler thread waits only for a request the worker will still answer:
\* one ahead of the stop marker in its queue, or the current one
\* (_RemoteWorker.call, stop and _fail_running).
WaitersAreOwed ==
    \A a \in Attempts : http[a] = "waiting" =>
        /\ alive
        /\ \/ current = a
           \/ \E i \in 1..Len(work) : work[i] = a /\ \A j \in 1..i : work[j] # Stop

\* A pending interrupt belongs to the request that is running and that its
\* handler has abandoned, never to one that follows (_interrupt_if_running,
\* _drain).
SignalIsAimed == signal => current \in abandoned \cap interrupted
=============================================================================
