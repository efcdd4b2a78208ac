--------------------------- MODULE RemoteCursors ---------------------------
(***************************************************************************)
(* Answer streams of a served space (metta/remote): a RemoteCursor asks    *)
(* for a stream, pulls it chunk by chunk and stops it; the gateway keeps   *)
(* one engine cursor per stream in a table with an idle deadline and a     *)
(* limit; the server closes the table when its worker has ended.           *)
(*                                                                         *)
(* All gateway work runs on the one worker thread, in the order the        *)
(* requests were queued.  A client may lose a response, time out while its *)
(* request is still queued, go on after an error, or walk away.            *)
(*                                                                         *)
(* The token of a stream is the stream itself.  Answers are numbered.      *)
(***************************************************************************)
EXTENDS Naturals, Sequences, FiniteSets, FiniteSetsExt

CONSTANTS
    Streams,        \* RemoteCursor objects
    Stubborn,       \* those whose engine cursor raises when it is closed
    BoundsOf,       \* the bounds a stream may ask for: answers at most, or None
    Answers,        \* how many answers its pattern has
    Batch,          \* answers per chunk
    Idle,           \* cursor_idle
    Limit,          \* cursor_limit
    None,           \* Python's None
    Marker,         \* the None that ends the worker's queue
    MaxTime,        \* bound of the model: ticks
    MaxRequests     \* bound of the model: requests per stream

ASSUME RemoteCursorsAssumption ==
    /\ Stubborn \subseteq Streams
    /\ BoundsOf \in [Streams -> SUBSET (Nat \cup {None})]
    /\ Answers \in Nat /\ {Batch, Idle, Limit} \subseteq Nat \ {0}
    /\ MaxTime \in Nat /\ MaxRequests \in [Streams -> Nat]
    /\ None \notin Streams \cup Nat

VARIABLES
    now,            \* time.monotonic()
    table,          \* _Cursors._open: the deadline of a stream it holds
    engine,         \* the engine cursor behind a stream
    taken,          \* answers taken from it
    bound,          \* the bound it was asked with
    work,           \* requests queued for the worker
    busy,           \* the request it is running
    alive,          \* the worker thread runs
    server,         \* how far Server.close() has come
    client,         \* where a RemoteCursor is
    holds,          \* its _token is not None
    sent,           \* how many requests it sent; the last is the one it waits for
    reply,          \* the answer to that request
    seen,           \* the answers it received
    hurt            \* one of its calls raised

gateway == <<table, engine, taken, bound>>
worker == <<work, busy, alive>>
clients == <<client, holds, sent, seen, hurt>>
vars == <<now, gateway, worker, server, clients, reply>>

Requests == [op : {"ask", "next", "stop"}, of : Streams, id : Nat]
ASSUME SentinelAssumption == {None, Marker} \cap Requests = {}
Chunks == SUBSET (1..Answers)
Replies == [is : {"none", "error", "stopped", "chunk"}, atoms : Chunks, more : BOOLEAN]
Bare(kind) == [is |-> kind, atoms |-> {}, more |-> FALSE]
NoReply == Bare("none")
Error == Bare("error")
Places == {"new", "asking", "open", "pulling", "stopping", "ended", "closed", "gone"}

TypeOK ==
    /\ now \in 0..MaxTime
    /\ table \in [Streams -> (0..(MaxTime + Idle)) \cup {None}]
    /\ engine \in [Streams -> {"none", "open", "closed"}]
    /\ taken \in [Streams -> 0..Answers]
    /\ bound \in [Streams -> Nat \cup {None}]
    /\ work \in Seq(Requests \cup {Marker})
    /\ busy \in Requests \cup {None}
    /\ alive \in BOOLEAN
    /\ server \in {"open", "closing", "failed", "closed"}
    /\ client \in [Streams -> Places]
    /\ holds \in [Streams -> BOOLEAN]
    /\ sent \in [Streams -> Nat] /\ \A s \in Streams : sent[s] <= MaxRequests[s]
    /\ reply \in [Streams -> Replies]
    /\ seen \in [Streams -> Chunks]
    /\ hurt \in [Streams -> BOOLEAN]

Init ==
    /\ now = 0
    /\ table = [s \in Streams |-> None]
    /\ engine = [s \in Streams |-> "none"]
    /\ taken = [s \in Streams |-> 0]
    /\ bound = [s \in Streams |-> None]
    /\ work = <<>> /\ busy = None /\ alive = TRUE /\ server = "open"
    /\ client = [s \in Streams |-> "new"]
    /\ holds = [s \in Streams |-> FALSE]
    /\ sent = [s \in Streams |-> 0]
    /\ reply = [s \in Streams |-> NoReply]
    /\ seen = [s \in Streams |-> {}]
    /\ hurt = [s \in Streams |-> FALSE]

-----------------------------------------------------------------------------
(* The client: RemoteCursor.                                                *)

\* A POST: its request reaches the worker's queue, or the server is closing.
Post(s, op) ==
    /\ sent[s] < MaxRequests[s]
    /\ sent' = [sent EXCEPT ![s] = @ + 1]
    /\ IF server = "open"
       THEN /\ work' = Append(work, [op |-> op, of |-> s, id |-> sent'[s]])
            /\ reply' = [reply EXCEPT ![s] = NoReply]
       ELSE /\ reply' = [reply EXCEPT ![s] = Error] /\ UNCHANGED work

Ask(s) ==
    /\ client[s] = "new" /\ Post(s, "ask")
    /\ \E b \in BoundsOf[s] : bound' = [bound EXCEPT ![s] = b]
    /\ client' = [client EXCEPT ![s] = "asking"]
    /\ UNCHANGED <<now, table, engine, taken, busy, alive, server, holds, seen, hurt>>

\* _next_atom with an empty buffer: the next chunk, or the end.
Pull(s) ==
    /\ client[s] = "open"
    /\ \/ /\ holds[s] /\ Post(s, "next")
          /\ client' = [client EXCEPT ![s] = "pulling"]
       \/ /\ ~holds[s]
          /\ client' = [client EXCEPT ![s] = "ended"]
          /\ UNCHANGED <<sent, work, reply>>
    /\ UNCHANGED <<now, gateway, busy, alive, server, holds, seen, hurt>>

\* close(): a held token is stopped first.
Close(s) ==
    /\ client[s] \in {"open", "ended"}
    /\ \/ /\ holds[s] /\ Post(s, "stop")
          /\ client' = [client EXCEPT ![s] = "stopping"]
       \/ /\ ~holds[s]
          /\ client' = [client EXCEPT ![s] = "closed"]
          /\ UNCHANGED <<sent, work, reply>>
    /\ UNCHANGED <<now, gateway, busy, alive, server, holds, seen, hurt>>

\* Mutant: a close that fails is a close.
ClosedAnyway == [asking |-> "gone", pulling |-> "open", stopping |-> "closed"]

\* Where an error leaves the cursor: a failed constructor leaves no object,
\* a failed pull or stop leaves an open one with its token.
AfterError == [asking |-> "gone", pulling |-> "open", stopping |-> "open"]

Waiting(s) == client[s] \in DOMAIN AfterError

\* The response arrives: _absorb, or the answer to /stop.
Hear(s) ==
    /\ Waiting(s) /\ reply[s].is # "none"
    /\ \/ /\ reply[s].is = "error"
          /\ client' = [client EXCEPT ![s] = AfterError[client[s]]]
          /\ hurt' = [hurt EXCEPT ![s] = TRUE]
          /\ UNCHANGED <<holds, seen>>
       \/ /\ reply[s].is = "stopped"
          /\ client' = [client EXCEPT ![s] = "closed"]
          /\ holds' = [holds EXCEPT ![s] = FALSE]
          /\ UNCHANGED <<seen, hurt>>
       \/ /\ reply[s].is = "chunk"
          /\ client' = [client EXCEPT ![s] = "open"]
          /\ holds' = [holds EXCEPT ![s] = reply[s].more]
          /\ seen' = [seen EXCEPT ![s] = @ \cup reply[s].atoms]
          /\ UNCHANGED hurt
    /\ reply' = [reply EXCEPT ![s] = NoReply]
    /\ UNCHANGED <<now, gateway, worker, server, sent>>

\* The transport gives up: a timeout, or a broken connection.
Lose(s) ==
    /\ Waiting(s)
    /\ client' = [client EXCEPT ![s] = AfterError[client[s]]]
    /\ hurt' = [hurt EXCEPT ![s] = TRUE]
    /\ reply' = [reply EXCEPT ![s] = NoReply]
    /\ UNCHANGED <<now, gateway, worker, server, holds, sent, seen>>

\* The consumer drops the cursor; __del__ sends nothing.
Discard(s) ==
    /\ client[s] = "open"
    /\ client' = [client EXCEPT ![s] = "gone"]
    /\ UNCHANGED <<now, gateway, worker, server, holds, sent, reply, seen, hurt>>

-----------------------------------------------------------------------------
(* The gateway: _Cursors, _ask, _next and _stop.                            *)

Expired == {s \in Streams : table[s] # None /\ table[s] <= now}
Swept == [s \in Streams |-> IF s \in Expired THEN None ELSE table[s]]
SweepRaises == Expired \cap Stubborn # {}

\* A set of engine cursors after every one of them was closed.
Closing(S) == [s \in Streams |-> IF s \in S THEN "closed" ELSE engine[s]]

Full == Cardinality({s \in Streams : Swept[s] # None}) >= Limit

\* What the client that waits for a request is told.
Tell(r, answer) ==
    reply' = IF Waiting(r.of) /\ sent[r.of] = r.id THEN [reply EXCEPT ![r.of] = answer] ELSE reply

\* _pull: at most a batch and at most what remains of the bound.
Remaining(s) == bound[s] - taken[s]
Want(s) == IF bound[s] = None THEN Batch ELSE Min({Batch, Remaining(s)})
Got(s) == Min({Want(s), Answers - taken[s]})
Done(s) == Got(s) < Want(s) \/ (bound[s] # None /\ Got(s) = Remaining(s))
Chunk(s, more) == [is |-> "chunk", atoms |-> (taken[s] + 1)..(taken[s] + Got(s)), more |-> more]
Took(s) == [taken EXCEPT ![s] = @ + Got(s)]

\* An empty last chunk: the answer to a bound of zero.
EmptyAnswer == Bare("chunk")

\* Mutant: an unknown token is answered like a stream that has ended.
EndInstead == EmptyAnswer

\* take() of a token the table does not hold.
NoSuchCursor == Error

\* A request begins: /ask opens the engine cursor, /next sweeps and takes
\* its entry, which may already fail.
Begin ==
    /\ alive /\ busy = None /\ work # <<>> /\ Head(work) # Marker
    /\ work' = Tail(work)
    /\ LET r == Head(work)
           s == r.of
       IN  \/ /\ r.op = "ask" /\ busy' = r
              /\ engine' = [engine EXCEPT ![s] = "open"]
              /\ UNCHANGED <<table, reply>>
           \/ /\ r.op = "next" /\ ~SweepRaises /\ Swept[s] # None
              /\ busy' = r
              /\ table' = [Swept EXCEPT ![s] = now + Idle]
              /\ engine' = Closing(Expired)
              /\ UNCHANGED reply
           \/ /\ r.op = "next" /\ (SweepRaises \/ Swept[s] = None)
              /\ Tell(r, IF SweepRaises THEN Error ELSE NoSuchCursor)
              /\ table' = Swept /\ engine' = Closing(Expired)
              /\ UNCHANGED busy
           \/ /\ r.op = "stop" /\ busy' = r
              /\ UNCHANGED <<table, engine, reply>>
    /\ UNCHANGED <<now, taken, bound, alive, server, clients>>

\* Mutant: a refused entry keeps its engine cursor.
KeptOnRefusal(s) == {}

\* The engine cursor a failed _ask closes.
ClosedOnRefusal(s) == {s}

\* /ask: the first chunk, then an entry in the table if there is more.  A
\* bound of zero closes the cursor unread; a failed pull, sweep or admission
\* closes it too.
EndAsk(r) ==
    LET s == r.of IN
    \/ /\ bound[s] = 0
       /\ engine' = Closing({s}) /\ UNCHANGED <<table, taken>>
       /\ Tell(r, IF s \in Stubborn THEN Error ELSE EmptyAnswer)
    \/ /\ bound[s] # 0                                    \* the pull raises
       /\ engine' = Closing({s}) /\ UNCHANGED <<table, taken>>
       /\ Tell(r, Error)
    \/ /\ bound[s] # 0 /\ Done(s)
       /\ taken' = Took(s) /\ engine' = Closing({s}) /\ UNCHANGED table
       /\ Tell(r, IF s \in Stubborn THEN Error ELSE Chunk(s, FALSE))
    \/ /\ bound[s] # 0 /\ ~Done(s) /\ taken' = Took(s)
       /\ IF SweepRaises \/ Full
          THEN /\ table' = Swept /\ Tell(r, Error)
               /\ engine' = Closing(Expired \cup ClosedOnRefusal(s))
          ELSE /\ table' = [Swept EXCEPT ![s] = now + Idle] /\ Tell(r, Chunk(s, TRUE))
               /\ engine' = Closing(Expired)

\* release(): sweep, then let go of the entry and close it.  A sweep that
\* raises leaves the entry in the table.
Released(s) == IF SweepRaises THEN Swept ELSE [Swept EXCEPT ![s] = None]
ClosedBy(s) == Expired \cup (IF SweepRaises \/ Swept[s] = None THEN {} ELSE {s})
ReleaseRaises(s) == SweepRaises \/ (Swept[s] # None /\ s \in Stubborn)

\* /next: a chunk; the last one, or a failed pull, releases the entry.
EndNext(r) ==
    LET s == r.of IN
    \/ /\ ~Done(s) /\ taken' = Took(s)
       /\ Tell(r, Chunk(s, TRUE))
       /\ UNCHANGED <<table, engine>>
    \/ /\ Done(s) /\ taken' = Took(s)
       /\ table' = Released(s) /\ engine' = Closing(ClosedBy(s))
       /\ Tell(r, IF ReleaseRaises(s) THEN Error ELSE Chunk(s, FALSE))
    \/ /\ UNCHANGED taken                                   \* the pull raises
       /\ table' = Released(s) /\ engine' = Closing(ClosedBy(s))
       /\ Tell(r, Error)

EndStop(r) ==
    /\ table' = Released(r.of) /\ engine' = Closing(ClosedBy(r.of))
    /\ Tell(r, IF ReleaseRaises(r.of) THEN Error ELSE Bare("stopped"))
    /\ UNCHANGED taken

End ==
    /\ busy # None /\ busy' = None
    /\ \/ busy.op = "ask" /\ EndAsk(busy)
       \/ busy.op = "next" /\ EndNext(busy)
       \/ busy.op = "stop" /\ EndStop(busy)
    /\ UNCHANGED <<now, bound, work, alive, server, clients>>

-----------------------------------------------------------------------------
(* The server: Server.close and the worker's end.                           *)

\* The socket is closed and the worker told to end; another close() waits
\* for it again.
CloseServer ==
    /\ \/ server = "open" /\ work' = Append(work, Marker)
       \/ server = "failed" /\ UNCHANGED work
    /\ server' = "closing"
    /\ UNCHANGED <<now, gateway, busy, alive, clients, reply>>

WorkerEnds ==
    /\ alive /\ busy = None /\ work # <<>> /\ Head(work) = Marker
    /\ alive' = FALSE /\ work' = Tail(work)
    /\ UNCHANGED <<now, gateway, busy, server, clients, reply>>

\* Mutant: the cursors are released whether or not the worker ended.
ReleasesAlways == TRUE

\* Each cursor holds an engine the worker may be inside.
MayRelease == ~alive

\* Mutant: the server counts as closed although its worker runs.
ClosedRegardless == "closed"

AfterJoin == IF alive THEN "failed" ELSE "closed"

\* The join returned: the table is closed if the worker ended, and kept for
\* a later close() if the join timed out.
Joined ==
    /\ server = "closing"
    /\ server' = AfterJoin
    /\ IF MayRelease
       THEN /\ table' = [s \in Streams |-> None]
            /\ engine' = Closing({s \in Streams : table[s] # None})
       ELSE UNCHANGED <<table, engine>>
    /\ UNCHANGED <<now, taken, bound, worker, clients, reply>>

Tick ==
    /\ now < MaxTime /\ now' = now + 1
    /\ UNCHANGED <<gateway, worker, server, clients, reply>>

Next ==
    \/ \E s \in Streams : Ask(s) \/ Pull(s) \/ Close(s) \/ Hear(s) \/ Lose(s) \/ Discard(s)
    \/ Begin \/ End \/ CloseServer \/ WorkerEnds \/ Joined \/ Tick

Spec == Init /\ [][Next]_vars

-----------------------------------------------------------------------------
(* Properties.                                                              *)

\* An engine cursor is open exactly while the table can release it or the
\* request that opened it still runs: at the limit, after a failed pull and
\* after a sweep that raised, none is left behind (_ask, _close_every), and
\* the table never holds more than its limit (_Cursors.open).
EnginesAreOwned ==
    /\ Cardinality({s \in Streams : table[s] # None}) <= Limit
    /\ \A s \in Streams : engine[s] = "open" <=>
        table[s] # None \/ (busy # None /\ busy.of = s /\ busy.op = "ask")

\* A stream whose calls never raised and that ends has delivered every answer
\* up to its bound: a released or expired cursor is an error, never an end
\* (_Cursors.take, "under-answering is the one thing this protocol forbids").
EndIsComplete ==
    \A s \in Streams : client[s] = "ended" /\ ~hurt[s] =>
        seen[s] = 1..(IF bound[s] = None THEN Answers ELSE Min({Answers, bound[s]}))

\* A cursor that ended or whose close() returned holds no engine at the
\* server, however many of its stops failed before (RemoteCursor.close).
ClosedIsReleased ==
    \A s \in Streams : client[s] \in {"ended", "closed"} => engine[s] # "open"

\* No engine cursor is closed under the request that is pulling from it,
\* except by that request itself (Server.close).
NeverClosedUnderPull ==
    [][\A s \in Streams :
         busy # None /\ busy.of = s /\ engine[s] = "open" /\ engine'[s] = "closed"
         => busy' = None]_vars

\* A closed server has released every engine, the streams clients walked away
\* from included (Server.close).
ClosedServerHoldsNothing == server = "closed" => \A s \in Streams : engine[s] # "open"
=============================================================================
