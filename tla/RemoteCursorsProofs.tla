------------------------ MODULE RemoteCursorsProofs ------------------------
(***************************************************************************)
(* Theorems about the answer streams of a served space, for any number of  *)
(* streams, answers and requests and any batch, limit and idle time: every *)
(* engine cursor has an owner, none is closed under a pull, a stream that  *)
(* ended has released its engine and, if nothing failed, was complete.     *)
(***************************************************************************)
EXTENDS RemoteCursors, SequenceTheorems, FiniteSetTheorems, TLAPS

-----------------------------------------------------------------------------
(* The inductive invariant.                                                 *)

Held == {s \in Streams : table[s] # None}

\* Requests that are queued or run.
Pending == {r \in {work[i] : i \in 1..Len(work)} \cup {busy} : r \in Requests}

\* How many answers a stream has, up to its bound.
Total(s) == IF bound[s] = None THEN Answers ELSE Min({Answers, bound[s]})

\* Values are of their types.
ShapeInv ==
    /\ TypeOK
    /\ \A s \in Streams : bound[s] # None => taken[s] <= bound[s]

\* No request is pending twice.
OnceInv ==
    /\ \A i, j \in 1..Len(work) : i # j /\ work[i] = work[j] => work[i] = Marker
    /\ busy \in Requests => \A i \in 1..Len(work) : work[i] # busy
    /\ \A r, q \in Pending : r.of = q.of /\ r.id = q.id => r = q

\* Engines belong to the table or to the request that opened them; nothing runs
\* once the worker has ended, and a closed server has an empty table.
OwnInv ==
    /\ IsFiniteSet(Held) /\ EnginesAreOwned
    /\ ~alive => busy = None
    /\ server = "closed" => ~alive /\ Held = {}

\* While the request that opens a stream is pending, nothing else of the stream
\* is: not an entry, not an answer, not a client that went on.
AskInv(s) ==
    /\ \A r \in Pending : r.of = s =>
         /\ r.id <= sent[s] /\ client[s] # "new"
         /\ r.op = "ask" =>
              /\ r.id = 1 /\ table[s] = None /\ taken[s] = 0
              /\ client[s] \in {"asking", "gone"}
              /\ reply[s].is \notin {"chunk", "stopped"}
         /\ r.op # "ask" => \A q \in Pending : q.of = s => q.op # "ask"
    /\ client[s] = "new" =>
         sent[s] = 0 /\ bound[s] = None /\ taken[s] = 0 /\ seen[s] = {} /\ table[s] = None

\* Where the client of a stream is, against its token and its answer.
ClientInv(s) ==
    /\ client[s] \in {"pulling", "stopping"} => holds[s]
    /\ reply[s].is = "none" \/ Waiting(s)

\* A stream that is over holds no engine.
OverInv(s) ==
    /\ reply[s].is = "stopped" \/ (reply[s].is = "chunk" /\ ~reply[s].more)
         => engine[s] # "open"
    /\ client[s] = "open" /\ ~holds[s] => engine[s] # "open"
    /\ client[s] \in {"ended", "closed"} => engine[s] # "open"

\* What an unhurt client knows: it waits for the one request it sent, it has
\* seen what was taken, and its stream ends when everything was taken.
AnswerInv(s) ==
    ~hurt[s] /\ client[s] # "gone" =>
        /\ \A r \in Pending : r.of = s =>
             Waiting(s) /\ r.id = sent[s] /\ reply[s].is = "none"
        /\ reply[s].is \in {"none", "stopped"} => seen[s] = 1..taken[s]
        /\ reply[s].is = "chunk" =>
             /\ seen[s] \cup reply[s].atoms = 1..taken[s]
             /\ ~reply[s].more => taken[s] = Total(s)
        /\ client[s] = "open" /\ ~holds[s] => taken[s] = Total(s)
        /\ client[s] = "ended" => taken[s] = Total(s)

StreamInv(s) == AskInv(s) /\ ClientInv(s) /\ OverInv(s) /\ AnswerInv(s)

IInv == ShapeInv /\ OnceInv /\ OwnInv /\ \A s \in Streams : StreamInv(s)

-----------------------------------------------------------------------------
(* Numbers, waiting and the worker's queue.                                 *)

\* The lesser of two.
LEMMA MinOfTwo ==
    ASSUME NEW a \in Int, NEW b \in Int
    PROVE  /\ Min({a, b}) \in {a, b} /\ Min({a, b}) <= a /\ Min({a, b}) <= b
           /\ Min({a, b}) \in Int
<1>1. \E x \in {a, b} : \A y \in {a, b} : x =< y
  <2>1. CASE a <= b
    BY <2>1
  <2>2. CASE b <= a
    BY <2>2
  <2> QED
    BY <2>1, <2>2
<1>2. Min({a, b}) \in {a, b} /\ \A y \in {a, b} : Min({a, b}) =< y
  BY <1>1 DEF Min
<1> QED
  BY <1>2

\* A client waits for an answer in three places.
LEMMA WaitingPlaces ==
    ASSUME NEW s
    PROVE  /\ Waiting(s) <=> client[s] \in {"asking", "pulling", "stopping"}
           /\ Waiting(s)' <=> client'[s] \in {"asking", "pulling", "stopping"}
  BY DEF Waiting, AfterError

\* The answers that carry no atoms.
LEMMA BareReplies ==
    /\ NoReply \in Replies /\ NoReply.is = "none"
    /\ Error \in Replies /\ Error.is = "error"
    /\ Bare("stopped") \in Replies /\ Bare("stopped").is = "stopped"
    /\ EmptyAnswer \in Replies /\ EmptyAnswer.is = "chunk"
    /\ EmptyAnswer.atoms = {} /\ EmptyAnswer.more = FALSE
<1>1. {} \in Chunks
  BY DEF Chunks
<1> QED
  BY <1>1 DEF NoReply, Error, EmptyAnswer, Bare, Replies

\* The answer a client is told.
LEMMA TellReaches ==
    ASSUME ShapeInv, NEW r \in Requests, NEW a \in Replies, Tell(r, a)
    PROVE  /\ reply' \in [Streams -> Replies]
           /\ \A q \in Streams : q # r.of => reply'[q] = reply[q]
           /\ Waiting(r.of) /\ sent[r.of] = r.id => reply'[r.of] = a
           /\ ~(Waiting(r.of) /\ sent[r.of] = r.id) => reply'[r.of] = reply[r.of]
<1>1. reply \in [Streams -> Replies] /\ r.of \in Streams
  BY DEF ShapeInv, TypeOK, Requests
<1> QED
  BY <1>1 DEF Tell

\* A request or the marker is queued.
LEMMA Enqueue ==
    ASSUME ShapeInv, OnceInv, NEW x \in Requests \cup {Marker}, work' = Append(work, x),
           busy' = busy, x \in Requests => \A r \in Pending : r.of = x.of => r.id # x.id
    PROVE  /\ work' \in Seq(Requests \cup {Marker}) /\ OnceInv'
           /\ Pending' = Pending \cup ({x} \cap Requests)
<1>1. work \in Seq(Requests \cup {Marker}) /\ Len(work) \in Nat
  BY LenProperties DEF ShapeInv, TypeOK
<1>2. /\ work' \in Seq(Requests \cup {Marker}) /\ Len(work') = Len(work) + 1
      /\ \A i \in 1..Len(work) : work'[i] = work[i]
      /\ work'[Len(work')] = x
  BY <1>1, AppendProperties
<1>3. \A i \in 1..Len(work') : i \in 1..Len(work) \/ i = Len(work')
  BY <1>1, <1>2
<1>4. {work'[i] : i \in 1..Len(work')} = {work[i] : i \in 1..Len(work)} \cup {x}
  <2>1. 1..Len(work) \subseteq 1..Len(work') /\ Len(work') \in 1..Len(work')
    BY <1>1, <1>2
  <2> QED
    BY <1>2, <1>3, <2>1
<1>5. Pending' = Pending \cup ({x} \cap Requests)
  BY <1>4 DEF Pending
<1>6. x \in Requests => x \notin Pending
  OBVIOUS
<1>7. \A i \in 1..Len(work) : work[i] = x => x = Marker
  BY <1>1, <1>6, ElementOfSeq DEF Pending
<1>8. \A i, j \in 1..Len(work') : i # j /\ work'[i] = work'[j] => work'[i] = Marker
  BY <1>2, <1>3, <1>7 DEF OnceInv
<1>9. busy' \in Requests => \A i \in 1..Len(work') : work'[i] # busy'
  <2>1. busy \in Requests => busy # x
    BY <1>6 DEF Pending
  <2> QED
    BY <1>2, <1>3, <2>1 DEF OnceInv
<1>10. \A r, q \in Pending' : r.of = q.of /\ r.id = q.id => r = q
  BY <1>5 DEF OnceInv
<1> QED
  BY <1>2, <1>5, <1>8, <1>9, <1>10 DEF OnceInv

\* The worker takes the head of its queue, and runs it or has done with it.
LEMMA Dequeue ==
    ASSUME ShapeInv, OnceInv, work # <<>>, work' = Tail(work), busy = None,
           busy' \in {None, Head(work)}
    PROVE  /\ work' \in Seq(Requests \cup {Marker}) /\ OnceInv'
           /\ Head(work) \in Requests \cup {Marker}
           /\ Pending' \subseteq Pending
           /\ Head(work) \in Requests => Head(work) \in Pending
           /\ Head(work) \in Requests /\ busy' = None => Head(work) \notin Pending'
<1>1. work \in Seq(Requests \cup {Marker}) /\ Len(work) \in Nat \ {0} /\ None \notin Requests
  BY EmptySeq, LenProperties, SentinelAssumption DEF ShapeInv, TypeOK
<1>2. /\ work' \in Seq(Requests \cup {Marker}) /\ Len(work') = Len(work) - 1
      /\ Head(work) = work[1] /\ Head(work) \in Requests \cup {Marker}
      /\ \A i \in 1..Len(work') : work'[i] = work[i + 1]
  BY <1>1, HeadTailProperties
<1>3. \A i \in 1..Len(work') : i + 1 \in 1..Len(work) /\ i + 1 # 1
  BY <1>1, <1>2
<1>4. 1 \in 1..Len(work)
  BY <1>1
<1>5. Pending' \subseteq Pending /\ (Head(work) \in Requests => Head(work) \in Pending)
  BY <1>2, <1>3, <1>4 DEF Pending
<1>6. \A i \in 1..Len(work') : Head(work) \in Requests => work'[i] # Head(work)
  <2>1. Marker \notin Requests
    BY SentinelAssumption
  <2> QED
    BY <1>2, <1>3, <1>4, <2>1 DEF OnceInv
<1>7. Head(work) \in Requests /\ busy' = None => Head(work) \notin Pending'
  BY <1>1, <1>6 DEF Pending
<1>8. \A i, j \in 1..Len(work') : i # j /\ work'[i] = work'[j] => work'[i] = Marker
  <2>1. \A i, j \in 1..Len(work') : i # j => i + 1 # j + 1
    OBVIOUS
  <2> QED
    BY <1>2, <1>3, <2>1 DEF OnceInv
<1>9. busy' \in Requests => \A i \in 1..Len(work') : work'[i] # busy'
  BY <1>1, <1>6
<1> QED
  BY <1>2, <1>5, <1>7, <1>8, <1>9 DEF OnceInv

\* The worker has done with the request it runs.
LEMMA Complete ==
    ASSUME ShapeInv, OnceInv, busy # None, busy' = None, work' = work
    PROVE  /\ OnceInv' /\ busy \in Requests /\ busy \in Pending
           /\ Pending' = Pending \ {busy}
<1>1. busy \in Requests /\ None \notin Requests
  BY SentinelAssumption DEF ShapeInv, TypeOK
<1>2. busy \in Pending /\ Pending' = Pending \ {busy}
  BY <1>1 DEF Pending, OnceInv
<1> QED
  BY <1>1, <1>2 DEF OnceInv

\* What a step leaves alone of a stream.
Undisturbed(s) ==
    /\ client'[s] = client[s] /\ holds'[s] = holds[s] /\ sent'[s] = sent[s]
    /\ reply'[s] = reply[s] /\ seen'[s] = seen[s] /\ hurt'[s] = hurt[s]
    /\ bound'[s] = bound[s] /\ taken'[s] = taken[s]
    /\ engine'[s] = "open" => engine[s] = "open"
    /\ table[s] = None => table'[s] = None
    /\ \A r \in Pending' : r.of = s => r \in Pending

\* A stream that is left alone stays as it should be.
LEMMA OtherStreams ==
    ASSUME NEW s \in Streams, StreamInv(s), Undisturbed(s)
    PROVE  StreamInv(s)'
<1>1. Waiting(s)' <=> Waiting(s)
  BY WaitingPlaces DEF Undisturbed
<1>2. Total(s)' = Total(s)
  BY DEF Undisturbed, Total
<1>3. AskInv(s)'
  BY DEF StreamInv, Undisturbed, AskInv
<1>4. ClientInv(s)'
  BY <1>1 DEF StreamInv, Undisturbed, ClientInv
<1>5. OverInv(s)'
  BY DEF StreamInv, Undisturbed, OverInv
<1>6. AnswerInv(s)'
  BY <1>1, <1>2 DEF StreamInv, Undisturbed, AnswerInv
<1> QED
  BY <1>3, <1>4, <1>5, <1>6 DEF StreamInv

\* A queue that stays.
LEMMA SameQueue ==
    ASSUME OnceInv, work' = work, busy' = busy
    PROVE  OnceInv' /\ Pending' = Pending
  BY DEF OnceInv, Pending

\* An owned engine stays owned while the gateway rests.
LEMMA SameOwners ==
    ASSUME OwnInv, UNCHANGED <<table, engine, busy, alive, server>>
    PROVE  OwnInv'
  BY DEF OwnInv, Held, EnginesAreOwned

-----------------------------------------------------------------------------
(* The client.                                                              *)

\* A POST queues a request with the next number, or is refused at once.
LEMMA PostEffect ==
    ASSUME IInv, NEW s \in Streams, NEW op \in {"ask", "next", "stop"}, Post(s, op), busy' = busy
    PROVE  LET r == [op |-> op, of |-> s, id |-> sent[s] + 1]
           IN  /\ work' \in Seq(Requests \cup {Marker}) /\ OnceInv'
               /\ sent' = [sent EXCEPT ![s] = sent[s] + 1] /\ sent[s] < MaxRequests[s]
               /\ reply' \in [Streams -> Replies]
               /\ \A q \in Streams : q # s => reply'[q] = reply[q]
               /\ \/ Pending' = Pending \cup {r} /\ reply'[s] = NoReply /\ r \in Requests
                  \/ Pending' = Pending /\ reply'[s] = Error
<1> DEFINE r == [op |-> op, of |-> s, id |-> sent[s] + 1]
<1>1. sent[s] \in Nat /\ r \in Requests /\ sent'[s] = sent[s] + 1
  BY DEF IInv, ShapeInv, TypeOK, Requests, Post
<1>2. NoReply \in Replies /\ Error \in Replies /\ reply \in [Streams -> Replies]
  BY BareReplies DEF IInv, ShapeInv, TypeOK
<1>3. \A q \in Pending : q.of = s => q.id <= sent[s] /\ q.id \in Nat
  BY DEF IInv, StreamInv, AskInv, Pending, Requests
<1>4. CASE server = "open"
  <2>1. work' = Append(work, r) /\ reply' = [reply EXCEPT ![s] = NoReply]
    BY <1>1, <1>4 DEF Post
  <2>2. \A q \in Pending : q.of = r.of => q.id # r.id
    BY <1>1, <1>3
  <2>3. /\ work' \in Seq(Requests \cup {Marker}) /\ OnceInv'
        /\ Pending' = Pending \cup ({r} \cap Requests)
    BY <1>1, <2>1, <2>2, Enqueue DEF IInv
  <2> QED
    BY <1>1, <1>2, <2>1, <2>3 DEF Post
<1>5. CASE server # "open"
  <2>1. work' = work /\ reply' = [reply EXCEPT ![s] = Error]
    BY <1>5 DEF Post
  <2>2. OnceInv' /\ Pending' = Pending
    BY <2>1, SameQueue DEF IInv
  <2> QED
    BY <1>2, <2>1, <2>2 DEF Post, IInv, ShapeInv, TypeOK
<1> QED
  BY <1>4, <1>5

\* A step of one client, which leaves the gateway and the server alone.
LEMMA ClientStep ==
    ASSUME IInv, NEW s \in Streams,
           UNCHANGED <<now, table, engine, taken, busy, alive, server>>,
           \A q \in Streams : q # s =>
               /\ client'[q] = client[q] /\ holds'[q] = holds[q] /\ sent'[q] = sent[q]
               /\ reply'[q] = reply[q] /\ seen'[q] = seen[q] /\ hurt'[q] = hurt[q]
               /\ bound'[q] = bound[q],
           \A r \in Pending' : r.of # s => r \in Pending,
           ShapeInv', OnceInv', AskInv(s)', ClientInv(s)', OverInv(s)', AnswerInv(s)'
    PROVE  IInv'
<1>1. OwnInv'
  BY SameOwners DEF IInv
<1>2. ASSUME NEW q \in Streams, q # s
      PROVE  StreamInv(q)'
  <2>1. Undisturbed(q)
    BY <1>2 DEF Undisturbed
  <2> QED
    BY <2>1, OtherStreams DEF IInv
<1>3. StreamInv(s)'
  BY DEF StreamInv
<1> QED
  BY <1>1, <1>2, <1>3 DEF IInv

\* What is known of a client's stream.
LEMMA Known ==
    ASSUME IInv, NEW s \in Streams
    PROVE  /\ AskInv(s) /\ ClientInv(s) /\ OverInv(s) /\ AnswerInv(s)
           /\ client \in [Streams -> Places] /\ holds \in [Streams -> BOOLEAN]
           /\ sent \in [Streams -> Nat] /\ reply \in [Streams -> Replies]
           /\ seen \in [Streams -> Chunks] /\ hurt \in [Streams -> BOOLEAN]
           /\ taken[s] \in 0..Answers /\ Answers \in Nat
  BY RemoteCursorsAssumption DEF IInv, StreamInv, ShapeInv, TypeOK

\* One request more is within the bound.
LEMMA OneMore ==
    ASSUME IInv, NEW s \in Streams, sent' = [sent EXCEPT ![s] = sent[s] + 1],
           sent[s] < MaxRequests[s]
    PROVE  sent' \in [Streams -> Nat] /\ \A q \in Streams : sent'[q] <= MaxRequests[q]
<1>1. sent \in [Streams -> Nat] /\ \A q \in Streams : sent[q] <= MaxRequests[q]
  BY DEF IInv, ShapeInv, TypeOK
<1>2. MaxRequests[s] \in Nat /\ sent[s] \in Nat
  BY <1>1, RemoteCursorsAssumption
<1>3. sent' \in [Streams -> Nat] /\ sent'[s] = sent[s] + 1
  BY <1>1, <1>2
<1>4. sent'[s] <= MaxRequests[s]
  BY <1>2, <1>3
<1> QED
  BY <1>1, <1>3, <1>4

\* The constructor of a cursor asks.
LEMMA AskStep ==
    ASSUME IInv, NEW s \in Streams, Ask(s)
    PROVE  IInv'
<1> DEFINE r == [op |-> "ask", of |-> s, id |-> sent[s] + 1]
<1>1. PICK b \in BoundsOf[s] : bound' = [bound EXCEPT ![s] = b]
  BY DEF Ask
<1>2. /\ client[s] = "new" /\ Post(s, "ask") /\ client' = [client EXCEPT ![s] = "asking"]
      /\ UNCHANGED <<now, table, engine, taken, busy, alive, server, holds, seen, hurt>>
  BY DEF Ask
<1>3. /\ work' \in Seq(Requests \cup {Marker}) /\ OnceInv'
      /\ sent' = [sent EXCEPT ![s] = sent[s] + 1] /\ sent[s] < MaxRequests[s]
      /\ reply' \in [Streams -> Replies]
      /\ \A q \in Streams : q # s => reply'[q] = reply[q]
      /\ \/ Pending' = Pending \cup {r} /\ reply'[s] = NoReply /\ r \in Requests
         \/ Pending' = Pending /\ reply'[s] = Error
  BY <1>2, PostEffect
<1>4. /\ sent[s] = 0 /\ taken[s] = 0 /\ seen[s] = {} /\ table[s] = None
      /\ \A q \in Pending : q.of # s
  BY <1>2, Known DEF AskInv
<1>5. /\ client' \in [Streams -> Places] /\ client'[s] = "asking" /\ sent'[s] = 1
      /\ \A q \in Streams : q # s => client'[q] = client[q] /\ sent'[q] = sent[q]
  BY <1>2, <1>3, <1>4, Known DEF Places
<1>6. \A q \in Pending' : q.of = s => q = r /\ q.op = "ask" /\ q.id = 1 /\ reply'[s] = NoReply
  BY <1>3, <1>4
<1>7. reply'[s].is \in {"none", "error"} /\ NoReply.is = "none"
  BY <1>3, BareReplies
<1>8. ShapeInv'
  <2>1. b \in Nat \cup {None}
    BY <1>1, RemoteCursorsAssumption
  <2>2. /\ bound' \in [Streams -> Nat \cup {None}]
        /\ bound'[s] = b /\ \A q \in Streams : q # s => bound'[q] = bound[q]
    BY <1>1, <2>1 DEF IInv, ShapeInv, TypeOK
  <2>3. sent' \in [Streams -> Nat] /\ \A q \in Streams : sent'[q] <= MaxRequests[q]
    BY <1>3, OneMore
  <2>4. TypeOK'
    BY <1>2, <1>3, <1>5, <2>2, <2>3 DEF IInv, ShapeInv, TypeOK
  <2>5. \A q \in Streams : bound'[q] # None => taken'[q] <= bound'[q]
    BY <1>2, <1>4, <2>1, <2>2 DEF IInv, ShapeInv
  <2> QED
    BY <2>4, <2>5 DEF ShapeInv
<1>9. AskInv(s)'
  BY <1>2, <1>4, <1>5, <1>6, <1>7 DEF AskInv
<1>10. ClientInv(s)'
  BY <1>5, WaitingPlaces DEF ClientInv
<1>11. OverInv(s)'
  BY <1>5, <1>7 DEF OverInv
<1>12. AnswerInv(s)'
  BY <1>2, <1>4, <1>5, <1>6, <1>7, WaitingPlaces DEF AnswerInv
<1>13. \A q \in Streams : q # s => bound'[q] = bound[q]
  BY <1>1 DEF IInv, ShapeInv, TypeOK
<1>14. \A q \in Pending' : q.of # s => q \in Pending
  BY <1>3
<1> QED
  BY <1>2, <1>3, <1>5, <1>8, <1>9, <1>10, <1>11, <1>12, <1>13, <1>14, ClientStep

\* An open cursor asks for its next chunk, or to be stopped.
LEMMA PostStep ==
    ASSUME IInv, NEW s \in Streams, NEW op \in {"next", "stop"}, NEW x, Post(s, op),
           holds[s], client' = [client EXCEPT ![s] = x],
           \/ op = "next" /\ x = "pulling" /\ client[s] = "open"
           \/ op = "stop" /\ x = "stopping" /\ client[s] \in {"open", "ended"},
           UNCHANGED <<now, gateway, busy, alive, server, holds, seen, hurt>>
    PROVE  IInv'
<1> DEFINE r == [op |-> op, of |-> s, id |-> sent[s] + 1]
<1>1. UNCHANGED <<now, table, engine, taken, bound, busy, alive, server, holds, seen, hurt>>
  BY DEF gateway
<1>2. /\ work' \in Seq(Requests \cup {Marker}) /\ OnceInv'
      /\ sent' = [sent EXCEPT ![s] = sent[s] + 1] /\ sent[s] < MaxRequests[s]
      /\ reply' \in [Streams -> Replies]
      /\ \A q \in Streams : q # s => reply'[q] = reply[q]
      /\ \/ Pending' = Pending \cup {r} /\ reply'[s] = NoReply /\ r \in Requests
         \/ Pending' = Pending /\ reply'[s] = Error
  BY <1>1, PostEffect
<1>3. x \in {"pulling", "stopping"} /\ x \in Places
  BY DEF Places
<1>4. /\ client' \in [Streams -> Places] /\ client'[s] = x
      /\ \A q \in Streams : q # s => client'[q] = client[q] /\ sent'[q] = sent[q]
  BY <1>2, <1>3, Known
<1>5. sent[s] \in Nat /\ sent'[s] = sent[s] + 1
  BY <1>2, Known
<1>6. /\ \A q \in Pending : q.of = s => q.op # "ask" /\ q.id <= sent[s] /\ q.id \in Nat
      /\ reply[s].is = "none"
  BY Known, WaitingPlaces DEF AskInv, ClientInv, Pending, Requests
<1>7. reply'[s].is \in {"none", "error"} /\ NoReply.is = "none"
  BY <1>2, BareReplies
<1>8. \A q \in Pending' : q.of = s =>
          q.op # "ask" /\ q.id <= sent'[s] /\ (q \in Pending \/ (q = r /\ reply'[s] = NoReply))
  <2>1. r.op = op /\ r.of = s /\ r.id = sent[s] + 1
    OBVIOUS
  <2> HIDE DEF r
  <2> QED
    BY <1>2, <1>5, <1>6, <2>1
<1>9. ShapeInv'
  <2>1. sent' \in [Streams -> Nat] /\ \A q \in Streams : sent'[q] <= MaxRequests[q]
    BY <1>2, OneMore
  <2> QED
    BY <1>1, <1>2, <1>4, <2>1 DEF IInv, ShapeInv, TypeOK
<1>10. AskInv(s)'
  BY <1>3, <1>4, <1>8 DEF AskInv
<1>11. ClientInv(s)'
  BY <1>1, <1>3, <1>4, WaitingPlaces DEF ClientInv
<1>12. OverInv(s)'
  BY <1>3, <1>4, <1>7 DEF OverInv
<1>13. AnswerInv(s)'
  <2>1. SUFFICES ASSUME ~hurt[s] PROVE AnswerInv(s)'
    BY <1>1 DEF AnswerInv
  <2>2. seen[s] = 1..taken[s] /\ \A q \in Pending : q.of # s
    BY <1>6, <2>1, Known, WaitingPlaces, ZenonT(60) DEF AnswerInv
  <2>3. \A q \in Pending' : q.of = s => q.id = sent'[s] /\ reply'[s].is = "none"
    BY <1>5, <1>7, <1>8, <2>2
  <2> QED
    BY <1>1, <1>3, <1>4, <1>7, <2>2, <2>3, WaitingPlaces DEF AnswerInv
<1>14. \A q \in Pending' : q.of # s => q \in Pending
  BY <1>2
<1> QED
  BY <1>1, <1>2, <1>4, <1>9, <1>10, <1>11, <1>12, <1>13, <1>14, ClientStep

\* A client that goes on without a request: its stream ended, or it is let go.
LEMMA QuietStep ==
    ASSUME IInv, NEW s \in Streams, NEW x, client' = [client EXCEPT ![s] = x],
           \/ x = "ended" /\ client[s] = "open" /\ ~holds[s]
           \/ x = "closed" /\ client[s] \in {"open", "ended"} /\ ~holds[s]
           \/ x = "gone" /\ client[s] = "open",
           UNCHANGED <<now, gateway, worker, server, holds, sent, reply, seen, hurt>>
    PROVE  IInv'
<1>1. UNCHANGED <<now, table, engine, taken, bound, work, busy, alive, server,
                  holds, sent, reply, seen, hurt>>
  BY DEF gateway, worker
<1>2. OnceInv' /\ Pending' = Pending
  BY <1>1, SameQueue DEF IInv
<1>3. x \in {"ended", "closed", "gone"} /\ x \in Places
  BY DEF Places
<1>4. /\ client' \in [Streams -> Places] /\ client'[s] = x
      /\ \A q \in Streams : q # s => client'[q] = client[q]
  BY <1>3, Known
<1>5. ShapeInv'
  BY <1>1, <1>4 DEF IInv, ShapeInv, TypeOK
<1>6. reply[s].is = "none"
  BY Known, WaitingPlaces DEF ClientInv
<1>7. AskInv(s)'
  BY <1>1, <1>2, <1>3, <1>4, Known DEF AskInv
<1>8. ClientInv(s)'
  BY <1>1, <1>3, <1>4, <1>6 DEF ClientInv
<1>9. OverInv(s)'
  BY <1>1, <1>4, <1>6, Known DEF OverInv
<1>10. AnswerInv(s)'
  <2>1. Total(s)' = Total(s)
    BY <1>1 DEF Total
  <2>2. SUFFICES ASSUME ~hurt[s] PROVE AnswerInv(s)'
    BY <1>1 DEF AnswerInv
  <2>3. /\ \A q \in Pending : q.of # s
        /\ seen[s] = 1..taken[s]
        /\ x = "ended" => taken[s] = Total(s)
    BY <1>6, <2>2, Known, WaitingPlaces DEF AnswerInv
  <2> QED
    BY <1>1, <1>2, <1>3, <1>4, <1>6, <2>1, <2>3 DEF AnswerInv
<1> QED
  BY <1>1, <1>2, <1>4, <1>5, <1>7, <1>8, <1>9, <1>10, ClientStep

\* A pull, a close, and a cursor that is dropped.
LEMMA AskingSteps ==
    ASSUME IInv, NEW s \in Streams, Ask(s) \/ Pull(s) \/ Close(s) \/ Discard(s)
    PROVE  IInv'
<1>1. CASE Ask(s)
  BY <1>1, AskStep
<1>2. CASE Pull(s)
  <2>1. UNCHANGED <<now, gateway, busy, alive, server, holds, seen, hurt>> /\ client[s] = "open"
    BY <1>2 DEF Pull
  <2>2. CASE holds[s] /\ Post(s, "next") /\ client' = [client EXCEPT ![s] = "pulling"]
    BY <2>1, <2>2, PostStep
  <2>3. CASE ~holds[s] /\ client' = [client EXCEPT ![s] = "ended"]
             /\ UNCHANGED <<sent, work, reply>>
    BY <2>1, <2>3, QuietStep DEF worker
  <2> QED
    BY <1>2, <2>2, <2>3 DEF Pull
<1>3. CASE Close(s)
  <2>1. /\ UNCHANGED <<now, gateway, busy, alive, server, holds, seen, hurt>>
        /\ client[s] \in {"open", "ended"}
    BY <1>3 DEF Close
  <2>2. CASE holds[s] /\ Post(s, "stop") /\ client' = [client EXCEPT ![s] = "stopping"]
    BY <2>1, <2>2, PostStep
  <2>3. CASE ~holds[s] /\ client' = [client EXCEPT ![s] = "closed"]
             /\ UNCHANGED <<sent, work, reply>>
    BY <2>1, <2>3, QuietStep DEF worker
  <2> QED
    BY <1>3, <2>2, <2>3 DEF Close
<1>4. CASE Discard(s)
  BY <1>4, QuietStep DEF Discard
<1> QED
  BY <1>1, <1>2, <1>3, <1>4

\* Where an error leaves a client that waits.
LEMMA ErrorPlaces ==
    ASSUME NEW s, Waiting(s)
    PROVE  /\ client[s] = "asking" => AfterError[client[s]] = "gone"
           /\ client[s] # "asking" => AfterError[client[s]] = "open"
           /\ AfterError[client[s]] \in Places
  BY DEF Waiting, AfterError, Places

\* A client hears an answer, or its transport gives up.
LEMMA HearingSteps ==
    ASSUME IInv, NEW s \in Streams, Hear(s) \/ Lose(s)
    PROVE  IInv'
<1>1. /\ UNCHANGED <<now, table, engine, taken, bound, work, busy, alive, server, sent>>
      /\ reply' = [reply EXCEPT ![s] = NoReply] /\ Waiting(s)
  BY DEF Hear, Lose, gateway, worker
<1>2. OnceInv' /\ Pending' = Pending
  BY <1>1, SameQueue DEF IInv
<1>3. /\ reply' \in [Streams -> Replies] /\ reply'[s].is = "none"
      /\ \A q \in Streams : q # s => reply'[q] = reply[q]
  BY <1>1, BareReplies, Known
<1>4. client[s] \in {"asking", "pulling", "stopping"}
  BY <1>1, WaitingPlaces
<1>5. Total(s)' = Total(s)
  BY <1>1 DEF Total
<1>6. ASSUME NEW x, x \in Places, NEW h \in BOOLEAN, NEW c \in Chunks, NEW d \in BOOLEAN,
             client' = [client EXCEPT ![s] = x], holds' = [holds EXCEPT ![s] = h],
             seen' = [seen EXCEPT ![s] = c], hurt' = [hurt EXCEPT ![s] = d],
             AskInv(s)', ClientInv(s)', OverInv(s)', AnswerInv(s)'
      PROVE  IInv'
  <2>1. /\ client' \in [Streams -> Places] /\ holds' \in [Streams -> BOOLEAN]
        /\ seen' \in [Streams -> Chunks] /\ hurt' \in [Streams -> BOOLEAN]
        /\ \A q \in Streams : q # s =>
             client'[q] = client[q] /\ holds'[q] = holds[q] /\ seen'[q] = seen[q] /\ hurt'[q] = hurt[q]
    BY <1>6, Known
  <2>2. ShapeInv'
    BY <1>1, <1>3, <2>1 DEF IInv, ShapeInv, TypeOK
  <2> QED
    BY <1>1, <1>2, <1>3, <1>6, <2>1, <2>2, ClientStep
<1>7. ASSUME client' = [client EXCEPT ![s] = AfterError[client[s]]],
             hurt' = [hurt EXCEPT ![s] = TRUE], UNCHANGED <<holds, seen>>
      PROVE  IInv'
  <2> DEFINE x == AfterError[client[s]]
  <2>1. x \in Places /\ x \in {"open", "gone"} /\ (x = "open" => client[s] # "asking")
    BY <1>1, ErrorPlaces
  <2>2. client'[s] = x /\ hurt'[s] = TRUE
    BY <1>7, Known
  <2> HIDE DEF x
  <2>3. AskInv(s)'
    BY <1>1, <1>2, <1>3, <1>4, <2>1, <2>2, Known DEF AskInv
  <2>4. ClientInv(s)'
    BY <1>3, <2>1, <2>2 DEF ClientInv
  <2>5. OverInv(s)'
    BY <1>1, <1>3, <1>4, <1>7, <2>1, <2>2, Known DEF OverInv, ClientInv
  <2>6. AnswerInv(s)'
    BY <2>2 DEF AnswerInv
  <2>7. /\ holds' = [holds EXCEPT ![s] = holds[s]] /\ seen' = [seen EXCEPT ![s] = seen[s]]
        /\ holds[s] \in BOOLEAN /\ seen[s] \in Chunks
    BY <1>7, Known
  <2>8. client' = [client EXCEPT ![s] = x]
    BY <1>7 DEF x
  <2> QED
    BY <1>6, <1>7, <2>1, <2>3, <2>4, <2>5, <2>6, <2>7, <2>8
<1>8. ASSUME reply[s].is = "stopped", client' = [client EXCEPT ![s] = "closed"],
             holds' = [holds EXCEPT ![s] = FALSE], UNCHANGED <<seen, hurt>>
      PROVE  IInv'
  <2>1. /\ client'[s] = "closed" /\ "closed" \in Places /\ hurt'[s] = hurt[s] /\ seen'[s] = seen[s]
    BY <1>8, Known DEF Places
  <2>2. AskInv(s)'
    BY <1>1, <1>2, <1>3, <1>4, <1>8, <2>1, Known DEF AskInv
  <2>3. ClientInv(s)'
    BY <1>3, <2>1 DEF ClientInv
  <2>4. OverInv(s)'
    BY <1>1, <1>3, <1>8, <2>1, Known DEF OverInv
  <2>5. AnswerInv(s)'
    BY <1>1, <1>2, <1>3, <1>4, <1>8, <2>1, Known DEF AnswerInv
  <2>6. /\ hurt' = [hurt EXCEPT ![s] = hurt[s]] /\ seen' = [seen EXCEPT ![s] = seen[s]]
        /\ hurt[s] \in BOOLEAN /\ seen[s] \in Chunks
    BY <1>8, Known
  <2> QED
    BY <1>6, <1>8, <2>1, <2>2, <2>3, <2>4, <2>5, <2>6
<1>9. ASSUME reply[s].is = "chunk", client' = [client EXCEPT ![s] = "open"],
             holds' = [holds EXCEPT ![s] = reply[s].more],
             seen' = [seen EXCEPT ![s] = @ \cup reply[s].atoms], UNCHANGED hurt
      PROVE  IInv'
  <2> DEFINE c == seen[s] \cup reply[s].atoms
  <2>1. reply[s].more \in BOOLEAN /\ c \in Chunks
    BY Known DEF Replies, Chunks
  <2>2. /\ client'[s] = "open" /\ "open" \in Places /\ hurt'[s] = hurt[s]
        /\ seen'[s] = c /\ holds'[s] = reply[s].more
    BY <1>9, <2>1, Known DEF Places
  <2> HIDE DEF c
  <2>3. AskInv(s)'
    BY <1>1, <1>2, <1>3, <1>4, <1>9, <2>2, Known DEF AskInv
  <2>4. ClientInv(s)'
    BY <1>3, <2>2 DEF ClientInv
  <2>5. OverInv(s)'
    BY <1>1, <1>3, <1>9, <2>2, Known DEF OverInv
  <2>6. AnswerInv(s)'
    <3>1. SUFFICES ASSUME ~hurt[s] PROVE AnswerInv(s)'
      BY <2>2 DEF AnswerInv
    <3>2. /\ \A q \in Pending : q.of # s
          /\ c = 1..taken[s] /\ (~reply[s].more => taken[s] = Total(s))
      BY <1>4, <1>9, <3>1, Known DEF AnswerInv, c
    <3> QED
      BY <1>1, <1>2, <1>3, <1>5, <2>2, <3>2 DEF AnswerInv
  <2>7. hurt' = [hurt EXCEPT ![s] = hurt[s]] /\ hurt[s] \in BOOLEAN
    BY <1>9, Known
  <2>8. seen' = [seen EXCEPT ![s] = c]
    BY <1>9 DEF c
  <2> QED
    BY <1>6, <1>9, <2>1, <2>2, <2>3, <2>4, <2>5, <2>6, <2>7, <2>8
<1> QED
  BY <1>7, <1>8, <1>9 DEF Hear, Lose

-----------------------------------------------------------------------------
(* The gateway.                                                             *)

\* A pull stays within the answers and the bound, and knows the end.
LEMMA PullNumbers ==
    ASSUME ShapeInv, NEW s \in Streams
    PROVE  /\ Got(s) \in Nat /\ taken[s] \in Nat /\ taken[s] + Got(s) \in 0..Answers
           /\ bound[s] # None => taken[s] + Got(s) <= bound[s]
           /\ Done(s) => taken[s] + Got(s) = Total(s)
<1>1. /\ taken[s] \in Nat /\ taken[s] <= Answers /\ Answers \in Nat /\ Batch \in Nat \ {0}
      /\ bound[s] \in Nat \cup {None} /\ (bound[s] # None => taken[s] <= bound[s])
      /\ None \notin Nat
  BY RemoteCursorsAssumption DEF ShapeInv, TypeOK
<1>2. CASE bound[s] = None
  <2>1. Want(s) = Batch /\ Total(s) = Answers
    BY <1>2 DEF Want, Total
  <2>2. Got(s) \in {Batch, Answers - taken[s]} /\ Got(s) <= Batch /\ Got(s) <= Answers - taken[s]
    <3>1. Answers - taken[s] \in Int /\ Batch \in Int
      BY <1>1
    <3>2. Got(s) = Min({Batch, Answers - taken[s]})
      BY <2>1 DEF Got
    <3> QED
      BY <3>1, <3>2, MinOfTwo, Zenon
  <2>3. Done(s) => Got(s) = Answers - taken[s]
    <3>1. Done(s) => Got(s) < Batch
      BY <1>2, <2>1 DEF Done
    <3> QED
      BY <1>1, <2>2, <3>1
  <2> QED
    BY <1>1, <1>2, <2>1, <2>2, <2>3
<1>3. CASE bound[s] # None
  <2> DEFINE left == bound[s] - taken[s]
  <2>1. bound[s] \in Nat /\ left \in Nat /\ Remaining(s) = left
    BY <1>1, <1>3 DEF Remaining
  <2>2. Want(s) \in {Batch, left} /\ Want(s) <= Batch /\ Want(s) <= left
    <3>1. left \in Int /\ Batch \in Int /\ Want(s) = Min({Batch, left})
      BY <1>1, <1>3, <2>1 DEF Want
    <3> HIDE DEF left
    <3> QED
      BY <3>1, MinOfTwo, Zenon
  <2>3. Want(s) \in Nat
    BY <1>1, <2>1, <2>2
  <2>4. /\ Got(s) \in {Want(s), Answers - taken[s]}
        /\ Got(s) <= Want(s) /\ Got(s) <= Answers - taken[s]
    <3>1. Answers - taken[s] \in Int /\ Want(s) \in Int
      BY <1>1, <2>3
    <3>2. Got(s) = Min({Want(s), Answers - taken[s]})
      BY DEF Got
    <3> QED
      BY <3>1, <3>2, MinOfTwo, Zenon
  <2>5. Total(s) = IF Answers <= bound[s] THEN Answers ELSE bound[s]
    <3>1. Answers \in Int /\ bound[s] \in Int /\ Total(s) = Min({Answers, bound[s]})
      BY <1>1, <1>3, <2>1 DEF Total
    <3>2. /\ Total(s) \in {Answers, bound[s]}
          /\ Total(s) <= Answers /\ Total(s) <= bound[s]
      BY <3>1, MinOfTwo, Zenon
    <3> QED
      BY <3>1, <3>2
  <2>6. Done(s) => Got(s) = left \/ (Got(s) = Answers - taken[s] /\ Got(s) < Want(s))
    BY <1>3, <2>1, <2>3, <2>4 DEF Done
  <2>7. Got(s) \in Nat /\ taken[s] + Got(s) <= Answers /\ taken[s] + Got(s) <= bound[s]
    BY <1>1, <2>1, <2>2, <2>3, <2>4
  <2>8. CASE Got(s) = left
    BY <1>1, <2>1, <2>5, <2>7, <2>8
  <2>9. CASE Got(s) = Answers - taken[s] /\ Got(s) < Want(s)
    BY <1>1, <2>1, <2>2, <2>3, <2>5, <2>7, <2>9
  <2> QED
    BY <1>1, <1>3, <2>6, <2>7, <2>8, <2>9
<1> QED
  BY <1>2, <1>3

\* What a sweep leaves in the table.
LEMMA SweepEffect ==
    ASSUME ShapeInv, OwnInv
    PROVE  /\ Swept \in [Streams -> (0..(MaxTime + Idle)) \cup {None}]
           /\ \A s \in Streams : Swept[s] # None <=> table[s] # None /\ s \notin Expired
           /\ {s \in Streams : Swept[s] # None} \subseteq Held
<1>1. Swept \in [Streams -> (0..(MaxTime + Idle)) \cup {None}]
  BY DEF ShapeInv, TypeOK, Swept
<1>2. \A s \in Streams : Swept[s] # None <=> table[s] # None /\ s \notin Expired
  BY DEF Swept
<1> QED
  BY <1>1, <1>2 DEF Held

\* What closing a set of engines leaves open.
LEMMA ClosingEffect ==
    ASSUME ShapeInv, NEW S
    PROVE  /\ Closing(S) \in [Streams -> {"none", "open", "closed"}]
           /\ \A s \in Streams : Closing(S)[s] = "open" <=> engine[s] = "open" /\ s \notin S
  BY DEF ShapeInv, TypeOK, Closing

\* A table that only loses entries stays within its limit.
LEMMA FewerHeld ==
    ASSUME OwnInv, NEW S \in SUBSET Held
    PROVE  IsFiniteSet(S) /\ Cardinality(S) \in Nat /\ Cardinality(S) <= Limit
<1>1. IsFiniteSet(Held) /\ Cardinality(Held) <= Limit /\ Limit \in Nat
  BY RemoteCursorsAssumption DEF OwnInv, EnginesAreOwned, Held
<1>2. IsFiniteSet(S) /\ Cardinality(S) <= Cardinality(Held)
  BY <1>1, FS_Subset
<1>3. Cardinality(S) \in Nat /\ Cardinality(Held) \in Nat
  BY <1>1, <1>2, FS_CardinalityType
<1> QED
  BY <1>1, <1>2, <1>3

\* The table loses the entries of some engines, which are closed: owned ones stay
\* owned.
LEMMA OwnersLeft ==
    ASSUME IInv, NEW S,
           \A q \in Streams : table'[q] # None <=> table[q] # None /\ q \notin S,
           \A q \in Streams : engine'[q] = "open" <=> engine[q] = "open" /\ q \notin S,
           busy # None /\ busy.op = "ask" => busy.of \in S,
           busy' # None => busy'.op # "ask",
           ~alive' => busy' = None,
           server' = "closed" => ~alive' /\ Held' = {}
    PROVE  OwnInv'
<1>1. Held' \in SUBSET Held
  BY DEF Held
<1>2. IsFiniteSet(Held') /\ Cardinality(Held') <= Limit
  BY <1>1, FewerHeld DEF IInv
<1>3. ASSUME NEW q \in Streams
      PROVE  engine'[q] = "open" <=>
               table'[q] # None \/ (busy' # None /\ busy'.of = q /\ busy'.op = "ask")
  <2>1. engine[q] = "open" <=>
          table[q] # None \/ (busy # None /\ busy.of = q /\ busy.op = "ask")
    BY DEF IInv, OwnInv, EnginesAreOwned
  <2> QED
    BY <2>1
<1> QED
  BY <1>2, <1>3 DEF OwnInv, EnginesAreOwned, Held

\* A deadline that is set is a time the table may hold.
LEMMA Deadline ==
    ASSUME ShapeInv
    PROVE  now + Idle \in 0..(MaxTime + Idle) /\ now + Idle # None
<1>1. now \in 0..MaxTime /\ Idle \in Nat /\ MaxTime \in Nat /\ None \notin Nat
  BY RemoteCursorsAssumption DEF ShapeInv, TypeOK
<1> QED
  BY <1>1

\* A step of the worker or the server is well when it is for one stream and
\* leaves the others alone.
LEMMA GatewayStep ==
    ASSUME IInv, NEW s \in Streams, ShapeInv', OnceInv', OwnInv', StreamInv(s)',
           \A q \in Streams : q # s => Undisturbed(q)
    PROVE  IInv'
  BY OtherStreams DEF IInv

\* A request ends and its client is told: the invariant of its stream.
LEMMA RequestEnds ==
    ASSUME IInv, NEW r \in Pending, NEW s \in Streams, r.of = s, NEW a \in Replies, Tell(r, a),
           r \notin Pending', Pending' \subseteq Pending, UNCHANGED <<bound, clients>>,
           engine'[s] = "open" => engine[s] = "open",
           a.is = "chunk" =>
               /\ a.atoms = (taken[s] + 1)..taken'[s] /\ taken[s] <= taken'[s] /\ taken'[s] \in Nat
               /\ ~a.more => taken'[s] = Total(s) /\ engine'[s] # "open",
           a.is = "stopped" => taken'[s] = taken[s] /\ engine'[s] # "open",
           a.is \in {"chunk", "stopped", "error"}
    PROVE  StreamInv(s)' /\ reply' \in [Streams -> Replies]
           /\ \A q \in Streams : q # s => reply'[q] = reply[q]
<1>1. r \in Requests /\ UNCHANGED <<client, holds, sent, seen, hurt>>
  BY DEF Pending, clients
<1>2. /\ reply' \in [Streams -> Replies]
      /\ \A q \in Streams : q # s => reply'[q] = reply[q]
      /\ Waiting(s) /\ sent[s] = r.id => reply'[s] = a
      /\ ~(Waiting(s) /\ sent[s] = r.id) => reply'[s] = reply[s]
  BY <1>1, TellReaches DEF IInv
<1>3. \A q \in Pending' : q.of = s => q.op # "ask"
  <2>1. \A q \in Pending : q.of = s /\ q.op = "ask" => q.id = 1
    BY Known DEF AskInv
  <2>2. CASE r.op = "ask"
    BY <2>1, <2>2 DEF IInv, OnceInv
  <2>3. CASE r.op # "ask"
    BY <2>3, Known DEF AskInv
  <2> QED
    BY <2>2, <2>3
<1>4. Total(s)' = Total(s) /\ (Waiting(s)' <=> Waiting(s))
  BY <1>1, WaitingPlaces DEF Total
<1>5. client[s] # "new"
  BY Known DEF AskInv
<1>6. AskInv(s)'
  BY <1>1, <1>3, <1>5, Known DEF AskInv
<1>7. ASSUME Waiting(s), sent[s] = r.id
      PROVE  StreamInv(s)'
  <2>1. reply'[s] = a /\ client'[s] \in {"asking", "pulling", "stopping"}
    BY <1>1, <1>2, <1>7, WaitingPlaces
  <2>2. ClientInv(s)'
    BY <1>1, <1>4, <1>7, Known DEF ClientInv
  <2>3. OverInv(s)'
    BY <2>1 DEF OverInv
  <2>4. AnswerInv(s)'
    <3>1. SUFFICES ASSUME ~hurt[s] PROVE AnswerInv(s)'
      BY <1>1 DEF AnswerInv
    <3>2. client[s] # "gone"
      BY <1>7, WaitingPlaces
    <3>3. /\ \A q \in Pending : q.of = s => q.id = sent[s]
          /\ seen[s] = 1..taken[s]
      BY <3>1, <3>2, Known DEF AnswerInv
    <3>4. \A q \in Pending' : q.of # s
      BY <1>7, <3>3 DEF IInv, OnceInv
    <3>5. a.is = "chunk" => seen[s] \cup a.atoms = 1..taken'[s]
      <4>1. taken[s] \in Nat
        BY Known
      <4> QED
        BY <3>3, <4>1
    <3> QED
      BY <1>1, <1>4, <2>1, <3>3, <3>4, <3>5 DEF AnswerInv
  <2> QED
    BY <1>6, <2>2, <2>3, <2>4 DEF StreamInv
<1>8. ASSUME ~(Waiting(s) /\ sent[s] = r.id)
      PROVE  StreamInv(s)'
  <2>1. reply'[s] = reply[s]
    BY <1>2, <1>8
  <2>2. ClientInv(s)'
    BY <1>1, <1>4, <2>1, Known DEF ClientInv
  <2>3. OverInv(s)'
    BY <1>1, <2>1, Known DEF OverInv
  <2>4. hurt[s] \/ client[s] = "gone"
    BY <1>8, Known DEF AnswerInv
  <2>5. AnswerInv(s)'
    BY <1>1, <2>4 DEF AnswerInv
  <2> QED
    BY <1>6, <2>2, <2>3, <2>5 DEF StreamInv
<1> QED
  BY <1>2, <1>7, <1>8

\* A request begins, or fails before it runs.
LEMMA BeginStep ==
    ASSUME IInv, Begin
    PROVE  IInv'
<1>1. /\ alive /\ busy = None /\ work # <<>> /\ Head(work) # Marker /\ work' = Tail(work)
      /\ UNCHANGED <<now, taken, bound, alive, server, client, holds, sent, seen, hurt>>
  BY DEF Begin, clients
<1>2. PICK r \in Requests : r = Head(work)
  <2>1. busy' \in {None, Head(work)}
    BY <1>1 DEF Begin
  <2> QED
    BY <1>1, <2>1, Dequeue DEF IInv
<1>3. /\ work' \in Seq(Requests \cup {Marker}) /\ OnceInv'
      /\ Pending' \subseteq Pending /\ r \in Pending
      /\ busy' = None => r \notin Pending'
  <2>1. busy' \in {None, Head(work)}
    BY <1>1 DEF Begin
  <2> QED
    BY <1>1, <1>2, <2>1, Dequeue DEF IInv
<1>4. PICK s \in Streams : s = r.of
  BY DEF Requests
<1>5. CASE /\ r.op = "ask" /\ busy' = r
           /\ engine' = [engine EXCEPT ![s] = "open"] /\ UNCHANGED <<table, reply>>
  <2>1. /\ engine' \in [Streams -> {"none", "open", "closed"}] /\ engine'[s] = "open"
        /\ \A q \in Streams : q # s => engine'[q] = engine[q]
    BY <1>4, <1>5 DEF IInv, ShapeInv, TypeOK
  <2>2. ShapeInv'
    BY <1>1, <1>3, <1>5, <2>1 DEF IInv, ShapeInv, TypeOK
  <2>3. OwnInv'
    <3>1. r # None /\ Held' = Held /\ OwnInv /\ server # "closed"
      BY <1>1, <1>5, SentinelAssumption DEF IInv, OwnInv, Held
    <3>2. ASSUME NEW q \in Streams
          PROVE  engine'[q] = "open" <=>
                   table'[q] # None \/ (busy' # None /\ busy'.of = q /\ busy'.op = "ask")
      <4>1. engine[q] = "open" <=> table[q] # None
        BY <1>1, <3>1 DEF OwnInv, EnginesAreOwned
      <4> QED
        BY <1>4, <1>5, <2>1, <3>1, <4>1
    <3>3. Cardinality(Held') <= Limit
      BY <3>1 DEF OwnInv, EnginesAreOwned, Held
    <3> QED
      BY <1>1, <3>1, <3>2, <3>3 DEF OwnInv, EnginesAreOwned, Held
  <2>4. \A q \in Streams : q # s => StreamInv(q)'
    <3>1. \A q \in Streams : q # s => Undisturbed(q)
      BY <1>1, <1>3, <1>5, <2>1 DEF Undisturbed
    <3> QED
      BY <3>1, OtherStreams DEF IInv
  <2>5. client[s] \in {"asking", "gone"} /\ reply[s].is \notin {"chunk", "stopped"}
    BY <1>3, <1>4, <1>5, Known DEF AskInv
  <2>6. Total(s)' = Total(s) /\ (Waiting(s)' <=> Waiting(s))
    BY <1>1, WaitingPlaces DEF Total
  <2>7. AskInv(s)'
    BY <1>1, <1>3, <1>4, <1>5, Known DEF AskInv
  <2>8. ClientInv(s)'
    BY <1>1, <1>4, <1>5, <2>6, Known DEF ClientInv
  <2>9. OverInv(s)'
    BY <1>1, <1>5, <2>5 DEF OverInv
  <2>10. AnswerInv(s)'
    BY <1>1, <1>3, <1>4, <1>5, <2>6, Known DEF AnswerInv
  <2> QED
    BY <1>3, <2>2, <2>3, <2>4, <2>7, <2>8, <2>9, <2>10 DEF IInv, StreamInv
<1>6. CASE /\ r.op = "next" /\ Swept[s] # None /\ busy' = r
           /\ table' = [Swept EXCEPT ![s] = now + Idle]
           /\ engine' = Closing(Expired) /\ UNCHANGED reply
  <2>1. /\ table' \in [Streams -> (0..(MaxTime + Idle)) \cup {None}]
        /\ \A q \in Streams : table'[q] # None <=> table[q] # None /\ q \notin Expired
    BY <1>6, SweepEffect, Deadline DEF IInv
  <2>2. /\ engine' \in [Streams -> {"none", "open", "closed"}]
        /\ \A q \in Streams : engine'[q] = "open" <=> engine[q] = "open" /\ q \notin Expired
    BY <1>6, ClosingEffect DEF IInv
  <2>3. ShapeInv'
    BY <1>1, <1>3, <1>6, <2>1, <2>2 DEF IInv, ShapeInv, TypeOK
  <2>4. OwnInv'
    <3>1. server # "closed"
      BY <1>1 DEF IInv, OwnInv
    <3> QED
      BY <1>1, <1>6, <2>1, <2>2, <3>1, OwnersLeft
  <2>5. \A q \in Streams : Undisturbed(q)
    BY <1>1, <1>3, <1>6, <2>1, <2>2 DEF Undisturbed
  <2> QED
    BY <1>3, <2>3, <2>4, <2>5, OtherStreams DEF IInv
<1>7. CASE /\ busy' = busy /\ Tell(r, Error)
           /\ table' = Swept /\ engine' = Closing(Expired)
  <2>1. /\ table' \in [Streams -> (0..(MaxTime + Idle)) \cup {None}]
        /\ \A q \in Streams : table'[q] # None <=> table[q] # None /\ q \notin Expired
    BY <1>7, SweepEffect DEF IInv
  <2>2. /\ engine' \in [Streams -> {"none", "open", "closed"}]
        /\ \A q \in Streams : engine'[q] = "open" <=> engine[q] = "open" /\ q \notin Expired
    BY <1>7, ClosingEffect DEF IInv
  <2>3. /\ StreamInv(s)' /\ reply' \in [Streams -> Replies]
        /\ \A q \in Streams : q # s => reply'[q] = reply[q]
    BY <1>1, <1>3, <1>4, <1>7, <2>2, RequestEnds, BareReplies DEF clients
  <2>4. ShapeInv'
    BY <1>1, <1>3, <1>7, <2>1, <2>2, <2>3 DEF IInv, ShapeInv, TypeOK
  <2>5. OwnInv'
    <3>1. server # "closed"
      BY <1>1 DEF IInv, OwnInv
    <3> QED
      BY <1>1, <1>7, <2>1, <2>2, <3>1, OwnersLeft
  <2>6. \A q \in Streams : q # s => Undisturbed(q)
    BY <1>1, <1>3, <2>1, <2>2, <2>3 DEF Undisturbed
  <2> QED
    BY <1>3, <2>3, <2>4, <2>5, <2>6, GatewayStep
<1>8. CASE r.op = "stop" /\ busy' = r /\ UNCHANGED <<table, engine, reply>>
  <2>1. ShapeInv'
    BY <1>1, <1>3, <1>8 DEF IInv, ShapeInv, TypeOK
  <2>2. OwnInv'
    <3>1. server # "closed"
      BY <1>1 DEF IInv, OwnInv
    <3> DEFINE S == {}
    <3>2. /\ \A q \in Streams : table'[q] # None <=> table[q] # None /\ q \notin S
          /\ \A q \in Streams : engine'[q] = "open" <=> engine[q] = "open" /\ q \notin S
      BY <1>8
    <3>3. /\ busy # None /\ busy.op = "ask" => busy.of \in S
          /\ busy' # None => busy'.op # "ask"
          /\ ~alive' => busy' = None
          /\ server' = "closed" => ~alive' /\ Held' = {}
      BY <1>1, <1>8, <3>1
    <3> HIDE DEF S
    <3> QED
      BY <3>2, <3>3, OwnersLeft
  <2>3. \A q \in Streams : Undisturbed(q)
    BY <1>1, <1>3, <1>8 DEF Undisturbed
  <2> QED
    BY <1>3, <2>1, <2>2, <2>3, OtherStreams DEF IInv
<1> QED
  BY <1>1, <1>2, <1>4, <1>5, <1>6, <1>7, <1>8 DEF Begin, NoSuchCursor

\* A chunk carries what the pull took.
LEMMA TookEffect ==
    ASSUME ShapeInv, NEW s \in Streams, NEW more \in BOOLEAN, taken' = Took(s)
    PROVE  /\ taken' \in [Streams -> 0..Answers] /\ taken'[s] = taken[s] + Got(s)
           /\ taken'[s] \in Nat /\ taken[s] <= taken'[s]
           /\ \A q \in Streams : q # s => taken'[q] = taken[q]
           /\ bound[s] # None => taken'[s] <= bound[s]
           /\ Done(s) => taken'[s] = Total(s)
           /\ Chunk(s, more) \in Replies /\ Chunk(s, more).is = "chunk"
           /\ Chunk(s, more).atoms = (taken[s] + 1)..taken'[s] /\ Chunk(s, more).more = more
<1> DEFINE n == taken[s] + Got(s)
<1>1. /\ Got(s) \in Nat /\ taken[s] \in Nat /\ n \in 0..Answers
      /\ bound[s] # None => n <= bound[s]
      /\ Done(s) => n = Total(s)
  BY PullNumbers
<1>2. /\ taken' \in [Streams -> 0..Answers] /\ taken'[s] = n
      /\ \A q \in Streams : q # s => taken'[q] = taken[q]
  BY <1>1 DEF ShapeInv, TypeOK, Took
<1>3. Answers \in Nat
  BY RemoteCursorsAssumption
<1>4. (taken[s] + 1)..n \in Chunks
  BY <1>1, <1>3 DEF Chunks
<1>5. n \in Nat /\ taken[s] <= n
  BY <1>1
<1>6. Chunk(s, more) = [is |-> "chunk", atoms |-> (taken[s] + 1)..n, more |-> more]
  BY DEF Chunk
<1> HIDE DEF n
<1>7. Chunk(s, more) \in Replies
  BY <1>4, <1>6 DEF Replies
<1>8. n = taken[s] + Got(s)
  BY DEF n
<1> QED
  BY <1>1, <1>2, <1>5, <1>6, <1>7, <1>8

\* What release() does: the entry goes and its engine is closed, unless the
\* sweep raised, and then the client is told.
LEMMA ReleaseEffect ==
    ASSUME IInv, NEW s \in Streams, table' = Released(s), engine' = Closing(ClosedBy(s)),
           busy # None, busy.op # "ask", busy' = None, UNCHANGED <<alive, server>>
    PROVE  /\ table' \in [Streams -> (0..(MaxTime + Idle)) \cup {None}]
           /\ engine' \in [Streams -> {"none", "open", "closed"}]
           /\ \A q \in Streams : table[q] = None => table'[q] = None
           /\ \A q \in Streams : engine'[q] = "open" => engine[q] = "open"
           /\ OwnInv'
           /\ ~ReleaseRaises(s) => engine'[s] # "open"
<1>1. /\ Swept \in [Streams -> (0..(MaxTime + Idle)) \cup {None}]
      /\ \A q \in Streams : Swept[q] # None <=> table[q] # None /\ q \notin Expired
  BY SweepEffect DEF IInv
<1>2. /\ engine' \in [Streams -> {"none", "open", "closed"}]
      /\ \A q \in Streams : engine'[q] = "open" <=> engine[q] = "open" /\ q \notin ClosedBy(s)
  BY ClosingEffect DEF IInv
<1>3. /\ table' \in [Streams -> (0..(MaxTime + Idle)) \cup {None}]
      /\ \A q \in Streams : table'[q] # None <=> table[q] # None /\ q \notin ClosedBy(s)
  BY <1>1 DEF Released, ClosedBy
<1>4. alive /\ server # "closed"
  BY DEF IInv, OwnInv
<1>5. OwnInv'
  <2> DEFINE S == ClosedBy(s)
  <2>1. /\ \A q \in Streams : table'[q] # None <=> table[q] # None /\ q \notin S
        /\ \A q \in Streams : engine'[q] = "open" <=> engine[q] = "open" /\ q \notin S
    BY <1>2, <1>3
  <2> HIDE DEF S
  <2> QED
    BY <1>4, <2>1, OwnersLeft
<1>6. ~ReleaseRaises(s) => engine'[s] # "open"
  <2>1. engine[s] = "open" => table[s] # None
    BY DEF IInv, OwnInv, EnginesAreOwned
  <2> QED
    BY <1>1, <1>2, <2>1 DEF ReleaseRaises, ClosedBy
<1> QED
  BY <1>2, <1>3, <1>5, <1>6

\* A request that ran ends well when its answer says what became of the stream.
LEMMA EndWell ==
    ASSUME IInv, NEW r \in Requests, NEW s \in Streams, r.of = s, busy = r, busy' = None,
           UNCHANGED <<now, bound, work, alive, server, clients>>,
           NEW a \in Replies, Tell(r, a), a.is \in {"chunk", "stopped", "error"},
           taken' \in [Streams -> 0..Answers], bound[s] # None => taken'[s] <= bound[s],
           \A q \in Streams : q # s => taken'[q] = taken[q],
           table' \in [Streams -> (0..(MaxTime + Idle)) \cup {None}],
           engine' \in [Streams -> {"none", "open", "closed"}],
           \A q \in Streams : q # s => (table[q] = None => table'[q] = None),
           \A q \in Streams : engine'[q] = "open" => engine[q] = "open",
           OwnInv',
           a.is = "chunk" =>
               /\ a.atoms = (taken[s] + 1)..taken'[s] /\ taken[s] <= taken'[s]
               /\ ~a.more => taken'[s] = Total(s) /\ engine'[s] # "open",
           a.is = "stopped" => taken'[s] = taken[s] /\ engine'[s] # "open"
    PROVE  IInv'
<1>1. /\ OnceInv' /\ r \in Pending /\ r \notin Pending' /\ Pending' \subseteq Pending
  <2>1. busy # None
    BY SentinelAssumption
  <2> QED
    BY <2>1, Complete DEF IInv
<1>2. taken'[s] \in Nat
  BY RemoteCursorsAssumption
<1>3. /\ StreamInv(s)' /\ reply' \in [Streams -> Replies]
      /\ \A q \in Streams : q # s => reply'[q] = reply[q]
  BY <1>1, <1>2, RequestEnds
<1>4. UNCHANGED <<client, holds, sent, seen, hurt>>
  BY DEF clients
<1>5. ShapeInv'
  BY <1>3, <1>4 DEF IInv, ShapeInv, TypeOK
<1>6. \A q \in Streams : q # s => Undisturbed(q)
  BY <1>1, <1>3, <1>4 DEF Undisturbed
<1> QED
  BY <1>1, <1>3, <1>5, <1>6, GatewayStep

\* A /next ends.
LEMMA EndNextStep ==
    ASSUME IInv, NEW r \in Requests, NEW s \in Streams, r.of = s, busy = r, busy' = None,
           UNCHANGED <<now, bound, work, alive, server, clients>>, r.op = "next", EndNext(r)
    PROVE  IInv'
<1>1. /\ table \in [Streams -> (0..(MaxTime + Idle)) \cup {None}]
      /\ engine \in [Streams -> {"none", "open", "closed"}]
      /\ taken \in [Streams -> 0..Answers] /\ (bound[s] # None => taken[s] <= bound[s])
      /\ busy # None /\ ShapeInv
  BY SentinelAssumption DEF IInv, ShapeInv, TypeOK
<1>2. CASE ~Done(s) /\ taken' = Took(s) /\ Tell(r, Chunk(s, TRUE)) /\ UNCHANGED <<table, engine>>
  <2>1. OwnInv'
    <3> DEFINE S == {}
    <3>1. /\ \A q \in Streams : table'[q] # None <=> table[q] # None /\ q \notin S
          /\ \A q \in Streams : engine'[q] = "open" <=> engine[q] = "open" /\ q \notin S
      BY <1>2
    <3>2. /\ busy # None /\ busy.op = "ask" => busy.of \in S
          /\ busy' # None => busy'.op # "ask"
          /\ ~alive' => busy' = None
          /\ server' = "closed" => ~alive' /\ Held' = {}
      BY <1>1 DEF IInv, OwnInv
    <3> HIDE DEF S
    <3> QED
      BY <3>1, <3>2, OwnersLeft
  <2>2. /\ taken' \in [Streams -> 0..Answers] /\ taken[s] <= taken'[s]
        /\ \A q \in Streams : q # s => taken'[q] = taken[q]
        /\ bound[s] # None => taken'[s] <= bound[s]
        /\ Chunk(s, TRUE) \in Replies /\ Chunk(s, TRUE).is = "chunk"
        /\ Chunk(s, TRUE).atoms = (taken[s] + 1)..taken'[s] /\ Chunk(s, TRUE).more
    BY <1>1, <1>2, TookEffect
  <2> QED
    BY <1>1, <1>2, <2>1, <2>2, EndWell
<1>3. CASE /\ Done(s) /\ taken' = Took(s)
           /\ table' = Released(s) /\ engine' = Closing(ClosedBy(s))
           /\ Tell(r, IF ReleaseRaises(s) THEN Error ELSE Chunk(s, FALSE))
  <2>1. /\ taken' \in [Streams -> 0..Answers] /\ taken[s] <= taken'[s]
        /\ taken'[s] = Total(s)
        /\ \A q \in Streams : q # s => taken'[q] = taken[q]
        /\ bound[s] # None => taken'[s] <= bound[s]
        /\ Chunk(s, FALSE) \in Replies /\ Chunk(s, FALSE).is = "chunk"
        /\ Chunk(s, FALSE).atoms = (taken[s] + 1)..taken'[s]
    BY <1>1, <1>3, TookEffect
  <2>2. /\ table' \in [Streams -> (0..(MaxTime + Idle)) \cup {None}]
        /\ engine' \in [Streams -> {"none", "open", "closed"}]
        /\ \A q \in Streams : table[q] = None => table'[q] = None
        /\ \A q \in Streams : engine'[q] = "open" => engine[q] = "open"
        /\ OwnInv'
        /\ ~ReleaseRaises(s) => engine'[s] # "open"
    BY <1>1, <1>3, ReleaseEffect
  <2>3. CASE ReleaseRaises(s)
    <3>1. Tell(r, Error)
      BY <1>3, <2>3
    <3> QED
      BY <2>1, <2>2, <3>1, BareReplies, EndWell
  <2>4. CASE ~ReleaseRaises(s)
    <3>1. Tell(r, Chunk(s, FALSE))
      BY <1>3, <2>4
    <3> QED
      BY <2>1, <2>2, <2>4, <3>1, EndWell, ZenonT(60)
  <2> QED
    BY <2>3, <2>4
<1>4. CASE /\ UNCHANGED taken /\ Tell(r, Error)
           /\ table' = Released(s) /\ engine' = Closing(ClosedBy(s))
  <2>1. /\ table' \in [Streams -> (0..(MaxTime + Idle)) \cup {None}]
        /\ engine' \in [Streams -> {"none", "open", "closed"}]
        /\ \A q \in Streams : table[q] = None => table'[q] = None
        /\ \A q \in Streams : engine'[q] = "open" => engine[q] = "open"
        /\ OwnInv'
    BY <1>1, <1>4, ReleaseEffect
  <2> QED
    BY <1>1, <1>4, <2>1, BareReplies, EndWell
<1> QED
  BY <1>2, <1>3, <1>4 DEF EndNext

\* A /stop ends.
LEMMA EndStopStep ==
    ASSUME IInv, NEW r \in Requests, NEW s \in Streams, r.of = s, busy = r, busy' = None,
           UNCHANGED <<now, bound, work, alive, server, clients>>, r.op = "stop", EndStop(r)
    PROVE  IInv'
<1>1. /\ taken \in [Streams -> 0..Answers] /\ (bound[s] # None => taken[s] <= bound[s])
      /\ busy # None /\ UNCHANGED taken
  BY SentinelAssumption DEF IInv, ShapeInv, TypeOK, EndStop
<1>2. /\ table' \in [Streams -> (0..(MaxTime + Idle)) \cup {None}]
      /\ engine' \in [Streams -> {"none", "open", "closed"}]
      /\ \A q \in Streams : table[q] = None => table'[q] = None
      /\ \A q \in Streams : engine'[q] = "open" => engine[q] = "open"
      /\ OwnInv'
      /\ ~ReleaseRaises(s) => engine'[s] # "open"
  BY <1>1, ReleaseEffect DEF EndStop
<1>3. CASE ReleaseRaises(s)
  <2>1. Tell(r, Error)
    BY <1>3 DEF EndStop
  <2> QED
    BY <1>1, <1>2, <2>1, BareReplies, EndWell
<1>4. CASE ~ReleaseRaises(s)
  <2>1. Tell(r, Bare("stopped"))
    BY <1>4 DEF EndStop
  <2> QED
    BY <1>1, <1>2, <1>4, <2>1, BareReplies, EndWell
<1> QED
  BY <1>3, <1>4

\* A stream whose /ask is refused, failed, or complete keeps no engine.
LEMMA AskClosed ==
    ASSUME IInv, NEW s \in Streams, NEW S, s \in S, table[s] = None,
           busy # None, busy.op = "ask", busy.of = s, busy' = None, UNCHANGED <<alive, server>>,
           engine' = Closing(S),
           table' \in [Streams -> (0..(MaxTime + Idle)) \cup {None}],
           \A q \in Streams : table'[q] # None <=> table[q] # None /\ q \notin S
    PROVE  /\ engine' \in [Streams -> {"none", "open", "closed"}]
           /\ \A q \in Streams : engine'[q] = "open" => engine[q] = "open"
           /\ engine'[s] # "open" /\ OwnInv'
           /\ \A q \in Streams : table[q] = None => table'[q] = None
<1>1. /\ engine' \in [Streams -> {"none", "open", "closed"}]
      /\ \A q \in Streams : engine'[q] = "open" <=> engine[q] = "open" /\ q \notin S
  BY ClosingEffect DEF IInv
<1>2. alive /\ server # "closed"
  BY DEF IInv, OwnInv
<1>3. OwnInv'
  BY <1>1, <1>2, OwnersLeft
<1> QED
  BY <1>1, <1>3

\* A stream is admitted to the table while the table is below its limit.
LEMMA AskAdmitted ==
    ASSUME IInv, NEW s \in Streams, table[s] = None, ~Full,
           busy # None, busy.op = "ask", busy.of = s, busy' = None, UNCHANGED <<alive, server>>,
           engine' = Closing(Expired), table' = [Swept EXCEPT ![s] = now + Idle]
    PROVE  /\ table' \in [Streams -> (0..(MaxTime + Idle)) \cup {None}]
           /\ engine' \in [Streams -> {"none", "open", "closed"}]
           /\ \A q \in Streams : q # s => (table[q] = None => table'[q] = None)
           /\ \A q \in Streams : engine'[q] = "open" => engine[q] = "open"
           /\ OwnInv'
<1> DEFINE Kept == {q \in Streams : Swept[q] # None}
<1>1. /\ Swept \in [Streams -> (0..(MaxTime + Idle)) \cup {None}]
      /\ \A q \in Streams : Swept[q] # None <=> table[q] # None /\ q \notin Expired
      /\ Kept \in SUBSET Held
  BY SweepEffect DEF IInv
<1>2. /\ table' \in [Streams -> (0..(MaxTime + Idle)) \cup {None}] /\ table'[s] # None
      /\ \A q \in Streams : q # s => table'[q] = Swept[q]
  BY <1>1, Deadline DEF IInv
<1>3. /\ engine' \in [Streams -> {"none", "open", "closed"}]
      /\ \A q \in Streams : engine'[q] = "open" <=> engine[q] = "open" /\ q \notin Expired
  BY ClosingEffect DEF IInv
<1>4. Held' = Kept \cup {s} /\ s \notin Kept
  BY <1>1, <1>2 DEF Held
<1>5. IsFiniteSet(Kept) /\ Cardinality(Kept) \in Nat /\ ~(Cardinality(Kept) >= Limit)
  BY <1>1, FewerHeld DEF IInv, Full
<1> HIDE DEF Kept
<1>6. IsFiniteSet(Held') /\ Cardinality(Held') = Cardinality(Kept) + 1
  BY <1>4, <1>5, FS_AddElement
<1>7. Cardinality(Held') <= Limit
  <2>1. Limit \in Nat
    BY RemoteCursorsAssumption
  <2> QED
    BY <1>5, <1>6, <2>1
<1>8. ASSUME NEW q \in Streams
      PROVE  engine'[q] = "open" <=> table'[q] # None
  <2>1. engine[q] = "open" <=>
          table[q] # None \/ (busy # None /\ busy.of = q /\ busy.op = "ask")
    BY DEF IInv, OwnInv, EnginesAreOwned
  <2>2. s \notin Expired
    BY DEF Expired
  <2>3. CASE q = s
    BY <1>2, <1>3, <2>1, <2>2, <2>3
  <2>4. CASE q # s
    BY <1>1, <1>2, <1>3, <2>1, <2>4
  <2> QED
    BY <2>3, <2>4
<1>9. alive /\ server # "closed"
  BY DEF IInv, OwnInv
<1>10. OwnInv'
  BY <1>6, <1>7, <1>8, <1>9 DEF OwnInv, EnginesAreOwned, Held
<1> QED
  BY <1>1, <1>2, <1>3, <1>10

\* An /ask ends.
LEMMA EndAskStep ==
    ASSUME IInv, NEW r \in Requests, NEW s \in Streams, r.of = s, busy = r, busy' = None,
           UNCHANGED <<now, bound, work, alive, server, clients>>, r.op = "ask", EndAsk(r)
    PROVE  IInv'
<1>1. /\ table \in [Streams -> (0..(MaxTime + Idle)) \cup {None}]
      /\ taken \in [Streams -> 0..Answers] /\ (bound[s] # None => taken[s] <= bound[s])
      /\ busy # None /\ ShapeInv
  BY SentinelAssumption DEF IInv, ShapeInv, TypeOK
<1>2. table[s] = None /\ taken[s] = 0
  <2>1. r \in Pending
    BY DEF Pending
  <2> QED
    BY <2>1, Known DEF AskInv
<1> DEFINE S == {s}
<1>3. s \in S /\ \A q \in Streams : table[q] # None <=> table[q] # None /\ q \notin S
  BY <1>2
<1>4. Closing({s}) = Closing(S)
  OBVIOUS
<1> HIDE DEF S
<1>5. ASSUME UNCHANGED table, engine' = Closing({s})
      PROVE  /\ table' \in [Streams -> (0..(MaxTime + Idle)) \cup {None}]
             /\ engine' \in [Streams -> {"none", "open", "closed"}]
             /\ \A q \in Streams : engine'[q] = "open" => engine[q] = "open"
             /\ engine'[s] # "open" /\ OwnInv'
             /\ \A q \in Streams : table[q] = None => table'[q] = None
  BY <1>1, <1>2, <1>3, <1>4, <1>5, AskClosed
<1>6. CASE /\ bound[s] = 0 /\ engine' = Closing({s}) /\ UNCHANGED <<table, taken>>
           /\ Tell(r, IF s \in Stubborn THEN Error ELSE EmptyAnswer)
  <2>1. EmptyAnswer.atoms = (taken[s] + 1)..taken'[s] /\ taken[s] <= taken'[s]
    <3>1. (0 + 1)..0 = {}
      OBVIOUS
    <3> QED
      BY <1>2, <1>6, <3>1, BareReplies
  <2>2. taken'[s] = Total(s)
    <3>1. 0 \in Int /\ Answers \in Int /\ Answers \in Nat /\ None # 0
      BY RemoteCursorsAssumption
    <3>2. Total(s) = Min({Answers, 0})
      BY <1>6, <3>1 DEF Total
    <3>3. Min({Answers, 0}) \in {Answers, 0} /\ Min({Answers, 0}) <= 0
      BY <3>1, MinOfTwo, Zenon
    <3> QED
      BY <1>2, <1>6, <3>1, <3>2, <3>3
  <2>3. CASE s \in Stubborn
    <3>1. Tell(r, Error)
      BY <1>6, <2>3
    <3> QED
      BY <1>1, <1>5, <1>6, <3>1, BareReplies, EndWell
  <2>4. CASE s \notin Stubborn
    <3>1. Tell(r, EmptyAnswer)
      BY <1>6, <2>4
    <3> QED
      BY <1>1, <1>5, <1>6, <2>1, <2>2, <3>1, BareReplies, EndWell
  <2> QED
    BY <2>3, <2>4
<1>7. CASE engine' = Closing({s}) /\ UNCHANGED <<table, taken>> /\ Tell(r, Error)
  BY <1>1, <1>5, <1>7, BareReplies, EndWell
<1>8. CASE /\ Done(s) /\ taken' = Took(s) /\ engine' = Closing({s}) /\ UNCHANGED table
           /\ Tell(r, IF s \in Stubborn THEN Error ELSE Chunk(s, FALSE))
  <2>1. /\ taken' \in [Streams -> 0..Answers] /\ taken[s] <= taken'[s]
        /\ taken'[s] = Total(s)
        /\ \A q \in Streams : q # s => taken'[q] = taken[q]
        /\ bound[s] # None => taken'[s] <= bound[s]
        /\ Chunk(s, FALSE) \in Replies /\ Chunk(s, FALSE).is = "chunk"
        /\ Chunk(s, FALSE).atoms = (taken[s] + 1)..taken'[s]
    BY <1>1, <1>8, TookEffect
  <2>2. CASE s \in Stubborn
    <3>1. Tell(r, Error)
      BY <1>8, <2>2
    <3> QED
      BY <1>5, <1>8, <2>1, <3>1, BareReplies, EndWell
  <2>3. CASE s \notin Stubborn
    <3>1. Tell(r, Chunk(s, FALSE))
      BY <1>8, <2>3
    <3> QED
      BY <1>5, <1>8, <2>1, <3>1, EndWell
  <2> QED
    BY <2>2, <2>3
<1>9. CASE /\ taken' = Took(s) /\ table' = Swept /\ Tell(r, Error)
           /\ engine' = Closing(Expired \cup ClosedOnRefusal(s))
  <2>1. /\ taken' \in [Streams -> 0..Answers]
        /\ \A q \in Streams : q # s => taken'[q] = taken[q]
        /\ bound[s] # None => taken'[s] <= bound[s]
    BY <1>1, <1>9, TookEffect
  <2> DEFINE R == Expired \cup ClosedOnRefusal(s)
  <2>2. s \in R /\ engine' = Closing(R)
    BY <1>9 DEF ClosedOnRefusal
  <2>3. /\ table' \in [Streams -> (0..(MaxTime + Idle)) \cup {None}]
        /\ \A q \in Streams : table'[q] # None <=> table[q] # None /\ q \notin R
    BY <1>1, <1>2, <1>9, SweepEffect DEF IInv, ClosedOnRefusal
  <2> HIDE DEF R
  <2>4. /\ engine' \in [Streams -> {"none", "open", "closed"}]
        /\ \A q \in Streams : engine'[q] = "open" => engine[q] = "open"
        /\ OwnInv'
        /\ \A q \in Streams : table[q] = None => table'[q] = None
    BY <1>1, <1>2, <2>2, <2>3, AskClosed
  <2> QED
    BY <1>9, <2>1, <2>3, <2>4, BareReplies, EndWell, ZenonT(60)
<1>10. CASE /\ taken' = Took(s) /\ ~Full /\ table' = [Swept EXCEPT ![s] = now + Idle]
            /\ Tell(r, Chunk(s, TRUE)) /\ engine' = Closing(Expired)
  <2>1. /\ taken' \in [Streams -> 0..Answers] /\ taken[s] <= taken'[s]
        /\ \A q \in Streams : q # s => taken'[q] = taken[q]
        /\ bound[s] # None => taken'[s] <= bound[s]
        /\ Chunk(s, TRUE) \in Replies /\ Chunk(s, TRUE).is = "chunk"
        /\ Chunk(s, TRUE).atoms = (taken[s] + 1)..taken'[s] /\ Chunk(s, TRUE).more
    BY <1>1, <1>10, TookEffect
  <2>2. /\ table' \in [Streams -> (0..(MaxTime + Idle)) \cup {None}]
        /\ engine' \in [Streams -> {"none", "open", "closed"}]
        /\ \A q \in Streams : q # s => (table[q] = None => table'[q] = None)
        /\ \A q \in Streams : engine'[q] = "open" => engine[q] = "open"
        /\ OwnInv'
    BY <1>1, <1>2, <1>10, AskAdmitted
  <2> QED
    BY <1>10, <2>1, <2>2, EndWell, ZenonT(60)
<1>11. \/ /\ bound[s] = 0 /\ engine' = Closing({s}) /\ UNCHANGED <<table, taken>>
          /\ Tell(r, IF s \in Stubborn THEN Error ELSE EmptyAnswer)
       \/ engine' = Closing({s}) /\ UNCHANGED <<table, taken>> /\ Tell(r, Error)
       \/ /\ Done(s) /\ taken' = Took(s) /\ engine' = Closing({s}) /\ UNCHANGED table
          /\ Tell(r, IF s \in Stubborn THEN Error ELSE Chunk(s, FALSE))
       \/ /\ taken' = Took(s) /\ table' = Swept /\ Tell(r, Error)
          /\ engine' = Closing(Expired \cup ClosedOnRefusal(s))
       \/ /\ taken' = Took(s) /\ ~Full /\ table' = [Swept EXCEPT ![s] = now + Idle]
          /\ Tell(r, Chunk(s, TRUE)) /\ engine' = Closing(Expired)
  BY DEF EndAsk
<1> QED
  BY <1>6, <1>7, <1>8, <1>9, <1>10, <1>11

\* A request ends.
LEMMA EndStep ==
    ASSUME IInv, End
    PROVE  IInv'
<1>1. /\ busy # None /\ busy' = None
      /\ UNCHANGED <<now, bound, work, alive, server, clients>>
  BY DEF End
<1>2. PICK r \in Requests : r = busy
  BY <1>1 DEF IInv, ShapeInv, TypeOK
<1>3. PICK s \in Streams : r.of = s
  BY DEF Requests
<1>4. \/ r.op = "ask" /\ EndAsk(r)
      \/ r.op = "next" /\ EndNext(r)
      \/ r.op = "stop" /\ EndStop(r)
  BY <1>2 DEF End
<1> QED
  BY <1>1, <1>2, <1>3, <1>4, EndAskStep, EndNextStep, EndStopStep

-----------------------------------------------------------------------------
(* The server.                                                              *)

\* close() tells the worker to end, once.
LEMMA CloseServerStep ==
    ASSUME IInv, CloseServer
    PROVE  IInv'
<1>1. /\ UNCHANGED <<now, table, engine, taken, bound, busy, alive, reply>>
      /\ UNCHANGED <<client, holds, sent, seen, hurt>> /\ server' = "closing"
  BY DEF CloseServer, gateway, clients
<1>2. work' \in Seq(Requests \cup {Marker}) /\ OnceInv' /\ Pending' \subseteq Pending
  <2>1. CASE work' = Append(work, Marker)
    <3>1. Marker \notin Requests
      BY SentinelAssumption
    <3> QED
      BY <1>1, <2>1, <3>1, Enqueue DEF IInv
  <2>2. CASE UNCHANGED work
    BY <1>1, <2>2, SameQueue DEF IInv, ShapeInv, TypeOK
  <2> QED
    BY <2>1, <2>2 DEF CloseServer
<1>3. ShapeInv'
  BY <1>1, <1>2 DEF IInv, ShapeInv, TypeOK
<1>4. OwnInv'
  BY <1>1 DEF IInv, OwnInv, Held, EnginesAreOwned
<1>5. \A s \in Streams : Undisturbed(s)
  BY <1>1, <1>2 DEF Undisturbed
<1> QED
  BY <1>2, <1>3, <1>4, <1>5, OtherStreams DEF IInv

\* The worker reads the marker and ends; nothing runs.
LEMMA WorkerEndsStep ==
    ASSUME IInv, WorkerEnds
    PROVE  IInv'
<1>1. /\ alive /\ busy = None /\ busy' = None /\ work # <<>> /\ alive' = FALSE
      /\ work' = Tail(work)
      /\ UNCHANGED <<now, table, engine, taken, bound, busy, server, reply>>
      /\ UNCHANGED <<client, holds, sent, seen, hurt>>
  BY DEF WorkerEnds, gateway, clients
<1>2. work' \in Seq(Requests \cup {Marker}) /\ OnceInv' /\ Pending' \subseteq Pending
  BY <1>1, Dequeue DEF IInv
<1>3. ShapeInv'
  BY <1>1, <1>2 DEF IInv, ShapeInv, TypeOK
<1>4. OwnInv'
  BY <1>1 DEF IInv, OwnInv, Held, EnginesAreOwned
<1>5. \A s \in Streams : Undisturbed(s)
  BY <1>1, <1>2 DEF Undisturbed
<1> QED
  BY <1>2, <1>3, <1>4, <1>5, OtherStreams DEF IInv

\* The join returns: an ended worker's table is emptied and its engines closed.
LEMMA JoinedStep ==
    ASSUME IInv, Joined
    PROVE  IInv'
<1>1. /\ UNCHANGED <<now, taken, bound, work, busy, alive, reply>>
      /\ UNCHANGED <<client, holds, sent, seen, hurt>> /\ server' = AfterJoin
  BY DEF Joined, worker, clients
<1>2. OnceInv' /\ Pending' = Pending
  BY <1>1, SameQueue DEF IInv
<1>3. CASE alive
  <2>1. UNCHANGED <<table, engine>> /\ server' = "failed"
    BY <1>1, <1>3 DEF Joined, MayRelease, AfterJoin
  <2>2. ShapeInv'
    BY <1>1, <2>1 DEF IInv, ShapeInv, TypeOK
  <2>3. OwnInv'
    BY <1>1, <1>3, <2>1 DEF IInv, OwnInv, Held, EnginesAreOwned
  <2>4. \A s \in Streams : Undisturbed(s)
    BY <1>1, <1>2, <2>1 DEF Undisturbed
  <2> QED
    BY <1>2, <2>2, <2>3, <2>4, OtherStreams DEF IInv
<1>4. CASE ~alive
  <2>1. /\ server' = "closed" /\ table' = [s \in Streams |-> None]
        /\ engine' = Closing(Held)
    BY <1>1, <1>4 DEF Joined, MayRelease, AfterJoin, Held
  <2>2. /\ engine' \in [Streams -> {"none", "open", "closed"}]
        /\ \A q \in Streams : engine'[q] = "open" <=> engine[q] = "open" /\ q \notin Held
    BY <2>1, ClosingEffect DEF IInv
  <2>3. \A q \in Streams : table'[q] = None /\ (table[q] # None => q \in Held)
    BY <2>1 DEF Held
  <2>4. ShapeInv'
    BY <1>1, <2>1, <2>2 DEF IInv, ShapeInv, TypeOK
  <2>5. OwnInv'
    <3> DEFINE S == Held
    <3>1. /\ \A q \in Streams : table'[q] # None <=> table[q] # None /\ q \notin S
          /\ \A q \in Streams : engine'[q] = "open" <=> engine[q] = "open" /\ q \notin S
      BY <2>2, <2>3
    <3>2. busy = None /\ busy' = None /\ ~alive'
      BY <1>1, <1>4 DEF IInv, OwnInv
    <3>3. Held' = {}
      BY <2>3 DEF Held
    <3> HIDE DEF S
    <3> QED
      BY <3>1, <3>2, <3>3, OwnersLeft
  <2>6. \A s \in Streams : Undisturbed(s)
    BY <1>1, <1>2, <2>2, <2>3 DEF Undisturbed
  <2> QED
    BY <1>2, <2>4, <2>5, <2>6, OtherStreams DEF IInv
<1> QED
  BY <1>3, <1>4

\* Time passes, or nothing happens.
LEMMA IdleStep ==
    ASSUME IInv, Tick \/ UNCHANGED vars
    PROVE  IInv'
<1>1. /\ UNCHANGED <<table, engine, taken, bound, work, busy, alive, server, reply>>
      /\ UNCHANGED <<client, holds, sent, seen, hurt>>
  BY DEF Tick, vars, gateway, worker, clients
<1>2. now' \in 0..MaxTime
  BY RemoteCursorsAssumption DEF Tick, vars, IInv, ShapeInv, TypeOK
<1>3. ShapeInv'
  BY <1>1, <1>2 DEF IInv, ShapeInv, TypeOK
<1>4. OnceInv' /\ Pending' = Pending
  BY <1>1, SameQueue DEF IInv
<1>5. OwnInv'
  BY <1>1, SameOwners DEF IInv
<1>6. \A s \in Streams : Undisturbed(s)
  BY <1>1, <1>4 DEF Undisturbed
<1> QED
  BY <1>3, <1>4, <1>5, <1>6, OtherStreams DEF IInv

-----------------------------------------------------------------------------
(* The theorems.                                                            *)

\* A fresh served space satisfies the invariant.
LEMMA InitHolds ==
    ASSUME Init
    PROVE  IInv
<1>1. NoReply \in Replies /\ NoReply.is = "none" /\ {} \in Chunks
  BY BareReplies DEF Chunks
<1>2. 0 \in 0..MaxTime /\ 0 \in 0..Answers /\ \A s \in Streams : 0 <= MaxRequests[s]
  BY RemoteCursorsAssumption
<1>3. ShapeInv
  <2>1. work \in Seq(Requests \cup {Marker})
    BY EmptySeq DEF Init
  <2> QED
    BY <1>1, <1>2, <2>1 DEF Init, ShapeInv, TypeOK, Places
<1>4. Pending = {} /\ OnceInv
  <2>1. 1..Len(work) = {} /\ busy \notin Requests
    BY SentinelAssumption DEF Init
  <2>2. Pending = {}
    BY <2>1 DEF Pending
  <2> QED
    BY <2>1, <2>2 DEF OnceInv
<1>5. OwnInv
  <2>1. Held = {} /\ IsFiniteSet(Held) /\ Cardinality(Held) = 0 /\ Limit \in Nat
    BY FS_EmptySet, RemoteCursorsAssumption DEF Init, Held
  <2>2. Cardinality(Held) <= Limit
    BY <2>1
  <2> QED
    BY <2>1, <2>2 DEF Init, OwnInv, EnginesAreOwned, Held
<1>6. ASSUME NEW s \in Streams
      PROVE  StreamInv(s)
  <2>1. 1..0 = {}
    OBVIOUS
  <2> QED
    BY <1>1, <1>4, <2>1 DEF Init, StreamInv, AskInv, ClientInv, OverInv, AnswerInv, Waiting, AfterError
<1> QED
  BY <1>3, <1>4, <1>5, <1>6 DEF IInv

\* Every step keeps the invariant.
LEMMA NextHolds ==
    ASSUME IInv, [Next]_vars
    PROVE  IInv'
<1>1. CASE \E s \in Streams : Ask(s) \/ Pull(s) \/ Close(s) \/ Discard(s)
  BY <1>1, AskingSteps
<1>2. CASE \E s \in Streams : Hear(s) \/ Lose(s)
  BY <1>2, HearingSteps
<1>3. CASE Begin
  BY <1>3, BeginStep
<1>4. CASE End
  BY <1>4, EndStep
<1>5. CASE CloseServer
  BY <1>5, CloseServerStep
<1>6. CASE WorkerEnds
  BY <1>6, WorkerEndsStep
<1>7. CASE Joined
  BY <1>7, JoinedStep
<1>8. CASE Tick \/ UNCHANGED vars
  BY <1>8, IdleStep
<1> QED
  BY <1>1, <1>2, <1>3, <1>4, <1>5, <1>6, <1>7, <1>8 DEF Next

\* The invariant holds in every behaviour of client, gateway and server.
THEOREM Inductive == Spec => []IInv
<1>1. Init => IInv
  BY InitHolds
<1>2. IInv /\ [Next]_vars => IInv'
  BY NextHolds
<1> QED
  BY <1>1, <1>2, PTL DEF Spec

\* Every variable keeps its type: no pull takes more than there is, and no
\* request is numbered beyond the bound (metta/remote).
THEOREM TypeCorrect == Spec => []TypeOK
<1>1. IInv => TypeOK
  BY DEF IInv, ShapeInv
<1> QED
  BY <1>1, Inductive, PTL

\* An engine cursor is open exactly while the table holds it or the request
\* that opened it runs, and the table keeps its limit (_Cursors.open, _ask).
THEOREM Owned == Spec => []EnginesAreOwned
<1>1. IInv => EnginesAreOwned
  BY DEF IInv, OwnInv
<1> QED
  BY <1>1, Inductive, PTL

\* A stream that ends without an error has delivered all its answers up to its
\* bound: a lost, expired or closed cursor never looks like an end
\* (_Cursors.take, RemoteCursor._next_atom).
THEOREM EndsComplete == Spec => []EndIsComplete
<1>1. ASSUME IInv
      PROVE  EndIsComplete
  <2>1. SUFFICES ASSUME NEW s \in Streams, client[s] = "ended", ~hurt[s]
                 PROVE  seen[s] = 1..Total(s)
    BY DEF EndIsComplete, Total
  <2>2. reply[s].is = "none"
    BY <1>1, <2>1, Known, WaitingPlaces DEF ClientInv
  <2> QED
    BY <1>1, <2>1, <2>2, Known DEF AnswerInv
<1>2. IInv => EndIsComplete
  BY <1>1
<1> QED
  BY <1>2, Inductive, PTL

\* A cursor that ended, or whose close() returned, holds no engine at the
\* server (RemoteCursor.close, _Cursors.release).
THEOREM EndsReleased == Spec => []ClosedIsReleased
<1>1. IInv => ClosedIsReleased
  BY DEF IInv, StreamInv, OverInv, ClosedIsReleased
<1> QED
  BY <1>1, Inductive, PTL

\* A closed server holds no engine, of streams walked away from neither
\* (Server.close).
THEOREM ServerHoldsNothing == Spec => []ClosedServerHoldsNothing
<1>1. ASSUME IInv, server = "closed", NEW s \in Streams
      PROVE  engine[s] # "open"
  <2>1. busy = None /\ table[s] = None
    BY <1>1 DEF IInv, OwnInv, Held
  <2> QED
    BY <1>1, <2>1 DEF IInv, OwnInv, EnginesAreOwned
<1>2. IInv => ClosedServerHoldsNothing
  BY <1>1 DEF ClosedServerHoldsNothing
<1> QED
  BY <1>2, Inductive, PTL

\* No step closes an engine under a pull of another request: a step that closes
\* one has the worker idle, or ends the request it ran (Server.close, _Cursors).
THEOREM QuietPulls == Spec => NeverClosedUnderPull
<1>1. ASSUME IInv, [Next]_vars, NEW s \in Streams, busy # None,
             engine[s] = "open", engine'[s] = "closed"
      PROVE  busy' = None
  <2>1. alive
    BY <1>1 DEF IInv, OwnInv
  <2>2. CASE \E q \in Streams : Ask(q) \/ Pull(q) \/ Close(q) \/ Hear(q) \/ Lose(q) \/ Discard(q)
    <3>1. UNCHANGED engine
      BY <2>2 DEF Ask, Pull, Close, Hear, Lose, Discard, gateway
    <3> QED
      BY <1>1, <3>1
  <2>3. CASE Begin
    BY <1>1, <2>3 DEF Begin
  <2>4. CASE End
    BY <2>4 DEF End
  <2>5. CASE CloseServer \/ WorkerEnds \/ Tick \/ UNCHANGED vars
    <3>1. UNCHANGED engine
      BY <2>5 DEF CloseServer, WorkerEnds, Tick, vars, gateway
    <3> QED
      BY <1>1, <3>1
  <2>6. CASE Joined
    <3>1. UNCHANGED engine
      BY <2>1, <2>6 DEF Joined, MayRelease
    <3> QED
      BY <1>1, <3>1
  <2> QED
    BY <1>1, <2>2, <2>3, <2>4, <2>5, <2>6 DEF Next
<1>2. IInv /\ [Next]_vars =>
        [\A s \in Streams :
           busy # None /\ busy.of = s /\ engine[s] = "open" /\ engine'[s] = "closed"
           => busy' = None]_vars
  BY <1>1
<1> QED
  BY <1>2, Inductive, PTL DEF Spec, NeverClosedUnderPull

=============================================================================
