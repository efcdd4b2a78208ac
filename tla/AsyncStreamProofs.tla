-------------------------- MODULE AsyncStreamProofs --------------------------
(***************************************************************************)
(* Theorems about a standing query delivered as an asynchronous stream     *)
(* (metta/aio/_views.py), for any number of consumers, closers, owners,    *)
(* stoppers and writers, any of whom the engine may refuse: a closed       *)
(* stream and a closed connection hold no fold but one whose undo failed,  *)
(* what is live is owned, no event is lost in silence, and a close queues  *)
(* a terminator.                                                           *)
(***************************************************************************)
EXTENDS AsyncStream, SequenceTheorems, FiniteSetTheorems, TLAPS

-----------------------------------------------------------------------------
(* The inductive invariant.                                                 *)

\* Places a coroutine is in while it holds the _opening lock.
Held == Registering \cup {"publish", "undo", "raise", "cancel", "mark"}

\* The lock has one holder, the first of its queue.
LockInv ==
    /\ \A i, j \in 1..Len(opening) : opening[i] = opening[j] => i = j
    /\ \A i \in 1..Len(opening) : pc[opening[i]] \in Held \cup {"opening", "wait"}
    /\ \A p \in Coroutines : pc[p] \in Held => Holds(p)

\* One owner or stopper at a time closes the connection.
ParentInv ==
    /\ \A p \in Owners \cup Stoppers : pc[p] \notin {"idle", "done"} => parent = "closing"
    /\ \A p, q \in Owners \cup Stoppers :
         pc[p] \notin {"idle", "done"} /\ pc[q] \notin {"idle", "done"} => p = q

\* What a consumer and a writer in a place may count on.
Consumes(place) ==
    /\ place \in {"subscribe", "assign"} => acquiring
    /\ place \in Registering \ {"finish"} => tracked \/ closed
    /\ place \in Registering \cup {"publish", "undo", "raise"} => published = None
    /\ place \in {"ready", "get"} => published # None

Retiring == {"retire", "retireCancel", "retireMark"}

Writes(w, place) ==
    /\ place \in {"idle"} \cup InFlight /\ (place # "idle" => fold[w] # None)
    /\ place \in Retiring => loop = "closed"
    /\ place \in {"retireCancel", "retireMark"} => orphaned

RegisterInv ==
    /\ \A c \in Consumers : Consumes(pc[c])
    /\ \A w \in Writers : Writes(w, pc[w])
    /\ \A p \in Stoppers : pc[p] = "post" => closed /\ ~tracked
    /\ orphaned => loop = "closed"
    /\ parent = "closed" => ~tracked

\* A request on the worker, and the places it is waited for in.
Calls(place, state) ==
    /\ state # "none" => place \in {"begin", "subscribe", "assign", "undo", "cancel"}
    /\ place = "begin" => state \in Running \cup {"ordinary", "failed"}
    /\ place \in {"subscribe", "assign"} => state \in Running

CallInv ==
    \A p \in Coroutines :
        Calls(pc[p], crossing[p]) /\ (pc[p] = "undo" => p \in Consumers /\ sub[p] = p)

\* A registration that a close has signalled, and one that will not subscribe.
Barred(c) == pc[c] \in {"begin", "subscribe", "assign"} => crossing[c] # "running"
Blocked(c) == pc[c] # "assign" /\ (pc[c] = "subscribe" => crossing[c] = "stopped")

\* A stop() that reads the handle has signalled what was running, and no
\* registration gets past it; nor past a stream that is closed.
StopInv ==
    /\ \A p \in Stoppers :
         /\ pc[p] \in {"hold", "stopCancel", "stopMark", "post"} => \A c \in Consumers : Barred(c)
         /\ pc[p] \in {"stopCancel", "stopMark", "post"} => \A c \in Consumers : Blocked(c)
    /\ closed /\ ~orphaned => \A c \in Consumers : Blocked(c)

\* The live folds that a close answers for.
Kept == {r \in live : ~GivenUp(r) /\ ~Overtaken(r)}

\* A process that is cancelling the fold it read, and one that has.
Cancels(p) ==
    \/ p \in Coroutines /\ pc[p] = "cancel"
    \/ p \in Stoppers /\ pc[p] = "stopCancel"
    \/ p \in Writers /\ pc[p] = "retireCancel"
Marks(p) ==
    \/ p \in Coroutines /\ (pc[p] = "mark" \/ crossing[p] = "done")
    \/ p \in Stoppers /\ pc[p] = "stopMark"
    \/ p \in Writers /\ pc[p] = "retireMark"

Acquired == {"assign", "finish", "publish", "undo"}

\* Where the handle of such a fold is, and what a close knows of it.
LiveInv ==
    /\ \A r \in Kept :
         (handle = r \/ pc[r] = "assign") /\ (published = r \/ pc[r] \in Acquired)
    /\ closed \/ ~tracked => Kept = {}
    /\ \A p \in Procs : (Cancels(p) => Kept \subseteq {sub[p]}) /\ (Marks(p) => Kept = {})

Posted(e) == \E i \in 1..Len(posted) : posted[i] # End /\ posted[i][2] = e
Queued(e) == \E r \in Consumers : \E i \in 1..Len(events[r]) : events[r][i] = e

\* Every event is in one place, and a gap is counted once.
LossInv ==
    /\ IsFiniteSet(lost) /\ dropped = Cardinality(lost) /\ lost \subseteq 1..sent
    /\ \A i \in 1..Len(posted) : posted[i] # End => posted[i][2] \in (1..sent) \ lost
    /\ \A i, j \in 1..Len(posted) :
         i # j /\ posted[i] # End /\ posted[j] # End => posted[i][2] # posted[j][2]
    /\ \A i \in 1..Len(posted) : posted[i] = End => closed
    /\ ~closed => \A e \in 1..sent : e \in taken \cup lost \cup told \/ Posted(e) \/ Queued(e)

QueueInv == \A r \in Consumers : Len(events[r]) <= QueueMax

\* Only an open loop delivers.
IInv ==
    /\ TypeOK /\ LockInv /\ ParentInv /\ RegisterInv /\ CallInv /\ StopInv /\ LiveInv /\ QueueInv
    /\ loop = "open" => LossInv /\ CloseWakesOne

-----------------------------------------------------------------------------
(* Sequences.                                                               *)

\* What follows the head.
LEMMA TailShifts ==
    ASSUME NEW S, NEW s \in Seq(S), s # <<>>
    PROVE  /\ Tail(s) \in Seq(S) /\ Head(s) = s[1] /\ Head(s) \in S
           /\ Len(s) \in Nat \ {0} /\ Len(Tail(s)) = Len(s) - 1
           /\ \A i \in 1..Len(Tail(s)) : i + 1 \in 1..Len(s) /\ Tail(s)[i] = s[i + 1]
           /\ \A i \in 1..Len(s) : i = 1 \/ (i - 1 \in 1..Len(Tail(s)) /\ Tail(s)[i - 1] = s[i])
<1>1. /\ Tail(s) \in Seq(S) /\ Head(s) = s[1] /\ Head(s) \in S
      /\ Len(Tail(s)) = Len(s) - 1
      /\ \A i \in 1..Len(Tail(s)) : Tail(s)[i] = s[i + 1]
  BY HeadTailProperties
<1>2. Len(s) \in Nat \ {0}
  BY EmptySeq, LenProperties
<1>3. \A i \in 1..Len(Tail(s)) : i + 1 \in 1..Len(s)
  BY <1>1, <1>2
<1>4. \A i \in 1..Len(s) : i # 1 => i - 1 \in 1..Len(Tail(s)) /\ (i - 1) + 1 = i
  BY <1>1, <1>2
<1> QED
  BY <1>1, <1>2, <1>3, <1>4

\* One more at the end.
LEMMA AppendExtends ==
    ASSUME NEW S, NEW s \in Seq(S), NEW x \in S
    PROVE  /\ Append(s, x) \in Seq(S) /\ Append(s, x) # <<>>
           /\ Len(s) \in Nat /\ Len(Append(s, x)) = Len(s) + 1
           /\ Len(s) + 1 \in 1..Len(Append(s, x)) /\ Append(s, x)[Len(s) + 1] = x
           /\ \A i \in 1..Len(s) : i \in 1..Len(Append(s, x)) /\ Append(s, x)[i] = s[i]
           /\ \A i \in 1..Len(Append(s, x)) : i = Len(s) + 1 \/ i \in 1..Len(s)
           /\ s # <<>> => Head(Append(s, x)) = Head(s)
           /\ s = <<>> => Head(Append(s, x)) = x
<1>1. /\ Append(s, x) \in Seq(S) /\ Append(s, x) # <<>> /\ Len(s) \in Nat
      /\ Len(Append(s, x)) = Len(s) + 1
      /\ \A i \in 1..Len(s) : Append(s, x)[i] = s[i]
      /\ Append(s, x)[Len(s) + 1] = x
  BY AppendProperties, LenProperties
<1>2. Head(Append(s, x)) = Append(s, x)[1]
  BY <1>1, HeadTailProperties
<1>3. s # <<>> => Len(s) # 0 /\ Head(s) = s[1]
  BY EmptySeq, HeadTailProperties
<1>4. s = <<>> => Len(s) = 0
  BY EmptySeq
<1> QED
  BY <1>1, <1>2, <1>3, <1>4

\* An element is removed, and those behind it move up.
LEMMA RemoveAtShifts ==
    ASSUME NEW S, NEW s \in Seq(S), NEW i \in 1..Len(s)
    PROVE  /\ RemoveAt(s, i) \in Seq(S) /\ Len(RemoveAt(s, i)) = Len(s) - 1
           /\ \A k \in 1..Len(RemoveAt(s, i)) :
                RemoveAt(s, i)[k] = IF k < i THEN s[k] ELSE s[k + 1]
<1> DEFINE a == SubSeq(s, 1, i - 1)
           b == SubSeq(s, i + 1, Len(s))
<1>1. Len(s) \in Nat
  BY LenProperties
<1>2. a \in Seq(S) /\ Len(a) = i - 1 /\ \A k \in 1..(i - 1) : a[k] = s[k]
  <2>1. \A k \in 1..(i - 1) : k \in 1..Len(s) /\ s[k] \in S
    BY <1>1, ElementOfSeq
  <2>2. a \in Seq(S) /\ Len(a) = IF 1 <= i - 1 THEN (i - 1) - 1 + 1 ELSE 0
    BY <2>1, SubSeqProperties, <1>1
  <2>3. \A k \in 1..(i - 1) : a[k] = s[1 + k - 1]
    BY <2>1, SubSeqProperties, <1>1
  <2> QED
    BY <1>1, <2>2, <2>3
<1>3. b \in Seq(S) /\ Len(b) = Len(s) - i /\ \A k \in 1..(Len(s) - i) : b[k] = s[i + k]
  <2>1. \A k \in (i + 1)..Len(s) : k \in 1..Len(s) /\ s[k] \in S
    BY <1>1, ElementOfSeq
  <2>2. b \in Seq(S) /\ Len(b) = IF i + 1 <= Len(s) THEN Len(s) - (i + 1) + 1 ELSE 0
    BY <2>1, SubSeqProperties, <1>1
  <2>3. \A k \in 1..(Len(s) - (i + 1) + 1) : b[k] = s[(i + 1) + k - 1]
    BY <2>1, SubSeqProperties, <1>1
  <2> QED
    BY <1>1, <2>2, <2>3
<1>4. RemoveAt(s, i) = a \o b
  BY DEF RemoveAt
<1> HIDE DEF a, b
<1>5. /\ a \o b \in Seq(S) /\ Len(a \o b) = Len(s) - 1
      /\ \A k \in 1..(Len(s) - 1) :
           (a \o b)[k] = IF k <= i - 1 THEN a[k] ELSE b[k - (i - 1)]
  BY <1>1, <1>2, <1>3, ConcatProperties, SMTT(30)
<1>6. ASSUME NEW k \in 1..(Len(s) - 1)
      PROVE  (a \o b)[k] = IF k < i THEN s[k] ELSE s[k + 1]
  <2>1. CASE k < i
    BY <1>1, <1>2, <1>5, <2>1
  <2>2. CASE ~(k < i)
    <3>1. k - (i - 1) \in 1..(Len(s) - i) /\ i + (k - (i - 1)) = k + 1
      BY <1>1, <2>2
    <3> QED
      BY <1>1, <1>3, <1>5, <2>2, <3>1
  <2> QED
    BY <2>1, <2>2
<1> QED
  BY <1>1, <1>4, <1>5, <1>6

\* The terminator takes the place of the oldest event of a full queue.
LEMMA EndedFits ==
    ASSUME NEW q \in Seq(Nat \cup {End})
    PROVE  /\ Ended(q) \in Seq(Nat \cup {End})
           /\ Len(q) <= QueueMax => Len(Ended(q)) <= QueueMax
<1>1. QueueMax \in Nat \ {0} /\ Len(q) \in Nat /\ End \in Nat \cup {End}
  BY LenProperties, AsyncStreamAssumption
<1>2. CASE Len(q) < QueueMax
  BY <1>1, <1>2, AppendExtends DEF Ended
<1>3. CASE ~(Len(q) < QueueMax)
  <2>1. q # <<>>
    BY <1>1, <1>3, EmptySeq
  <2>2. Tail(q) \in Seq(Nat \cup {End}) /\ Len(Tail(q)) = Len(q) - 1
    BY <2>1, TailShifts
  <2>3. /\ Append(Tail(q), End) \in Seq(Nat \cup {End})
        /\ Len(Append(Tail(q), End)) = Len(q)
    BY <1>1, <2>2, AppendExtends
  <2> QED
    BY <1>1, <1>3, <2>3 DEF Ended
<1> QED
  BY <1>2, <1>3

\* The terminator reaches the published queue.
LEMMA ToldFits ==
    ASSUME TypeOK
    PROVE  /\ Told(events) \in [Consumers -> Seq(Nat \cup {End})]
           /\ (\A r \in Consumers : Len(events[r]) <= QueueMax)
                => \A r \in Consumers : Len(Told(events)[r]) <= QueueMax
<1>1. events \in [Consumers -> Seq(Nat \cup {End})] /\ published \in Consumers \cup {None}
  BY DEF TypeOK, Registrations
<1>2. CASE published = None
  BY <1>1, <1>2 DEF Told
<1>3. CASE published # None
  <2>1. /\ events[published] \in Seq(Nat \cup {End})
        /\ Told(events) = [events EXCEPT ![published] = Ended(events[published])]
    BY <1>1, <1>3 DEF Told
  <2> QED
    BY <1>1, <1>3, <2>1, EndedFits
<1> QED
  BY <1>2, <1>3

-----------------------------------------------------------------------------
(* Types.                                                                   *)

\* Who is who.
LEMMA Kinds ==
    /\ Coroutines \subseteq Procs /\ Consumers \subseteq Coroutines
    /\ Closers \subseteq Coroutines /\ Owners \subseteq Coroutines
    /\ Stoppers \subseteq Procs /\ Writers \subseteq Procs
    /\ None \notin Procs
    /\ Consumers \cap (Closers \cup Owners \cup Stoppers \cup Writers) = {}
    /\ Writers \cap (Closers \cup Owners \cup Stoppers) = {}
    /\ Stoppers \cap (Closers \cup Owners) = {} /\ Closers \cap Owners = {}
  BY AsyncStreamAssumption DEF Procs, Coroutines

\* The queue of the lock keeps its type.
LEMMA LockTypes ==
    ASSUME TypeOK
    PROVE  /\ \A p \in Coroutines : Ask(p) => opening' \in Seq(Coroutines)
           /\ opening # <<>> /\ Leave => opening' \in Seq(Coroutines)
           /\ \A p \in Coroutines : GiveUp(p) => opening' \in Seq(Coroutines)
<1>1. opening \in Seq(Coroutines)
  BY DEF TypeOK
<1>2. \A p \in Coroutines : Ask(p) => opening' \in Seq(Coroutines)
  BY <1>1, AppendExtends DEF Ask
<1>3. opening # <<>> /\ Leave => opening' \in Seq(Coroutines)
  BY <1>1, TailShifts DEF Leave
<1>4. DOMAIN opening = 1..Len(opening)
  BY <1>1, LenProperties
<1>5. \A p \in Coroutines : GiveUp(p) => opening' \in Seq(Coroutines)
  BY <1>1, <1>4, RemoveAtShifts DEF GiveUp
<1> QED
  BY <1>2, <1>3, <1>5

\* A request that moves on keeps its type.
LEMMA CallTypes ==
    ASSUME TypeOK, NEW p \in Coroutines, NEW x \in Crossings, Becomes(p, x)
    PROVE  crossing' \in [Coroutines -> Crossings]
  BY DEF TypeOK, Becomes

\* A registration keeps the types.
LEMMA RegisterTypes ==
    ASSUME TypeOK, LockInv, NEW c \in Consumers,
           \/ EnterOpening(c) \/ Submit(c) \/ RegBegin(c) \/ RegSubscribe(c) \/ RegAssign(c)
           \/ RegRaises(c) \/ RegFinish(c) \/ Publish(c)
    PROVE  TypeOK'
<1> USE DEF stream, scope, delivery, history, calls
<1>1. c \in Coroutines /\ c \in Procs /\ c \in Registrations
  BY Kinds DEF Registrations
<1>2. /\ pc \in [Procs -> Places] /\ opening \in Seq(Coroutines)
      /\ pc[c] \in Held => opening # <<>>
      /\ opening # <<>> /\ Leave => opening' \in Seq(Coroutines)
  BY <1>1, LockTypes DEF TypeOK, LockInv, Holds
<1>3. \A x \in Places : Goto(c, x) => pc' \in [Procs -> Places]
  BY <1>1, <1>2 DEF Goto
<1>4. \A x \in Crossings : Becomes(c, x) => crossing' \in [Coroutines -> Crossings]
  BY <1>1, CallTypes
<1>5. {"none", "ordinary", "stopped"} \subseteq Crossings /\ crossing[c] \in Crossings
  BY <1>1 DEF Crossings, Running, TypeOK
<1>6. CASE EnterOpening(c)
  BY <1>2, <1>3, <1>6, ZenonT(60) DEF EnterOpening, TypeOK, Holds, Places, Registering
<1>7. CASE Submit(c)
  BY <1>3, <1>4, <1>5, <1>7 DEF Submit, TypeOK, Places, Registering
<1>8. CASE RegBegin(c)
  <2>1. crossing' \in [Coroutines -> Crossings]
    BY <1>4, <1>5, <1>8 DEF RegBegin
  <2> QED
    BY <1>3, <1>8, <2>1, ZenonT(60) DEF RegBegin, TypeOK, Places, Registering
<1>9. CASE RegSubscribe(c)
  <2>1. crossing' \in [Coroutines -> Crossings]
    BY <1>4, <1>5, <1>9 DEF RegSubscribe, TypeOK
  <2> QED
    BY <1>1, <1>3, <1>9, <2>1, ZenonT(60) DEF RegSubscribe, TypeOK, Places, Registering
<1>10. CASE RegAssign(c)
  <2>1. crossing' \in [Coroutines -> Crossings]
    BY <1>4, <1>5, <1>10 DEF RegAssign
  <2>2. abandoned' \subseteq Consumers /\ live' \subseteq Consumers
    BY <1>10, ZenonT(60) DEF RegAssign, TypeOK
  <2> QED
    BY <1>1, <1>3, <1>10, <2>1, <2>2, ZenonT(60)
    DEF RegAssign, TypeOK, Places, Registering, Registrations
<1>11. CASE RegRaises(c)
  <2>1. crossing' \in [Coroutines -> Crossings] /\ pc' \in [Procs -> Places]
    BY <1>3, <1>4, <1>5, <1>11 DEF RegRaises, Places
  <2>2. opening' \in Seq(Coroutines)
    BY <1>2, <1>11 DEF RegRaises, Held, Registering
  <2>3. abandoned' \subseteq Consumers
    BY <1>11, ZenonT(60) DEF RegRaises, TypeOK
  <2> QED
    BY <1>11, <2>1, <2>2, <2>3 DEF RegRaises, TypeOK
<1>12. CASE RegFinish(c)
  BY <1>1, <1>2, <1>3, <1>12, ZenonT(60)
  DEF RegFinish, TypeOK, Places, Registering, Held
<1>13. CASE Publish(c)
  BY <1>1, <1>2, <1>3, <1>13 DEF Publish, TypeOK, Places, Held
<1> QED
  BY <1>6, <1>7, <1>8, <1>9, <1>10, <1>11, <1>12, <1>13

\* A request on the worker keeps the types.
LEMMA RequestTypes ==
    ASSUME TypeOK, NEW p \in Coroutines, CallStep(p)
    PROVE  TypeOK'
<1> USE DEF stream, scope, delivery, history
<1>1. \E x \in Crossings : Becomes(p, x)
  <2>1. CASE AskCancel(p)
    BY <2>1 DEF AskCancel, Crossings
  <2>2. CASE Dispatch(p)
    BY <2>2 DEF Dispatch, Crossings, Running
  <2>3. CASE RunCancel(p)
    BY <2>3 DEF RunCancel, Crossings
  <2> QED
    BY <2>1, <2>2, <2>3 DEF CallStep
<1>2. crossing' \in [Coroutines -> Crossings]
  BY <1>1, CallTypes
<1>3. /\ UNCHANGED <<stream, scope, delivery, pc, sub, abandoned, late, cancelled, loop>>
      /\ live' \subseteq live
  BY DEF CallStep, AskCancel, Dispatch, RunCancel, Undone
<1> QED
  BY <1>2, <1>3 DEF TypeOK

\* A consumer that reads keeps the types.
LEMMA ReadTypes ==
    ASSUME TypeOK, RegisterInv, NEW c \in Consumers,
           Anext(c) \/ TaskCancelled(c) \/ Deadline(c) \/ Get(c)
    PROVE  TypeOK'
<1> USE DEF stream, scope, delivery, history, calls
<1>1. c \in Coroutines /\ c \in Procs
  BY Kinds
<1>2. \A x \in Places : Goto(c, x) => pc' \in [Procs -> Places]
  BY <1>1 DEF Goto, TypeOK
<1>3. (Ask(c) => opening' \in Seq(Coroutines)) /\ (GiveUp(c) => opening' \in Seq(Coroutines))
  BY <1>1, LockTypes
<1>4. CASE Anext(c)
  BY <1>2, <1>3, <1>4 DEF Anext, TypeOK, Places
<1>5. CASE TaskCancelled(c)
  BY <1>2, <1>3, <1>5 DEF TaskCancelled, TypeOK, Places
<1>6. CASE Deadline(c)
  BY <1>2, <1>6 DEF Deadline, TypeOK, Places
<1>7. CASE Get(c)
  <2> DEFINE q == events[published]
  <2>1. published \in Consumers /\ q \in Seq(Nat \cup {End})
    BY <1>7 DEF Get, TypeOK, RegisterInv, Consumes, Registrations
  <2>2. q # <<>> => Tail(q) \in Seq(Nat \cup {End}) /\ Head(q) \in Nat \cup {End}
    BY <2>1, TailShifts
  <2>3. CASE q = <<>>
    <3>1. /\ \/ Goto(c, "idle") /\ dropped' = 0 /\ lost' = {} /\ told' = told \cup lost
             \/ Goto(c, "get") /\ UNCHANGED <<dropped, lost, told>>
          /\ UNCHANGED <<stream, scope, posted, sent, fold, live, sub, calls, cancelled, loop,
                         events, taken, answered>>
      BY <1>7, <2>3 DEF Get
    <3>2. pc' \in [Procs -> Places]
      BY <1>2, <3>1 DEF Places
    <3>3. dropped' \in Nat /\ lost' \subseteq Nat /\ told' \subseteq Nat
      <4>1. dropped \in Nat /\ lost \subseteq Nat /\ told \subseteq Nat
        BY DEF TypeOK
      <4>2. \/ dropped' = 0 /\ lost' = {} /\ told' = told \cup lost
            \/ dropped' = dropped /\ lost' = lost /\ told' = told
        BY <3>1
      <4>3. dropped' \in Nat
        BY <4>1, <4>2
      <4>4. lost' \subseteq Nat /\ told' \subseteq Nat
        BY <4>1, <4>2, Zenon
      <4> QED
        BY <4>3, <4>4
    <3> QED
      BY <3>1, <3>2, <3>3 DEF TypeOK
  <2>4. CASE q # <<>>
    <3>1. /\ events' = [events EXCEPT ![published] = Tail(q)]
          /\ UNCHANGED <<dropped, lost, told>>
          /\ \/ Head(q) = End /\ Goto(c, "ended") /\ UNCHANGED taken /\ answered' = TRUE
             \/ Head(q) # End /\ Goto(c, "idle") /\ taken' = taken \cup {Head(q)}
                /\ UNCHANGED answered
          /\ UNCHANGED <<stream, scope, posted, sent, fold, live, sub, calls, cancelled, loop>>
      BY <1>7, <2>4 DEF Get
    <3>2. events' \in [Consumers -> Seq(Nat \cup {End})] /\ taken' \subseteq Nat
      BY <2>1, <2>2, <2>4, <3>1 DEF TypeOK
    <3>3. pc' \in [Procs -> Places]
      BY <1>2, <3>1 DEF Places
    <3> QED
      BY <3>1, <3>2, <3>3 DEF TypeOK
  <2> QED
    BY <2>3, <2>4
<1> QED
  BY <1>4, <1>5, <1>6, <1>7

\* A close on the loop keeps the types.
LEMMA ReleaseTypes ==
    ASSUME TypeOK, LockInv, NEW p \in Coroutines, ReleaseStep(p) \/ Aclose(p)
    PROVE  TypeOK'
<1> USE DEF stream, scope, delivery, history, calls
<1>1. p \in Procs
  BY Kinds
<1>2. \A x \in Places : Goto(p, x) => pc' \in [Procs -> Places]
  BY <1>1 DEF Goto, TypeOK
<1>3. /\ Ask(p) => opening' \in Seq(Coroutines)
      /\ opening # <<>> /\ Leave => opening' \in Seq(Coroutines)
      /\ pc[p] \in Held => opening # <<>>
      /\ Becomes(p, "none") => crossing' \in [Coroutines -> Crossings]
  BY LockTypes, CallTypes DEF LockInv, Holds, Crossings
<1>4. \A ok : ParentAfter(p, ok) \in {"open", "closing", "closed"}
  BY DEF ParentAfter, TypeOK
<1>5. CASE AskRelease(p) \/ Aclose(p)
  <2>1. CASE AskRelease(p)
    BY <1>2, <1>3, <2>1 DEF AskRelease, TypeOK, Places
  <2>2. CASE Aclose(p)
    BY <1>2, <1>3, <2>2 DEF Aclose, TypeOK, Places
  <2> QED
    BY <1>5, <2>1, <2>2
<1>6. CASE Release(p)
  BY <1>1, <1>2, <1>6 DEF Release, TypeOK, Places
<1>7. CASE ReleaseFails(p)
  BY <1>2, <1>3, <1>4, <1>7 DEF ReleaseFails, TypeOK, Places, Held
<1>8. CASE ReleaseMarks(p)
  BY <1>2, <1>3, <1>4, <1>8, ToldFits
  DEF ReleaseMarks, TypeOK, Places, Held, Registrations
<1> QED
  BY <1>5, <1>6, <1>7, <1>8 DEF ReleaseStep

\* A stop() and the close of the connection keep the types.
LEMMA CloseTypes ==
    ASSUME TypeOK, NEW p \in Procs, BeginClose(p) \/ Interrupt(p) \/ StopStep(p)
    PROVE  TypeOK'
<1> USE DEF stream, scope, delivery, history, calls
<1>1. \A x \in Places : Goto(p, x) => pc' \in [Procs -> Places]
  BY DEF Goto, TypeOK
<1>2. \A ok : ParentAfter(p, ok) \in {"open", "closing", "closed"}
  BY DEF ParentAfter, TypeOK
<1>3. CASE BeginClose(p)
  BY <1>1, <1>3 DEF BeginClose, TypeOK, Places
<1>4. CASE StopReads(p) \/ StopCancels(p) \/ StopMarks(p)
  <2>1. CASE StopReads(p)
    BY <1>1, <2>1 DEF StopReads, TypeOK, Places, Registrations
  <2>2. CASE StopCancels(p)
    BY <1>1, <1>2, <2>2, ZenonT(60) DEF StopCancels, TypeOK, Places
  <2>3. CASE StopMarks(p)
    BY <1>1, <1>2, <2>3 DEF StopMarks, TypeOK, Places, Registrations
  <2> QED
    BY <1>4, <2>1, <2>2, <2>3
<1>5. CASE StopPosts(p)
  <2>1. posted' \in Seq((Consumers \X Nat) \cup {End})
    <3>1. Append(posted, End) \in Seq((Consumers \X Nat) \cup {End})
      BY AppendExtends DEF TypeOK
    <3> QED
      BY <1>5, <3>1 DEF StopPosts, TypeOK
  <2> QED
    BY <1>1, <1>2, <1>5, <2>1 DEF StopPosts, TypeOK, Places
<1>6. CASE Interrupt(p)
  <2>1. crossing' \in [Coroutines -> Crossings]
    BY <1>6 DEF Interrupt, TypeOK, Crossings, Running
  <2> QED
    BY <1>1, <1>6, <2>1 DEF Interrupt, TypeOK, Places
<1> QED
  BY <1>3, <1>4, <1>5, <1>6 DEF StopStep

\* A writer keeps the types.
LEMMA WriteTypes ==
    ASSUME TypeOK, NEW w \in Writers, Write(w) \/ DeliverStep(w),
           pc[w] = "post" => fold[w] # None
    PROVE  TypeOK'
<1> USE DEF stream, scope, delivery, history, calls
<1>1. w \in Procs
  BY Kinds
<1>2. \A x \in Places : Goto(w, x) => pc' \in [Procs -> Places]
  BY <1>1 DEF Goto, TypeOK
<1>3. CASE Write(w)
  BY <1>2, <1>3 DEF Write, TypeOK, Places, Registrations
<1>4. CASE Deliver(w) \/ Retire(w) \/ RetireCancels(w) \/ RetireMarks(w)
  <2>1. CASE Deliver(w) \/ Retire(w)
    BY <1>1, <1>2, <2>1, ZenonT(60) DEF Deliver, Retire, TypeOK, Places
  <2>2. CASE RetireCancels(w)
    BY <1>2, <2>2 DEF RetireCancels, TypeOK, Places
  <2>3. CASE RetireMarks(w)
    BY <1>2, <2>3 DEF RetireMarks, TypeOK, Places, Registrations
  <2> QED
    BY <1>4, <2>1, <2>2, <2>3
<1>5. CASE Post(w)
  <2>1. /\ pc[w] = "post"
        /\ UNCHANGED <<stream, scope, dropped, events, history, fold, live, sub, calls, cancelled,
                       loop>>
    BY <1>5 DEF Post
  <2>2. CASE loop = "open" /\ Goto(w, "idle") /\ sent' = sent + 1
             /\ posted' = Append(posted, <<fold[w], sent + 1>>)
    <3>1. <<fold[w], sent + 1>> \in (Consumers \X Nat) \cup {End}
      BY <2>1, <2>2 DEF TypeOK, Registrations
    <3>2. posted' \in Seq((Consumers \X Nat) \cup {End}) /\ sent' \in Nat
      BY <2>2, <3>1, AppendExtends DEF TypeOK
    <3>3. pc' \in [Procs -> Places]
      BY <1>2, <2>2 DEF Places
    <3> QED
      BY <2>1, <3>2, <3>3 DEF TypeOK
  <2>3. CASE Goto(w, "retire") /\ UNCHANGED <<posted, sent>>
    BY <1>2, <2>1, <2>3 DEF TypeOK, Places
  <2> QED
    BY <1>5, <2>2, <2>3 DEF Post
<1> QED
  BY <1>3, <1>4, <1>5 DEF DeliverStep

\* The event loop keeps the types.
LEMMA LoopTypes ==
    ASSUME TypeOK, RunCallback \/ LoopCloses \/ UNCHANGED vars
    PROVE  TypeOK'
<1> USE DEF stream, scope, delivery, history, calls
<1>1. CASE RunCallback
  <2> DEFINE call == Head(posted)
  <2>1. /\ posted # <<>> /\ posted' = Tail(posted)
        /\ UNCHANGED <<stream, scope, sent, taken, told, answered, fold, live, pc, sub, calls,
                       cancelled, loop>>
    BY <1>1 DEF RunCallback
  <2>2. /\ posted' \in Seq((Consumers \X Nat) \cup {End})
        /\ call \in (Consumers \X Nat) \cup {End}
    BY <2>1, TailShifts DEF TypeOK
  <2>3. call # End => call[1] \in Consumers /\ call[2] \in Nat
    BY <2>2
  <2>4. /\ events' \in [Consumers -> Seq(Nat \cup {End})]
        /\ dropped' \in Nat /\ lost' \subseteq Nat
    <3>1. CASE call = End /\ events' = Told(events) /\ UNCHANGED <<dropped, lost>>
      BY <3>1, ToldFits DEF TypeOK
    <3>2. CASE UNCHANGED <<events, dropped, lost>>
      BY <3>2 DEF TypeOK
    <3>3. CASE /\ call # End
               /\ events' = [events EXCEPT ![call[1]] = Append(events[call[1]], call[2])]
               /\ UNCHANGED <<dropped, lost>>
      <4>1. Append(events[call[1]], call[2]) \in Seq(Nat \cup {End})
        BY <2>3, <3>3, AppendExtends DEF TypeOK
      <4> QED
        BY <2>3, <3>3, <4>1 DEF TypeOK
    <3>4. CASE call # End /\ Drop(call[2]) /\ UNCHANGED events
      <4>1. call[2] \in Nat /\ dropped \in Nat /\ lost \subseteq Nat
        BY <2>3, <3>4 DEF TypeOK
      <4>2. dropped' = dropped + 1 /\ lost' = lost \cup {call[2]} /\ events' = events
        BY <3>4 DEF Drop
      <4>3. dropped' \in Nat
        BY <4>1, <4>2
      <4>4. lost' \subseteq Nat
        BY <4>1, <4>2, Zenon
      <4>5. events' \in [Consumers -> Seq(Nat \cup {End})]
        BY <4>2, Zenon DEF TypeOK
      <4> QED
        BY <4>3, <4>4, <4>5
    <3> QED
      BY <1>1, <3>1, <3>2, <3>3, <3>4 DEF RunCallback
  <2> HIDE DEF call
  <2> QED
    BY <2>1, <2>2, <2>4 DEF TypeOK
<1>2. CASE LoopCloses
  BY <1>2, EmptySeq DEF LoopCloses, TypeOK
<1>3. CASE UNCHANGED vars
  BY <1>3 DEF vars, TypeOK
<1> QED
  BY <1>1, <1>2, <1>3

\* Every step keeps the types.
LEMMA TypeStep ==
    ASSUME IInv, [Next]_vars
    PROVE  TypeOK'
<1>1. /\ TypeOK /\ LockInv /\ RegisterInv
      /\ \A w \in Writers : pc[w] = "post" => fold[w] # None
  BY DEF IInv, RegisterInv, Writes
<1>2. ASSUME NEW c \in Consumers,
             Anext(c) \/ ConsumerStep(c) \/ TaskCancelled(c) \/ Deadline(c)
      PROVE  TypeOK'
  BY <1>1, <1>2, RegisterTypes, ReadTypes DEF ConsumerStep
<1>3. ASSUME NEW p \in Coroutines, ReleaseStep(p) \/ Aclose(p)
      PROVE  TypeOK'
  BY <1>1, <1>3, ReleaseTypes
<1>4. ASSUME NEW p \in Procs, BeginClose(p) \/ Interrupt(p) \/ StopStep(p)
      PROVE  TypeOK'
  BY <1>1, <1>4, CloseTypes
<1>5. ASSUME NEW w \in Writers, Write(w) \/ DeliverStep(w)
      PROVE  TypeOK'
  BY <1>1, <1>5, WriteTypes
<1>6. ASSUME RunCallback \/ LoopCloses \/ UNCHANGED vars
      PROVE  TypeOK'
  BY <1>1, <1>6, LoopTypes
<1>7. ASSUME NEW p \in Coroutines, CallStep(p)
      PROVE  TypeOK'
  BY <1>1, <1>7, RequestTypes
<1> QED
  BY <1>2, <1>3, <1>4, <1>5, <1>6, <1>7, Kinds DEF Next, Procs

-----------------------------------------------------------------------------
(* The _opening lock.                                                       *)

\* Whoever holds the lock is the only one.
LEMMA OneHolder ==
    ASSUME LockInv, NEW p \in Coroutines, NEW q \in Coroutines, pc[p] \in Held, pc[q] \in Held
    PROVE  p = q
  BY DEF LockInv, Holds

\* A process moves and leaves the lock alone.
LEMMA LockQuiet ==
    ASSUME TypeOK, LockInv, NEW p \in Procs, NEW x, pc' = [pc EXCEPT ![p] = x],
           UNCHANGED opening,
           p \in Coroutines => (x \in Held => pc[p] \in Held \/ Holds(p)),
           p \in Coroutines => (pc[p] \in Held \cup {"opening", "wait"}
                                  => x \in Held \cup {"opening", "wait"})
    PROVE  LockInv'
<1>1. /\ pc'[p] = x /\ \A q \in Procs : q # p => pc'[q] = pc[q]
      /\ opening \in Seq(Coroutines) /\ Coroutines \subseteq Procs
  BY Kinds DEF TypeOK
<1>2. \A i \in 1..Len(opening) : opening[i] \in Coroutines
  BY <1>1, ElementOfSeq
<1>3. \A i \in 1..Len(opening) : pc'[opening[i]] \in Held \cup {"opening", "wait"}
  BY <1>1, <1>2 DEF LockInv
<1>4. \A q \in Coroutines : pc'[q] \in Held => opening # <<>> /\ Head(opening) = q
  BY <1>1 DEF LockInv, Holds
<1> QED
  BY <1>3, <1>4 DEF LockInv, Holds

\* A coroutine asks for the lock and waits.
LEMMA LockAsked ==
    ASSUME TypeOK, LockInv, NEW p \in Coroutines, NEW x \in {"opening", "wait"},
           pc' = [pc EXCEPT ![p] = x], Ask(p), pc[p] \notin Held \cup {"opening", "wait"}
    PROVE  LockInv'
<1>1. /\ pc'[p] = x /\ \A q \in Coroutines : q # p => pc'[q] = pc[q]
      /\ opening \in Seq(Coroutines)
  BY Kinds DEF TypeOK
<1>2. /\ opening' \in Seq(Coroutines) /\ opening' # <<>> /\ Len(opening) \in Nat
      /\ Len(opening') = Len(opening) + 1 /\ opening'[Len(opening) + 1] = p
      /\ \A i \in 1..Len(opening) : opening'[i] = opening[i]
      /\ \A i \in 1..Len(opening') : i = Len(opening) + 1 \/ i \in 1..Len(opening)
      /\ opening # <<>> => Head(opening') = Head(opening)
  BY <1>1, AppendExtends DEF Ask
<1>3. \A i \in 1..Len(opening) : opening[i] \in Coroutines /\ opening[i] # p
  BY <1>1, ElementOfSeq DEF LockInv
<1>4. \A i, j \in 1..Len(opening') : opening'[i] = opening'[j] => i = j
  BY <1>2, <1>3 DEF LockInv
<1>5. \A i \in 1..Len(opening') : pc'[opening'[i]] \in Held \cup {"opening", "wait"}
  BY <1>1, <1>2, <1>3 DEF LockInv
<1>6. x \notin Held
  BY DEF Held, Registering
<1>7. \A q \in Coroutines : pc'[q] \in Held => opening' # <<>> /\ Head(opening') = q
  BY <1>1, <1>2, <1>6 DEF LockInv, Holds
<1> QED
  BY <1>4, <1>5, <1>7 DEF LockInv, Holds

\* The holder leaves, and the next waiter may take the lock.
LEMMA LockLeft ==
    ASSUME TypeOK, LockInv, NEW p \in Coroutines, NEW x, pc' = [pc EXCEPT ![p] = x],
           pc[p] \in Held \/ Holds(p), Leave, x \notin Held
    PROVE  LockInv'
<1>1. /\ pc'[p] = x /\ \A q \in Coroutines : q # p => pc'[q] = pc[q]
      /\ opening \in Seq(Coroutines)
  BY Kinds DEF TypeOK
<1>2. opening # <<>> /\ Head(opening) = p
  BY DEF LockInv, Holds
<1>3. /\ opening' \in Seq(Coroutines) /\ opening[1] = p
      /\ Len(opening) \in Nat \ {0} /\ Len(opening') = Len(opening) - 1
      /\ \A i \in 1..Len(opening') : i + 1 \in 1..Len(opening) /\ opening'[i] = opening[i + 1]
  BY <1>1, <1>2, TailShifts DEF Leave
<1>4. \A i \in 1..Len(opening) : opening[i] \in Coroutines
  BY <1>1, ElementOfSeq
<1>5. \A i, j \in 1..Len(opening') : opening'[i] = opening'[j] => i = j
  <2>1. \A i, j \in 1..Len(opening') : i + 1 = j + 1 => i = j
    OBVIOUS
  <2> QED
    BY <1>3, <2>1 DEF LockInv
<1>6. \A i \in 1..Len(opening') : opening'[i] # p
  <2>1. 1 \in 1..Len(opening) /\ \A i \in 1..Len(opening') : i + 1 # 1
    BY <1>3
  <2> QED
    BY <1>3, <2>1 DEF LockInv
<1>7. \A i \in 1..Len(opening') : pc'[opening'[i]] \in Held \cup {"opening", "wait"}
  BY <1>1, <1>3, <1>4, <1>6 DEF LockInv
<1>8. \A q \in Coroutines : pc'[q] \notin Held
  BY <1>1, <1>2 DEF LockInv, Holds
<1> QED
  BY <1>5, <1>7, <1>8 DEF LockInv

\* A waiter gives up; the holder, if there is one, stays in front.
LEMMA LockGivenUp ==
    ASSUME TypeOK, LockInv, NEW p \in Coroutines, NEW x, pc' = [pc EXCEPT ![p] = x],
           GiveUp(p), pc[p] \notin Held, x \notin Held
    PROVE  LockInv'
<1>1. /\ pc'[p] = x /\ \A q \in Coroutines : q # p => pc'[q] = pc[q]
      /\ opening \in Seq(Coroutines) /\ Len(opening) \in Nat
      /\ DOMAIN opening = 1..Len(opening)
  BY Kinds, LenProperties DEF TypeOK
<1>2. PICK n \in 1..Len(opening) : opening[n] = p /\ opening' = RemoveAt(opening, n)
  BY <1>1 DEF GiveUp
<1>3. /\ opening' \in Seq(Coroutines) /\ Len(opening') = Len(opening) - 1
      /\ \A k \in 1..Len(opening') : opening'[k] = IF k < n THEN opening[k] ELSE opening[k + 1]
  BY <1>1, <1>2, RemoveAtShifts
<1> DEFINE from(k) == IF k < n THEN k ELSE k + 1
<1>4. /\ \A k \in 1..Len(opening') :
            from(k) \in 1..Len(opening) /\ from(k) # n /\ opening'[k] = opening[from(k)]
      /\ \A k, m \in 1..Len(opening') : from(k) = from(m) => k = m
  BY <1>1, <1>2, <1>3
<1> HIDE DEF from
<1>5. \A i \in 1..Len(opening) : opening[i] \in Coroutines
  BY <1>1, ElementOfSeq
<1>6. \A i, j \in 1..Len(opening') : opening'[i] = opening'[j] => i = j
  BY <1>4 DEF LockInv
<1>7. \A i \in 1..Len(opening') : opening'[i] \in Coroutines /\ opening'[i] # p
  BY <1>2, <1>4, <1>5 DEF LockInv
<1>8. \A i \in 1..Len(opening') : pc'[opening'[i]] \in Held \cup {"opening", "wait"}
  BY <1>1, <1>4, <1>5, <1>7 DEF LockInv
<1>9. ASSUME NEW q \in Coroutines, pc'[q] \in Held
      PROVE  opening' # <<>> /\ Head(opening') = q
  <2>1. pc[q] \in Held /\ q # p
    BY <1>1, <1>9
  <2>2. opening # <<>> /\ Head(opening) = q
    BY <2>1 DEF LockInv, Holds
  <2>3. opening[1] = q
    BY <1>1, <2>2, TailShifts
  <2>4. n # 1 /\ 1 \in 1..Len(opening') /\ opening'[1] = q
    BY <1>1, <1>2, <1>3, <2>1, <2>3
  <2>5. opening' # <<>>
    BY <1>3, <2>4, EmptySeq
  <2> QED
    BY <1>3, <2>4, <2>5, TailShifts
<1> QED
  BY <1>6, <1>8, <1>9 DEF LockInv, Holds

\* A consumer's step keeps the lock.
LEMMA LockConsumer ==
    ASSUME TypeOK, LockInv, NEW c \in Consumers,
           Anext(c) \/ ConsumerStep(c) \/ TaskCancelled(c) \/ Deadline(c)
    PROVE  LockInv'
<1>1. c \in Coroutines /\ c \in Procs /\ pc \in [Procs -> Places]
  BY Kinds DEF TypeOK
<1>2. \A x : Goto(c, x) => pc' = [pc EXCEPT ![c] = x]
  BY DEF Goto
<1>3. CASE Anext(c)
  <2>1. pc[c] \notin Held \cup {"opening", "wait"}
    BY <1>3 DEF Anext, Held, Registering
  <2>2. CASE Goto(c, "opening") /\ Ask(c)
    BY <1>1, <1>2, <2>1, <2>2, LockAsked
  <2>3. ASSUME NEW x \in {"ended", "ready"}, Goto(c, x), UNCHANGED opening
        PROVE  LockInv'
    <3>1. x \notin Held \cup {"opening", "wait"}
      BY DEF Held, Registering
    <3> QED
      BY <1>1, <1>2, <2>1, <2>3, <3>1, LockQuiet
  <2> QED
    BY <1>3, <2>2, <2>3 DEF Anext
<1>4. CASE EnterOpening(c)
  <2>1. pc[c] = "opening" /\ Holds(c)
    BY <1>4 DEF EnterOpening
  <2>2. ASSUME NEW x \in {"ready", "gone"}, Goto(c, x), Leave
        PROVE  LockInv'
    <3>1. x \notin Held
      BY DEF Held, Registering
    <3> QED
      BY <1>1, <1>2, <2>1, <2>2, <3>1, LockLeft
  <2>3. CASE Goto(c, "submit") /\ UNCHANGED opening
    <3>1. "submit" \in Held
      BY DEF Held, Registering
    <3> QED
      BY <1>1, <1>2, <2>1, <2>3, <3>1, LockQuiet
  <2> QED
    BY <1>4, <2>2, <2>3 DEF EnterOpening
<1>5. ASSUME NEW x \in Held, pc[c] \in Held, Goto(c, x), UNCHANGED opening
      PROVE  LockInv'
  BY <1>1, <1>2, <1>5, LockQuiet
<1>6. ASSUME NEW x \in {"gone", "ready"}, pc[c] \in Held, Goto(c, x), Leave
      PROVE  LockInv'
  <2>1. x \notin Held
    BY DEF Held, Registering
  <2> QED
    BY <1>1, <1>2, <1>6, <2>1, LockLeft
<1>7. CASE Submit(c) \/ RegBegin(c) \/ RegSubscribe(c) \/ RegAssign(c)
  <2>1. pc[c] \in Held /\ UNCHANGED opening /\ \E x \in Held : Goto(c, x)
    BY <1>7 DEF Submit, RegBegin, RegSubscribe, RegAssign, Held, Registering, scope
  <2> QED
    BY <1>5, <2>1
<1>8. CASE RegRaises(c) \/ Publish(c)
  <2>1. pc[c] \in Held /\ Leave /\ \E x \in {"gone", "ready"} : Goto(c, x)
    BY <1>8 DEF RegRaises, Publish, Held, Registering
  <2> QED
    BY <1>6, <2>1
<1>9. CASE RegFinish(c)
  <2>1. pc[c] \in Held /\ "undo" \in Held /\ "publish" \in Held
    BY <1>9 DEF RegFinish, Held, Registering
  <2> QED
    BY <1>5, <1>6, <1>9, <2>1 DEF RegFinish
<1>10. CASE Get(c) \/ Deadline(c)
  <2>1. /\ pc[c] \notin Held \cup {"opening", "wait"} /\ UNCHANGED opening
        /\ \E x \in {"idle", "get", "ended", "gone", "release"} : Goto(c, x)
    BY <1>10 DEF Get, Deadline, Held, Registering, scope
  <2>2. PICK x \in {"idle", "get", "ended", "gone", "release"} : Goto(c, x)
    BY <2>1
  <2>3. x \notin Held \cup {"opening", "wait"}
    BY DEF Held, Registering
  <2> QED
    BY <1>1, <1>2, <2>1, <2>2, <2>3, LockQuiet
<1>11. CASE TaskCancelled(c)
  <2>1. CASE pc[c] = "opening" /\ Goto(c, "gone") /\ GiveUp(c)
    <3>1. pc[c] \notin Held /\ "gone" \notin Held
      BY <2>1 DEF Held, Registering
    <3> QED
      BY <1>1, <1>2, <2>1, <3>1, LockGivenUp
  <2>2. CASE pc[c] = "get" /\ Goto(c, "gone") /\ UNCHANGED opening
    <3>1. pc[c] \notin Held /\ "gone" \notin Held \cup {"opening", "wait"}
      BY <2>2 DEF Held, Registering
    <3>2. pc[c] \notin Held \cup {"opening", "wait"}
      BY <2>2, <3>1
    <3> QED
      BY <1>1, <1>2, <2>2, <3>1, <3>2, LockQuiet
  <2>3. CASE UNCHANGED <<pc, opening>>
    BY <2>3 DEF LockInv, Holds
  <2> QED
    BY <1>11, <2>1, <2>2, <2>3 DEF TaskCancelled
<1> QED
  BY <1>3, <1>4, <1>7, <1>8, <1>9, <1>10, <1>11 DEF ConsumerStep

\* A step that closes keeps the lock.
LEMMA LockRelease ==
    ASSUME TypeOK, LockInv, NEW p \in Procs,
           \/ p \in Coroutines /\ ReleaseStep(p)
           \/ p \in Closers /\ Aclose(p)
           \/ p \in Owners \cup Stoppers /\ (BeginClose(p) \/ Interrupt(p))
           \/ p \in Stoppers /\ StopStep(p)
    PROVE  LockInv'
<1>1. \A x : Goto(p, x) => pc' = [pc EXCEPT ![p] = x]
  BY DEF Goto
<1>2. CASE p \in Coroutines /\ AskRelease(p)
  <2>1. /\ pc[p] \notin Held \cup {"opening", "wait"}
        /\ Ask(p) /\ Goto(p, "wait")
    BY <1>2 DEF AskRelease, Held, Registering
  <2> QED
    BY <1>1, <1>2, <2>1, LockAsked
<1>3. CASE p \in Coroutines /\ Release(p)
  <2>1. Holds(p) /\ UNCHANGED opening /\ \E x \in Held : Goto(p, x)
    BY <1>3 DEF Release, Held, scope
  <2> QED
    BY <1>1, <1>3, <2>1, LockQuiet
<1>4. ASSUME p \in Coroutines, NEW x \in {"gone", "idle", "done"}, pc[p] \in Held, Goto(p, x), Leave
      PROVE  LockInv'
  <2>1. x \notin Held
    BY DEF Held, Registering
  <2> QED
    BY <1>1, <1>4, <2>1, LockLeft
<1>5. CASE p \in Coroutines /\ ReleaseFails(p)
  <2>1. /\ pc[p] \in Held /\ Leave
        /\ Goto(p, IF p \in Consumers THEN "gone" ELSE "idle")
    BY <1>5 DEF ReleaseFails, Held
  <2> QED
    BY <1>4, <1>5, <2>1
<1>6. CASE p \in Coroutines /\ ReleaseMarks(p)
  <2>1. /\ pc[p] \in Held /\ Leave
        /\ Goto(p, IF p \in Consumers THEN "gone" ELSE "done")
    BY <1>6 DEF ReleaseMarks, Held
  <2> QED
    BY <1>4, <1>6, <2>1
<1>7. CASE \/ p \in Closers /\ Aclose(p)
           \/ p \in Owners \cup Stoppers /\ (BeginClose(p) \/ Interrupt(p))
  <2>1. /\ pc[p] \in {"idle", "interrupt"} /\ UNCHANGED opening
        /\ \E x \in {"done", "release", "hold", "interrupt"} : Goto(p, x)
    BY <1>7 DEF Aclose, BeginClose, Interrupt, scope
  <2>2. PICK x \in {"done", "release", "hold", "interrupt"} : Goto(p, x)
    BY <2>1
  <2>3. pc[p] \notin Held \cup {"opening", "wait"} /\ x \notin Held \cup {"opening", "wait"}
    BY <2>1 DEF Held, Registering
  <2> QED
    BY <1>1, <2>1, <2>2, <2>3, LockQuiet
<1>8. CASE p \in Stoppers /\ StopStep(p)
  <2>1. p \notin Coroutines
    BY <1>8, Kinds DEF Coroutines
  <2>2. UNCHANGED opening /\ \E x : Goto(p, x)
    BY <1>8 DEF StopStep, StopReads, StopCancels, StopMarks, StopPosts, scope
  <2> QED
    BY <1>1, <2>1, <2>2, LockQuiet
<1> QED
  BY <1>2, <1>3, <1>5, <1>6, <1>7, <1>8 DEF ReleaseStep

\* A request, a write and the loop leave the lock alone.
LEMMA LockOther ==
    ASSUME TypeOK, LockInv,
           \/ \E w \in Writers : Write(w) \/ DeliverStep(w)
           \/ \E p \in Coroutines : CallStep(p)
           \/ RunCallback \/ LoopCloses \/ UNCHANGED vars
    PROVE  LockInv'
<1>1. ASSUME NEW w \in Writers, Write(w) \/ DeliverStep(w)
      PROVE  LockInv'
  <2>1. w \in Procs /\ w \notin Coroutines
    BY Kinds DEF Coroutines
  <2>2. UNCHANGED opening /\ \E x : Goto(w, x)
    BY <1>1 DEF Write, DeliverStep, Deliver, Post, Retire, RetireCancels, RetireMarks, scope
  <2> QED
    BY <2>1, <2>2, LockQuiet DEF Goto
<1>2. CASE RunCallback \/ LoopCloses \/ UNCHANGED vars \/ \E p \in Coroutines : CallStep(p)
  <2>1. UNCHANGED <<opening, pc>>
    BY <1>2 DEF RunCallback, LoopCloses, vars, CallStep, AskCancel, Dispatch, RunCancel, scope
  <2> QED
    BY <2>1 DEF LockInv, Holds
<1> QED
  BY <1>1, <1>2

-----------------------------------------------------------------------------
(* The close of the connection.                                             *)

\* A process moves, and no close begins or ends.
LEMMA ParentQuiet ==
    ASSUME TypeOK, ParentInv, NEW p \in Procs, NEW x, Goto(p, x), UNCHANGED parent,
           p \in Owners \cup Stoppers => pc[p] \notin {"idle", "done"} \/ x \in {"idle", "done"}
    PROVE  ParentInv'
<1>1. /\ pc'[p] = x /\ \A q \in Procs : q # p => pc'[q] = pc[q]
      /\ Owners \subseteq Procs /\ Stoppers \subseteq Procs
  BY Kinds DEF TypeOK, Goto
<1>2. \A q \in Owners \cup Stoppers :
         pc'[q] \notin {"idle", "done"} => pc[q] \notin {"idle", "done"}
  BY <1>1
<1> QED
  BY <1>2 DEF ParentInv

\* The process that closes is the only one, and its close is over.
LEMMA ParentEnds ==
    ASSUME TypeOK, ParentInv, NEW p \in Owners \cup Stoppers, NEW x \in {"idle", "done"},
           Goto(p, x), pc[p] \notin {"idle", "done"}
    PROVE  ParentInv'
<1>1. /\ pc'[p] = x /\ \A q \in Procs : q # p => pc'[q] = pc[q]
      /\ Owners \subseteq Procs /\ Stoppers \subseteq Procs
  BY Kinds DEF TypeOK, Goto
<1>2. \A q \in Owners \cup Stoppers : pc'[q] \in {"idle", "done"}
  BY <1>1 DEF ParentInv
<1> QED
  BY <1>2 DEF ParentInv

\* One close at a time.
LEMMA ParentStep ==
    ASSUME TypeOK, ParentInv, [Next]_vars
    PROVE  ParentInv'
<1>1. ASSUME NEW c \in Consumers,
             Anext(c) \/ ConsumerStep(c) \/ TaskCancelled(c) \/ Deadline(c)
      PROVE  ParentInv'
  <2>1. c \in Procs /\ c \notin Owners \cup Stoppers
    BY Kinds
  <2>2. UNCHANGED parent /\ ((\E x : Goto(c, x)) \/ UNCHANGED pc)
    BY <1>1 DEF Anext, ConsumerStep, EnterOpening, Submit, RegBegin, RegSubscribe, RegAssign,
                RegRaises, RegFinish, Publish, Get, TaskCancelled, Deadline, scope
  <2>3. CASE UNCHANGED pc
    BY <2>2, <2>3 DEF ParentInv
  <2> QED
    BY <2>1, <2>2, <2>3, ParentQuiet
<1>2. ASSUME NEW p \in Coroutines, ReleaseStep(p)
      PROVE  ParentInv'
  <2>1. /\ p \in Procs /\ p \notin Stoppers
        /\ pc[p] \notin {"idle", "done"}
    BY <1>2, Kinds DEF Coroutines, ReleaseStep, AskRelease, Release, ReleaseFails, ReleaseMarks
  <2>2. UNCHANGED parent \/ p \in Owners
    BY <1>2, <2>1 DEF ReleaseStep, AskRelease, Release, ReleaseFails, ReleaseMarks,
                      ParentAfter, scope
  <2>3. \E x : Goto(p, x)
    BY <1>2 DEF ReleaseStep, AskRelease, Release, ReleaseFails, ReleaseMarks
  <2>4. CASE UNCHANGED parent
    BY <2>1, <2>3, <2>4, ParentQuiet
  <2>5. CASE ~UNCHANGED parent
    <3>1. p \in Owners /\ p \notin Consumers
      BY <2>2, <2>5, Kinds
    <3>2. \E x \in {"idle", "done"} : Goto(p, x)
      BY <1>2, <2>5, <3>1 DEF ReleaseStep, AskRelease, Release, ReleaseFails, ReleaseMarks, scope
    <3> QED
      BY <2>1, <3>1, <3>2, ParentEnds
  <2> QED
    BY <2>4, <2>5
<1>3. ASSUME NEW p \in Closers, Aclose(p)
      PROVE  ParentInv'
  <2>1. p \in Procs /\ p \notin Owners \cup Stoppers
    BY Kinds
  <2>2. UNCHANGED parent /\ \E x : Goto(p, x)
    BY <1>3 DEF Aclose, scope
  <2> QED
    BY <2>1, <2>2, ParentQuiet
<1>4. ASSUME NEW p \in Owners \cup Stoppers, BeginClose(p)
      PROVE  ParentInv'
  <2>1. p \in Procs
    BY Kinds
  <2>2. CASE UNCHANGED parent /\ Goto(p, "done")
    BY <2>1, <2>2, ParentQuiet
  <2>3. CASE parent # "closing"
    <3>1. \A q \in Owners \cup Stoppers : pc[q] \in {"idle", "done"}
      BY <2>3 DEF ParentInv
    <3>2. \A q \in Owners \cup Stoppers : q # p => pc'[q] \in {"idle", "done"}
      BY <1>4, <2>1, <3>1, Kinds DEF BeginClose, Goto, TypeOK
    <3>3. CASE parent' = "closing"
      BY <3>2, <3>3 DEF ParentInv
    <3>4. CASE Goto(p, "done")
      <4>1. pc'[p] = "done"
        BY <2>1, <3>4 DEF Goto, TypeOK
      <4> QED
        BY <3>2, <4>1 DEF ParentInv
    <3> QED
      BY <1>4, <2>3, <3>3, <3>4 DEF BeginClose
  <2> QED
    BY <1>4, <2>2, <2>3 DEF BeginClose
<1>5. ASSUME NEW p \in Stoppers, StopStep(p)
      PROVE  ParentInv'
  <2>1. p \in Procs /\ pc[p] \notin {"idle", "done"}
    BY <1>5, Kinds DEF StopStep, StopReads, StopCancels, StopMarks, StopPosts
  <2>2. \/ UNCHANGED parent /\ \E x : Goto(p, x)
        \/ \E x \in {"idle", "done"} : Goto(p, x)
    BY <1>5 DEF StopStep, StopReads, StopCancels, StopMarks, StopPosts, scope
  <2> QED
    BY <2>1, <2>2, ParentQuiet, ParentEnds
<1>6. ASSUME NEW w \in Writers, Write(w) \/ DeliverStep(w)
      PROVE  ParentInv'
  <2>1. w \in Procs /\ w \notin Owners \cup Stoppers
    BY Kinds
  <2>2. UNCHANGED parent /\ \E x : Goto(w, x)
    BY <1>6 DEF Write, DeliverStep, Deliver, Post, Retire, RetireCancels, RetireMarks, scope
  <2> QED
    BY <2>1, <2>2, ParentQuiet
<1>7. CASE RunCallback \/ LoopCloses \/ UNCHANGED vars \/ \E p \in Coroutines : CallStep(p)
  <2>1. UNCHANGED <<parent, pc>>
    BY <1>7 DEF RunCallback, LoopCloses, vars, CallStep, AskCancel, Dispatch, RunCancel, scope
  <2> QED
    BY <2>1 DEF ParentInv
<1>8. ASSUME NEW p \in Owners \cup Stoppers, Interrupt(p)
      PROVE  ParentInv'
  <2>1. p \in Procs /\ pc[p] = "interrupt" /\ UNCHANGED parent /\ \E x : Goto(p, x)
    BY <1>8, Kinds DEF Interrupt, scope
  <2> QED
    BY <2>1, ParentQuiet
<1> QED
  BY <1>1, <1>2, <1>3, <1>4, <1>5, <1>6, <1>7, <1>8 DEF Next

-----------------------------------------------------------------------------
(* Registration.                                                            *)

\* A process moves to a place that it may be in, and nothing that others count
\* on changes.
LEMMA RegisterQuiet ==
    ASSUME TypeOK, RegisterInv, NEW p \in Procs, NEW x, Goto(p, x),
           UNCHANGED <<acquiring, closed, tracked, parent, published, fold, orphaned, loop>>,
           p \in Consumers => Consumes(x),
           p \in Writers => Writes(p, x),
           p \in Stoppers => x # "post"
    PROVE  RegisterInv'
<1>1. pc'[p] = x /\ \A q \in Procs : q # p => pc'[q] = pc[q]
  BY DEF TypeOK, Goto
<1>2. Consumers \subseteq Procs /\ Stoppers \subseteq Procs /\ Writers \subseteq Procs
  BY Kinds
<1>3. \A c \in Consumers : Consumes(pc[c])'
  <2> SUFFICES ASSUME NEW c \in Consumers PROVE Consumes(pc[c])'
    OBVIOUS
  <2>1. Consumes(pc'[c])
    BY <1>1, <1>2 DEF RegisterInv
  <2> QED
    BY <2>1 DEF Consumes
<1>4. \A q \in Stoppers : pc'[q] = "post" => closed' /\ ~tracked'
  BY <1>1, <1>2 DEF RegisterInv
<1>5. \A w \in Writers : Writes(w, pc[w])'
  <2> SUFFICES ASSUME NEW w \in Writers PROVE Writes(w, pc[w])'
    OBVIOUS
  <2>1. Writes(w, pc'[w])
    BY <1>1, <1>2 DEF RegisterInv
  <2> QED
    BY <2>1 DEF Writes
<1>6. (orphaned' => loop' = "closed") /\ (parent' = "closed" => ~tracked')
  BY DEF RegisterInv
<1> QED
  BY <1>3, <1>4, <1>5, <1>6 DEF RegisterInv

\* A process moves and changes what others count on, while no other consumer
\* holds the lock.
LEMMA RegisterChanges ==
    ASSUME TypeOK, RegisterInv, NEW p \in Procs, NEW x, Goto(p, x), p \notin Writers,
           UNCHANGED <<fold, orphaned, loop>>,
           \A c \in Consumers \ {p} : pc[c] \notin Held,
           published # None => published' # None,
           p \in Consumers => Consumes(x)',
           p \in Stoppers => x # "post",
           \A q \in Stoppers \ {p} : pc[q] = "post" => closed' /\ ~tracked',
           parent' = "closed" => ~tracked'
    PROVE  RegisterInv'
<1>1. pc'[p] = x /\ \A q \in Procs : q # p => pc'[q] = pc[q]
  BY DEF TypeOK, Goto
<1>2. Consumers \subseteq Procs /\ Stoppers \subseteq Procs /\ Writers \subseteq Procs
  BY Kinds
<1>3. \A c \in Consumers : Consumes(pc[c])'
  <2> SUFFICES ASSUME NEW c \in Consumers PROVE Consumes(pc[c])'
    OBVIOUS
  <2>1. CASE c = p
    BY <1>1, <2>1 DEF Consumes
  <2>2. CASE c # p
    <3>1. pc'[c] = pc[c] /\ pc[c] \notin Held /\ Consumes(pc[c])
      BY <1>1, <1>2, <2>2 DEF RegisterInv
    <3> QED
      BY <3>1 DEF Consumes, Held, Registering
  <2> QED
    BY <2>1, <2>2
<1>4. \A q \in Stoppers : pc'[q] = "post" => closed' /\ ~tracked'
  BY <1>1, <1>2
<1>5. \A w \in Writers : Writes(w, pc[w])'
  BY <1>1, <1>2 DEF RegisterInv, Writes
<1> QED
  BY <1>3, <1>4, <1>5 DEF RegisterInv

\* A consumer's step keeps what everyone counts on.
LEMMA RegisterConsumer ==
    ASSUME TypeOK, LockInv, ParentInv, RegisterInv, NEW c \in Consumers,
           Anext(c) \/ ConsumerStep(c) \/ TaskCancelled(c) \/ Deadline(c)
    PROVE  RegisterInv'
<1> USE DEF stream, scope, delivery, history, calls
<1>1. c \in Procs /\ c \in Coroutines /\ c \notin Stoppers /\ c \notin Writers /\ c # None
  BY Kinds
<1>2. Consumes(pc[c])
  BY DEF RegisterInv
<1>3. pc[c] \in Held \/ Holds(c) => \A d \in Consumers \ {c} : pc[d] \notin Held
  BY <1>1, Kinds DEF LockInv, Holds
<1>4. ASSUME NEW x, Goto(c, x), Consumes(x),
             UNCHANGED <<acquiring, closed, tracked, parent, published, fold, orphaned, loop>>
      PROVE  RegisterInv'
  BY <1>1, <1>4, RegisterQuiet
<1>5. ASSUME NEW x, Goto(c, x), Consumes(x)', pc[c] \in Held \/ Holds(c),
             UNCHANGED <<closed, parent, fold, orphaned, loop>>,
             published # None => published' # None,
             tracked' => tracked \/ parent = "open"
      PROVE  RegisterInv'
  <2>1. parent = "open" => \A q \in Stoppers : pc[q] # "post"
    BY DEF ParentInv
  <2>2. \A q \in Stoppers : pc[q] = "post" => closed' /\ ~tracked'
    BY <1>5, <2>1 DEF RegisterInv
  <2>3. parent' = "closed" => ~tracked'
    BY <1>5 DEF RegisterInv
  <2> QED
    BY <1>1, <1>3, <1>5, <2>2, <2>3, RegisterChanges
<1>6. CASE Anext(c) \/ Submit(c) \/ RegFinish(c) \/ Get(c) \/ Deadline(c)
  <2>1. UNCHANGED <<acquiring, closed, tracked, parent, published, fold, orphaned, loop>>
    BY <1>6 DEF Anext, Submit, RegFinish, Get, Deadline
  <2>2. \E x : Goto(c, x) /\ Consumes(x)
    <3>1. CASE Anext(c)
      BY <3>1 DEF Anext, Consumes, Registering
    <3>2. CASE Submit(c) \/ RegFinish(c)
      BY <1>2, <3>2 DEF Submit, RegFinish, Consumes, Registering
    <3>3. CASE Get(c) \/ Deadline(c)
      BY <1>2, <3>3 DEF Get, Deadline, Consumes, Registering
    <3> QED
      BY <1>6, <3>1, <3>2, <3>3
  <2> QED
    BY <1>4, <2>1, <2>2
<1>7. CASE EnterOpening(c)
  <2>1. /\ UNCHANGED <<acquiring, closed, parent, published, fold, orphaned, loop>>
        /\ Holds(c)
    BY <1>7 DEF EnterOpening
  <2>2. ASSUME UNCHANGED tracked
        PROVE  RegisterInv'
    <3>1. \E x : Goto(c, x) /\ Consumes(x)
      BY <1>7, <2>2 DEF EnterOpening, Consumes, Registering
    <3> QED
      BY <1>4, <2>1, <2>2, <3>1
  <2>3. ASSUME Goto(c, "submit"), tracked' = TRUE, published = None, parent = "open"
        PROVE  RegisterInv'
    <3>1. Consumes("submit")'
      BY <2>1, <2>3 DEF Consumes, Registering
    <3> QED
      BY <1>5, <2>1, <2>3, <3>1
  <2> QED
    BY <1>7, <2>2, <2>3 DEF EnterOpening
<1>8. CASE TaskCancelled(c)
  <2>1. UNCHANGED <<acquiring, closed, tracked, parent, published, fold, orphaned, loop>>
    BY <1>8 DEF TaskCancelled
  <2>2. CASE Goto(c, "gone")
    <3>1. Consumes("gone")
      BY DEF Consumes, Registering
    <3> QED
      BY <1>4, <2>1, <2>2, <3>1
  <2>3. CASE UNCHANGED pc
    BY <2>1, <2>3 DEF RegisterInv, Consumes, Writes
  <2> QED
    BY <1>8, <2>2, <2>3 DEF TaskCancelled
<1>9. CASE RegBegin(c)
  <2>1. /\ UNCHANGED <<closed, tracked, parent, published, fold, orphaned, loop>>
        /\ pc[c] = "begin" /\ pc[c] \in Held
    BY <1>9 DEF RegBegin, Held, Registering
  <2>2. CASE acquiring' = TRUE /\ Goto(c, "subscribe")
    <3>1. Consumes("subscribe")'
      BY <1>2, <2>1, <2>2 DEF Consumes, Registering
    <3> QED
      BY <1>5, <2>1, <2>2, <3>1
  <2>3. CASE Goto(c, "raise") /\ UNCHANGED acquiring
    <3>1. Consumes("raise")
      BY <1>2, <2>1 DEF Consumes, Registering
    <3> QED
      BY <1>4, <2>1, <2>3, <3>1
  <2> QED
    BY <1>9, <2>2, <2>3 DEF RegBegin
<1>10. CASE RegSubscribe(c)
  <2>1. /\ UNCHANGED <<closed, tracked, parent, published, fold, orphaned, loop>>
        /\ pc[c] = "subscribe" /\ pc[c] \in Held
    BY <1>10 DEF RegSubscribe, Held, Registering
  <2>2. CASE Goto(c, "assign") /\ UNCHANGED acquiring
    <3>1. Consumes("assign")
      BY <1>2, <2>1 DEF Consumes, Registering
    <3> QED
      BY <1>4, <2>1, <2>2, <3>1
  <2>3. CASE Goto(c, "raise") /\ acquiring' = FALSE
    <3>1. Consumes("raise")'
      BY <1>2, <2>1 DEF Consumes, Registering
    <3> QED
      BY <1>5, <2>1, <2>3, <3>1
  <2> QED
    BY <1>10, <2>2, <2>3 DEF RegSubscribe
<1>11. CASE RegAssign(c)
  <2>1. /\ UNCHANGED <<closed, tracked, parent, published, fold, orphaned, loop>>
        /\ pc[c] = "assign" /\ pc[c] \in Held
        /\ \E x \in {"finish", "raise"} : Goto(c, x)
    BY <1>11 DEF RegAssign, Held, Registering
  <2>2. Consumes("finish")' /\ Consumes("raise")'
    BY <1>2, <2>1 DEF Consumes, Registering
  <2> QED
    BY <1>5, <2>1, <2>2
<1>12. CASE RegRaises(c) \/ Publish(c)
  <2>1. /\ UNCHANGED <<closed, parent, fold, orphaned, loop>> /\ pc[c] \in Held
        /\ published' # None \/ UNCHANGED published
        /\ tracked' => tracked
        /\ \/ Goto(c, "gone")
           \/ Goto(c, "ready") /\ published' # None
    BY <1>1, <1>12 DEF RegRaises, Publish, Held, Registering
  <2>2. Consumes("gone")' /\ (published' # None => Consumes("ready")')
    BY DEF Consumes, Registering
  <2> QED
    BY <1>5, <2>1, <2>2
<1> QED
  BY <1>6, <1>7, <1>8, <1>9, <1>10, <1>11, <1>12 DEF ConsumerStep

\* A close keeps what everyone counts on.
LEMMA RegisterRelease ==
    ASSUME TypeOK, LockInv, ParentInv, RegisterInv, NEW p \in Procs,
           \/ p \in Coroutines /\ ReleaseStep(p)
           \/ p \in Closers /\ Aclose(p)
           \/ p \in Owners \cup Stoppers /\ (BeginClose(p) \/ Interrupt(p))
           \/ p \in Stoppers /\ StopStep(p)
    PROVE  RegisterInv'
<1> USE DEF stream, scope, delivery, history, calls
<1>1. \A x : Goto(p, x) => pc'[p] = x /\ \A q \in Procs : q # p => pc'[q] = pc[q]
  BY DEF TypeOK, Goto
<1>2. /\ Consumers \subseteq Procs /\ Stoppers \subseteq Procs /\ Writers \subseteq Procs
      /\ p \notin Writers /\ (p \in Coroutines => p \notin Stoppers)
  BY Kinds DEF Coroutines
<1>3. ASSUME NEW x \in {"idle", "wait", "cancel", "mark", "gone", "done", "release", "hold",
                        "interrupt", "stopMark", "stopCancel"}
      PROVE  Consumes(x) /\ Consumes(x)' /\ x # "post"
  BY DEF Consumes, Registering
<1>4. ASSUME NEW x \in {"idle", "wait", "cancel", "mark", "gone", "done", "release", "hold",
                        "interrupt", "stopMark", "stopCancel"}, Goto(p, x),
             UNCHANGED <<acquiring, closed, tracked, parent, published, fold, orphaned, loop>>
      PROVE  RegisterInv'
  BY <1>2, <1>3, <1>4, RegisterQuiet
<1>5. CASE \/ p \in Coroutines /\ (AskRelease(p) \/ Release(p))
           \/ p \in Closers /\ Aclose(p)
           \/ p \in Owners \cup Stoppers /\ Interrupt(p)
           \/ p \in Stoppers /\ StopReads(p)
  <2>1. UNCHANGED <<acquiring, closed, tracked, parent, published, fold, orphaned, loop>>
    BY <1>5 DEF AskRelease, Release, Aclose, Interrupt, StopReads
  <2>2. \E x \in {"wait", "cancel", "mark", "done", "release", "hold", "stopMark", "stopCancel"} :
           Goto(p, x)
    BY <1>5 DEF AskRelease, Release, Aclose, Interrupt, StopReads
  <2> QED
    BY <1>4, <2>1, <2>2
<1>6. CASE p \in Coroutines /\ (ReleaseFails(p) \/ ReleaseMarks(p))
  <2>1. /\ UNCHANGED <<acquiring, published, fold, orphaned, loop>> /\ pc[p] \in Held
        /\ \E x \in {"gone", "idle", "done"} : Goto(p, x)
    BY <1>6 DEF ReleaseFails, ReleaseMarks, Held
  <2>2. \/ UNCHANGED <<closed, tracked>> /\ (parent' = "closed" => parent = "closed")
        \/ closed' = TRUE /\ tracked' = FALSE
    BY <1>6 DEF ReleaseFails, ReleaseMarks, ParentAfter
  <2>3. PICK x \in {"gone", "idle", "done"} : Goto(p, x)
    BY <2>1
  <2>4. \A c \in Consumers \ {p} : pc[c] \notin Held
    BY <1>6, <2>1, Kinds, OneHolder
  <2>5. /\ \A q \in Stoppers : pc[q] = "post" => closed' /\ ~tracked'
        /\ parent' = "closed" => ~tracked'
    BY <2>2 DEF RegisterInv
  <2> QED
    BY <1>2, <1>3, <1>6, <2>1, <2>3, <2>4, <2>5, RegisterChanges
<1>7. ASSUME p \notin Consumers, NEW x, Goto(p, x), UNCHANGED <<acquiring, published, fold, orphaned, loop>>,
             UNCHANGED <<closed, tracked>> \/ (closed' = TRUE /\ tracked' = FALSE),
             x = "post" => closed' /\ ~tracked',
             parent' = "closed" => ~tracked'
      PROVE  RegisterInv'
  <2>1. \A c \in Consumers : Consumes(pc[c])'
    <3> SUFFICES ASSUME NEW c \in Consumers PROVE Consumes(pc[c])'
      OBVIOUS
    <3>1. pc'[c] = pc[c] /\ Consumes(pc[c])
      BY <1>1, <1>2, <1>7 DEF RegisterInv
    <3> QED
      BY <1>7, <3>1 DEF Consumes
  <2>2. \A q \in Stoppers : pc'[q] = "post" => closed' /\ ~tracked'
    BY <1>1, <1>2, <1>7 DEF RegisterInv
  <2>3. \A w \in Writers : Writes(w, pc[w])'
    BY <1>1, <1>2, <1>7 DEF RegisterInv, Writes
  <2>4. orphaned' => loop' = "closed"
    BY <1>7 DEF RegisterInv
  <2> QED
    BY <1>7, <2>1, <2>2, <2>3, <2>4 DEF RegisterInv
<1>8. CASE p \in Owners \cup Stoppers /\ BeginClose(p)
  <2>1. /\ UNCHANGED <<acquiring, closed, tracked, published, fold, orphaned, loop>>
        /\ parent' = "closed" => ~tracked
        /\ \E x \in {"done", "interrupt"} : Goto(p, x)
    BY <1>8 DEF BeginClose, RegisterInv
  <2>2. p \notin Consumers
    BY <1>8, Kinds
  <2> QED
    BY <1>7, <2>1, <2>2
<1>9. CASE p \in Stoppers /\ (StopCancels(p) \/ StopMarks(p) \/ StopPosts(p))
  <2>1. p \notin Consumers /\ (pc[p] = "post" => ~tracked)
    BY <1>9, Kinds DEF RegisterInv
  <2>2. CASE StopCancels(p)
    <3>1. /\ UNCHANGED <<acquiring, closed, tracked, published, fold, orphaned, loop>>
          /\ parent' = "closed" => parent = "closed"
          /\ \E x \in {"stopMark", "idle"} : Goto(p, x)
      BY <2>2 DEF StopCancels, ParentAfter
    <3> QED
      BY <1>7, <2>1, <3>1 DEF RegisterInv
  <2>3. CASE StopMarks(p)
    <3>1. /\ UNCHANGED <<acquiring, published, fold, orphaned, loop>>
          /\ closed' = TRUE /\ tracked' = FALSE /\ Goto(p, "post")
      BY <2>3 DEF StopMarks
    <3> QED
      BY <1>7, <2>1, <3>1
  <2>4. CASE StopPosts(p)
    <3>1. /\ UNCHANGED <<acquiring, closed, tracked, published, fold, orphaned, loop>>
          /\ Goto(p, "done") /\ pc[p] = "post"
      BY <2>4 DEF StopPosts
    <3> QED
      BY <1>7, <2>1, <3>1
  <2> QED
    BY <1>9, <2>2, <2>3, <2>4
<1> QED
  BY <1>5, <1>6, <1>8, <1>9 DEF ReleaseStep, StopStep

\* A request, a write and the loop keep what everyone counts on.
LEMMA RegisterOther ==
    ASSUME TypeOK, RegisterInv,
           \/ \E w \in Writers : Write(w) \/ DeliverStep(w)
           \/ \E p \in Coroutines : CallStep(p)
           \/ RunCallback \/ LoopCloses \/ UNCHANGED vars
    PROVE  RegisterInv'
<1> USE DEF stream, scope, delivery, history, calls
<1>1. ASSUME NEW w \in Writers, Write(w) \/ DeliverStep(w)
      PROVE  RegisterInv'
  <2>1. w \in Procs /\ w \notin Consumers /\ w \notin Stoppers /\ Writes(w, pc[w])
    BY Kinds DEF RegisterInv
  <2>2. CASE Deliver(w) \/ Post(w) \/ RetireCancels(w)
    <3>1. UNCHANGED <<acquiring, closed, tracked, parent, published, fold, orphaned, loop>>
      BY <2>2 DEF Deliver, Post, RetireCancels
    <3>2. \E x : Goto(w, x) /\ Writes(w, x)
      <4>1. CASE Deliver(w)
        BY <2>1, <4>1 DEF Deliver, Writes, InFlight, Retiring
      <4>2. CASE Post(w)
        BY <2>1, <4>2 DEF Post, Writes, InFlight, Retiring
      <4>3. CASE RetireCancels(w)
        BY <2>1, <4>3 DEF RetireCancels, Writes, InFlight, Retiring
      <4> QED
        BY <2>2, <4>1, <4>2, <4>3
    <3> QED
      BY <2>1, <3>1, <3>2, RegisterQuiet
  <2>3. ASSUME NEW x, Goto(w, x), Writes(w, x)', UNCHANGED <<acquiring, published, parent, loop>>,
               \A v \in Writers : v # w => fold'[v] = fold[v],
               UNCHANGED <<closed, tracked>> \/ (closed' = TRUE /\ tracked' = FALSE),
               orphaned => orphaned', orphaned' => loop = "closed"
        PROVE  RegisterInv'
    <3>1. pc'[w] = x /\ \A q \in Procs : q # w => pc'[q] = pc[q]
      BY <2>1, <2>3 DEF TypeOK, Goto
    <3>2. \A c \in Consumers : Consumes(pc[c])'
      <4> SUFFICES ASSUME NEW c \in Consumers PROVE Consumes(pc[c])'
        OBVIOUS
      <4>1. pc'[c] = pc[c] /\ Consumes(pc[c])
        BY <2>1, <3>1, Kinds DEF RegisterInv
      <4> QED
        BY <2>3, <4>1 DEF Consumes
    <3>3. \A v \in Writers : Writes(v, pc[v])'
      BY <2>3, <3>1, Kinds DEF RegisterInv, Writes
    <3>4. \A q \in Stoppers : pc'[q] = "post" => closed' /\ ~tracked'
      BY <2>1, <2>3, <3>1, Kinds DEF RegisterInv
    <3>5. (orphaned' => loop' = "closed") /\ (parent' = "closed" => ~tracked')
      BY <2>3 DEF RegisterInv
    <3> QED
      BY <3>2, <3>3, <3>4, <3>5 DEF RegisterInv
  <2>4. CASE Retire(w)
    <3>1. /\ UNCHANGED <<acquiring, published, parent, loop, fold, closed, tracked>>
          /\ orphaned' = TRUE /\ pc[w] = "retire"
          /\ \E x \in {"idle", "retireCancel"} : Goto(w, x)
      BY <2>4 DEF Retire
    <3>2. loop = "closed" /\ fold[w] # None
      BY <2>1, <3>1 DEF Writes, Retiring
    <3>3. \A x \in {"idle", "retireCancel"} : Writes(w, x)'
      BY <3>1, <3>2 DEF Writes, InFlight, Retiring
    <3> QED
      BY <2>3, <3>1, <3>2, <3>3
  <2>5. CASE RetireMarks(w)
    <3>1. /\ UNCHANGED <<acquiring, published, parent, loop, fold, orphaned>>
          /\ closed' = TRUE /\ tracked' = FALSE /\ Goto(w, "idle")
      BY <2>5 DEF RetireMarks
    <3>2. Writes(w, "idle")'
      BY DEF Writes, Retiring
    <3>3. orphaned' => loop = "closed"
      BY <3>1 DEF RegisterInv
    <3> QED
      BY <2>3, <3>1, <3>2, <3>3
  <2>6. CASE Write(w)
    <3>1. /\ UNCHANGED <<acquiring, closed, tracked, parent, published, orphaned, loop>>
          /\ Goto(w, "deliver")
      BY <2>6 DEF Write
    <3>2. PICK r \in live : fold' = [fold EXCEPT ![w] = r]
      BY <2>6 DEF Write
    <3>3. r # None
      BY <3>2, Kinds DEF TypeOK
    <3>4. fold'[w] = r /\ \A v \in Writers : v # w => fold'[v] = fold[v]
      BY <3>2 DEF TypeOK
    <3>5. Writes(w, "deliver")'
      BY <3>3, <3>4 DEF Writes, InFlight, Retiring
    <3>6. orphaned' => loop = "closed"
      BY <3>1 DEF RegisterInv
    <3> QED
      BY <2>3, <3>1, <3>4, <3>5, <3>6
  <2> QED
    BY <1>1, <2>2, <2>4, <2>5, <2>6 DEF DeliverStep
<1>2. CASE RunCallback \/ LoopCloses \/ UNCHANGED vars \/ \E p \in Coroutines : CallStep(p)
  <2>1. /\ UNCHANGED <<acquiring, closed, tracked, parent, published, fold, orphaned, pc>>
        /\ UNCHANGED loop \/ loop' = "closed"
    BY <1>2 DEF RunCallback, LoopCloses, vars, CallStep, AskCancel, Dispatch, RunCancel
  <2> QED
    BY <2>1 DEF RegisterInv, Consumes, Writes
<1> QED
  BY <1>1, <1>2


-----------------------------------------------------------------------------
(* Requests on the worker.                                                  *)

\* One process moves, and its request with it.
LEMMA CallMoves ==
    ASSUME CallInv, NEW p \in Procs,
           \A q \in Coroutines \ {p} :
             pc'[q] = pc[q] /\ crossing'[q] = crossing[q] /\ sub'[q] = sub[q],
           p \in Coroutines => Calls(pc'[p], crossing'[p]),
           p \in Coroutines => (pc'[p] = "undo" => p \in Consumers /\ sub'[p] = p)
    PROVE  CallInv'
<1> SUFFICES ASSUME NEW q \in Coroutines
             PROVE  /\ Calls(pc'[q], crossing'[q])
                    /\ pc'[q] = "undo" => q \in Consumers /\ sub'[q] = q
  BY DEF CallInv, Calls
<1>1. CASE q = p
  BY <1>1
<1>2. CASE q # p
  BY <1>2 DEF CallInv
<1> QED
  BY <1>1, <1>2

\* A consumer's step keeps the requests.
LEMMA CallConsumer ==
    ASSUME TypeOK, CallInv, NEW c \in Consumers,
           Anext(c) \/ ConsumerStep(c) \/ TaskCancelled(c) \/ Deadline(c)
    PROVE  CallInv'
<1> USE DEF stream, scope, delivery, history, calls
<1>1. /\ c \in Coroutines /\ c \in Procs /\ Coroutines \subseteq Procs
      /\ Calls(pc[c], crossing[c])
  BY Kinds DEF CallInv
<1>2. /\ \A x : Goto(c, x) => pc'[c] = x /\ \A q \in Procs : q # c => pc'[q] = pc[q]
      /\ \A x : Becomes(c, x) =>
           crossing'[c] = x /\ \A q \in Coroutines : q # c => crossing'[q] = crossing[q]
  BY <1>1 DEF TypeOK, Goto, Becomes
<1>3. ASSUME NEW x \in {"idle", "opening", "submit", "begin", "subscribe", "assign", "raise",
                        "finish", "publish", "ready", "get", "ended", "gone", "release"},
             NEW s, Goto(c, x), crossing'[c] = s, Calls(x, s), UNCHANGED sub,
             \A q \in Coroutines : q # c => crossing'[q] = crossing[q]
      PROVE  CallInv'
  <2>1. x # "undo"
    OBVIOUS
  <2>2. pc'[c] = x /\ \A q \in Procs : q # c => pc'[q] = pc[q]
    BY <1>2, <1>3
  <2> QED
    BY <1>1, <1>3, <2>1, <2>2, CallMoves
<1>4. ASSUME NEW x \in {"idle", "opening", "submit", "raise", "finish", "publish", "ready",
                        "get", "ended", "gone", "release"}
      PROVE  Calls(x, "none")
  BY DEF Calls
<1>5. CASE Anext(c) \/ EnterOpening(c) \/ Publish(c) \/ Get(c) \/ Deadline(c)
  <2>1. /\ UNCHANGED <<sub, crossing>>
        /\ pc[c] \in {"idle", "opening", "publish", "ready", "get"}
        /\ \E x \in {"idle", "opening", "submit", "ready", "get", "ended", "gone", "release"} :
             Goto(c, x)
    BY <1>5 DEF Anext, EnterOpening, Publish, Get, Deadline
  <2>2. crossing[c] = "none"
    BY <1>1, <2>1 DEF Calls
  <2> QED
    BY <1>3, <1>4, <2>1, <2>2
<1>6. CASE Submit(c)
  <2>1. crossing[c] = "none" /\ Calls("begin", "ordinary")
    BY <1>1, <1>6 DEF Submit, Calls
  <2> QED
    BY <1>2, <1>3, <1>4, <1>6, <2>1 DEF Submit
<1>7. CASE RegBegin(c)
  <2>1. UNCHANGED sub /\ crossing[c] \in Running
    BY <1>7 DEF RegBegin
  <2>2. CASE Goto(c, "raise") /\ Becomes(c, "none")
    BY <1>2, <1>3, <1>4, <2>1, <2>2
  <2>3. CASE /\ Goto(c, "subscribe")
             /\ Becomes(c, IF crossing[c] = "interrupted" THEN "stopped" ELSE crossing[c])
    <3>1. \E s \in Running : Becomes(c, s)
      BY <2>1, <2>3 DEF Running
    <3>2. \A s \in Running : Calls("subscribe", s)
      BY DEF Calls
    <3> QED
      BY <1>2, <1>3, <2>1, <2>3, <3>1, <3>2
  <2> QED
    BY <1>7, <2>2, <2>3 DEF RegBegin
<1>8. CASE RegSubscribe(c)
  <2>1. UNCHANGED sub /\ pc[c] = "subscribe"
    BY <1>8 DEF RegSubscribe
  <2>2. CASE Goto(c, "raise") /\ Becomes(c, "none")
    BY <1>2, <1>3, <1>4, <2>1, <2>2
  <2>3. CASE Goto(c, "assign") /\ UNCHANGED crossing
    <3>1. Calls("assign", crossing[c])
      BY <1>1, <2>1 DEF Calls
    <3> QED
      BY <1>3, <2>1, <2>3, <3>1
  <2> QED
    BY <1>8, <2>2, <2>3 DEF RegSubscribe
<1>9. CASE RegAssign(c) \/ RegRaises(c)
  <2>1. /\ UNCHANGED sub /\ Becomes(c, "none")
        /\ \E x \in {"finish", "raise", "gone"} : Goto(c, x)
    BY <1>9 DEF RegAssign, RegRaises
  <2> QED
    BY <1>2, <1>3, <1>4, <2>1
<1>10. CASE RegFinish(c)
  <2>1. UNCHANGED crossing /\ crossing[c] = "none" /\ Calls("undo", "none")
    BY <1>1, <1>10 DEF RegFinish, Calls
  <2>2. CASE c \in cancelled
    <3>1. Goto(c, "undo") /\ sub' = [sub EXCEPT ![c] = c]
      BY <1>10, <2>2 DEF RegFinish
    <3>2. sub'[c] = c /\ \A q \in Procs : q # c => sub'[q] = sub[q]
      BY <1>1, <3>1 DEF TypeOK
    <3> QED
      BY <1>1, <1>2, <2>1, <3>1, <3>2, CallMoves
  <2>3. CASE c \notin cancelled
    BY <1>3, <1>4, <1>10, <2>1, <2>3 DEF RegFinish
  <2> QED
    BY <2>2, <2>3
<1>11. CASE TaskCancelled(c)
  <2>1. UNCHANGED <<sub, crossing>>
    BY <1>11 DEF TaskCancelled
  <2>2. CASE pc[c] \in {"opening", "get"} /\ Goto(c, "gone")
    <3>1. crossing[c] = "none"
      BY <1>1, <2>2 DEF Calls
    <3> QED
      BY <1>3, <1>4, <2>1, <2>2, <3>1
  <2>3. CASE UNCHANGED pc
    BY <2>1, <2>3 DEF CallInv, Calls
  <2> QED
    BY <1>11, <2>2, <2>3 DEF TaskCancelled
<1> QED
  BY <1>5, <1>6, <1>7, <1>8, <1>9, <1>10, <1>11 DEF ConsumerStep

\* A request on its way keeps the requests.
LEMMA CallRequest ==
    ASSUME TypeOK, CallInv, NEW p \in Coroutines, CallStep(p)
    PROVE  CallInv'
<1> USE DEF scope, delivery
<1>1. /\ p \in Procs /\ Coroutines \subseteq Procs /\ Calls(pc[p], crossing[p])
      /\ pc[p] = "undo" => p \in Consumers /\ sub[p] = p
  BY Kinds DEF CallInv
<1>2. UNCHANGED <<pc, sub>>
  BY DEF CallStep, AskCancel, Dispatch, RunCancel
<1>3. PICK s : Becomes(p, s) /\ Calls(pc[p], s)
  <2>1. CASE AskCancel(p) \/ RunCancel(p)
    BY <2>1 DEF AskCancel, RunCancel, Calls
  <2>2. CASE Dispatch(p)
    <3>1. "running" \in Running
      BY DEF Running
    <3>2. pc[p] \in {"begin", "undo", "cancel"}
      BY <1>1, <2>2 DEF Dispatch, Calls, Running
    <3> QED
      BY <2>2, <3>1, <3>2 DEF Dispatch, Calls
  <2> QED
    BY <2>1, <2>2 DEF CallStep
<1>4. crossing'[p] = s /\ \A q \in Coroutines : q # p => crossing'[q] = crossing[q]
  BY <1>3 DEF TypeOK, Becomes
<1> QED
  BY <1>1, <1>2, <1>3, <1>4, CallMoves

\* Everything else keeps the requests.
LEMMA CallOther ==
    ASSUME TypeOK, CallInv,
           \/ \E p \in Closers : Aclose(p)
           \/ \E p \in Owners \cup Stoppers : BeginClose(p) \/ Interrupt(p)
           \/ \E p \in Coroutines : ReleaseStep(p)
           \/ \E p \in Stoppers : StopStep(p)
           \/ \E w \in Writers : Write(w) \/ DeliverStep(w)
           \/ RunCallback \/ LoopCloses \/ UNCHANGED vars
    PROVE  CallInv'
<1> USE DEF stream, scope, delivery, history, calls
<1>1. /\ Coroutines \subseteq Procs /\ Stoppers \subseteq Procs /\ Writers \subseteq Procs
      /\ Coroutines \cap (Stoppers \cup Writers) = {}
      /\ Closers \subseteq Coroutines /\ Owners \subseteq Coroutines
      /\ pc \in [Procs -> Places] /\ sub \in [Procs -> Registrations]
  BY Kinds DEF Coroutines, TypeOK
<1>2. ASSUME NEW p \in Procs, p \notin Coroutines, UNCHANGED crossing,
             UNCHANGED sub \/ \E r : sub' = [sub EXCEPT ![p] = r],
             UNCHANGED pc \/ \E x : Goto(p, x)
      PROVE  CallInv'
  <2>1. \A q \in Coroutines \ {p} : pc'[q] = pc[q] /\ sub'[q] = sub[q]
    BY <1>1, <1>2 DEF Goto
  <2> QED
    BY <1>2, <2>1, CallMoves
<1>3. ASSUME NEW p \in Coroutines,
             NEW x \in {"idle", "wait", "cancel", "mark", "gone", "done", "release",
                        "interrupt"},
             Goto(p, x), crossing'[p] = "none",
             \A q \in Coroutines : q # p => crossing'[q] = crossing[q],
             UNCHANGED sub \/ \E r : sub' = [sub EXCEPT ![p] = r]
      PROVE  CallInv'
  <2>1. Calls(x, "none") /\ x # "undo"
    BY DEF Calls
  <2>2. pc'[p] = x /\ \A q \in Procs : q # p => pc'[q] = pc[q] /\ sub'[q] = sub[q]
    BY <1>1, <1>3 DEF Goto
  <2> QED
    BY <1>1, <1>3, <2>1, <2>2, CallMoves
<1>4. ASSUME NEW p \in Closers, Aclose(p)
      PROVE  CallInv'
  <2>1. crossing[p] = "none" /\ UNCHANGED <<crossing, sub>>
        /\ \E x \in {"done", "release"} : Goto(p, x)
    BY <1>1, <1>4 DEF Aclose, CallInv, Calls
  <2> QED
    BY <1>1, <1>3, <2>1
<1>5. ASSUME NEW p \in Owners \cup Stoppers, BeginClose(p)
      PROVE  CallInv'
  <2>1. UNCHANGED <<crossing, sub>> /\ pc[p] = "idle"
        /\ \E x \in {"done", "interrupt"} : Goto(p, x)
    BY <1>5 DEF BeginClose
  <2>2. p \in Coroutines => crossing[p] = "none"
    BY <2>1 DEF CallInv, Calls
  <2> QED
    BY <1>1, <1>2, <1>3, <1>5, <2>1, <2>2
<1>6. ASSUME NEW p \in Owners \cup Stoppers, Interrupt(p)
      PROVE  CallInv'
  <2>1. /\ UNCHANGED sub /\ pc[p] = "interrupt" /\ p \in Procs
        /\ \E x \in {"release", "hold"} : Goto(p, x)
        /\ crossing' = [q \in Coroutines |->
                          IF crossing[q] = "running" THEN "interrupted" ELSE crossing[q]]
    BY <1>1, <1>6 DEF Interrupt
  <2>2. ASSUME NEW q \in Coroutines
        PROVE  /\ Calls(pc'[q], crossing'[q])
               /\ pc'[q] = "undo" => q \in Consumers /\ sub'[q] = q
    <3>1. /\ Calls(pc[q], crossing[q]) /\ (pc[q] = "undo" => q \in Consumers /\ sub[q] = q)
          /\ crossing'[q] = IF crossing[q] = "running" THEN "interrupted" ELSE crossing[q]
      BY <2>1 DEF CallInv
    <3>2. Calls(pc[q], crossing'[q])
      BY <3>1 DEF Calls, Running
    <3>3. pc'[q] = pc[q] \/ (q = p /\ pc'[q] \in {"release", "hold"})
      BY <1>1, <2>1 DEF Goto
    <3>4. CASE pc'[q] = pc[q]
      BY <2>1, <3>1, <3>2, <3>4
    <3>5. CASE q = p /\ pc'[q] \in {"release", "hold"}
      BY <2>1, <3>1, <3>5 DEF Calls
    <3> QED
      BY <3>3, <3>4, <3>5
  <2> QED
    BY <2>2 DEF CallInv, Calls
<1>7. ASSUME NEW p \in Coroutines, ReleaseStep(p)
      PROVE  CallInv'
  <2>1. Calls(pc[p], crossing[p])
    BY DEF CallInv
  <2>2. CASE AskRelease(p) \/ Release(p)
    <3>1. /\ crossing[p] = "none" /\ UNCHANGED crossing
          /\ \E x \in {"wait", "mark", "cancel"} : Goto(p, x)
          /\ UNCHANGED sub \/ \E r : sub' = [sub EXCEPT ![p] = r]
      BY <2>1, <2>2 DEF AskRelease, Release, Calls
    <3> QED
      BY <1>3, <3>1
  <2>3. CASE ReleaseFails(p) \/ ReleaseMarks(p)
    <3>1. /\ Becomes(p, "none") /\ UNCHANGED sub
          /\ \E x \in {"gone", "idle", "done"} : Goto(p, x)
      BY <2>3 DEF ReleaseFails, ReleaseMarks
    <3>2. crossing'[p] = "none" /\ \A q \in Coroutines : q # p => crossing'[q] = crossing[q]
      BY <3>1 DEF Becomes, TypeOK
    <3> QED
      BY <1>3, <3>1, <3>2
  <2> QED
    BY <1>7, <2>2, <2>3 DEF ReleaseStep
<1>8. ASSUME NEW p \in Stoppers, StopStep(p)
      PROVE  CallInv'
  <2>1. /\ UNCHANGED crossing /\ \E x : Goto(p, x)
        /\ UNCHANGED sub \/ \E r : sub' = [sub EXCEPT ![p] = r]
    BY <1>8 DEF StopStep, StopReads, StopCancels, StopMarks, StopPosts
  <2> QED
    BY <1>1, <1>2, <2>1
<1>9. ASSUME NEW w \in Writers, Write(w) \/ DeliverStep(w)
      PROVE  CallInv'
  <2>1. /\ UNCHANGED crossing /\ \E x : Goto(w, x)
        /\ UNCHANGED sub \/ \E r : sub' = [sub EXCEPT ![w] = r]
    BY <1>9 DEF Write, DeliverStep, Deliver, Post, Retire, RetireCancels, RetireMarks
  <2> QED
    BY <1>1, <1>2, <2>1
<1>10. CASE RunCallback \/ LoopCloses \/ UNCHANGED vars
  <2>1. UNCHANGED <<pc, sub, crossing>>
    BY <1>10 DEF RunCallback, LoopCloses, vars
  <2> QED
    BY <2>1 DEF CallInv, Calls
<1> QED
  BY <1>4, <1>5, <1>6, <1>7, <1>8, <1>9, <1>10

\* Every step keeps the requests.
LEMMA CallStepInv ==
    ASSUME TypeOK, CallInv, [Next]_vars
    PROVE  CallInv'
  BY CallConsumer, CallRequest, CallOther, Kinds DEF Next

-----------------------------------------------------------------------------
(* What a close may count on of a registration under way.                   *)

\* Nothing gets past a close that did not get past it before.
LEMMA StopKeeps ==
    ASSUME StopInv,
           \A c \in Consumers :
             (\E q \in Stoppers : pc[q] \notin {"idle", "done"}) /\ Barred(c) => Barred(c)',
           \A c \in Consumers : Blocked(c) /\ (closed \/ Barred(c)) => Blocked(c)',
           \A q \in Stoppers :
             pc'[q] = pc[q] \/ pc'[q] \in {"idle", "done", "interrupt"}
             \/ (pc[q] \in {"stopCancel", "stopMark"} /\ pc'[q] \in {"stopMark", "post"}),
           closed' /\ ~orphaned' => ~orphaned /\ (closed \/ \A c \in Consumers : Blocked(c)')
    PROVE  StopInv'
<1>1. ASSUME NEW q \in Stoppers, pc'[q] \in {"hold", "stopCancel", "stopMark", "post"}
      PROVE  \A c \in Consumers : Barred(c)'
  <2>1. pc[q] \in {"hold", "stopCancel", "stopMark", "post"}
    BY <1>1
  <2> QED
    BY <2>1 DEF StopInv
<1>2. ASSUME NEW q \in Stoppers, pc'[q] \in {"stopCancel", "stopMark", "post"}
      PROVE  \A c \in Consumers : Blocked(c)'
  <2>1. pc[q] \in {"stopCancel", "stopMark", "post"}
    BY <1>2
  <2> QED
    BY <2>1 DEF StopInv
<1>3. ASSUME closed', ~orphaned'
      PROVE  \A c \in Consumers : Blocked(c)'
  BY <1>3 DEF StopInv
<1> QED
  BY <1>1, <1>2, <1>3 DEF StopInv

\* A consumer's step.
LEMMA StopConsumer ==
    ASSUME TypeOK, ParentInv, CallInv, StopInv, NEW c \in Consumers,
           Anext(c) \/ ConsumerStep(c) \/ TaskCancelled(c) \/ Deadline(c)
    PROVE  StopInv'
<1> USE DEF stream, scope, delivery, history, calls
<1>1. /\ c \in Coroutines /\ c \in Procs /\ Consumers \subseteq Coroutines
      /\ Consumers \cap Stoppers = {} /\ Stoppers \subseteq Procs /\ Coroutines \subseteq Procs
  BY Kinds
<1>2. UNCHANGED <<closed, orphaned>>
  BY DEF Anext, ConsumerStep, EnterOpening, Submit, RegBegin, RegSubscribe, RegAssign,
         RegRaises, RegFinish, Publish, Get, TaskCancelled, Deadline
<1>3. /\ \A q \in Procs : q # c => pc'[q] = pc[q]
      /\ \A q \in Coroutines : q # c => crossing'[q] = crossing[q]
  BY <1>1 DEF Anext, ConsumerStep, EnterOpening, Submit, RegBegin, RegSubscribe, RegAssign,
         RegRaises, RegFinish, Publish, Get, TaskCancelled, Deadline, Goto, Becomes, TypeOK
<1>4. ASSUME (\E q \in Stoppers : pc[q] \notin {"idle", "done"}) /\ Barred(c) => Barred(c)',
             Blocked(c) /\ (closed \/ Barred(c)) => Blocked(c)'
      PROVE  StopInv'
  <2>1. \A d \in Consumers : d # c => (Barred(d)' <=> Barred(d)) /\ (Blocked(d)' <=> Blocked(d))
    BY <1>1, <1>3 DEF Barred, Blocked
  <2>2. \A d \in Consumers :
           (\E q \in Stoppers : pc[q] \notin {"idle", "done"}) /\ Barred(d) => Barred(d)'
    BY <1>4, <2>1
  <2>3. \A d \in Consumers : Blocked(d) /\ (closed \/ Barred(d)) => Blocked(d)'
    BY <1>4, <2>1
  <2>4. \A q \in Stoppers : pc'[q] = pc[q]
    BY <1>1, <1>3
  <2> QED
    BY <1>2, <2>2, <2>3, <2>4, StopKeeps
<1>5. /\ \A x : Goto(c, x) => pc'[c] = x
      /\ \A x : Becomes(c, x) => crossing'[c] = x
  BY <1>1 DEF TypeOK, Goto, Becomes
<1>6. ASSUME pc'[c] \notin {"begin", "subscribe", "assign"}
      PROVE  StopInv'
  BY <1>4, <1>6 DEF Barred, Blocked
<1>7. CASE Submit(c)
  <2>1. CASE parent # "open"
    BY <1>5, <1>6, <1>7, <2>1 DEF Submit
  <2>2. CASE parent = "open"
    <3>1. pc'[c] = "begin"
      BY <1>5, <1>7, <2>2 DEF Submit
    <3>2. \A q \in Stoppers : pc[q] \in {"idle", "done"}
      BY <2>2 DEF ParentInv
    <3> QED
      BY <1>4, <3>1, <3>2 DEF Blocked
  <2> QED
    BY <2>1, <2>2
<1>8. CASE RegBegin(c)
  <2>1. CASE closed
    BY <1>5, <1>6, <1>8, <2>1 DEF RegBegin
  <2>2. CASE ~closed
    <3>1. /\ pc[c] = "begin" /\ pc'[c] = "subscribe"
          /\ crossing'[c] = IF crossing[c] = "interrupted" THEN "stopped" ELSE crossing[c]
          /\ crossing[c] \in Running
      BY <1>5, <1>8, <2>2 DEF RegBegin
    <3>2. Barred(c) => crossing'[c] = "stopped"
      BY <3>1 DEF Barred, Running
    <3> QED
      BY <1>4, <2>2, <3>1, <3>2 DEF Barred, Blocked
  <2> QED
    BY <2>1, <2>2
<1>9. CASE RegSubscribe(c)
  <2>1. pc[c] = "subscribe"
    BY <1>9 DEF RegSubscribe
  <2>2. CASE Goto(c, "raise")
    BY <1>5, <1>6, <2>2
  <2>3. CASE crossing[c] # "stopped" /\ Goto(c, "assign") /\ UNCHANGED crossing
    <3>1. ~Blocked(c)
      BY <2>1, <2>3 DEF Blocked
    <3>2. Barred(c) => Barred(c)'
      BY <2>1, <2>3 DEF Barred
    <3> QED
      BY <1>4, <3>1, <3>2
  <2> QED
    BY <1>9, <2>2, <2>3 DEF RegSubscribe
<1>10. CASE TaskCancelled(c)
  <2>1. UNCHANGED crossing
    BY <1>10 DEF TaskCancelled
  <2>2. CASE Goto(c, "gone")
    BY <1>5, <1>6, <2>2
  <2>3. CASE UNCHANGED pc
    BY <1>4, <2>1, <2>3 DEF Barred, Blocked
  <2> QED
    BY <1>10, <2>2, <2>3 DEF TaskCancelled
<1>11. CASE \/ Anext(c) \/ EnterOpening(c) \/ RegAssign(c) \/ RegRaises(c) \/ RegFinish(c)
            \/ Publish(c) \/ Get(c) \/ Deadline(c)
  <2>1. \E x \in {"ended", "ready", "opening", "submit", "gone", "finish", "raise", "undo",
                  "publish", "idle", "get", "release"} : Goto(c, x)
    BY <1>11 DEF Anext, EnterOpening, RegAssign, RegRaises, RegFinish, Publish, Get, Deadline
  <2> QED
    BY <1>5, <1>6, <2>1
<1> QED
  BY <1>7, <1>8, <1>9, <1>10, <1>11 DEF ConsumerStep

\* A request that is taken up while a connection closes is none of a registration.
LEMMA StopRequest ==
    ASSUME TypeOK, ParentInv, CallInv, StopInv, NEW p \in Coroutines, CallStep(p)
    PROVE  StopInv'
<1> USE DEF scope, stream
<1>1. UNCHANGED <<pc, closed, orphaned>> /\ Consumers \subseteq Coroutines
  BY Kinds DEF CallStep, AskCancel, Dispatch, RunCancel
<1>2. \A q \in Coroutines : q # p => crossing'[q] = crossing[q]
  BY DEF CallStep, AskCancel, Dispatch, RunCancel, Becomes, TypeOK
<1>3. CASE pc[p] \notin {"begin", "subscribe", "assign"}
  <2>1. \A c \in Consumers : (Barred(c)' <=> Barred(c)) /\ (Blocked(c)' <=> Blocked(c))
    BY <1>1, <1>2, <1>3 DEF Barred, Blocked
  <2> QED
    BY <1>1, <2>1, StopKeeps
<1>4. CASE pc[p] \in {"begin", "subscribe", "assign"}
  <2>1. Dispatch(p) /\ Calls(pc[p], crossing[p])
    BY <1>4 DEF CallStep, AskCancel, RunCancel, CallInv
  <2>2. pc[p] = "begin" /\ crossing[p] = "ordinary"
    BY <1>4, <2>1 DEF Dispatch, Calls, Running
  <2>3. parent = "open" \/ crossing'[p] = "failed"
    BY <2>1, <2>2 DEF Dispatch, Becomes, TypeOK
  <2>4. parent = "open" => \A q \in Stoppers : pc[q] \in {"idle", "done"}
    BY DEF ParentInv
  <2>5. \A c \in Consumers :
           (\E q \in Stoppers : pc[q] \notin {"idle", "done"}) /\ Barred(c) => Barred(c)'
    BY <1>1, <1>2, <2>3, <2>4 DEF Barred
  <2>6. \A c \in Consumers : Blocked(c) => Blocked(c)'
    BY <1>1, <1>2, <2>2 DEF Blocked
  <2> QED
    BY <1>1, <2>5, <2>6, StopKeeps
<1> QED
  BY <1>3, <1>4

\* A step of a close.
LEMMA StopRelease ==
    ASSUME TypeOK, LockInv, ParentInv, RegisterInv, CallInv, StopInv, NEW p \in Procs,
           \/ p \in Coroutines /\ ReleaseStep(p)
           \/ p \in Closers /\ Aclose(p)
           \/ p \in Owners \cup Stoppers /\ (BeginClose(p) \/ Interrupt(p))
           \/ p \in Stoppers /\ StopStep(p)
    PROVE  StopInv'
<1> USE DEF stream, scope, delivery, history, calls
<1>1. /\ Consumers \subseteq Coroutines /\ Coroutines \subseteq Procs /\ Stoppers \subseteq Procs
      /\ Coroutines \cap Stoppers = {} /\ Closers \subseteq Coroutines
      /\ Consumers \cap (Closers \cup Owners \cup Stoppers) = {}
      /\ \A x : Goto(p, x) => pc'[p] = x /\ \A q \in Procs : q # p => pc'[q] = pc[q]
      /\ \A x : Becomes(p, x) => \A q \in Coroutines : q # p => crossing'[q] = crossing[q]
  BY Kinds DEF Coroutines, TypeOK, Goto, Becomes
<1>2. ASSUME NEW x, Goto(p, x), UNCHANGED orphaned,
             x \notin {"begin", "subscribe", "assign"},
             \A q \in Coroutines : q # p => crossing'[q] = crossing[q],
             pc[p] \notin {"begin", "subscribe", "assign"},
             p \in Stoppers => \/ x \in {"idle", "done", "interrupt"}
                               \/ pc[p] \in {"stopCancel", "stopMark"} /\ x \in {"stopMark", "post"},
             closed' => closed \/ \A c \in Consumers : Blocked(c)
      PROVE  StopInv'
  <2>1. \A c \in Consumers : (Barred(c)' <=> Barred(c)) /\ (Blocked(c)' <=> Blocked(c))
    BY <1>1, <1>2 DEF Barred, Blocked
  <2>2. \A q \in Stoppers :
             pc'[q] = pc[q] \/ pc'[q] \in {"idle", "done", "interrupt"}
             \/ (pc[q] \in {"stopCancel", "stopMark"} /\ pc'[q] \in {"stopMark", "post"})
    BY <1>1, <1>2
  <2> QED
    BY <1>2, <2>1, <2>2, StopKeeps
<1>3. CASE p \in Coroutines /\ (AskRelease(p) \/ Release(p) \/ ReleaseFails(p))
  <2>1. /\ UNCHANGED <<closed, orphaned>>
        /\ \A q \in Coroutines : q # p => crossing'[q] = crossing[q]
        /\ \E x \in {"wait", "mark", "cancel", "gone", "idle"} : Goto(p, x)
        /\ pc[p] \in {"release", "wait", "cancel"}
    BY <1>1, <1>3 DEF AskRelease, Release, ReleaseFails
  <2> QED
    BY <1>1, <1>2, <1>3, <2>1
<1>4. CASE p \in Coroutines /\ ReleaseMarks(p)
  <2>1. /\ UNCHANGED orphaned /\ pc[p] \in {"mark", "cancel"}
        /\ \A q \in Coroutines : q # p => crossing'[q] = crossing[q]
        /\ \E x \in {"gone", "done"} : Goto(p, x)
    BY <1>1, <1>4 DEF ReleaseMarks
  <2>2. \A c \in Consumers : Blocked(c)
    BY <1>1, <1>4, <2>1, OneHolder DEF Blocked, Held, Registering
  <2> QED
    BY <1>1, <1>2, <1>4, <2>1, <2>2
<1>5. CASE \/ p \in Closers /\ Aclose(p)
           \/ p \in Owners \cup Stoppers /\ BeginClose(p)
  <2>1. /\ UNCHANGED <<closed, orphaned, crossing>> /\ pc[p] = "idle"
        /\ \/ \E x \in {"done", "interrupt"} : Goto(p, x)
           \/ p \in Closers /\ Goto(p, "release")
    BY <1>5 DEF Aclose, BeginClose
  <2> QED
    BY <1>1, <1>2, <2>1
<1>6. CASE p \in Owners \cup Stoppers /\ Interrupt(p)
  <2>1. /\ UNCHANGED <<closed, orphaned>> /\ p \notin Consumers /\ pc[p] = "interrupt"
        /\ \E x \in {"release", "hold"} : Goto(p, x)
        /\ crossing' = [q \in Coroutines |->
                          IF crossing[q] = "running" THEN "interrupted" ELSE crossing[q]]
    BY <1>1, <1>6 DEF Interrupt
  <2>2. \A c \in Consumers : Barred(c)'
    BY <1>1, <2>1 DEF Barred
  <2>3. \A c \in Consumers : Blocked(c) => Blocked(c)'
    BY <1>1, <2>1 DEF Blocked
  <2>4. ASSUME NEW q \in Stoppers, pc'[q] \in {"stopCancel", "stopMark", "post"}
        PROVE  \A c \in Consumers : Blocked(c)'
    <3>1. pc[q] = pc'[q]
      BY <1>1, <2>1, <2>4
    <3> QED
      BY <2>3, <2>4, <3>1 DEF StopInv
  <2>5. closed' /\ ~orphaned' => \A c \in Consumers : Blocked(c)'
    BY <2>1, <2>3 DEF StopInv
  <2> QED
    BY <2>2, <2>4, <2>5 DEF StopInv
<1>7. CASE p \in Stoppers /\ StopReads(p)
  <2>1. /\ UNCHANGED <<closed, orphaned, crossing>> /\ p \notin Consumers
        /\ pc[p] = "hold" /\ ~acquiring
        /\ \E x \in {"stopMark", "stopCancel"} : Goto(p, x)
    BY <1>1, <1>7 DEF StopReads, Settled
  <2>2. \A c \in Consumers : Blocked(c)
    BY <2>1 DEF RegisterInv, Consumes, Blocked
  <2>3. \A c \in Consumers : Barred(c)
    BY <1>7, <2>1 DEF StopInv
  <2>4. \A c \in Consumers : Barred(c)' /\ Blocked(c)'
    BY <1>1, <2>1, <2>2, <2>3 DEF Barred, Blocked
  <2> QED
    BY <2>4 DEF StopInv
<1>8. CASE p \in Stoppers /\ (StopCancels(p) \/ StopMarks(p) \/ StopPosts(p))
  <2>1. /\ UNCHANGED <<orphaned, crossing>> /\ pc[p] \in {"stopCancel", "stopMark", "post"}
        /\ \E x \in {"stopMark", "idle", "post", "done"} :
             /\ Goto(p, x)
             /\ x \in {"idle", "done"} \/ pc[p] \in {"stopCancel", "stopMark"}
    BY <1>8 DEF StopCancels, StopMarks, StopPosts
  <2>2. \A c \in Consumers : Blocked(c)
    BY <1>8, <2>1 DEF StopInv
  <2> QED
    BY <1>1, <1>2, <1>8, <2>1, <2>2
<1> QED
  BY <1>3, <1>4, <1>5, <1>6, <1>7, <1>8 DEF ReleaseStep, StopStep

\* A write and the loop.
LEMMA StopOther ==
    ASSUME TypeOK, RegisterInv, StopInv,
           \/ \E w \in Writers : Write(w) \/ DeliverStep(w)
           \/ RunCallback \/ LoopCloses \/ UNCHANGED vars
    PROVE  StopInv'
<1> USE DEF stream, scope, delivery, history, calls
<1>1. ASSUME UNCHANGED crossing, \A q \in Procs \ Writers : pc'[q] = pc[q],
             closed' /\ ~orphaned' => closed /\ ~orphaned
      PROVE  StopInv'
  <2>1. /\ Consumers \subseteq Procs \ Writers /\ Stoppers \subseteq Procs \ Writers
        /\ Consumers \subseteq Coroutines
    BY Kinds
  <2>2. \A c \in Consumers : (Barred(c)' <=> Barred(c)) /\ (Blocked(c)' <=> Blocked(c))
    BY <1>1, <2>1 DEF Barred, Blocked
  <2>3. \A q \in Stoppers : pc'[q] = pc[q]
    BY <1>1, <2>1
  <2> QED
    BY <1>1, <2>2, <2>3, StopKeeps
<1>2. ASSUME NEW w \in Writers, Write(w) \/ DeliverStep(w)
      PROVE  StopInv'
  <2>1. UNCHANGED crossing /\ \E x : Goto(w, x)
    BY <1>2 DEF Write, DeliverStep, Deliver, Post, Retire, RetireCancels, RetireMarks
  <2>2. \A q \in Procs \ Writers : pc'[q] = pc[q]
    BY <2>1 DEF Goto, TypeOK
  <2>3. UNCHANGED <<closed, orphaned>> \/ orphaned'
    <3>1. CASE RetireMarks(w)
      BY <3>1 DEF RetireMarks, RegisterInv, Writes
    <3> QED
      BY <1>2, <3>1 DEF Write, DeliverStep, Deliver, Post, Retire, RetireCancels
  <2> QED
    BY <1>1, <2>1, <2>2, <2>3
<1>3. CASE RunCallback \/ LoopCloses \/ UNCHANGED vars
  <2>1. UNCHANGED <<crossing, pc, closed, orphaned>>
    BY <1>3 DEF RunCallback, LoopCloses, vars
  <2> QED
    BY <1>1, <2>1
<1> QED
  BY <1>2, <1>3

\* Every step.
LEMMA StopStepInv ==
    ASSUME TypeOK, LockInv, ParentInv, RegisterInv, CallInv, StopInv, [Next]_vars
    PROVE  StopInv'
<1>1. /\ Closers \subseteq Procs /\ Owners \subseteq Procs /\ Stoppers \subseteq Procs
      /\ Coroutines \subseteq Procs
  BY Kinds
<1> QED
  BY <1>1, StopConsumer, StopRequest, StopRelease, StopOther DEF Next

-----------------------------------------------------------------------------
(* The folds a close answers for.                                           *)

\* A step that starts no fold gains none.
LEMMA KeptShrinks ==
    ASSUME live' \subseteq live, abandoned \subseteq abandoned', orphaned => orphaned',
           \A r \in live' : orphaned /\ pc[r] \in {"assign", "finish"} /\ r \notin abandoned'
                              => pc'[r] \in {"assign", "finish"}
    PROVE  Kept' \subseteq Kept
  BY DEF Kept, GivenUp, Overtaken

\* While the holder of the lock has no queue published, no other fold counts.
LEMMA KeptHeld ==
    ASSUME TypeOK, LockInv, RegisterInv, LiveInv, NEW c \in Consumers,
           pc[c] \in Registering \cup {"publish", "undo", "raise"}
    PROVE  Kept \subseteq {c} /\ (pc[c] \notin Acquired => Kept = {})
<1>1. published = None /\ pc[c] \in Held /\ c \in Coroutines
  BY Kinds DEF RegisterInv, Consumes, Held
<1>2. ASSUME NEW r \in Kept
      PROVE  r = c /\ pc[c] \in Acquired
  <2>1. published = r \/ pc[r] \in Acquired
    BY <1>2 DEF LiveInv
  <2>2. CASE r \in Consumers
    <3>1. pc[r] \in Acquired /\ pc[r] \in Held /\ r \in Coroutines
      BY <1>1, <2>1, <2>2, Kinds DEF Acquired, Held, Registering
    <3> QED
      BY <1>1, <3>1, OneHolder
  <2> QED
    BY <2>2 DEF Kept, TypeOK
<1> QED
  BY <1>2

\* What has to be kept when no fold is gained.
LEMMA LiveKeeps ==
    ASSUME LiveInv, Kept' \subseteq Kept,
           \A r \in Kept' : /\ handle' = r \/ pc'[r] = "assign"
                            /\ published' = r \/ pc'[r] \in Acquired,
           closed' \/ ~tracked' => closed \/ ~tracked \/ Kept' = {},
           \A q \in Procs : Cancels(q)' => (Cancels(q) /\ sub'[q] = sub[q]) \/ Kept' \subseteq {sub'[q]},
           \A q \in Procs : Marks(q)' => Marks(q) \/ Kept' = {}
    PROVE  LiveInv'
  BY DEF LiveInv

\* Nothing to keep.
LEMMA LiveNone ==
    ASSUME Kept' = {}
    PROVE  LiveInv'
  BY DEF LiveInv

\* What the others wait for does not change.
LEMMA OthersWait ==
    ASSUME TypeOK, NEW p \in Procs,
           \A q \in Procs \ {p} : pc'[q] = pc[q] /\ sub'[q] = sub[q],
           \A q \in Coroutines \ {p} : crossing'[q] = "done" => crossing[q] = "done"
    PROVE  \A q \in Procs \ {p} :
             /\ Cancels(q)' => Cancels(q) /\ sub'[q] = sub[q]
             /\ Marks(q)' => Marks(q)
  BY DEF Cancels, Marks

\* A process moves, and no fold starts or ends.
LEMMA LiveMoves ==
    ASSUME TypeOK, LiveInv, NEW p \in Procs, NEW x, Goto(p, x),
           UNCHANGED <<handle, published, live, orphaned>>, abandoned \subseteq abandoned',
           \A q \in Procs \ {p} : sub'[q] = sub[q],
           \A q \in Coroutines : crossing'[q] = "done" => crossing[q] = "done",
           closed' \/ ~tracked' => closed \/ ~tracked \/ Kept = {},
           pc[p] \notin Acquired,
           x = "cancel" \/ x = "stopCancel" \/ x = "retireCancel" => Kept \subseteq {sub'[p]},
           x = "mark" \/ x = "stopMark" \/ x = "retireMark" => Kept = {}
    PROVE  LiveInv'
<1>1. pc'[p] = x /\ \A q \in Procs \ {p} : pc'[q] = pc[q]
  BY DEF Goto, TypeOK
<1>2. live \subseteq Procs
  BY Kinds DEF TypeOK
<1>3. \A r \in live : pc[r] \in Acquired => pc'[r] = pc[r]
  BY <1>1, <1>2
<1>4. Kept' \subseteq Kept
  BY <1>3, KeptShrinks DEF Acquired
<1>5. \A r \in Kept' : /\ handle' = r \/ pc'[r] = "assign"
                       /\ published' = r \/ pc'[r] \in Acquired
  BY <1>3, <1>4 DEF LiveInv, Kept, Acquired
<1>6. /\ Cancels(p)' => Kept' \subseteq {sub'[p]}
      /\ Marks(p)' => Marks(p) \/ Kept' = {}
  BY <1>1, <1>4 DEF Cancels, Marks
<1> QED
  BY <1>1, <1>4, <1>5, <1>6, OthersWait, LiveKeeps

\* A registration subscribes: no close has read the handle or is over.
LEMMA LiveSubscribes ==
    ASSUME TypeOK, LockInv, RegisterInv, CallInv, StopInv, LiveInv, NEW c \in Consumers,
           pc[c] = "subscribe", crossing[c] # "stopped", live' = live \cup {c}, Goto(c, "assign"),
           UNCHANGED <<handle, published, closed, orphaned, tracked, abandoned, sub, crossing>>
    PROVE  LiveInv'
<1>1. /\ c \in Coroutines /\ c \in Procs /\ pc[c] \in Held
      /\ Coroutines \subseteq Procs /\ Stoppers \subseteq Procs /\ Writers \subseteq Procs
  BY Kinds DEF Held, Registering
<1>2. pc'[c] = "assign" /\ \A q \in Procs : q # c => pc'[q] = pc[q]
  BY <1>1 DEF Goto, TypeOK
<1>3. Kept = {}
  BY KeptHeld DEF Registering, Acquired
<1>4. Kept' \subseteq {c} /\ (orphaned => Kept' = {})
  <2>1. live \subseteq Procs
    BY Kinds DEF TypeOK
  <2>2. \A r \in live : r # c => (r \in Kept' => r \in Kept)
    BY <1>2, <2>1 DEF Kept, GivenUp, Overtaken
  <2> QED
    BY <1>2, <1>3, <2>2 DEF Kept, GivenUp, Overtaken
<1>5. CASE orphaned
  BY <1>4, <1>5, LiveNone
<1>6. CASE ~orphaned
  <2>1. ~Blocked(c)
    BY DEF Blocked
  <2>2. ~closed /\ tracked
    BY <1>6, <2>1 DEF StopInv, RegisterInv, Consumes, Registering
  <2>3. ASSUME NEW q \in Coroutines
        PROVE  pc'[q] \notin {"cancel", "mark"} /\ crossing'[q] # "done"
    <3>1. CASE q = c
      BY <1>2, <3>1 DEF CallInv, Calls, Running
    <3>2. CASE q # c
      <4>1. pc[q] \notin Held /\ pc'[q] = pc[q]
        BY <1>1, <1>2, <3>2, OneHolder
      <4> QED
        BY <4>1 DEF CallInv, Calls, Held, Registering
    <3> QED
      BY <3>1, <3>2
  <2>4. \A q \in Stoppers : pc'[q] \notin {"stopCancel", "stopMark"}
    BY <1>1, <1>2, <2>1, Kinds DEF StopInv
  <2>5. \A q \in Writers : pc'[q] \notin {"retireCancel", "retireMark"}
    BY <1>1, <1>2, <1>6, Kinds DEF RegisterInv, Writes
  <2>6. \A q \in Procs : ~Cancels(q)' /\ ~Marks(q)'
    BY <2>3, <2>4, <2>5 DEF Cancels, Marks
  <2> QED
    BY <1>2, <1>4, <2>2, <2>6 DEF LiveInv, Acquired
<1> QED
  BY <1>5, <1>6

\* A consumer's step.
LEMMA LiveConsumer ==
    ASSUME TypeOK, LockInv, RegisterInv, CallInv, StopInv, LiveInv, NEW c \in Consumers,
           Anext(c) \/ ConsumerStep(c) \/ TaskCancelled(c) \/ Deadline(c)
    PROVE  LiveInv'
<1> USE DEF stream, scope, delivery, history, calls
<1>1. c \in Coroutines /\ c \in Procs /\ live \subseteq Procs
  BY Kinds DEF TypeOK
<1>2. /\ \A x : Goto(c, x) => pc'[c] = x /\ \A q \in Procs : q # c => pc'[q] = pc[q]
      /\ \A x : Becomes(c, x) =>
           crossing'[c] = x /\ \A q \in Coroutines : q # c => crossing'[q] = crossing[q]
  BY <1>1 DEF TypeOK, Goto, Becomes
<1>3. ASSUME NEW x \in {"idle", "ready", "opening", "submit", "begin", "subscribe", "raise", "gone",
                        "get", "ended", "release"}, Goto(c, x), pc[c] \notin Acquired,
             UNCHANGED <<handle, published, live, orphaned, closed, abandoned, sub>>,
             UNCHANGED crossing \/ \E s : s # "done" /\ Becomes(c, s),
             tracked => tracked'
      PROVE  LiveInv'
  <2>1. \A q \in Coroutines : crossing'[q] = "done" => crossing[q] = "done"
    BY <1>2, <1>3
  <2> QED
    BY <1>1, <1>3, <2>1, LiveMoves
<1>4. CASE Anext(c) \/ EnterOpening(c) \/ Get(c) \/ Deadline(c)
  <2>1. /\ UNCHANGED <<handle, published, live, orphaned, closed, abandoned, sub, crossing>>
        /\ pc[c] \in {"idle", "opening", "ready", "get"} /\ (tracked => tracked')
        /\ \E x \in {"idle", "ready", "opening", "submit", "gone", "get", "ended", "release"} :
             Goto(c, x)
    BY <1>4 DEF Anext, EnterOpening, Get, Deadline
  <2> QED
    BY <1>3, <2>1 DEF Acquired
<1>5. CASE Submit(c) \/ RegBegin(c)
  <2>1. /\ UNCHANGED <<handle, published, live, orphaned, closed, abandoned, sub, tracked>>
        /\ pc[c] \in {"submit", "begin"}
        /\ \E x \in {"begin", "subscribe", "raise"} : Goto(c, x)
        /\ UNCHANGED crossing \/ \E s : s # "done" /\ Becomes(c, s)
    BY <1>5 DEF Submit, RegBegin, Running
  <2> QED
    BY <1>3, <2>1 DEF Acquired
<1>6. CASE TaskCancelled(c)
  <2>1. UNCHANGED <<handle, published, live, orphaned, closed, abandoned, sub, tracked, crossing>>
    BY <1>6 DEF TaskCancelled
  <2>2. CASE pc[c] \in {"opening", "get"} /\ Goto(c, "gone")
    BY <1>3, <2>1, <2>2 DEF Acquired
  <2>3. CASE UNCHANGED pc
    BY <2>1, <2>3 DEF LiveInv, Kept, GivenUp, Overtaken, Cancels, Marks
  <2> QED
    BY <1>6, <2>2, <2>3 DEF TaskCancelled
<1>7. CASE RegSubscribe(c)
  <2>1. /\ UNCHANGED <<handle, published, closed, orphaned, tracked, abandoned, sub>>
        /\ pc[c] = "subscribe"
    BY <1>7 DEF RegSubscribe
  <2>2. CASE /\ crossing[c] # "stopped" /\ live' = live \cup {c} /\ Goto(c, "assign")
             /\ UNCHANGED <<acquiring, crossing>>
    BY <2>1, <2>2, LiveSubscribes
  <2>3. CASE Goto(c, "raise") /\ Becomes(c, "none") /\ UNCHANGED live
    BY <1>3, <2>1, <2>3 DEF Acquired
  <2> QED
    BY <1>7, <2>2, <2>3 DEF RegSubscribe
<1>8. ASSUME pc[c] \in Registering \cup {"publish", "undo", "raise"},
             live' \subseteq live, abandoned \subseteq abandoned', UNCHANGED <<orphaned, closed>>,
             \E x : Goto(c, x),
             orphaned /\ pc[c] \in {"assign", "finish"} =>
               pc'[c] \in {"assign", "finish"} \/ c \in abandoned' \/ c \notin live'
      PROVE  Kept' \subseteq Kept /\ Kept' \subseteq {c} /\ (pc[c] \notin Acquired => Kept' = {})
  <2>1. Kept' \subseteq Kept
    BY <1>1, <1>2, <1>8, KeptShrinks
  <2> QED
    BY <1>8, <2>1, KeptHeld
<1>9. ASSUME pc[c] \in Registering \cup {"publish", "undo", "raise"}, Kept' \subseteq Kept,
             Kept' \subseteq {c}, UNCHANGED <<closed, tracked>>,
             \A q \in Procs \ {c} : sub'[q] = sub[q],
             \A q \in Coroutines : crossing'[q] = "done" => crossing[q] = "done",
             NEW x \in {"finish", "undo", "publish", "ready"}, Goto(c, x),
             c \in Kept' => handle' = c,
             x = "ready" => published' = c
      PROVE  LiveInv'
  <2>1. pc'[c] = x /\ \A q \in Procs \ {c} : pc'[q] = pc[q]
    BY <1>2, <1>9
  <2>2. \A r \in Kept' : /\ handle' = r \/ pc'[r] = "assign"
                         /\ published' = r \/ pc'[r] \in Acquired
    BY <1>9, <2>1 DEF Acquired
  <2>3. ~Cancels(c)' /\ (Marks(c)' => Marks(c))
    BY <1>1, <1>9, <2>1, Kinds DEF Cancels, Marks
  <2> QED
    BY <1>1, <1>9, <2>1, <2>2, <2>3, OthersWait, LiveKeeps
<1>10. CASE RegAssign(c)
  <2>1. /\ UNCHANGED <<published, closed, orphaned, tracked, sub>> /\ pc[c] = "assign"
        /\ Becomes(c, "none")
    BY <1>10 DEF RegAssign
  <2>2. CASE handle' = c /\ Goto(c, "finish") /\ UNCHANGED <<live, abandoned>>
    <3>1. pc'[c] = "finish"
      BY <1>2, <2>2
    <3>2. Kept' \subseteq Kept /\ Kept' \subseteq {c}
      BY <1>8, <2>1, <2>2, <3>1 DEF Registering
    <3>3. \A q \in Coroutines : crossing'[q] = "done" => crossing[q] = "done"
      BY <1>2, <2>1
    <3> QED
      BY <1>9, <2>1, <2>2, <3>2, <3>3 DEF Registering
  <2>3. CASE /\ Goto(c, "raise")
             /\ \/ live' = live \ {c} /\ UNCHANGED abandoned
                \/ UNCHANGED live /\ abandoned' = abandoned \cup {c}
    <3>1. Kept' \subseteq {c}
      BY <1>8, <2>1, <2>3 DEF Registering
    <3>2. c \notin Kept'
      BY <2>3 DEF Kept, GivenUp
    <3> QED
      BY <3>1, <3>2, LiveNone
  <2> QED
    BY <1>10, <2>2, <2>3 DEF RegAssign
<1>11. CASE RegRaises(c)
  <2>1. /\ UNCHANGED <<live, closed, orphaned>> /\ pc[c] \in {"raise", "begin", "undo"}
        /\ abandoned \subseteq abandoned' /\ Goto(c, "gone")
        /\ pc[c] = "undo" => crossing[c] = "done" \/ c \in abandoned'
    BY <1>11 DEF RegRaises
  <2>2. Kept' \subseteq Kept /\ Kept' \subseteq {c} /\ (pc[c] \notin Acquired => Kept' = {})
    BY <1>8, <2>1 DEF Registering
  <2>3. CASE pc[c] # "undo"
    BY <2>1, <2>2, <2>3, LiveNone DEF Acquired
  <2>4. CASE c \in abandoned'
    <3>1. c \notin Kept'
      BY <2>4 DEF Kept, GivenUp
    <3> QED
      BY <2>2, <3>1, LiveNone
  <2>5. CASE crossing[c] = "done"
    <3>1. Kept = {}
      BY <1>1, <2>5 DEF LiveInv, Marks
    <3> QED
      BY <2>2, <3>1, LiveNone
  <2> QED
    BY <2>1, <2>3, <2>4, <2>5
<1>12. CASE RegFinish(c)
  <2>1. /\ UNCHANGED <<handle, published, closed, orphaned, tracked, live, abandoned, crossing>>
        /\ pc[c] = "finish" /\ loop = "open" /\ \E x : Goto(c, x)
        /\ sub' = IF c \in cancelled THEN [sub EXCEPT ![c] = c] ELSE sub
    BY <1>12 DEF RegFinish, LoopFree
  <2>2. ~orphaned
    BY <2>1 DEF RegisterInv
  <2>3. Kept' \subseteq Kept /\ Kept' \subseteq {c}
    BY <1>8, <2>1, <2>2 DEF Registering
  <2>4. CASE Goto(c, "undo") \/ Goto(c, "publish")
    <3>1. \A q \in Procs \ {c} : sub'[q] = sub[q]
      BY <2>1 DEF TypeOK
    <3>2. c \in Kept' => handle' = c
      BY <2>1, <2>3 DEF LiveInv
    <3>3. PICK x \in {"undo", "publish"} : Goto(c, x)
      BY <2>4
    <3> QED
      BY <1>9, <2>1, <2>3, <3>1, <3>2, <3>3 DEF Registering
  <2>5. CASE closed
    <3>1. Kept = {}
      BY <2>5 DEF LiveInv
    <3> QED
      BY <2>3, <3>1, LiveNone
  <2> QED
    BY <1>12, <2>4, <2>5 DEF RegFinish
<1>13. CASE Publish(c)
  <2>1. /\ UNCHANGED <<handle, closed, orphaned, tracked, live, abandoned, crossing, sub>>
        /\ pc[c] = "publish" /\ published' = c /\ Goto(c, "ready")
    BY <1>13 DEF Publish
  <2>2. Kept' \subseteq Kept /\ Kept' \subseteq {c}
    BY <1>8, <2>1
  <2>3. c \in Kept' => handle' = c
    BY <2>1, <2>2 DEF LiveInv
  <2> QED
    BY <1>9, <2>1, <2>2, <2>3
<1> QED
  BY <1>4, <1>5, <1>6, <1>7, <1>10, <1>11, <1>12, <1>13 DEF ConsumerStep

\* A request runs.
LEMMA LiveRequest ==
    ASSUME TypeOK, LockInv, RegisterInv, CallInv, LiveInv, NEW p \in Coroutines, CallStep(p)
    PROVE  LiveInv'
<1> USE DEF stream, scope
<1>1. UNCHANGED <<handle, published, closed, orphaned, tracked, pc, sub, abandoned>>
  BY DEF CallStep, AskCancel, Dispatch, RunCancel
<1>2. ASSUME UNCHANGED live, NEW s, s # "done", Becomes(p, s)
      PROVE  LiveInv'
  <2>1. \A q \in Coroutines : crossing'[q] = "done" => crossing[q] = "done"
    BY <1>2 DEF Becomes, TypeOK
  <2>2. Kept' = Kept
    BY <1>1, <1>2 DEF Kept, GivenUp, Overtaken
  <2>3. \A q \in Procs : (Cancels(q)' => Cancels(q)) /\ (Marks(q)' => Marks(q))
    BY <1>1, <2>1 DEF Cancels, Marks
  <2> QED
    BY <1>1, <2>2, <2>3 DEF LiveInv
<1>3. CASE AskCancel(p) \/ Dispatch(p)
  <2>1. UNCHANGED live /\ \E s : s # "done" /\ Becomes(p, s)
    BY <1>3 DEF AskCancel, Dispatch
  <2> QED
    BY <1>2, <2>1
<1>4. CASE RunCancel(p)
  <2>1. CASE live' = Undone(sub[p])
    <3>1. Kept \subseteq {sub[p]}
      <4>1. CASE pc[p] = "cancel"
        BY <4>1, Kinds DEF LiveInv, Cancels
      <4>2. CASE pc[p] = "undo"
        BY <4>2, KeptHeld DEF CallInv
      <4> QED
        BY <1>4, <4>1, <4>2 DEF RunCancel
    <3>2. Kept' \subseteq Kept /\ sub[p] \notin Kept'
      BY <1>1, <2>1 DEF Kept, GivenUp, Overtaken, Undone
    <3> QED
      BY <3>1, <3>2, LiveNone
  <2>2. CASE Becomes(p, "failed") /\ UNCHANGED live
    BY <1>2, <2>2
  <2> QED
    BY <1>4, <2>1, <2>2 DEF RunCancel
<1> QED
  BY <1>3, <1>4 DEF CallStep

\* A step of a close.
LEMMA LiveRelease ==
    ASSUME TypeOK, LockInv, RegisterInv, CallInv, LiveInv, NEW p \in Procs,
           \/ p \in Coroutines /\ ReleaseStep(p)
           \/ p \in Closers /\ Aclose(p)
           \/ p \in Owners \cup Stoppers /\ (BeginClose(p) \/ Interrupt(p))
           \/ p \in Stoppers /\ StopStep(p)
    PROVE  LiveInv'
<1> USE DEF stream, scope, delivery, history, calls
<1>1. ASSUME NEW x \in {"idle", "wait", "gone", "done", "release", "hold", "interrupt"}, Goto(p, x),
             UNCHANGED <<handle, published, live, orphaned, closed, tracked, abandoned, sub>>,
             pc[p] \notin Acquired,
             \A q \in Coroutines : crossing'[q] = "done" => crossing[q] = "done"
      PROVE  LiveInv'
  BY <1>1, LiveMoves
<1>2. ASSUME NEW x, NEW y, Goto(p, IF handle = None THEN y ELSE x), sub' = [sub EXCEPT ![p] = handle],
             UNCHANGED <<handle, published, live, orphaned, closed, tracked, abandoned, crossing>>,
             pc[p] \in {"wait", "hold"}, \A r \in Kept : pc[r] # "assign",
             (x = "cancel" /\ y = "mark") \/ (x = "stopCancel" /\ y = "stopMark")
      PROVE  LiveInv'
  <2>1. Kept \subseteq {handle} /\ None \notin Kept
    BY <1>2, Kinds DEF LiveInv, Kept, TypeOK
  <2>2. sub'[p] = handle /\ \A q \in Procs \ {p} : sub'[q] = sub[q]
    BY <1>2 DEF TypeOK
  <2>3. pc[p] \notin Acquired
    BY <1>2 DEF Acquired
  <2>4. CASE handle = None
    <3>1. Kept = {} /\ Goto(p, y)
      BY <1>2, <2>1, <2>4
    <3> QED
      BY <1>2, <2>2, <2>3, <3>1, LiveMoves
  <2>5. CASE handle # None
    <3>1. Goto(p, x) /\ x # "mark" /\ x # "stopMark" /\ x # "retireMark"
      BY <1>2, <2>5
    <3> QED
      BY <1>2, <2>1, <2>2, <2>3, <3>1, LiveMoves
  <2> QED
    BY <2>4, <2>5
<1>3. CASE \/ p \in Coroutines /\ AskRelease(p)
           \/ p \in Closers /\ Aclose(p)
           \/ p \in Owners \cup Stoppers /\ (BeginClose(p) \/ Interrupt(p))
           \/ p \in Stoppers /\ StopPosts(p)
  <2>1. /\ UNCHANGED <<handle, published, live, orphaned, closed, tracked, abandoned, sub>>
        /\ pc[p] \in {"release", "idle", "interrupt", "post"}
        /\ \E x \in {"idle", "wait", "gone", "done", "release", "hold", "interrupt"} : Goto(p, x)
        /\ \A q \in Coroutines : crossing'[q] = "done" => crossing[q] = "done"
    BY <1>3 DEF AskRelease, Aclose, BeginClose, Interrupt, StopPosts
  <2> QED
    BY <1>1, <2>1 DEF Acquired
<1>4. CASE p \in Coroutines /\ Release(p)
  <2>1. /\ Holds(p) /\ pc[p] = "wait" /\ sub' = [sub EXCEPT ![p] = handle]
        /\ Goto(p, IF handle = None THEN "mark" ELSE "cancel")
        /\ UNCHANGED <<handle, published, live, orphaned, closed, tracked, abandoned, crossing>>
    BY <1>4 DEF Release
  <2>2. ASSUME NEW r \in Kept, pc[r] = "assign"
        PROVE  FALSE
    <3>1. r \in Coroutines /\ pc[r] \in Held
      BY <2>2, Kinds DEF Kept, TypeOK, Held, Registering
    <3> QED
      BY <2>1, <2>2, <3>1 DEF LockInv, Holds
  <2> QED
    BY <1>2, <2>1, <2>2
<1>5. CASE p \in Coroutines /\ ReleaseFails(p)
  <2>1. /\ UNCHANGED <<handle, published, live, orphaned, closed, tracked, abandoned, sub>>
        /\ pc[p] = "cancel" /\ Becomes(p, "none")
        /\ \E x \in {"idle", "gone"} : Goto(p, x)
    BY <1>5 DEF ReleaseFails
  <2>2. \A q \in Coroutines : crossing'[q] = "done" => crossing[q] = "done"
    BY <2>1 DEF Becomes, TypeOK
  <2> QED
    BY <1>1, <2>1, <2>2 DEF Acquired
<1>6. ASSUME Marks(p), live' \subseteq live, \E x : Goto(p, x), pc[p] \notin {"assign", "finish"},
             UNCHANGED <<orphaned, abandoned>>
      PROVE  LiveInv'
  <2>1. Kept = {}
    BY <1>6 DEF LiveInv
  <2>2. \A q \in Procs \ {p} : pc'[q] = pc[q]
    BY <1>6 DEF Goto, TypeOK
  <2>3. live \subseteq Procs
    BY Kinds DEF TypeOK
  <2>4. Kept' \subseteq Kept
    BY <1>6, <2>2, <2>3, KeptShrinks
  <2> QED
    BY <2>1, <2>4, LiveNone
<1>7. CASE p \in Coroutines /\ ReleaseMarks(p)
  <2>1. /\ Marks(p) /\ UNCHANGED <<live, orphaned, abandoned>> /\ pc[p] \in {"mark", "cancel"}
        /\ \E x : Goto(p, x)
    BY <1>7 DEF ReleaseMarks, Marks
  <2> QED
    BY <1>6, <2>1
<1>8. CASE p \in Stoppers /\ StopReads(p)
  <2>1. /\ ~acquiring /\ pc[p] = "hold" /\ sub' = [sub EXCEPT ![p] = handle]
        /\ Goto(p, IF handle = None THEN "stopMark" ELSE "stopCancel")
        /\ UNCHANGED <<handle, published, live, orphaned, closed, tracked, abandoned, crossing>>
    BY <1>8 DEF StopReads, Settled
  <2>2. \A r \in Kept : pc[r] # "assign"
    BY <2>1 DEF RegisterInv, Consumes, Kept, TypeOK
  <2> QED
    BY <1>2, <2>1, <2>2
<1>9. CASE p \in Stoppers /\ StopCancels(p)
  <2>1. /\ UNCHANGED <<handle, published, orphaned, closed, tracked, abandoned, sub, crossing>>
        /\ pc[p] = "stopCancel"
    BY <1>9 DEF StopCancels
  <2>2. CASE live' = live \ {sub[p]} /\ Goto(p, "stopMark")
    <3>1. Kept \subseteq {sub[p]}
      BY <1>9, <2>1 DEF LiveInv, Cancels
    <3>2. \A q \in Procs \ {p} : pc'[q] = pc[q]
      BY <2>2 DEF Goto, TypeOK
    <3>3. live \subseteq Procs
      BY Kinds DEF TypeOK
    <3>4. Kept' \subseteq Kept
      BY <2>1, <2>2, <3>2, <3>3, KeptShrinks
    <3>5. sub[p] \notin Kept'
      BY <2>2 DEF Kept
    <3> QED
      BY <3>1, <3>4, <3>5, LiveNone
  <2>3. CASE Goto(p, "idle") /\ UNCHANGED live
    BY <1>1, <2>1, <2>3 DEF Acquired
  <2> QED
    BY <1>9, <2>2, <2>3 DEF StopCancels
<1>10. CASE p \in Stoppers /\ StopMarks(p)
  <2>1. /\ Marks(p) /\ UNCHANGED <<live, orphaned, abandoned>> /\ pc[p] = "stopMark"
        /\ \E x : Goto(p, x)
    BY <1>10 DEF StopMarks, Marks
  <2> QED
    BY <1>6, <2>1
<1> QED
  BY <1>3, <1>4, <1>5, <1>7, <1>8, <1>9, <1>10 DEF ReleaseStep, StopStep

\* A write and the loop.
LEMMA LiveOther ==
    ASSUME TypeOK, RegisterInv, LiveInv,
           \/ \E w \in Writers : Write(w) \/ DeliverStep(w)
           \/ RunCallback \/ LoopCloses \/ UNCHANGED vars
    PROVE  LiveInv'
<1> USE DEF stream, scope, delivery, history, calls
<1>1. ASSUME NEW w \in Writers, Write(w) \/ DeliverStep(w)
      PROVE  LiveInv'
  <2>1. /\ w \in Procs /\ w \notin Consumers /\ live \subseteq Procs /\ w \notin live
        /\ \A x : Goto(w, x) => pc'[w] = x /\ \A q \in Procs \ {w} : pc'[q] = pc[q]
    BY Kinds DEF Goto, TypeOK
  <2>2. ASSUME NEW x \in {"idle", "deliver", "post", "retire"}, Goto(w, x),
               UNCHANGED <<handle, published, live, orphaned, closed, tracked, abandoned, sub,
                           crossing>>,
               pc[w] \in {"idle", "deliver", "post", "retireCancel"}
        PROVE  LiveInv'
    <3>1. pc[w] \notin Acquired
      BY <2>2 DEF Acquired
    <3> QED
      BY <2>1, <2>2, <3>1, LiveMoves
  <2>3. CASE Write(w) \/ Deliver(w) \/ Post(w)
    <3>1. /\ UNCHANGED <<handle, published, live, orphaned, closed, tracked, abandoned, sub,
                         crossing>>
          /\ pc[w] \in {"idle", "deliver", "post"}
          /\ \E x \in {"idle", "deliver", "post", "retire"} : Goto(w, x)
      BY <2>3 DEF Write, Deliver, Post
    <3> QED
      BY <2>2, <3>1
  <2>4. ASSUME live' \subseteq live, orphaned => orphaned', UNCHANGED abandoned, \E x : Goto(w, x)
        PROVE  Kept' \subseteq Kept
    BY <2>1, <2>4, KeptShrinks
  <2>5. CASE Retire(w)
    <3>1. /\ UNCHANGED <<handle, published, live, closed, tracked, abandoned, crossing>>
          /\ orphaned' = TRUE /\ sub' = [sub EXCEPT ![w] = handle]
          /\ \E x \in {"idle", "retireCancel"} : Goto(w, x)
      BY <2>5 DEF Retire
    <3>2. Kept' \subseteq Kept
      BY <2>4, <3>1
    <3>3. \A r \in Kept' : r # w /\ pc'[r] = pc[r] /\ pc[r] \notin {"assign", "finish"}
      BY <2>1, <3>1, <3>2 DEF Kept, Overtaken
    <3>4. \A r \in Kept' : handle' = r /\ (published' = r \/ pc'[r] \in Acquired)
      BY <3>1, <3>2, <3>3 DEF LiveInv
    <3>5. sub'[w] = handle' /\ \A q \in Procs \ {w} : sub'[q] = sub[q]
      BY <2>1, <3>1 DEF TypeOK
    <3>6. pc'[w] \in {"idle", "retireCancel"} /\ w \notin Coroutines /\ w \notin Stoppers
      BY <2>1, <3>1, Kinds DEF Coroutines
    <3>7. Kept' \subseteq {sub'[w]} /\ ~Marks(w)'
      BY <3>4, <3>5, <3>6 DEF Marks
    <3> QED
      BY <2>1, <3>1, <3>2, <3>4, <3>5, <3>7, OthersWait, LiveKeeps
  <2>6. CASE RetireCancels(w)
    <3>1. /\ UNCHANGED <<handle, published, orphaned, closed, tracked, abandoned, sub, crossing>>
          /\ pc[w] = "retireCancel"
      BY <2>6 DEF RetireCancels
    <3>2. CASE live' = live \ {sub[w]} /\ Goto(w, "retireMark")
      <4>1. Kept \subseteq {sub[w]}
        BY <2>1, <3>1 DEF LiveInv, Cancels
      <4>2. Kept' \subseteq Kept /\ sub[w] \notin Kept'
        BY <2>4, <3>1, <3>2 DEF Kept
      <4> QED
        BY <4>1, <4>2, LiveNone
    <3>3. CASE Goto(w, "idle") /\ UNCHANGED live
      BY <2>2, <3>1, <3>3
    <3> QED
      BY <2>6, <3>2, <3>3 DEF RetireCancels
  <2>7. CASE RetireMarks(w)
    <3>1. UNCHANGED <<live, orphaned, abandoned>> /\ pc[w] = "retireMark" /\ \E x : Goto(w, x)
      BY <2>7 DEF RetireMarks
    <3>2. Kept = {}
      BY <2>1, <3>1 DEF LiveInv, Marks
    <3> QED
      BY <2>4, <3>1, <3>2, LiveNone
  <2> QED
    BY <1>1, <2>3, <2>5, <2>6, <2>7 DEF DeliverStep
<1>2. CASE RunCallback \/ LoopCloses \/ UNCHANGED vars
  <2>1. UNCHANGED <<handle, published, live, orphaned, closed, tracked, abandoned, sub, crossing, pc>>
    BY <1>2 DEF RunCallback, LoopCloses, vars
  <2> QED
    BY <2>1 DEF LiveInv, Kept, GivenUp, Overtaken, Cancels, Marks
<1> QED
  BY <1>1, <1>2

\* Every step.
LEMMA LiveStepInv ==
    ASSUME TypeOK, LockInv, ParentInv, RegisterInv, CallInv, StopInv, LiveInv, [Next]_vars
    PROVE  LiveInv'
<1>1. /\ Closers \subseteq Procs /\ Owners \subseteq Procs /\ Stoppers \subseteq Procs
      /\ Coroutines \subseteq Procs
  BY Kinds
<1> QED
  BY <1>1, LiveConsumer, LiveRequest, LiveRelease, LiveOther DEF Next

-----------------------------------------------------------------------------
(* The events.                                                              *)

\* A step that delivers nothing.
LEMMA LossQuiet ==
    ASSUME LossInv, closed => closed',
           UNCHANGED <<events, posted, sent, taken, lost, told, dropped>>
    PROVE  LossInv'
  BY DEF LossInv, Posted, Queued

\* The terminator takes a place in the queue of a stream that is closed.
LEMMA LossEnded ==
    ASSUME LossInv, closed', UNCHANGED <<posted, sent, lost, dropped>>
    PROVE  LossInv'
  BY DEF LossInv

\* An event is posted.
LEMMA LossPost ==
    ASSUME TypeOK, RegisterInv, LossInv, NEW w \in Writers, Post(w), loop = "open"
    PROVE  LossInv'
<1> DEFINE e == <<fold[w], sent + 1>>
<1>1. /\ posted' = Append(posted, e) /\ sent' = sent + 1
      /\ UNCHANGED <<closed, dropped, events, taken, lost, told>>
      /\ sent \in Nat
  BY DEF Post, stream, history, TypeOK
<1>2. e \in (Consumers \X Nat) \cup {End} /\ e # End
  <2>1. fold[w] \in Consumers
    BY DEF Post, RegisterInv, Writes, TypeOK, Registrations
  <2> QED
    BY <1>1, <2>1, AsyncStreamAssumption
<1>3. e[2] = sent + 1
  OBVIOUS
<1> HIDE DEF e
<1>4. /\ Len(posted) \in Nat /\ Len(posted') = Len(posted) + 1
      /\ Len(posted) + 1 \in 1..Len(posted') /\ posted'[Len(posted) + 1] = e
      /\ \A i \in 1..Len(posted) : i \in 1..Len(posted') /\ posted'[i] = posted[i]
      /\ \A i \in 1..Len(posted') : i = Len(posted) + 1 \/ i \in 1..Len(posted)
  BY <1>1, <1>2, AppendExtends, SMTT(30) DEF TypeOK
<1>5. lost \subseteq 1..sent /\ 1..sent \subseteq 1..(sent + 1) /\ sent + 1 \notin 1..sent
      /\ 1..(sent + 1) = (1..sent) \cup {sent + 1}
  BY <1>1 DEF LossInv
<1>6. \A i \in 1..Len(posted') : posted'[i] # End => posted'[i][2] \in (1..sent') \ lost'
  <2>1. \A i \in 1..Len(posted) : posted'[i] # End => posted'[i][2] \in (1..sent) \ lost
    BY <1>4 DEF LossInv
  <2>2. posted'[Len(posted) + 1][2] \in (1..sent') \ lost'
    BY <1>1, <1>3, <1>4, <1>5
  <2> QED
    BY <1>1, <1>4, <1>5, <2>1, <2>2
<1>7. \A i, j \in 1..Len(posted') :
         i # j /\ posted'[i] # End /\ posted'[j] # End => posted'[i][2] # posted'[j][2]
  <2>1. \A i \in 1..Len(posted) : posted'[i] # End => posted'[i][2] # sent + 1
    BY <1>4, <1>5 DEF LossInv
  <2>2. \A i, j \in 1..Len(posted) :
           i # j /\ posted'[i] # End /\ posted'[j] # End => posted'[i][2] # posted'[j][2]
    BY <1>4 DEF LossInv
  <2> QED
    BY <1>3, <1>4, <2>1, <2>2
<1>8. \A i \in 1..Len(posted') : posted'[i] = End => closed'
  BY <1>1, <1>2, <1>4 DEF LossInv
<1>9. ASSUME ~closed', NEW n \in 1..sent'
      PROVE  n \in taken' \cup lost' \cup told' \/ Posted(n)' \/ Queued(n)'
  <2>1. CASE n = sent + 1
    <3>1. Posted(n)'
      BY <1>2, <1>3, <1>4, <2>1 DEF Posted
    <3> QED
      BY <3>1
  <2>2. CASE n \in 1..sent
    <3>1. n \in taken \cup lost \cup told \/ Posted(n) \/ Queued(n)
      BY <1>1, <1>9, <2>2 DEF LossInv
    <3>2. Posted(n) => Posted(n)'
      BY <1>4 DEF Posted
    <3>3. Queued(n) => Queued(n)'
      BY <1>1 DEF Queued
    <3> QED
      BY <1>1, <3>1, <3>2, <3>3
  <2> QED
    BY <1>1, <1>5, <2>1, <2>2
<1>10. /\ IsFiniteSet(lost') /\ dropped' = Cardinality(lost') /\ lost' \subseteq 1..sent'
  BY <1>1, <1>5 DEF LossInv
<1> QED
  BY <1>6, <1>7, <1>8, <1>9, <1>10 DEF LossInv

\* A consumer reads: the head of the queue, or the gap.
LEMMA LossGet ==
    ASSUME TypeOK, RegisterInv, LossInv, NEW c \in Consumers, Get(c)
    PROVE  LossInv'
<1> DEFINE q == events[published]
<1>1. /\ UNCHANGED <<closed, posted, sent>>
      /\ pc[c] \in {"ready", "get"}
  BY DEF Get, stream
<1>2. published \in Consumers /\ q \in Seq(Nat \cup {End})
  BY <1>1 DEF TypeOK, RegisterInv, Consumes, Registrations
<1>3. CASE q = <<>>
  <2>1. /\ UNCHANGED <<events, taken>>
        /\ \/ dropped' = 0 /\ lost' = {} /\ told' = told \cup lost
           \/ UNCHANGED <<dropped, lost, told>>
    BY <1>3 DEF Get, history
  <2>2. CASE dropped' = 0 /\ lost' = {} /\ told' = told \cup lost
    <3>1. IsFiniteSet(lost') /\ dropped' = Cardinality(lost') /\ lost' \subseteq 1..sent'
      BY <2>2, FS_EmptySet
    <3> QED
      BY <1>1, <2>1, <2>2, <3>1 DEF LossInv, Posted, Queued
  <2>3. CASE UNCHANGED <<dropped, lost, told>>
    BY <1>1, <2>1, <2>3, LossQuiet
  <2> QED
    BY <2>1, <2>2, <2>3
<1>4. CASE q # <<>>
  <2>1. /\ events' = [events EXCEPT ![published] = Tail(q)]
        /\ UNCHANGED <<dropped, lost, told>>
        /\ \/ Head(q) = End /\ UNCHANGED taken
           \/ Head(q) # End /\ taken' = taken \cup {Head(q)}
    BY <1>4 DEF Get
  <2>2. /\ Tail(q) \in Seq(Nat \cup {End}) /\ Head(q) = q[1]
        /\ Len(q) \in Nat \ {0} /\ Len(Tail(q)) = Len(q) - 1
        /\ \A i \in 1..Len(q) : i = 1 \/ (i - 1 \in 1..Len(Tail(q)) /\ Tail(q)[i - 1] = q[i])
    BY <1>2, <1>4, TailShifts
  <2>3. /\ events'[published] = Tail(q)
        /\ \A r \in Consumers : r # published => events'[r] = events[r]
    BY <1>2, <2>1 DEF TypeOK
  <2> HIDE DEF q
  <2>4. ASSUME ~closed', NEW n \in 1..sent'
        PROVE  n \in taken' \cup lost' \cup told' \/ Posted(n)' \/ Queued(n)'
    <3>1. n \in taken \cup lost \cup told \/ Posted(n) \/ Queued(n)
      BY <1>1, <2>4 DEF LossInv
    <3>2. Posted(n) => Posted(n)'
      BY <1>1 DEF Posted
    <3>3. ASSUME Queued(n)
          PROVE  n \in taken' \/ Queued(n)'
      <4>1. PICK r \in Consumers : \E i \in 1..Len(events[r]) : events[r][i] = n
        BY <3>3 DEF Queued
      <4>2. CASE r # published
        BY <2>3, <4>1, <4>2 DEF Queued
      <4>3. CASE r = published
        <5>1. PICK i \in 1..Len(q) : q[i] = n
          BY <4>1, <4>3 DEF q
        <5>2. CASE i = 1
          <6>1. n # End
            BY <1>1, <2>4, AsyncStreamAssumption DEF TypeOK
          <6> QED
            BY <2>1, <2>2, <5>1, <5>2, <6>1
        <5>3. CASE i # 1
          <6>1. i - 1 \in 1..Len(Tail(q)) /\ Tail(q)[i - 1] = n
            BY <2>2, <5>1, <5>3
          <6>2. i - 1 \in 1..Len(events'[published]) /\ events'[published][i - 1] = n
            BY <2>3, <6>1
          <6>3. Queued(n)'
            BY <1>2, <6>2 DEF Queued
          <6> QED
            BY <6>3
        <5> QED
          BY <5>2, <5>3
      <4> QED
        BY <4>2, <4>3
    <3> QED
      BY <2>1, <3>1, <3>2, <3>3
  <2> QED
    BY <1>1, <2>1, <2>4 DEF LossInv
<1> QED
  BY <1>3, <1>4

\* The loop runs a callback: the event it carries is queued or dropped.
LEMMA LossCallback ==
    ASSUME TypeOK, LossInv, RunCallback
    PROVE  LossInv'
<1> DEFINE call == Head(posted)
<1>1. /\ posted # <<>> /\ posted' = Tail(posted)
      /\ UNCHANGED <<closed, sent, taken, told>>
  BY DEF RunCallback, stream
<1>2. /\ call = posted[1] /\ call \in (Consumers \X Nat) \cup {End}
      /\ Len(posted) \in Nat \ {0}
      /\ \A i \in 1..Len(posted') : i + 1 \in 1..Len(posted) /\ posted'[i] = posted[i + 1]
      /\ \A i \in 1..Len(posted) :
           i = 1 \/ (i - 1 \in 1..Len(posted') /\ posted'[i - 1] = posted[i])
  BY <1>1, TailShifts DEF TypeOK
<1>3. call # End => call[1] \in Consumers /\ call[2] \in Nat
  BY <1>2
<1>4. \/ call = End /\ events' = Told(events) /\ UNCHANGED <<dropped, lost>>
      \/ call # End /\ closed /\ UNCHANGED <<events, dropped, lost>>
      \/ /\ call # End /\ ~closed /\ Len(events[call[1]]) < QueueMax
         /\ events' = [events EXCEPT ![call[1]] = Append(events[call[1]], call[2])]
         /\ UNCHANGED <<dropped, lost>>
      \/ /\ call # End /\ ~closed /\ Drop(call[2]) /\ UNCHANGED events
  BY DEF RunCallback
<1> HIDE DEF call
<1>5. 1 \in 1..Len(posted)
  BY <1>2
<1>6. \A i \in 1..Len(posted') : posted'[i] # End => posted'[i][2] \in (1..sent) \ lost
  BY <1>2 DEF LossInv
<1>7. \A i, j \in 1..Len(posted') :
         i # j /\ posted'[i] # End /\ posted'[j] # End => posted'[i][2] # posted'[j][2]
  <2> SUFFICES ASSUME NEW i \in 1..Len(posted'), NEW j \in 1..Len(posted'), i # j,
                      posted'[i] # End, posted'[j] # End
               PROVE  posted'[i][2] # posted'[j][2]
    OBVIOUS
  <2>1. /\ i + 1 \in 1..Len(posted) /\ posted'[i] = posted[i + 1]
        /\ j + 1 \in 1..Len(posted) /\ posted'[j] = posted[j + 1] /\ i + 1 # j + 1
    BY <1>2
  <2> QED
    BY <2>1 DEF LossInv
<1>8. \A i \in 1..Len(posted') : posted'[i] = End => closed'
  BY <1>1, <1>2 DEF LossInv
<1>9. call # End => /\ call[2] \in (1..sent) \ lost
                    /\ \A i \in 1..Len(posted') : posted'[i] # End => posted'[i][2] # call[2]
  <2> SUFFICES ASSUME call # End
               PROVE  /\ call[2] \in (1..sent) \ lost
                      /\ \A i \in 1..Len(posted') : posted'[i] # End => posted'[i][2] # call[2]
    OBVIOUS
  <2>1. call[2] \in (1..sent) \ lost
    BY <1>2, <1>5 DEF LossInv
  <2>2. ASSUME NEW i \in 1..Len(posted'), posted'[i] # End
        PROVE  posted'[i][2] # call[2]
    <3>1. i + 1 \in 1..Len(posted) /\ i + 1 # 1 /\ posted'[i] = posted[i + 1]
      BY <1>2
    <3> QED
      BY <1>2, <1>5, <2>2, <3>1 DEF LossInv
  <2> QED
    BY <2>1, <2>2
<1>10. ASSUME NEW n \in 1..sent, Posted(n)
       PROVE  (call # End /\ call[2] = n) \/ Posted(n)'
  <2>1. PICK i \in 1..Len(posted) : posted[i] # End /\ posted[i][2] = n
    BY <1>10 DEF Posted
  <2>2. CASE i = 1
    BY <1>2, <2>1, <2>2
  <2>3. CASE i # 1
    <3>1. i - 1 \in 1..Len(posted') /\ posted'[i - 1] = posted[i]
      BY <1>2, <2>3
    <3>2. Posted(n)'
      BY <2>1, <3>1 DEF Posted
    <3> QED
      BY <3>2
  <2> QED
    BY <2>2, <2>3
<1>11. CASE closed
  <2>1. IsFiniteSet(lost') /\ dropped' = Cardinality(lost') /\ lost' \subseteq 1..sent'
    BY <1>1, <1>4, <1>11 DEF LossInv
  <2>3. lost' = lost
    BY <1>4, <1>11
  <2> QED
    BY <1>1, <1>6, <1>7, <1>8, <1>11, <2>1, <2>3 DEF LossInv
<1>12. CASE call # End /\ ~closed /\ Drop(call[2]) /\ UNCHANGED events
  <2>1. dropped' = dropped + 1 /\ lost' = lost \cup {call[2]} /\ events' = events
    BY <1>12 DEF Drop
  <2>2. IsFiniteSet(lost') /\ Cardinality(lost') = Cardinality(lost) + 1
    BY <1>9, <1>12, <2>1, FS_AddElement DEF LossInv
  <2>3. lost' \subseteq 1..sent'
    BY <1>1, <1>9, <1>12, <2>1 DEF LossInv
  <2>4. \A i \in 1..Len(posted') : posted'[i] # End => posted'[i][2] \in (1..sent') \ lost'
    BY <1>1, <1>6, <1>9, <1>12, <2>1
  <2>5. ASSUME NEW n \in 1..sent'
        PROVE  n \in taken' \cup lost' \cup told' \/ Posted(n)' \/ Queued(n)'
    <3>1. n \in taken \cup lost \cup told \/ Posted(n) \/ Queued(n)
      BY <1>1, <1>12 DEF LossInv
    <3>2. Queued(n) => Queued(n)'
      BY <2>1 DEF Queued
    <3> QED
      BY <1>1, <1>10, <2>1, <3>1, <3>2
  <2>6. dropped' = Cardinality(lost')
    BY <2>1, <2>2 DEF LossInv
  <2> QED
    BY <1>7, <1>8, <2>2, <2>3, <2>4, <2>5, <2>6 DEF LossInv
<1>13. CASE /\ call # End /\ ~closed /\ Len(events[call[1]]) < QueueMax
            /\ events' = [events EXCEPT ![call[1]] = Append(events[call[1]], call[2])]
            /\ UNCHANGED <<dropped, lost>>
  <2> DEFINE o == call[1]
             q == events[o]
  <2>1. o \in Consumers /\ q \in Seq(Nat \cup {End}) /\ call[2] \in Nat \cup {End}
    BY <1>3, <1>13 DEF TypeOK
  <2>2. /\ events'[o] = Append(q, call[2])
        /\ \A r \in Consumers : r # o => events'[r] = events[r]
    BY <1>13, <2>1 DEF TypeOK
  <2>3. /\ Len(q) \in Nat /\ Len(events'[o]) = Len(q) + 1
        /\ Len(q) + 1 \in 1..Len(events'[o]) /\ events'[o][Len(q) + 1] = call[2]
        /\ \A i \in 1..Len(q) : i \in 1..Len(events'[o]) /\ events'[o][i] = q[i]
    BY <2>1, <2>2, AppendExtends
  <2>4. Len(q) < QueueMax
    BY <1>13
  <2> HIDE DEF o, q
  <2>6. \E r \in Consumers : \E i \in 1..Len(events'[r]) : events'[r][i] = call[2]
    BY <2>1, <2>3
  <2>7. ASSUME NEW n, Queued(n)
        PROVE  Queued(n)'
    <3>1. PICK r \in Consumers : \E i \in 1..Len(events[r]) : events[r][i] = n
      BY <2>7 DEF Queued
    <3>2. CASE r = o
      BY <2>1, <2>3, <3>1, <3>2 DEF Queued, q
    <3>3. CASE r # o
      BY <2>2, <3>1, <3>3 DEF Queued
    <3> QED
      BY <3>2, <3>3
  <2>8. ASSUME NEW n \in 1..sent'
        PROVE  n \in taken' \cup lost' \cup told' \/ Posted(n)' \/ Queued(n)'
    <3>1. n \in taken \cup lost \cup told \/ Posted(n) \/ Queued(n)
      BY <1>1, <1>13 DEF LossInv
    <3>2. Posted(n) => n = call[2] \/ Posted(n)'
      BY <1>1, <1>10
    <3>3. n = call[2] => Queued(n)'
      BY <2>6 DEF Queued
    <3> QED
      BY <1>1, <1>13, <2>7, <3>1, <3>2, <3>3
  <2> QED
    BY <1>1, <1>6, <1>7, <1>8, <1>13, <2>8 DEF LossInv
<1> QED
  <2>1. call = End => closed
    BY <1>2, <1>5 DEF LossInv
  <2> QED
    BY <1>4, <1>11, <1>12, <1>13, <2>1

\* A registration, a request, a close or a write that posts nothing leaves
\* the events where they are; a close only marks the stream.
LEMMA EventsRest ==
    ASSUME \/ \E c \in Consumers :
                \/ Anext(c) \/ EnterOpening(c) \/ Submit(c) \/ RegBegin(c) \/ RegSubscribe(c)
                \/ RegAssign(c) \/ RegRaises(c) \/ RegFinish(c) \/ Publish(c)
                \/ TaskCancelled(c) \/ Deadline(c)
           \/ \E p \in Procs :
                \/ Aclose(p) \/ BeginClose(p) \/ Interrupt(p) \/ CallStep(p)
                \/ AskRelease(p) \/ Release(p) \/ ReleaseFails(p)
                \/ StopReads(p) \/ StopCancels(p) \/ StopMarks(p)
           \/ \E w \in Writers :
                Write(w) \/ Deliver(w) \/ Retire(w) \/ RetireCancels(w) \/ RetireMarks(w)
           \/ UNCHANGED vars
    PROVE  UNCHANGED <<events, posted, sent, history, dropped>> /\ (closed => closed')
<1>1. ASSUME NEW c \in Consumers,
             \/ Anext(c) \/ EnterOpening(c) \/ Submit(c) \/ RegBegin(c) \/ RegSubscribe(c)
             \/ RegAssign(c) \/ RegRaises(c) \/ RegFinish(c) \/ Publish(c)
             \/ TaskCancelled(c) \/ Deadline(c)
      PROVE  UNCHANGED <<events, posted, sent, history, dropped>> /\ (closed => closed')
  BY <1>1 DEF Anext, EnterOpening, Submit, RegBegin, RegSubscribe, RegAssign, RegRaises,
              RegFinish, Publish, TaskCancelled, Deadline, delivery, stream
<1>2. ASSUME NEW p \in Procs,
             \/ Aclose(p) \/ BeginClose(p) \/ Interrupt(p) \/ CallStep(p)
             \/ AskRelease(p) \/ Release(p) \/ ReleaseFails(p)
             \/ StopReads(p) \/ StopCancels(p) \/ StopMarks(p)
      PROVE  UNCHANGED <<events, posted, sent, history, dropped>> /\ (closed => closed')
  <2>1. CASE Aclose(p) \/ BeginClose(p) \/ Interrupt(p)
    BY <2>1 DEF Aclose, BeginClose, Interrupt, delivery, stream
  <2>2. CASE CallStep(p)
    BY <2>2 DEF CallStep, AskCancel, Dispatch, RunCancel, delivery, stream
  <2>3. CASE AskRelease(p) \/ Release(p) \/ ReleaseFails(p)
    <3>1. UNCHANGED stream /\ UNCHANGED delivery
      BY <2>3 DEF AskRelease, Release, ReleaseFails
    <3> QED
      BY <3>1 DEF delivery, stream
  <2>4. CASE StopReads(p) \/ StopCancels(p)
    <3>1. UNCHANGED stream /\ UNCHANGED delivery
      BY <2>4 DEF StopReads, StopCancels
    <3> QED
      BY <3>1 DEF delivery, stream
  <2>5. CASE StopMarks(p)
    BY <2>5 DEF StopMarks, delivery
  <2> QED
    BY <1>2, <2>1, <2>2, <2>3, <2>4, <2>5
<1>3. ASSUME NEW w \in Writers,
             Write(w) \/ Deliver(w) \/ Retire(w) \/ RetireCancels(w) \/ RetireMarks(w)
      PROVE  UNCHANGED <<events, posted, sent, history, dropped>> /\ (closed => closed')
  BY <1>3 DEF Write, Deliver, Retire, RetireCancels, RetireMarks, delivery, stream
<1>4. CASE UNCHANGED vars
  BY <1>4 DEF vars, delivery, stream
<1> QED
  BY <1>1, <1>2, <1>3, <1>4

\* The steps that touch the events, and the rest.
LEMMA Steps ==
    ASSUME [Next]_vars
    PROVE  \/ \E c \in Consumers : Get(c)
           \/ \E p \in Coroutines : ReleaseMarks(p)
           \/ \E p \in Stoppers : StopPosts(p)
           \/ \E w \in Writers : Post(w)
           \/ RunCallback \/ LoopCloses
           \/ \E c \in Consumers :
                \/ Anext(c) \/ EnterOpening(c) \/ Submit(c) \/ RegBegin(c) \/ RegSubscribe(c)
                \/ RegAssign(c) \/ RegRaises(c) \/ RegFinish(c) \/ Publish(c)
                \/ TaskCancelled(c) \/ Deadline(c)
           \/ \E p \in Procs :
                \/ p \in Coroutines /\ (Aclose(p) \/ CallStep(p) \/ AskRelease(p) \/ Release(p)
                                         \/ ReleaseFails(p))
                \/ BeginClose(p) \/ Interrupt(p)
                \/ p \in Stoppers /\ (StopReads(p) \/ StopCancels(p) \/ StopMarks(p))
           \/ \E w \in Writers :
                Write(w) \/ Deliver(w) \/ Retire(w) \/ RetireCancels(w) \/ RetireMarks(w)
           \/ UNCHANGED vars
<1>1. /\ Closers \subseteq Coroutines /\ Owners \subseteq Procs /\ Stoppers \subseteq Procs
      /\ Coroutines \subseteq Procs
  BY Kinds
<1> QED
  BY <1>1 DEF Next, ConsumerStep, ReleaseStep, StopStep, DeliverStep

\* No event is lost on the way.
LEMMA LossStepInv ==
    ASSUME TypeOK, RegisterInv, LossInv, loop = "open", [Next]_vars, ~LoopCloses
    PROVE  LossInv'
<1>1. ASSUME NEW c \in Consumers, Get(c)
      PROVE  LossInv'
  BY <1>1, LossGet
<1>2. ASSUME NEW p \in Coroutines, ReleaseMarks(p)
      PROVE  LossInv'
  BY <1>2, LossEnded DEF ReleaseMarks, history
<1>3. ASSUME NEW p \in Stoppers, StopPosts(p)
      PROVE  LossInv'
  <2>1. closed /\ UNCHANGED <<closed, events, sent, taken, lost, told, dropped>>
    BY <1>3 DEF StopPosts, RegisterInv, stream, history
  <2>2. CASE UNCHANGED posted
    BY <2>1, <2>2, LossQuiet
  <2>3. CASE posted' = Append(posted, End)
    <3>1. /\ \A i \in 1..Len(posted) : i \in 1..Len(posted') /\ posted'[i] = posted[i]
          /\ \A i \in 1..Len(posted') : i = Len(posted) + 1 \/ i \in 1..Len(posted)
          /\ posted'[Len(posted) + 1] = End
      BY <2>3, AppendExtends DEF TypeOK
    <3>2. \A i \in 1..Len(posted') :
             posted'[i] # End => i \in 1..Len(posted) /\ posted'[i] = posted[i]
      BY <3>1
    <3> QED
      BY <2>1, <3>2 DEF LossInv
  <2> QED
    BY <1>3, <2>2, <2>3 DEF StopPosts
<1>4. ASSUME NEW w \in Writers, Post(w)
      PROVE  LossInv'
  BY <1>4, LossPost
<1>5. CASE RunCallback
  BY <1>5, LossCallback
<1>6. ASSUME UNCHANGED <<events, posted, sent, history, dropped>>, closed => closed'
      PROVE  LossInv'
  BY <1>6, LossQuiet DEF history
<1> QED
  BY <1>1, <1>2, <1>3, <1>4, <1>5, <1>6, Steps, EventsRest, Kinds

\* No queue outgrows its bound, the terminator included.
LEMMA QueueStepInv ==
    ASSUME TypeOK, RegisterInv, QueueInv, [Next]_vars
    PROVE  QueueInv'
<1>1. ASSUME NEW c \in Consumers, Get(c)
      PROVE  QueueInv'
  <2>1. published \in Consumers /\ events[published] \in Seq(Nat \cup {End})
    BY <1>1 DEF Get, TypeOK, RegisterInv, Consumes, Registrations
  <2>2. CASE UNCHANGED events
    BY <2>2 DEF QueueInv
  <2>3. CASE /\ events[published] # <<>>
             /\ events' = [events EXCEPT ![published] = Tail(events[published])]
    <3>1. /\ Len(events[published]) \in Nat
          /\ Len(Tail(events[published])) = Len(events[published]) - 1
      BY <2>1, <2>3, TailShifts
    <3>2. \A r \in Consumers : events'[r] = events[r]
                               \/ (r = published /\ events'[r] = Tail(events[published]))
      BY <2>1, <2>3 DEF TypeOK
    <3>3. Len(Tail(events[published])) <= QueueMax
      BY <2>1, <3>1, AsyncStreamAssumption DEF QueueInv
    <3> QED
      BY <3>2, <3>3 DEF QueueInv
  <2> QED
    BY <1>1, <2>2, <2>3 DEF Get
<1>2. ASSUME events' = Told(events)
      PROVE  QueueInv'
  BY <1>2, ToldFits DEF QueueInv
<1>3. CASE RunCallback
  <2>1. PICK call : /\ call = Head(posted)
                    /\ \/ events' = Told(events)
                       \/ UNCHANGED events
                       \/ /\ call # End /\ Len(events[call[1]]) < QueueMax
                          /\ events' = [events EXCEPT ![call[1]] = Append(events[call[1]], call[2])]
    BY <1>3 DEF RunCallback
  <2>2. posted # <<>>
    BY <1>3 DEF RunCallback
  <2>3. call \in (Consumers \X Nat) \cup {End}
    BY <2>1, <2>2, TailShifts DEF TypeOK
  <2>4. CASE /\ call # End /\ Len(events[call[1]]) < QueueMax
             /\ events' = [events EXCEPT ![call[1]] = Append(events[call[1]], call[2])]
    <3> DEFINE o == call[1]
               e == call[2]
    <3>1. o \in Consumers /\ e \in Nat \cup {End} /\ events[o] \in Seq(Nat \cup {End})
      BY <2>3, <2>4 DEF TypeOK
    <3>2. /\ events'[o] = Append(events[o], e)
          /\ \A r \in Consumers : r # o => events'[r] = events[r]
      BY <2>4, <3>1 DEF TypeOK
    <3>3. Len(events[o]) < QueueMax
      BY <2>4
    <3> HIDE DEF o, e
    <3>4. Len(events[o]) \in Nat /\ Len(events'[o]) = Len(events[o]) + 1
      BY <3>1, <3>2, AppendExtends
    <3>5. Len(events'[o]) <= QueueMax
      BY <3>3, <3>4, AsyncStreamAssumption
    <3> QED
      BY <3>2, <3>5 DEF QueueInv
  <2> QED
    BY <1>2, <2>1, <2>4 DEF QueueInv
<1>4. CASE UNCHANGED events
  BY <1>4 DEF QueueInv
<1>5. \A p : StopPosts(p) \/ LoopCloses => UNCHANGED events
  BY DEF StopPosts, LoopCloses
<1>6. \A w \in Writers : Post(w) => UNCHANGED events
  BY DEF Post
<1>7. \A p \in Coroutines : ReleaseMarks(p) => events' = Told(events)
  BY DEF ReleaseMarks
<1> QED
  BY <1>1, <1>2, <1>3, <1>4, <1>5, <1>6, <1>7, Steps, EventsRest, Kinds

-----------------------------------------------------------------------------
(* The terminator.                                                          *)

\* Where it may be.
InQueue == \E i \in 1..Len(events[published]) : events[published][i] = End
OnLoop == \E i \in 1..Len(posted) : posted[i] = End
Coming == \E p \in Stoppers : pc[p] = "post"

\* It stays where it is.
LEMMA WakeKeeps ==
    ASSUME CloseWakesOne, loop = "open", closed' => closed, UNCHANGED <<published, late>>,
           answered => answered',
           closed /\ published # None =>
             /\ InQueue => InQueue' \/ answered'
             /\ OnLoop => OnLoop' \/ InQueue'
             /\ Coming => Coming' \/ OnLoop'
    PROVE  CloseWakesOne'
  BY DEF CloseWakesOne, InQueue, OnLoop, Coming

\* The published queue has the terminator at its end.
LEMMA ToldEnds ==
    ASSUME TypeOK, published # None, UNCHANGED published, events' = Told(events)
    PROVE  InQueue'
<1>1. published \in Consumers /\ events[published] \in Seq(Nat \cup {End})
  BY DEF TypeOK, Registrations
<1>2. events'[published] = Ended(events[published])
  BY <1>1 DEF Told, TypeOK
<1>3. End \in Nat \cup {End}
  OBVIOUS
<1>4. PICK q \in Seq(Nat \cup {End}) : Ended(events[published]) = Append(q, End)
  <2>1. CASE Len(events[published]) < QueueMax
    BY <1>1, <2>1 DEF Ended
  <2>2. CASE ~(Len(events[published]) < QueueMax)
    <3>1. events[published] # <<>>
      BY <1>1, <2>2, EmptySeq, AsyncStreamAssumption
    <3> QED
      BY <1>1, <2>2, <3>1, TailShifts DEF Ended
  <2> QED
    BY <2>1, <2>2
<1> QED
  BY <1>2, <1>3, <1>4, AppendExtends DEF InQueue

\* A consumer that takes it is answered.
LEMMA WakeGet ==
    ASSUME TypeOK, RegisterInv, CloseWakesOne, loop = "open", NEW c \in Consumers, Get(c)
    PROVE  CloseWakesOne'
<1> USE DEF stream, history, calls
<1>1. /\ UNCHANGED <<closed, published, late, posted>> /\ pc[c] \in {"ready", "get"}
      /\ \A q \in Procs : q # c => pc'[q] = pc[q]
      /\ Stoppers \subseteq Procs /\ c \notin Stoppers
  BY Kinds DEF Get, Goto, TypeOK
<1>2. published \in Consumers /\ events[published] \in Seq(Nat \cup {End})
  BY <1>1 DEF TypeOK, RegisterInv, Consumes, Registrations
<1>3. answered => answered'
  BY DEF Get
<1>4. ASSUME InQueue
      PROVE  InQueue' \/ answered'
  <2>1. CASE UNCHANGED events
    BY <1>1, <1>4, <2>1 DEF InQueue
  <2>2. CASE /\ events[published] # <<>>
             /\ events' = [events EXCEPT ![published] = Tail(events[published])]
             /\ Head(events[published]) = End => answered'
    <3>1. PICK i \in 1..Len(events[published]) : events[published][i] = End
      BY <1>4 DEF InQueue
    <3>2. events'[published] = Tail(events[published])
      BY <1>2, <2>2 DEF TypeOK
    <3>3. CASE i = 1
      BY <1>2, <2>2, <3>1, <3>3, TailShifts
    <3>4. CASE i # 1
      <4>1. /\ i - 1 \in 1..Len(Tail(events[published]))
            /\ Tail(events[published])[i - 1] = End
        BY <1>2, <2>2, <3>1, <3>4, TailShifts
      <4> QED
        BY <1>1, <3>2, <4>1 DEF InQueue
    <3> QED
      BY <3>3, <3>4
  <2> QED
    BY <2>1, <2>2 DEF Get
<1>5. (OnLoop => OnLoop') /\ (Coming => Coming')
  BY <1>1 DEF OnLoop, Coming
<1> QED
  BY <1>1, <1>3, <1>4, <1>5, WakeKeeps

\* The loop runs it, or something before it.
LEMMA WakeCallback ==
    ASSUME TypeOK, CloseWakesOne, loop = "open", RunCallback
    PROVE  CloseWakesOne'
<1>1. /\ posted # <<>> /\ posted' = Tail(posted) /\ posted \in Seq((Consumers \X Nat) \cup {End})
      /\ UNCHANGED <<closed, published, late, answered, pc>>
      /\ \/ Head(posted) = End /\ events' = Told(events)
         \/ Head(posted) # End /\ (closed => UNCHANGED events)
  BY DEF RunCallback, stream, calls, TypeOK
<1>2. closed /\ published # None /\ InQueue => InQueue'
  BY <1>1, ToldEnds DEF InQueue
<1>3. ASSUME published # None, OnLoop
      PROVE  OnLoop' \/ InQueue'
  <2>1. PICK i \in 1..Len(posted) : posted[i] = End
    BY <1>3 DEF OnLoop
  <2>2. CASE i = 1
    <3>1. Head(posted) = End
      BY <1>1, <2>1, <2>2, TailShifts
    <3> QED
      BY <1>1, <1>3, <3>1, ToldEnds
  <2>3. CASE i # 1
    <3>1. i - 1 \in 1..Len(posted') /\ posted'[i - 1] = End
      BY <1>1, <2>1, <2>3, TailShifts
    <3> QED
      BY <3>1 DEF OnLoop
  <2> QED
    BY <2>2, <2>3
<1>4. Coming => Coming'
  BY <1>1 DEF Coming
<1> QED
  BY <1>1, <1>2, <1>3, <1>4, WakeKeeps

\* What is posted stays posted, in front of what follows.
LEMMA PostStays ==
    ASSUME TypeOK, NEW x \in (Consumers \X Nat) \cup {End}, posted' = Append(posted, x)
    PROVE  (OnLoop => OnLoop') /\ (x = End => OnLoop')
<1>1. posted \in Seq((Consumers \X Nat) \cup {End})
  BY DEF TypeOK
<1>2. /\ Len(posted) + 1 \in 1..Len(posted') /\ posted'[Len(posted) + 1] = x
      /\ \A i \in 1..Len(posted) : i \in 1..Len(posted') /\ posted'[i] = posted[i]
  BY <1>1, AppendExtends
<1> QED
  BY <1>2 DEF OnLoop

\* A close tells, and what it told is not lost.
LEMMA WakeStepInv ==
    ASSUME TypeOK, RegisterInv, CloseWakesOne, loop = "open", [Next]_vars, ~LoopCloses
    PROVE  CloseWakesOne'
<1> USE DEF stream, scope, delivery, history, calls
<1>1. /\ Consumers \subseteq Procs /\ Stoppers \subseteq Procs /\ Writers \subseteq Procs
      /\ Coroutines \subseteq Procs /\ Consumers \cap Stoppers = {} /\ Writers \cap Stoppers = {}
      /\ Coroutines \cap Stoppers = {}
      /\ \A p, x : Goto(p, x) => \A q \in Procs : q # p => pc'[q] = pc[q]
      /\ \A p \in Procs : \A x : Goto(p, x) => pc'[p] = x
  BY Kinds DEF Goto, TypeOK, Coroutines
<1>2. ASSUME NEW c \in Consumers, Get(c)
      PROVE  CloseWakesOne'
  BY <1>2, WakeGet
<1>3. ASSUME NEW p \in Coroutines, ReleaseMarks(p)
      PROVE  CloseWakesOne'
  <2>1. events' = Told(events) /\ UNCHANGED published
    BY <1>3 DEF ReleaseMarks
  <2>2. published # None => InQueue'
    BY <2>1, ToldEnds
  <2> QED
    BY <2>1, <2>2 DEF CloseWakesOne, InQueue
<1>4. ASSUME NEW p \in Stoppers, StopPosts(p)
      PROVE  CloseWakesOne'
  <2>1. UNCHANGED published /\ (published # None => posted' = Append(posted, End))
    BY <1>4 DEF StopPosts
  <2>2. published # None => OnLoop'
    BY <2>1, PostStays
  <2> QED
    BY <2>1, <2>2 DEF CloseWakesOne, OnLoop
<1>5. ASSUME NEW w \in Writers, Post(w)
      PROVE  CloseWakesOne'
  <2>1. /\ posted' = Append(posted, <<fold[w], sent + 1>>) /\ pc[w] = "post" /\ Goto(w, "idle")
        /\ UNCHANGED <<closed, published, late, answered, events>>
    BY <1>5 DEF Post
  <2>2. <<fold[w], sent + 1>> \in (Consumers \X Nat) \cup {End}
    BY <2>1 DEF RegisterInv, Writes, TypeOK, Registrations
  <2>3. (OnLoop => OnLoop') /\ (InQueue => InQueue') /\ (Coming => Coming')
    BY <1>1, <2>1, <2>2, PostStays DEF InQueue, Coming
  <2> QED
    BY <2>1, <2>3, WakeKeeps
<1>6. CASE RunCallback
  BY <1>6, WakeCallback
<1>7. ASSUME UNCHANGED <<events, posted, answered, closed, published, late>>, Coming => Coming'
      PROVE  CloseWakesOne'
  <2>1. (OnLoop => OnLoop') /\ (InQueue => InQueue')
    BY <1>7 DEF InQueue, OnLoop
  <2> QED
    BY <1>7, <2>1, WakeKeeps
<1>8. ASSUME NEW c \in Consumers,
             \/ Anext(c) \/ EnterOpening(c) \/ Submit(c) \/ RegBegin(c) \/ RegSubscribe(c)
             \/ RegAssign(c) \/ RegRaises(c) \/ RegFinish(c) \/ TaskCancelled(c) \/ Deadline(c)
      PROVE  CloseWakesOne'
  <2>1. UNCHANGED <<closed, published, late>>
    BY <1>8 DEF Anext, EnterOpening, Submit, RegBegin, RegSubscribe, RegAssign, RegRaises,
                RegFinish, TaskCancelled, Deadline
  <2>2. UNCHANGED <<events, posted, answered>>
    BY <1>8, EventsRest
  <2>3. UNCHANGED pc \/ \E x : Goto(c, x)
    BY <1>8 DEF Anext, EnterOpening, Submit, RegBegin, RegSubscribe, RegAssign, RegRaises,
                RegFinish, TaskCancelled, Deadline
  <2>4. Coming => Coming'
    BY <1>1, <2>3 DEF Coming
  <2> QED
    BY <1>7, <2>1, <2>2, <2>4
<1>9. ASSUME NEW c \in Consumers, Publish(c)
      PROVE  CloseWakesOne'
  BY <1>9 DEF Publish, CloseWakesOne
<1>10. ASSUME NEW p \in Procs,
              \/ p \in Coroutines /\ (Aclose(p) \/ CallStep(p) \/ AskRelease(p) \/ Release(p)
                                       \/ ReleaseFails(p))
              \/ BeginClose(p) \/ Interrupt(p)
              \/ p \in Stoppers /\ (StopReads(p) \/ StopCancels(p))
       PROVE  CloseWakesOne'
  <2>1. pc[p] # "post" \/ p \in Coroutines
    BY <1>10 DEF BeginClose, Interrupt, StopReads, StopCancels
  <2>2. UNCHANGED <<closed, published, late>>
    BY <1>10 DEF Aclose, CallStep, AskCancel, Dispatch, RunCancel, AskRelease, Release,
                 ReleaseFails, BeginClose, Interrupt, StopReads, StopCancels
  <2>3. UNCHANGED <<events, posted, answered>>
    BY <1>10, EventsRest
  <2>4. UNCHANGED pc \/ \E x : Goto(p, x)
    BY <1>10 DEF Aclose, CallStep, AskCancel, Dispatch, RunCancel, AskRelease, Release,
                 ReleaseFails, BeginClose, Interrupt, StopReads, StopCancels
  <2>5. Coming => Coming'
    BY <1>1, <2>1, <2>4 DEF Coming
  <2> QED
    BY <1>7, <2>2, <2>3, <2>5
<1>11. ASSUME NEW p \in Stoppers, StopMarks(p)
       PROVE  CloseWakesOne'
  <2>1. pc'[p] = "post"
    BY <1>1, <1>11 DEF StopMarks
  <2> QED
    BY <2>1 DEF CloseWakesOne
<1>12. ASSUME NEW w \in Writers,
              Write(w) \/ Deliver(w) \/ Retire(w) \/ RetireCancels(w) \/ RetireMarks(w)
       PROVE  CloseWakesOne'
  <2>1. ~RetireMarks(w)
    BY DEF RetireMarks, RegisterInv, Writes, Retiring
  <2>2. UNCHANGED <<closed, published, late>> /\ \E x : Goto(w, x)
    BY <1>12, <2>1 DEF Write, Deliver, Retire, RetireCancels
  <2>3. UNCHANGED <<events, posted, answered>>
    BY <1>12, EventsRest
  <2>4. Coming => Coming'
    BY <1>1, <2>2 DEF Coming
  <2> QED
    BY <1>7, <2>2, <2>3, <2>4
<1>13. CASE UNCHANGED vars
  <2>1. UNCHANGED <<events, posted, answered, closed, published, late, pc>>
    BY <1>13 DEF vars
  <2> QED
    BY <1>7, <2>1 DEF Coming
<1> QED
  BY <1>2, <1>3, <1>4, <1>5, <1>6, <1>8, <1>9, <1>10, <1>11, <1>12, <1>13, Steps

-----------------------------------------------------------------------------
(* Theorems.                                                                *)

\* The initial state satisfies the invariant.
LEMMA InitInv ==
    ASSUME Init
    PROVE  IInv
<1>1. /\ pc \in [Procs -> Places] /\ \A p \in Procs : pc[p] = "idle"
      /\ \A p \in Coroutines : crossing[p] = "none"
  BY DEF Init, Places
<1>2. TypeOK
  BY <1>1, EmptySeq, Kinds DEF Init, TypeOK, Registrations, Crossings
<1>3. Len(opening) = 0 /\ Len(posted) = 0 /\ \A r \in Consumers : Len(events[r]) = 0
  BY EmptySeq DEF Init
<1>4. LockInv
  BY <1>1, <1>3, Kinds DEF LockInv, Held, Registering
<1>5. ParentInv
  BY <1>1, Kinds DEF ParentInv
<1>6. RegisterInv
  BY <1>1, Kinds DEF Init, RegisterInv, Consumes, Writes, Registering, Retiring
<1>7. CallInv
  BY <1>1, Kinds DEF CallInv, Calls
<1>8. StopInv
  BY <1>1, Kinds DEF Init, StopInv
<1>9. LiveInv
  BY <1>1, Kinds DEF Init, LiveInv, Kept
<1>10. QueueInv
  BY <1>3, AsyncStreamAssumption DEF QueueInv
<1>11. LossInv
  <2>1. sent = 0 /\ lost = {} /\ dropped = 0
    BY DEF Init
  <2>2. IsFiniteSet(lost) /\ Cardinality(lost) = 0
    BY <2>1, FS_EmptySet
  <2>3. /\ \A i \in 1..Len(posted) : FALSE
        /\ \A e \in 1..sent : FALSE
    BY <1>3, <2>1
  <2> QED
    BY <2>1, <2>2, <2>3 DEF LossInv
<1>12. CloseWakesOne
  BY DEF Init, CloseWakesOne
<1> QED
  BY <1>2, <1>4, <1>5, <1>6, <1>7, <1>8, <1>9, <1>10, <1>11, <1>12 DEF IInv

\* The loop never opens again.
LEMMA LoopStays ==
    ASSUME [Next]_vars, loop' = "open"
    PROVE  loop = "open" /\ ~LoopCloses
<1>1. ~LoopCloses
  BY DEF LoopCloses
<1>2. loop' = loop
  BY <1>1, ZenonT(60)
  DEF Next, ConsumerStep, CallStep, ReleaseStep, StopStep, DeliverStep, Anext, EnterOpening,
      Submit, RegBegin, RegSubscribe, RegAssign, RegRaises, RegFinish, Publish, TaskCancelled,
      Get, Deadline, AskCancel, Dispatch, RunCancel, Aclose, BeginClose, Interrupt, AskRelease,
      Release, ReleaseFails, ReleaseMarks, StopReads, StopCancels, StopMarks, StopPosts, Write,
      Deliver, Post, Retire, RetireCancels, RetireMarks, RunCallback, vars
<1> QED
  BY <1>1, <1>2

\* Every step preserves the invariant.
LEMMA StepInv ==
    ASSUME IInv, [Next]_vars
    PROVE  IInv'
<1>1. /\ TypeOK /\ LockInv /\ ParentInv /\ RegisterInv /\ CallInv /\ StopInv /\ LiveInv
      /\ QueueInv
  BY DEF IInv
<1>2. \/ \E c \in Consumers : Anext(c) \/ ConsumerStep(c) \/ TaskCancelled(c) \/ Deadline(c)
      \/ \E p \in Procs :
           \/ p \in Coroutines /\ ReleaseStep(p)
           \/ p \in Closers /\ Aclose(p)
           \/ p \in Owners \cup Stoppers /\ (BeginClose(p) \/ Interrupt(p))
           \/ p \in Stoppers /\ StopStep(p)
      \/ \/ \E w \in Writers : Write(w) \/ DeliverStep(w)
         \/ \E p \in Coroutines : CallStep(p)
         \/ RunCallback \/ LoopCloses \/ UNCHANGED vars
  BY Kinds DEF Next
<1>3. TypeOK'
  BY TypeStep
<1>4. LockInv'
  BY <1>1, <1>2, LockConsumer, LockRelease, LockOther
<1>5. ParentInv'
  BY <1>1, ParentStep
<1>6. RegisterInv'
  BY <1>1, <1>2, RegisterConsumer, RegisterRelease, RegisterOther
<1>7. CallInv' /\ StopInv' /\ LiveInv' /\ QueueInv'
  BY <1>1, CallStepInv, StopStepInv, LiveStepInv, QueueStepInv
<1>8. ASSUME loop' = "open"
      PROVE  LossInv' /\ CloseWakesOne'
  <2>1. loop = "open" /\ ~LoopCloses
    BY <1>8, LoopStays
  <2>2. LossInv /\ CloseWakesOne
    BY <2>1 DEF IInv
  <2> QED
    BY <1>1, <2>1, <2>2, LossStepInv, WakeStepInv
<1> QED
  BY <1>3, <1>4, <1>5, <1>6, <1>7, <1>8 DEF IInv

\* The invariant holds in every reachable state.
THEOREM Inductive == Spec => []IInv
<1>1. Init => IInv
  BY InitInv
<1>2. IInv /\ [Next]_vars => IInv'
  BY StepInv
<1> QED
  BY <1>1, <1>2, PTL DEF Spec

\* The variables have their types: in particular no step leaves the lock's
\* queue with anything but coroutines in it, and what is posted to the loop is
\* an event of a registration or the terminator.
THEOREM TypeCorrect == Spec => []TypeOK
  BY Inductive, PTL DEF IInv

\* A closed stream has no fold the engine still delivers to but one whose undo
\* failed or that a writer on a closed loop overtook: every way of closing
\* cancels the fold before it marks the stream, and no registration that began
\* before, and no request that was under way, leaves one behind.
THEOREM ClosedStreamHoldsNothing == Spec => []ClosedHoldsNothing
<1>1. IInv => ClosedHoldsNothing
  BY DEF IInv, LiveInv, Kept, ClosedHoldsNothing
<1> QED
  BY <1>1, Inductive, PTL

\* A closed connection has no live fold left, but for the same two.
THEOREM ClosedParentHoldsNothing == Spec => []ParentHoldsNothing
<1>1. IInv => ParentHoldsNothing
  BY DEF IInv, LiveInv, RegisterInv, Kept, ParentHoldsNothing
<1> QED
  BY <1>1, Inductive, PTL

\* A live fold is the stream's handle in its owner's close scope, or in the
\* hands of the registration that is to give it up, or its undo() failed.
THEOREM LiveFoldIsOwned == Spec => []LiveIsOwned
<1>1. ASSUME IInv
      PROVE  LiveIsOwned
  <2> SUFFICES ASSUME NEW r \in live, ~GivenUp(r), pc[r] \notin {"assign", "finish", "undo"}
               PROVE  handle = r /\ tracked
    BY DEF LiveIsOwned
  <2>1. r \in Kept
    BY DEF Kept, Overtaken
  <2> QED
    BY <1>1, <2>1 DEF IInv, LiveInv
<1> QED
  BY <1>1, Inductive, PTL

\* No event is lost in silence: while there is a loop to deliver on, and until
\* the stream is closed, each one posted was handed out, is on its way or is in
\* a gap whose size is told, and a queue never outgrows its bound.
THEOREM LossIsTold == Spec => []NoSilentLoss
<1>1. IInv => NoSilentLoss
  BY DEF IInv, QueueInv, LossInv, NoSilentLoss, Posted, Queued
<1> QED
  BY <1>1, Inductive, PTL

\* Whoever closes the stream, and however many do at once, once a queue is
\* published that a close could find, the terminator is queued, on its way or
\* about to be posted until a consumer has been handed it.
THEOREM CloseIsTold == Spec => []CloseWakesOne
<1>1. IInv => CloseWakesOne
  BY DEF IInv, CloseWakesOne
<1> QED
  BY <1>1, Inductive, PTL

=============================================================================
