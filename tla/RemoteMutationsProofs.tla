----------------------- MODULE RemoteMutationsProofs -----------------------
(***************************************************************************)
(* Theorems about keyed mutations (metta/remote/_gateway.py), for any set  *)
(* of mutations, any expiry and any limits: types, the worker's waiters    *)
(* and signals, the ledger, and the refinement of MutationOnce.            *)
(***************************************************************************)
EXTENDS RemoteMutations, SequenceTheorems, TLAPS

-----------------------------------------------------------------------------
(* The inductive invariant, in the order in which its parts are proved.     *)

\* What the marks of a request and the state of the worker say of each other.
WorkerInv ==
    /\ WaitersAreOwed /\ SignalIsAimed
    /\ failing => current = None
    /\ state = "live" => \A i \in 1..Len(work) : work[i] # Stop
    /\ \A i \in 1..Len(work) : work[i] # Stop => http[work[i]] \notin {"none", "wire", "refused"}
    /\ current # None => http[current] \notin {"none", "wire", "refused"}
    /\ \A a \in abandoned : http[a] \notin {"none", "wire", "waiting"}
    /\ \A a \in Attempts : http[a] = "expired" => a \in abandoned

\* What a client has done to its mutation so far.
ClientInv ==
    /\ \A m \in Mutations :
         /\ (token[m] = None) = (client[m] = "new")
         /\ token[m] # None => token[m].scope <= scope
         /\ (client[m] \in {"new", "ready"}) = (tries[m] = 0)
    /\ \A a \in Attempts : http[a] # "none" => a[2] <= tries[a[1]]

\* The stack of calls: the request's own at the bottom, executions below the
\* top, and at most one call that a direct client waits for.
StackInv ==
    /\ \A i \in 1..Len(calls) :
         /\ tries[calls[i].of] > 0
         /\ i < Len(calls) => calls[i].result = None
         /\ calls[i].inner => calls[i].of \in Direct /\ client[calls[i].of] = "waiting"
         /\ i = 1 => ~calls[i].inner /\ calls[i].of = current[1]
    /\ \A i, j \in 1..Len(calls) :
         calls[i].inner /\ calls[j].inner /\ calls[i].of = calls[j].of => i = j

\* An entry belongs to the key and the deadline of the mutation that made it.
LedgerInv ==
    /\ LedgerIsPrunable
    /\ \A k \in Mutations : ledger[k] # None =>
         /\ token[ledger[k].of] # None
         /\ token[ledger[k].of].key = k
         /\ token[ledger[k].of].expires = ledger[k].expires

\* The key of m admits no further execution of m: it belongs to an earlier
\* gateway, its time is over, or the ledger holds the entry of m.
Spent(m) ==
    /\ token[m] # None
    /\ \/ token[m].scope < scope
       \/ token[m].expires <= now
       \/ ledger[token[m].key] # None /\ ledger[token[m].key].of = m

\* No execution of m has begun, and none is under way.
Untouched(m) == applied[m] = 0 /\ \A i \in 1..Len(calls) : calls[i].of # m

Running(i) == calls[i].result = None

\* An execution under way has a spent key and no answer yet, and its effect is
\* counted; an answer that a call replays or gives is true.
Counted(i) ==
    LET m == calls[i].of IN
    /\ Running(i) => /\ Spent(m) /\ applied[m] = (IF calls[i].did THEN 1 ELSE 0)
                     /\ ledger[token[m].key] # None /\ ledger[token[m].key].of = m
                           => ledger[token[m].key].answer = "unknown"
    /\ calls[i].result = "ok" => applied[m] = 1
    /\ calls[i].inner /\ calls[i].result = "error" /\ tries[m] = 1
           => applied[m] = 0 /\ \A j \in 1..Len(calls) : calls[j].of = m => j = i

RunsOnce ==
    \A i, j \in 1..Len(calls) :
        Running(i) /\ Running(j) /\ calls[i].of = calls[j].of => i = j

CallInv == (\A i \in 1..Len(calls) : Counted(i)) /\ RunsOnce

\* An effect is the only one of its mutation and has spent its key; a recorded
\* acknowledgement stands for an effect.
EffectInv ==
    /\ \A m \in Mutations : /\ applied[m] \in {0, 1}
                            /\ applied[m] = 1 => Spent(m) /\ tries[m] > 0
    /\ \A k \in Mutations : ledger[k] # None /\ ledger[k].answer = "ok" => applied[ledger[k].of] = 1

\* What a client has been told for good agrees with what was done.
VerdictInv ==
    \A m \in Mutations :
        /\ client[m] = "acked" => applied[m] = 1
        /\ client[m] = "refused" => /\ tries[m] = 1 /\ Untouched(m)
                                    /\ m \notin Direct => http[<<m, 1>>] = "refused"

\* So do the responses on their way to a client; a first attempt that no
\* worker has seen has done nothing.
ReplyInv ==
    \A a \in Attempts :
        /\ http[a] = "ok" => applied[a[1]] = 1
        /\ a[2] = 1 /\ tries[a[1]] = 1 /\ http[a] \in {"none", "wire", "refused"} => Untouched(a[1])

IInv == TypeOK /\ WorkerInv /\ ClientInv /\ StackInv /\ LedgerInv
        /\ CallInv /\ EffectInv /\ VerdictInv /\ ReplyInv

-----------------------------------------------------------------------------
\* None is neither an entry, a token, a result nor a request.
LEMMA NoneIsNothing ==
    /\ None \notin Entries /\ None \notin Tokens /\ None \notin Attempts /\ Stop \notin Attempts
    /\ None \notin {"ok", "unknown", "error", "fatal"}
<1>1. 0..(MaxTime + TTL) \subseteq Nat /\ 1..MaxInstances \subseteq Nat
      /\ 1..MaxAttempts \subseteq Nat
  BY RemoteMutationsAssumption
<1>2. None \notin Entries
  BY <1>1, RemoteMutationsAssumption DEF Entries
<1>3. None \notin Tokens
  BY <1>1, RemoteMutationsAssumption DEF Tokens
<1>4. None \notin Attempts /\ Stop \notin Attempts
  BY <1>1, RemoteMutationsAssumption DEF Attempts
<1> QED
  BY <1>2, <1>3, <1>4, RemoteMutationsAssumption

-----------------------------------------------------------------------------
(* The stack of calls and the queue of the worker.                          *)

\* A call is pushed on the stack.
LEMMA PushCall ==
    ASSUME NEW s \in Seq(Calls), NEW c \in Calls
    PROVE  /\ Append(s, c) \in Seq(Calls)
           /\ Len(Append(s, c)) = Len(s) + 1
           /\ Append(s, c)[Len(s) + 1] = c
           /\ \A i \in 1..Len(s) : Append(s, c)[i] = s[i]
  BY AppendProperties, LenProperties

\* The innermost call ends or changes.
LEMMA ChangeTop ==
    ASSUME NEW s \in Seq(Calls), s # <<>>, NEW c \in Calls
    PROVE  /\ Len(s) \in 1..Len(s)
           /\ [s EXCEPT ![Len(s)] = c] \in Seq(Calls)
           /\ Len([s EXCEPT ![Len(s)] = c]) = Len(s)
           /\ [s EXCEPT ![Len(s)] = c][Len(s)] = c
           /\ \A i \in 1..Len(s) : i # Len(s) => [s EXCEPT ![Len(s)] = c][i] = s[i]
<1>1. Len(s) \in Nat /\ Len(s) # 0
  BY EmptySeq, LenProperties
<1> QED
  BY <1>1, ExceptSeq

\* The innermost call returns.
LEMMA PopCall ==
    ASSUME NEW s \in Seq(Calls), Len(s) > 1
    PROVE  /\ SubSeq(s, 1, Len(s) - 1) \in Seq(Calls)
           /\ Len(SubSeq(s, 1, Len(s) - 1)) = Len(s) - 1
           /\ \A i \in 1..(Len(s) - 1) : SubSeq(s, 1, Len(s) - 1)[i] = s[i]
<1>1. Len(s) \in Nat /\ \A i \in 1..Len(s) : s[i] \in Calls
  BY LenProperties, ElementOfSeq
<1> QED
  BY <1>1, SubSeqProperties

\* A request enters and leaves the queue.
LEMMA Enqueue ==
    ASSUME NEW s \in Seq(Attempts \cup {Stop}), NEW x \in Attempts \cup {Stop}
    PROVE  /\ Append(s, x) \in Seq(Attempts \cup {Stop})
           /\ Len(Append(s, x)) = Len(s) + 1
           /\ Append(s, x)[Len(s) + 1] = x
           /\ \A i \in 1..Len(s) : Append(s, x)[i] = s[i]
  BY AppendProperties, LenProperties

\* Taking the head of a queue shifts the rest by one.
LEMMA Dequeue ==
    ASSUME NEW s \in Seq(Attempts \cup {Stop}), s # <<>>
    PROVE  /\ Len(s) \in Nat \ {0}
           /\ Head(s) = s[1] /\ Head(s) \in Attempts \cup {Stop}
           /\ Tail(s) \in Seq(Attempts \cup {Stop})
           /\ Len(Tail(s)) = Len(s) - 1
           /\ \A i \in 1..(Len(s) - 1) : Tail(s)[i] = s[i + 1]
  BY HeadTailProperties, EmptySeq, LenProperties

-----------------------------------------------------------------------------
(* A call of the gateway.                                                   *)

\* Pruning takes exactly the entries whose time is over, and their deadlines.
LEMMA PruneEffect ==
    ASSUME TypeOK, LedgerInv
    PROVE  /\ Pruned \in [Mutations -> Entries \cup {None}]
           /\ \A k \in Mutations : Pruned[k] =
                IF ledger[k] # None /\ ledger[k].expires <= now THEN None ELSE ledger[k]
           /\ heap \ Stale = {<<Pruned[k].expires, k>> : k \in Held(Pruned)}
<1>1. ASSUME NEW k \in Mutations
      PROVE  (\E e \in Stale : e[2] = k) <=> (ledger[k] # None /\ ledger[k].expires <= now)
  <2>1. \A e : e \in Stale <=> \E j \in Held(ledger) : e = <<ledger[j].expires, j>> /\ e[1] <= now
    BY DEF LedgerInv, LedgerIsPrunable, Stale
  <2>2. CASE ledger[k] # None /\ ledger[k].expires <= now
    <3>1. <<ledger[k].expires, k>> \in Stale
      BY <2>1, <2>2 DEF Held
    <3> QED
      BY <3>1, <2>2
  <2>3. CASE \E e \in Stale : e[2] = k
    BY <2>1, <2>3 DEF Held
  <2> QED
    BY <2>2, <2>3
<1>2. \A k \in Mutations : Pruned[k] =
         IF ledger[k] # None /\ ledger[k].expires <= now THEN None ELSE ledger[k]
  BY <1>1 DEF Pruned
<1>3. Pruned \in [Mutations -> Entries \cup {None}]
  BY <1>2 DEF Pruned, TypeOK
<1>4. heap \ Stale = {<<Pruned[k].expires, k>> : k \in Held(Pruned)}
  BY <1>2, <1>3 DEF TypeOK, LedgerInv, LedgerIsPrunable, Stale, Held, Entries
<1> QED
  BY <1>2, <1>3, <1>4

\* The entry that reserves the key of m.
Reservation(m) == [expires |-> token[m].expires, of |-> m, answer |-> "unknown"]

\* A call refuses, replays what the ledger holds for its mutation, or reserves
\* a key that is live and free.
EnterOutcome(m, c) ==
    \/ c.result = "error" /\ UNCHANGED <<ledger, heap>>
    \/ /\ c.result # None /\ ledger' = Pruned /\ heap' = heap \ Stale
       /\ c.result = "ok" =>
            LET e == ledger[token[m].key] IN e # None /\ e.of = m /\ e.answer = "ok"
    \/ /\ c.result = None /\ IsLive(token[m])
       /\ Pruned[token[m].key] = None
       /\ ledger' = [Pruned EXCEPT ![token[m].key] = Reservation(m)]
       /\ heap' = (heap \ Stale) \cup {<<token[m].expires, token[m].key>>}

\* What entering a mutation does: a new call on top, and an entry of the ledger and
\* the heap together, or an answer from the ledger.
LEMMA EnterEffect ==
    ASSUME TypeOK, LedgerInv, NEW m \in Mutations, token[m] # None, NEW inner \in BOOLEAN,
           Enter(m, inner)
    PROVE  \E c \in Calls :
              /\ calls' = Append(calls, c)
              /\ c.of = m /\ c.inner = inner /\ ~c.did
              /\ c.result \in {None, "ok", "unknown", "error"}
              /\ EnterOutcome(m, c)
<1> DEFINE call(result) == [of |-> m, inner |-> inner, did |-> FALSE, result |-> result]
           t == token[m]
           held == Pruned[t.key]
<1>1. t \in Tokens /\ t.key \in Mutations
  BY DEF TypeOK, Tokens
<1>2. held = None \/ (held \in Entries /\ held = ledger[t.key])
  BY <1>1, PruneEffect DEF Entries
<1>3. \A result \in {None, "ok", "unknown", "error"} :
        call(result) \in Calls /\ call(result).result = result
  BY DEF Calls
<1>4. CASE ~IsLive(t) /\ calls' = Append(calls, call("error")) /\ UNCHANGED <<ledger, heap>>
  BY <1>3, <1>4 DEF EnterOutcome
<1>5. CASE /\ IsLive(t) /\ heap' = heap \ Stale /\ ledger' = Pruned
           /\ \/ held # None /\ held.of = m /\ calls' = Append(calls, call(held.answer))
              \/ held # None /\ held.of # m /\ calls' = Append(calls, call("error"))
              \/ held = None /\ Cardinality(Held(Pruned)) >= Limit
                 /\ calls' = Append(calls, call("error"))
  <2>1. CASE held # None /\ held.of = m /\ calls' = Append(calls, call(held.answer))
    <3>1. held = ledger[t.key] /\ held.answer \in {"ok", "unknown"}
      BY <2>1, <1>2 DEF Entries
    <3>2. EnterOutcome(m, call(held.answer))
      BY <3>1, <1>5, <2>1, <1>3, RemoteMutationsAssumption DEF EnterOutcome
    <3> QED
      BY <3>1, <3>2, <2>1, <1>3
  <2>2. CASE calls' = Append(calls, call("error"))
    <3>1. EnterOutcome(m, call("error"))
      BY <1>5, <1>3, RemoteMutationsAssumption DEF EnterOutcome
    <3> QED
      BY <3>1, <2>2, <1>3
  <2> QED
    BY <1>5, <2>1, <2>2
<1>6. CASE /\ IsLive(t) /\ held = None
           /\ ledger' = [Pruned EXCEPT ![t.key] = Reservation(m)]
           /\ heap' = (heap \ Stale) \cup {<<t.expires, t.key>>}
           /\ calls' = Append(calls, call(None))
  BY <1>3, <1>6 DEF EnterOutcome
<1> QED
  BY <1>4, <1>5, <1>6 DEF Enter, Reservation

\* A call adds itself to the stack, and at most its reservation to the ledger.
LEMMA EnterType ==
    ASSUME TypeOK, LedgerInv, NEW m \in Mutations, token[m] # None, NEW inner \in BOOLEAN,
           Enter(m, inner)
    PROVE  /\ ledger' \in [Mutations -> Entries \cup {None}]
           /\ heap' \subseteq (0..(MaxTime + TTL)) \X Mutations
           /\ calls' \in Seq(Calls) /\ Len(calls') = Len(calls) + 1 /\ calls' # <<>>
<1>1. token[m] \in Tokens /\ token[m].key \in Mutations
      /\ token[m].expires \in 0..(MaxTime + TTL)
  BY DEF TypeOK, Tokens
<1>2. PICK c \in Calls : calls' = Append(calls, c) /\ EnterOutcome(m, c)
  BY EnterEffect
<1>3. calls \in Seq(Calls) /\ Len(calls) \in Nat
  BY LenProperties DEF TypeOK
<1>4. calls' \in Seq(Calls) /\ Len(calls') = Len(calls) + 1 /\ calls' # <<>>
  BY <1>2, <1>3, PushCall, EmptySeq
<1>5. Reservation(m) \in Entries
  BY <1>1 DEF Reservation, Entries
<1>6. ledger' \in [Mutations -> Entries \cup {None}]
  BY <1>1, <1>2, <1>5, PruneEffect DEF EnterOutcome, TypeOK
<1>7. heap' \subseteq (0..(MaxTime + TTL)) \X Mutations
  BY <1>1, <1>2 DEF EnterOutcome, TypeOK
<1> QED
  BY <1>4, <1>6, <1>7

\* What the innermost call is.
LEMMA TopIsCall ==
    ASSUME TypeOK, calls # <<>>
    PROVE  /\ Len(calls) \in Nat \ {0} /\ Len(calls) <= MaxDepth /\ Len(calls) \in 1..Len(calls)
           /\ Top = calls[Len(calls)] /\ Top \in Calls
           /\ Top.of \in Mutations /\ Top.inner \in BOOLEAN /\ Top.did \in BOOLEAN
           /\ current \in Attempts
<1>1. calls \in Seq(Calls) /\ Len(calls) \in Nat /\ Len(calls) # 0
  BY EmptySeq, LenProperties DEF TypeOK
<1>2. Top \in Calls
  BY <1>1, ElementOfSeq DEF Top
<1> QED
  BY <1>1, <1>2 DEF TypeOK, Top, Calls

\* The mutation of a queued request, and of a call, has a token.
LEMMA CallerHasToken ==
    ASSUME TypeOK, WorkerInv, ClientInv, StackInv
    PROVE  /\ \A m \in Mutations : tries[m] > 0 => token[m] # None
           /\ \A i \in 1..Len(calls) : calls[i].of \in Mutations /\ token[calls[i].of] # None
           /\ \A i \in 1..Len(work) : work[i] # Stop =>
                /\ work[i] \in Attempts /\ work[i][1] \in Mutations \ Direct
                /\ tries[work[i][1]] > 0 /\ token[work[i][1]] # None
<1>1. ASSUME NEW m \in Mutations, tries[m] > 0
      PROVE  token[m] # None
  <2>1. tries[m] # 0
    BY <1>1
  <2>2. client[m] # "new"
    BY <2>1 DEF ClientInv
  <2> QED
    BY <2>2 DEF ClientInv
<1>2. \A i \in 1..Len(calls) : calls[i].of \in Mutations
  <2>1. \A i \in 1..Len(calls) : calls[i] \in Calls
    BY ElementOfSeq DEF TypeOK
  <2> QED
    BY <2>1 DEF Calls
<1>3. ASSUME NEW i \in 1..Len(work), work[i] # Stop
      PROVE  work[i] \in Attempts /\ work[i][1] \in Mutations \ Direct /\ tries[work[i][1]] > 0
  <2>1. work[i] \in Attempts
    BY <1>3, ElementOfSeq DEF TypeOK
  <2>2. http[work[i]] # "none"
    BY <1>3 DEF WorkerInv
  <2>3. work[i][1] \in Mutations \ Direct /\ work[i][2] \in 1..MaxAttempts
    BY <2>1 DEF Attempts
  <2>4. work[i][2] <= tries[work[i][1]]
    BY <2>1, <2>2 DEF ClientInv
  <2> QED
    BY <2>1, <2>3, <2>4, RemoteMutationsAssumption, SMTT(30) DEF TypeOK
<1>4. \A i \in 1..Len(calls) : tries[calls[i].of] > 0
  BY DEF StackInv
<1> QED
  BY <1>1, <1>2, <1>3, <1>4

\* The innermost call gets its result, or the mark of its change.
LEMMA OutcomeEffect ==
    ASSUME TypeOK, calls # <<>>, NEW r \in {None, "ok", "unknown", "error", "fatal"}, Outcome(r)
    PROVE  /\ calls' \in Seq(Calls) /\ Len(calls') = Len(calls) /\ calls' # <<>>
           /\ \A i \in 1..Len(calls) : i # Len(calls) => calls'[i] = calls[i]
           /\ calls'[Len(calls)] = [Top EXCEPT !.result = r]
           /\ [Top EXCEPT !.result = r] \in Calls
<1>1. calls' = [calls EXCEPT ![Len(calls)] = [Top EXCEPT !.result = r]]
  BY DEF Outcome, Top
<1>2. [Top EXCEPT !.result = r] \in Calls
  BY TopIsCall DEF Calls
<1>3. calls' \in Seq(Calls) /\ Len(calls') = Len(calls)
      /\ calls'[Len(calls)] = [Top EXCEPT !.result = r]
      /\ \A i \in 1..Len(calls) : i # Len(calls) => calls'[i] = calls[i]
  BY <1>1, <1>2, ChangeTop DEF TypeOK
<1> QED
  BY <1>2, <1>3, TopIsCall, EmptySeq

\* The provider's effect is marked in the top call alone.
LEMMA PerformEffect ==
    ASSUME TypeOK, Perform
    PROVE  /\ calls' \in Seq(Calls) /\ Len(calls') = Len(calls) /\ calls' # <<>>
           /\ \A i \in 1..Len(calls) : i # Len(calls) => calls'[i] = calls[i]
           /\ calls'[Len(calls)] = [Top EXCEPT !.did = TRUE]
           /\ [Top EXCEPT !.did = TRUE] \in Calls
<1>1. calls # <<>> /\ calls' = [calls EXCEPT ![Len(calls)] = [Top EXCEPT !.did = TRUE]]
  BY DEF Perform, Executing, Top
<1>2. [Top EXCEPT !.did = TRUE] \in Calls
  BY <1>1, TopIsCall DEF Calls
<1>3. calls' \in Seq(Calls) /\ Len(calls') = Len(calls)
      /\ calls'[Len(calls)] = [Top EXCEPT !.did = TRUE]
      /\ \A i \in 1..Len(calls) : i # Len(calls) => calls'[i] = calls[i]
  BY <1>1, <1>2, ChangeTop DEF TypeOK
<1> QED
  BY <1>1, <1>2, <1>3, TopIsCall, EmptySeq

\* An execution that ends records its answer in the entry that is still its own.
LEMMA RecordEffect ==
    ASSUME TypeOK, WorkerInv, ClientInv, StackInv, calls # <<>>, NEW answer \in {"ok", "unknown"}, Record(answer)
    PROVE  /\ ledger' \in [Mutations -> Entries \cup {None}]
           /\ \A k \in Mutations :
                /\ (ledger'[k] = None) = (ledger[k] = None)
                /\ ledger[k] # None =>
                     /\ ledger'[k].of = ledger[k].of
                     /\ ledger'[k].expires = ledger[k].expires
                     /\ \/ ledger'[k] = ledger[k]
                        \/ ledger[k].of = Top.of /\ k = token[Top.of].key
                           /\ ledger'[k].answer = answer
           /\ LET k == token[Top.of].key IN
              ledger[k] # None /\ ledger[k].of = Top.of => ledger'[k].answer = answer
<1> DEFINE k == token[Top.of].key
<1>1. k \in Mutations
  <2>1. Top.of \in Mutations /\ token[Top.of] # None
    BY TopIsCall, CallerHasToken
  <2> QED
    BY <2>1 DEF TypeOK, Tokens
<1>2. CASE ledger[k] # None /\ ledger[k].of = Top.of
  <2>1. ledger' = [ledger EXCEPT ![k].answer = answer]
    BY <1>2 DEF Record
  <2>2. ledger[k] \in Entries
    BY <1>1, <1>2 DEF TypeOK
  <2>3. [ledger[k] EXCEPT !.answer = answer] \in Entries
    BY <2>2 DEF Entries
  <2>4. [ledger[k] EXCEPT !.answer = answer] # None
    BY <2>3, NoneIsNothing
  <2> QED
    BY <1>1, <1>2, <2>1, <2>2, <2>3, <2>4 DEF TypeOK, Entries
<1>3. CASE ~(ledger[k] # None /\ ledger[k].of = Top.of)
  BY <1>1, <1>3 DEF Record, TypeOK
<1> QED
  BY <1>2, <1>3

-----------------------------------------------------------------------------
(* Types.                                                                   *)

\* Every step keeps the types, because a call is entered only with a token.
LEMMA TypeStep ==
    ASSUME IInv, [Next]_vars
    PROVE  TypeOK'
<1> USE DEF IInv
<1>0. /\ MaxTime \in Nat /\ MaxAttempts \in Nat /\ TTL \in Nat \ {0}
      /\ MaxInstances \in Nat \ {0} /\ MaxDepth \in Nat \ {0}
  BY RemoteMutationsAssumption
<1>1. ASSUME NEW m \in Mutations, Negotiate(m)
      PROVE  TypeOK'
  <2>1. Minted(m) \in Tokens
    BY <1>0 DEF Minted, Tokens, TypeOK
  <2>2. Offered \subseteq Tokens
    BY DEF Offered, TypeOK
  <2>3. token' \in [Mutations -> Tokens \cup {None}]
    BY <1>1, <2>1, <2>2 DEF Negotiate, TypeOK
  <2> QED
    BY <1>1, <2>3 DEF Negotiate, TypeOK, time, gateway, worker, requests
<1>2. ASSUME NEW m \in Mutations, Attempt(m)
      PROVE  /\ client' \in [Mutations -> {"new", "ready", "waiting", "acked", "refused", "unknown"}]
             /\ tries' \in [Mutations -> 0..MaxAttempts] /\ tries'[m] \in 1..MaxAttempts
             /\ token' \in [Mutations -> Tokens \cup {None}]
  BY <1>0, <1>2 DEF Attempt, TypeOK
<1>3. ASSUME NEW m \in Mutations, Send(m)
      PROVE  TypeOK'
  BY <1>2, <1>3 DEF Send, TypeOK, time, gateway, worker
<1>4. ASSUME NEW m \in Mutations, NEW r, Learn(m, r)
      PROVE  client' \in [Mutations -> {"new", "ready", "waiting", "acked", "refused", "unknown"}]
  BY <1>4 DEF Learn, TypeOK
<1>5. ASSUME NEW m \in Mutations, Hear(m) \/ GiveUp(m)
      PROVE  TypeOK'
  BY <1>4, <1>5 DEF Hear, GiveUp, TypeOK, time, gateway, worker, requests
<1>6. ASSUME NEW m \in Mutations, Reenter(m)
      PROVE  TypeOK'
  <2>1. token[m] # None
    BY <1>6, CallerHasToken, NoneIsNothing DEF Reenter, Attempt, ClientInv
  <2>2. PICK inner \in BOOLEAN : Enter(m, inner)
    BY <1>6 DEF Reenter
  <2>3. /\ ledger' \in [Mutations -> Entries \cup {None}]
        /\ heap' \subseteq (0..(MaxTime + TTL)) \X Mutations
        /\ calls' \in Seq(Calls) /\ Len(calls') = Len(calls) + 1 /\ calls' # <<>>
    BY <2>1, <2>2, EnterType
  <2>4. calls # <<>> /\ Len(calls) < MaxDepth /\ Len(calls) \in Nat
    BY <1>6, TopIsCall DEF Reenter, Executing
  <2>5. UNCHANGED clients \/ Attempt(m)
    BY <1>6 DEF Reenter
  <2>6. /\ client' \in [Mutations -> {"new", "ready", "waiting", "acked", "refused", "unknown"}]
        /\ tries' \in [Mutations -> 0..MaxAttempts]
        /\ token' \in [Mutations -> Tokens \cup {None}]
    BY <2>5, <1>2 DEF clients, TypeOK
  <2> QED
    BY <1>0, <1>6, <2>3, <2>4, <2>6 DEF Reenter, TypeOK, time, worker, requests
<1>7. CASE Perform
  <2>1. calls # <<>> /\ Top.of \in Mutations
    BY <1>7, TopIsCall DEF Perform, Executing
  <2>2. applied' \in [Mutations -> Nat]
    BY <1>7, <2>1 DEF Perform, TypeOK
  <2>3. calls' \in Seq(Calls) /\ Len(calls') = Len(calls) /\ calls' # <<>>
    BY <1>7, PerformEffect
  <2> QED
    BY <1>7, <2>1, <2>2, <2>3 DEF Perform, TypeOK, time, worker, requests, clients
<1>8. CASE Complete \/ Raise \/ Abort
  <2>1. calls # <<>>
    BY <1>8 DEF Complete, Raise, Abort, Executing
  <2>2. \E r \in {None, "ok", "unknown", "error", "fatal"} : Outcome(r)
    BY <1>8 DEF Complete, Raise, Abort
  <2>3. calls' \in Seq(Calls) /\ Len(calls') = Len(calls) /\ calls' # <<>>
    BY <2>1, <2>2, OutcomeEffect
  <2>4. ledger' \in [Mutations -> Entries \cup {None}]
    BY <1>8, <2>1, RecordEffect DEF Complete, Raise, Abort, TypeOK
  <2> QED
    BY <1>8, <2>1, <2>3, <2>4
    DEF Complete, Raise, Abort, TypeOK, time, worker, requests, clients
<1>9. CASE Return
  <2>1. calls # <<>> /\ Top.of \in Mutations
    BY <1>9, TopIsCall, EmptySeq DEF Return
  <2>2. calls' \in Seq(Calls) /\ Len(calls') = Len(calls) - 1 /\ Len(calls) > 1
    BY <1>9, PopCall DEF Return, TypeOK
  <2>3. calls' # <<>> /\ Len(calls') <= MaxDepth
    BY <1>0, <2>1, <2>2, TopIsCall, EmptySeq DEF TypeOK
  <2>4. client' \in [Mutations -> {"new", "ready", "waiting", "acked", "refused", "unknown"}]
    BY <1>9, <2>1, <1>4 DEF Return, TypeOK
  <2> QED
    BY <1>9, <2>1, <2>2, <2>3, <2>4 DEF Return, TypeOK, time, worker, requests
<1>10. CASE Serve
  <2>1. work \in Seq(Attempts \cup {Stop}) /\ work # <<>> /\ current = None /\ calls = <<>>
    BY <1>10 DEF Serve, TypeOK
  <2>2. /\ Head(work) \in Attempts \cup {Stop} /\ Head(work) = work[1] /\ 1 \in 1..Len(work)
        /\ Tail(work) \in Seq(Attempts \cup {Stop})
    BY <2>1, Dequeue
  <2>3. CASE Head(work) # Stop /\ current' = Head(work) /\ Enter(Head(work)[1], FALSE)
             /\ UNCHANGED alive
    <3>1. Head(work) \in Attempts /\ Head(work)[1] \in Mutations /\ token[Head(work)[1]] # None
      BY <2>2, <2>3, CallerHasToken
    <3>2. /\ ledger' \in [Mutations -> Entries \cup {None}]
          /\ heap' \subseteq (0..(MaxTime + TTL)) \X Mutations
          /\ calls' \in Seq(Calls) /\ Len(calls') = Len(calls) + 1 /\ calls' # <<>>
      BY <2>3, <3>1, EnterType
    <3>4. Len(calls') = 1
      BY <2>1, <3>2, EmptySeq
    <3>3. current' \in Attempts /\ current' # None
      BY <2>3, <3>1, NoneIsNothing
    <3> QED
      BY <1>0, <1>10, <2>2, <2>3, <3>2, <3>3, <3>4 DEF Serve, TypeOK, time, requests, clients
  <2>4. CASE alive' \in {alive, FALSE} /\ UNCHANGED <<current, ledger, heap, calls>>
    BY <1>10, <2>2, <2>4 DEF Serve, TypeOK, time, requests, clients
  <2> QED
    BY <1>10, <2>3, <2>4 DEF Serve
<1>11. CASE Finish
  <2>1. calls # <<>> /\ current \in Attempts
    BY <1>11, TopIsCall, EmptySeq DEF Finish
  <2>2. http' \in [Attempts -> {"none", "wire", "waiting", "expired", "lost"} \cup Responses]
    BY <1>11, <2>1 DEF Finish, TypeOK, Responses, ReplyTo
  <2>3. failing' \in BOOLEAN
    BY <1>11 DEF Finish
  <2>4. calls' = <<>> /\ calls' \in Seq(Calls) /\ Len(calls') = 0
    BY <1>11, EmptySeq DEF Finish
  <2> QED
    <3>1. /\ current' = None /\ signal' = FALSE
          /\ UNCHANGED <<now, scope, ledger, heap, applied, state, alive, work, abandoned,
                         interrupted, client, tries, token>>
      BY <1>11 DEF Finish, Drain, time, clients
    <3>2. Len(calls') <= MaxDepth /\ (calls' = <<>>) = (current' = None)
      BY <1>0, <3>1, <2>4
    <3> QED
      BY <3>1, <3>2, <2>2, <2>3, <2>4 DEF TypeOK
<1>12. CASE FailRunning
  <2>1. http' \in [Attempts -> {"none", "wire", "waiting", "expired", "lost"} \cup Responses]
    BY <1>12 DEF FailRunning, TypeOK, Responses
  <2>2. work' \in Seq(Attempts \cup {Stop})
    BY <1>12, EmptySeq DEF FailRunning
  <2>3. abandoned' \subseteq Attempts
    BY <1>12 DEF FailRunning, TypeOK, Queued
  <2> QED
    BY <1>12, <2>1, <2>2, <2>3 DEF FailRunning, TypeOK, time, gateway, clients
<1>13. ASSUME NEW a \in Attempts, Receive(a) \/ Expire(a) \/ Interrupt(a)
       PROVE  TypeOK'
  <2>1. http' \in [Attempts -> {"none", "wire", "waiting", "expired", "lost"} \cup Responses]
    BY <1>13 DEF Receive, Expire, Interrupt, TypeOK, Responses
  <2>2. work' \in Seq(Attempts \cup {Stop})
    <3>1. work' \in {work, Append(work, a)}
      BY <1>13 DEF Receive, Expire, Interrupt, worker
    <3>2. Append(work, a) \in Seq(Attempts \cup {Stop})
      BY Enqueue DEF TypeOK
    <3> QED
      BY <3>1, <3>2 DEF TypeOK
  <2> QED
    BY <1>13, <2>1, <2>2
    DEF Receive, Expire, Interrupt, TypeOK, time, gateway, worker, clients
<1>14. CASE CloseServer
  <2>1. work' \in Seq(Attempts \cup {Stop})
    BY <1>14, Enqueue DEF CloseServer, TypeOK
  <2> QED
    BY <1>14, <2>1 DEF CloseServer, TypeOK, time, gateway, requests, clients
<1>15. CASE Restart
  <2>1. http' \in [Attempts -> {"none", "wire", "waiting", "expired", "lost"} \cup Responses]
    BY <1>15 DEF Restart, TypeOK, Responses
  <2>2. /\ work' \in Seq(Attempts \cup {Stop})
        /\ calls' \in Seq(Calls) /\ calls' = <<>> /\ Len(calls') <= MaxDepth
    BY <1>0, <1>15, EmptySeq DEF Restart
  <2>3. scope' \in 1..MaxInstances /\ now' \in 0..MaxTime
    BY <1>0, <1>15 DEF Restart, TypeOK
  <2>4. ledger' \in [Mutations -> Entries \cup {None}]
        /\ heap' \subseteq (0..(MaxTime + TTL)) \X Mutations
    BY <1>15 DEF Restart
  <2> QED
    BY <1>15, <2>1, <2>2, <2>3, <2>4 DEF Restart, TypeOK, clients
<1>16. CASE Tick
  BY <1>0, <1>16 DEF Tick, TypeOK, gateway, worker, requests, clients
<1>17. CASE UNCHANGED vars
  BY <1>17 DEF TypeOK, vars, time, gateway, worker, requests, clients
<1> QED
  BY <1>1, <1>3, <1>5, <1>6, <1>7, <1>8, <1>9, <1>10, <1>11, <1>12, <1>13, <1>14, <1>15,
     <1>16, <1>17 DEF Next

-----------------------------------------------------------------------------
(* The worker, its queue and the handlers that wait for it.                 *)

\* Every step keeps what the queue, the marks and the waiters say of each other.
LEMMA WorkerStep ==
    ASSUME IInv, [Next]_vars
    PROVE  WorkerInv'
<1> USE DEF IInv
<1>0. /\ \A i \in 1..Len(work) : work[i] \in Attempts \cup {Stop}
      /\ Len(work) \in Nat /\ work \in Seq(Attempts \cup {Stop})
      /\ Stop \notin Attempts /\ None \notin Attempts
  BY ElementOfSeq, LenProperties, NoneIsNothing DEF TypeOK
<1>1. CASE UNCHANGED <<state, alive, failing, work, current, requests>> /\ signal' \in {signal, FALSE}
  <2>1. SignalIsAimed'
    BY <1>1 DEF WorkerInv, SignalIsAimed, requests
  <2>2. WaitersAreOwed'
    BY <1>1 DEF WorkerInv, WaitersAreOwed, requests
  <2> QED
    BY <1>1, <2>1, <2>2 DEF WorkerInv, requests
<1>2. ASSUME NEW m \in Mutations, Send(m)
      PROVE  WorkerInv'
  <2> DEFINE a == <<m, tries'[m]>>
  <2>1. tries[m] \in 0..MaxAttempts /\ tries'[m] = tries[m] + 1 /\ tries[m] < MaxAttempts /\ MaxAttempts \in Nat
    BY <1>2, RemoteMutationsAssumption DEF Send, Attempt, TypeOK
  <2>2. a \in Attempts /\ a[1] = m /\ a[2] = tries[m] + 1
    BY <1>2, <2>1 DEF Attempts, Send
  <2>3. http[a] = "none"
    <3>1. ~(a[2] <= tries[a[1]])
      BY <2>1, <2>2
    <3> QED
      BY <2>2, <3>1 DEF ClientInv
  <2>4. /\ http' = [http EXCEPT ![a] = "wire"]
        /\ UNCHANGED <<state, alive, failing, work, current, signal, abandoned, interrupted>>
    BY <1>2 DEF Send, worker
  <2>5. /\ http'[a] = "wire"
        /\ \A b \in Attempts : b # a => http'[b] = http[b]
    BY <2>2, <2>4 DEF TypeOK
  <2> HIDE DEF a
  <2>6. (\A i \in 1..Len(work) : work[i] # a) /\ current # a /\ a \notin abandoned
    BY <1>0, <2>2, <2>3 DEF WorkerInv
  <2> QED
    BY <1>0, <2>3, <2>4, <2>5, <2>6 DEF WorkerInv, WaitersAreOwed, SignalIsAimed, TypeOK
<1>3. CASE Serve
  <2>1. work # <<>> /\ current = None /\ work' = Tail(work) /\ alive /\ ~failing /\ ~signal
        /\ UNCHANGED <<state, failing, signal, abandoned, interrupted, http>>
    BY <1>0, <1>3 DEF Serve, requests, WorkerInv, SignalIsAimed, TypeOK
  <2>2. /\ Len(work) \in Nat \ {0} /\ Head(work) = work[1] /\ Len(work') = Len(work) - 1
        /\ \A i \in 1..(Len(work) - 1) : work'[i] = work[i + 1]
    BY <1>0, <2>1, Dequeue
  <2>3. \A i \in 1..Len(work') : i + 1 \in 1..Len(work) /\ work'[i] = work[i + 1]
    BY <2>2
  <2>4. state' = "live" => \A i \in 1..Len(work') : work'[i] # Stop
    BY <2>1, <2>3 DEF WorkerInv
  <2>5. \A i \in 1..Len(work') : work'[i] # Stop => http'[work'[i]] \notin {"none", "wire", "refused"}
    BY <2>1, <2>3 DEF WorkerInv
  <2>6. /\ current' # None => http'[current'] \notin {"none", "wire", "refused"}
        /\ failing' => current' = None
    <3>1. current' = current \/ (Head(work) # Stop /\ current' = Head(work))
      BY <1>3 DEF Serve
    <3>2. 1 \in 1..Len(work)
      BY <2>2
    <3> QED
      BY <2>1, <2>2, <3>1, <3>2 DEF WorkerInv
  <2>7. ASSUME NEW a \in Attempts, http'[a] = "waiting"
        PROVE  /\ alive'
               /\ \/ current' = a
                  \/ \E i \in 1..Len(work') : work'[i] = a /\ \A j \in 1..i : work'[j] # Stop
    <3>1. PICK i \in 1..Len(work) : work[i] = a /\ \A j \in 1..i : work[j] # Stop
      BY <1>0, <2>1, <2>7 DEF WorkerInv, WaitersAreOwed
    <3>2. Head(work) # Stop
      BY <2>2, <3>1
    <3>3. CASE i = 1
      BY <1>3, <2>1, <2>2, <2>7, <3>1, <3>2, <3>3 DEF Serve, WorkerInv
    <3>4. CASE i # 1
      <4>1. i - 1 \in 1..Len(work') /\ work'[i - 1] = a
        BY <2>2, <3>1, <3>4
      <4>2. \A j \in 1..(i - 1) : work'[j] # Stop
        <5>1. \A j \in 1..(i - 1) : j + 1 \in 1..i /\ work'[j] = work[j + 1]
          BY <2>2, <3>4
        <5> QED
          BY <3>1, <5>1
      <4>3. alive'
        BY <1>3, <2>1, <3>2 DEF Serve
      <4> QED
        BY <4>1, <4>2, <4>3
    <3> QED
      BY <3>3, <3>4
  <2>8. WaitersAreOwed'
    BY <2>7 DEF WaitersAreOwed
  <2> QED
    BY <2>1, <2>4, <2>5, <2>6, <2>8 DEF WorkerInv, SignalIsAimed
<1>4. CASE Finish
  <2>1. current \in Attempts /\ current' = None /\ signal' = FALSE
        /\ UNCHANGED <<state, alive, work, abandoned, interrupted>>
    <3>1. calls # <<>>
      BY <1>4, EmptySeq DEF Finish
    <3> QED
      BY <1>4, <3>1, TopIsCall DEF Finish, Drain
  <2>2. \/ current \in abandoned /\ http' = http
        \/ /\ current \notin abandoned
           /\ \E r \in {"ok", "unknown"} : http' = [http EXCEPT ![current] = r]
    BY <1>4 DEF Finish, ReplyTo
  <2>3. /\ \A b \in Attempts : b # current => http'[b] = http[b]
        /\ http'[current] \notin {"none", "wire", "refused", "waiting"}
        /\ http'[current] = "expired" => current \in abandoned
    BY <1>0, <2>1, <2>2 DEF TypeOK, WorkerInv
  <2>4. ASSUME NEW a \in Attempts, http'[a] = "waiting"
        PROVE  /\ alive'
               /\ \E i \in 1..Len(work') : work'[i] = a /\ \A j \in 1..i : work'[j] # Stop
    <3>1. http[a] = "waiting" /\ current # a
      BY <2>3, <2>4
    <3> QED
      BY <2>1, <3>1 DEF WorkerInv, WaitersAreOwed
  <2>5. WaitersAreOwed'
    BY <2>4 DEF WaitersAreOwed
  <2>6. \A a \in Attempts : http[a] \notin {"none", "wire", "refused"}
                               => http'[a] \notin {"none", "wire", "refused"}
    BY <2>3
  <2>7. \A i \in 1..Len(work') : work'[i] # Stop => http'[work'[i]] \notin {"none", "wire", "refused"}
    BY <1>0, <2>1, <2>6 DEF WorkerInv
  <2>8. \A a \in abandoned' : http'[a] \notin {"none", "wire", "waiting"}
    BY <2>1, <2>3 DEF WorkerInv, TypeOK
  <2>9. \A a \in Attempts : http'[a] = "expired" => a \in abandoned'
    BY <2>1, <2>3 DEF WorkerInv
  <2> QED
    BY <2>1, <2>5, <2>7, <2>8, <2>9 DEF WorkerInv, SignalIsAimed
<1>5. CASE FailRunning
  <2>1. /\ current = None /\ current' = None /\ signal' = signal /\ ~signal
        /\ state' = "failed" /\ failing' = FALSE /\ work' = <<>> /\ Len(work') = 0
        /\ abandoned' = abandoned \cup Queued /\ interrupted' = interrupted
        /\ http' = [a \in Attempts |-> IF a \in Queued /\ http[a] = "waiting" THEN "unknown" ELSE http[a]]
    BY <1>0, <1>5, EmptySeq DEF FailRunning, WorkerInv, SignalIsAimed, TypeOK
  <2>2. \A a \in Attempts : http[a] = "waiting" => a \in Queued
    BY <1>0, <2>1 DEF WorkerInv, WaitersAreOwed, Queued
  <2>3. \A a \in Queued : a \in Attempts /\ http[a] \notin {"none", "wire", "refused"}
    BY <1>0 DEF WorkerInv, Queued
  <2>4. \A a \in Attempts : http'[a] # "waiting" /\ (http'[a] # http[a] => http'[a] = "unknown")
    BY <2>1, <2>2
  <2>5. WaitersAreOwed'
    BY <2>4 DEF WaitersAreOwed
  <2>6. \A a \in abandoned' : http'[a] \notin {"none", "wire", "waiting"}
    BY <2>1, <2>3, <2>4 DEF WorkerInv, TypeOK
  <2>7. \A a \in Attempts : http'[a] = "expired" => a \in abandoned'
    BY <2>1, <2>4 DEF WorkerInv
  <2> QED
    BY <2>1, <2>5, <2>6, <2>7 DEF WorkerInv, SignalIsAimed
<1>6. ASSUME NEW a \in Attempts, Receive(a)
      PROVE  WorkerInv'
  <2>1. /\ http[a] = "wire" /\ current # a /\ a \notin abandoned
        /\ \A i \in 1..Len(work) : work[i] # a
        /\ UNCHANGED <<state, alive, failing, current, signal, abandoned, interrupted>>
    BY <1>0, <1>6 DEF Receive, WorkerInv
  <2>2. \A b \in Attempts : b # a => http'[b] = http[b]
    BY <1>6 DEF Receive, TypeOK
  <2>3. CASE ~Accepting
    <3>1. work' = work /\ http'[a] = "refused"
      BY <1>6, <2>3 DEF Receive, TypeOK
    <3> QED
      <4>1. WaitersAreOwed' /\ SignalIsAimed'
        BY <2>1, <2>2, <3>1 DEF WorkerInv, WaitersAreOwed, SignalIsAimed
      <4>2. /\ \A b \in abandoned' : http'[b] \notin {"none", "wire", "waiting"}
            /\ \A b \in Attempts : http'[b] = "expired" => b \in abandoned'
        BY <2>1, <2>2, <3>1 DEF WorkerInv, TypeOK
      <4>3. /\ current' # None => http'[current'] \notin {"none", "wire", "refused"}
            /\ \A i \in 1..Len(work') : work'[i] # Stop => http'[work'[i]] \notin {"none", "wire", "refused"}
        BY <1>0, <2>1, <2>2, <3>1 DEF WorkerInv, TypeOK
      <4> QED
        BY <2>1, <3>1, <4>1, <4>2, <4>3 DEF WorkerInv
  <2>4. CASE Accepting
    <3>1. /\ work' = Append(work, a) /\ http'[a] = "waiting" /\ alive /\ state = "live"
      BY <1>6, <2>4 DEF Receive, Accepting, TypeOK
    <3>2. /\ Len(work') = Len(work) + 1 /\ work'[Len(work) + 1] = a
          /\ \A i \in 1..Len(work) : work'[i] = work[i]
      BY <1>0, <3>1, Enqueue
    <3>3. \A i \in 1..Len(work') : work'[i] # Stop /\ http'[work'[i]] \notin {"none", "wire", "refused"}
      <4>1. ASSUME NEW i \in 1..Len(work), i # Len(work) + 1
            PROVE  work'[i] # Stop /\ http'[work'[i]] \notin {"none", "wire", "refused"}
        BY <1>0, <2>1, <2>2, <3>1, <3>2 DEF WorkerInv
      <4>2. work'[Len(work) + 1] # Stop /\ http'[work'[Len(work) + 1]] \notin {"none", "wire", "refused"}
        BY <1>0, <3>1, <3>2
      <4> QED
        BY <1>0, <3>2, <4>1, <4>2
    <3>4. WaitersAreOwed'
      <4>1. ASSUME NEW b \in Attempts, http'[b] = "waiting", current' # b
            PROVE  alive' /\ \E i \in 1..Len(work') : work'[i] = b /\ \A j \in 1..i : work'[j] # Stop
        <5>1. \E i \in 1..Len(work') : work'[i] = b
          <6>1. CASE b = a
            BY <1>0, <3>2, <6>1
          <6>2. CASE b # a
            BY <1>0, <2>1, <2>2, <3>2, <4>1, <6>2 DEF WorkerInv, WaitersAreOwed
          <6> QED
            BY <6>1, <6>2
        <5>2. \A i \in 1..Len(work') : \A j \in 1..i : j \in 1..Len(work')
          BY <1>0, <3>2
        <5> QED
          BY <2>1, <3>1, <3>3, <5>1, <5>2
      <4> QED
        BY <2>1, <3>1, <4>1 DEF WaitersAreOwed
    <3>5. current' # None => http'[current'] \notin {"none", "wire", "refused"}
      BY <2>1, <2>2 DEF WorkerInv, TypeOK
    <3>6. /\ \A b \in abandoned' : http'[b] \notin {"none", "wire", "waiting"}
          /\ \A b \in Attempts : http'[b] = "expired" => b \in abandoned'
      BY <2>1, <2>2, <3>1 DEF WorkerInv, TypeOK
    <3> QED
      BY <2>1, <3>3, <3>4, <3>5, <3>6 DEF WorkerInv, SignalIsAimed
  <2> QED
    BY <2>3, <2>4
<1>7. ASSUME NEW a \in Attempts, Expire(a) \/ Interrupt(a)
      PROVE  WorkerInv'
  <2>1. /\ UNCHANGED <<state, alive, failing, work, current>>
        /\ http[a] \in {"waiting", "expired"}
        /\ \A b \in Attempts : b # a => http'[b] = http[b]
        /\ (http'[a] = "expired" /\ a \in abandoned') \/ http'[a] = "unknown"
    BY <1>7 DEF Expire, Interrupt, TypeOK, worker
  <2>2. /\ \A b \in Attempts : b # a => (b \in abandoned' <=> b \in abandoned)
        /\ abandoned \subseteq abandoned' /\ abandoned' \subseteq Attempts
    BY <1>7 DEF Expire, Interrupt, TypeOK
  <2>3. SignalIsAimed'
    <3>1. CASE Expire(a)
      BY <2>1, <2>2, <3>1 DEF Expire, SignalIsAimed, WorkerInv, worker
    <3>2. CASE Interrupt(a)
      BY <2>1, <2>2, <3>2 DEF Interrupt, SignalIsAimed, WorkerInv
    <3> QED
      BY <1>7, <3>1, <3>2
  <2>4. WaitersAreOwed'
    BY <2>1 DEF WorkerInv, WaitersAreOwed
  <2>5. \A b \in Attempts : http[b] \notin {"none", "wire", "refused"}
                               => http'[b] \notin {"none", "wire", "refused"}
    BY <2>1
  <2>6. /\ \A i \in 1..Len(work') : work'[i] # Stop => http'[work'[i]] \notin {"none", "wire", "refused"}
        /\ current' # None => http'[current'] \notin {"none", "wire", "refused"}
    BY <1>0, <2>1, <2>5 DEF WorkerInv, TypeOK
  <2>7. /\ \A b \in abandoned' : http'[b] \notin {"none", "wire", "waiting"}
        /\ \A b \in Attempts : http'[b] = "expired" => b \in abandoned'
    BY <2>1, <2>2 DEF WorkerInv
  <2> QED
    BY <2>1, <2>3, <2>4, <2>6, <2>7 DEF WorkerInv
<1>8. CASE CloseServer
  <2>1. /\ work' = Append(work, Stop) /\ state' = "closing"
        /\ UNCHANGED <<alive, failing, current, signal, requests>>
    BY <1>8 DEF CloseServer
  <2>2. /\ Len(work') = Len(work) + 1 /\ work'[Len(work) + 1] = Stop
        /\ \A i \in 1..Len(work) : work'[i] = work[i]
    BY <1>0, <2>1, Enqueue
  <2>3. \A i \in 1..Len(work') : work'[i] # Stop => i \in 1..Len(work)
    BY <1>0, <2>2
  <2>4. \A i \in 1..Len(work) : i \in 1..Len(work') /\ \A j \in 1..i : j \in 1..Len(work)
    BY <1>0, <2>2
  <2>5. WaitersAreOwed'
    BY <2>1, <2>2, <2>4 DEF WorkerInv, WaitersAreOwed, requests
  <2>6. \A i \in 1..Len(work') : work'[i] # Stop => http'[work'[i]] \notin {"none", "wire", "refused"}
    BY <2>1, <2>2, <2>3 DEF WorkerInv, requests
  <2> QED
    BY <2>1, <2>5, <2>6 DEF WorkerInv, SignalIsAimed, requests
<1>9. CASE Restart
  <2>1. /\ state' = "live" /\ failing' = FALSE /\ work' = <<>> /\ Len(work') = 0
        /\ current' = None /\ signal' = FALSE /\ abandoned' = abandoned
        /\ http' = [a \in Attempts |-> IF http[a] \in {"waiting", "expired"} THEN "lost" ELSE http[a]]
    BY <1>9, EmptySeq DEF Restart
  <2>2. \A a \in Attempts : http'[a] \notin {"waiting", "expired"}
                            /\ (http'[a] # http[a] => http'[a] = "lost")
    BY <2>1
  <2> QED
    BY <2>1, <2>2 DEF WorkerInv, WaitersAreOwed, SignalIsAimed, TypeOK
<1> QED
  <2>1. ASSUME NEW m \in Mutations, Negotiate(m) \/ Hear(m) \/ GiveUp(m) \/ Reenter(m)
        PROVE  WorkerInv'
    BY <1>1, <2>1 DEF Negotiate, Hear, GiveUp, Reenter, worker
  <2>2. CASE Perform \/ Complete \/ Raise \/ Abort \/ Return \/ Tick \/ UNCHANGED vars
    BY <1>1, <2>2 DEF Perform, Complete, Raise, Abort, Return, Tick, vars, worker
  <2> QED
    BY <2>1, <2>2, <1>2, <1>3, <1>4, <1>5, <1>6, <1>7, <1>8, <1>9 DEF Next

-----------------------------------------------------------------------------
(* The clients and the stack of calls.                                      *)

\* The initial state, every part of the invariant.
LEMMA InitInv ==
    ASSUME Init
    PROVE  IInv
<1>0. /\ MaxTime \in Nat /\ MaxAttempts \in Nat /\ TTL \in Nat \ {0}
      /\ MaxInstances \in Nat \ {0} /\ MaxDepth \in Nat \ {0}
  BY RemoteMutationsAssumption
<1>1. calls = <<>> /\ work = <<>> /\ Len(calls) = 0 /\ Len(work) = 0
      /\ calls \in Seq(Calls) /\ work \in Seq(Attempts \cup {Stop})
  BY EmptySeq DEF Init
<1>2. TypeOK
  <2>1. (calls = <<>>) = (current = None) /\ Len(calls) <= MaxDepth
    BY <1>0, <1>1 DEF Init
  <2>2. /\ ledger \in [Mutations -> Entries \cup {None}] /\ token \in [Mutations -> Tokens \cup {None}]
        /\ applied \in [Mutations -> Nat] /\ tries \in [Mutations -> 0..MaxAttempts]
        /\ now \in 0..MaxTime /\ scope \in 1..MaxInstances
    BY <1>0 DEF Init
  <2> QED
    BY <1>1, <2>1, <2>2 DEF Init, TypeOK
<1>3. WorkerInv
  BY <1>1 DEF Init, WorkerInv, WaitersAreOwed, SignalIsAimed
<1>4. ClientInv /\ StackInv
  BY <1>1 DEF Init, ClientInv, StackInv
<1>5. LedgerInv
  BY DEF Init, LedgerInv, LedgerIsPrunable, Held
<1>6. CallInv
  BY <1>1 DEF CallInv, RunsOnce
<1>7. EffectInv /\ VerdictInv /\ ReplyInv
  <2>1. \A a \in Attempts : a[1] \in Mutations
    BY DEF Attempts
  <2> QED
    BY <1>1, <2>1 DEF Init, EffectInv, VerdictInv, ReplyInv, Untouched
<1> QED
  BY <1>2, <1>3, <1>4, <1>5, <1>6, <1>7 DEF IInv

\* An attempt is the first or a retry, of a mutation nobody is waiting for.
LEMMA AttemptEffect ==
    ASSUME TypeOK, NEW m \in Mutations, Attempt(m)
    PROVE  /\ client[m] \in {"ready", "unknown"} /\ client'[m] = "waiting"
           /\ tries[m] \in 0..MaxAttempts /\ tries[m] < MaxAttempts /\ tries'[m] = tries[m] + 1
           /\ \A n \in Mutations : n # m => client'[n] = client[n] /\ tries'[n] = tries[n]
           /\ token' = token
  BY DEF Attempt, TypeOK

\* A client learns an answer and nothing else.
LEMMA LearnEffect ==
    ASSUME TypeOK, NEW m \in Mutations, NEW r, Learn(m, r)
    PROVE  /\ client'[m] = IF r = "ok" THEN "acked"
                           ELSE IF r = "refused" /\ tries[m] = 1 THEN "refused" ELSE "unknown"
           /\ \A n \in Mutations : n # m => client'[n] = client[n]
  BY DEF Learn, TypeOK

\* Every step keeps what the clients know, and the attempts they have made.
LEMMA ClientStep ==
    ASSUME IInv, [Next]_vars
    PROVE  ClientInv'
<1> USE DEF IInv
<1>0. MaxAttempts \in Nat /\ scope \in Nat /\ \A m \in Mutations : tries[m] \in Nat
  BY RemoteMutationsAssumption DEF TypeOK
<1>1. CASE UNCHANGED <<clients, scope, http>>
  BY <1>1 DEF ClientInv, clients
<1>2. ASSUME NEW m \in Mutations, Negotiate(m)
      PROVE  ClientInv'
  <2>1. \A n \in Mutations : n # m => token'[n] = token[n] /\ client'[n] = client[n]
    BY <1>2 DEF Negotiate, TypeOK
  <2>2. client[m] = "new" /\ client'[m] = "ready" /\ UNCHANGED <<tries, scope, http>>
    BY <1>2 DEF Negotiate, TypeOK, time, requests
  <2>3. PICK t \in {Minted(m)} \cup Offered : token'[m] = t
    BY <1>2 DEF Negotiate, TypeOK
  <2>4. t # None /\ t.scope = scope
    <3>1. CASE t \in Offered
      BY <3>1 DEF Offered
    <3>2. CASE t = Minted(m)
      <4>1. Minted(m) \in Tokens
        BY RemoteMutationsAssumption DEF Minted, Tokens, TypeOK
      <4> QED
        BY <3>2, <4>1, NoneIsNothing DEF Minted
    <3> QED
      BY <2>3, <3>1, <3>2
  <2> QED
    BY <1>0, <2>1, <2>2, <2>3, <2>4 DEF ClientInv
<1>3. ASSUME NEW m \in Mutations, Send(m)
      PROVE  ClientInv'
  <2>1. /\ client[m] \in {"ready", "unknown"} /\ client'[m] = "waiting" /\ tries'[m] = tries[m] + 1
        /\ tries[m] < MaxAttempts /\ UNCHANGED <<token, scope>>
        /\ \A n \in Mutations : n # m => client'[n] = client[n] /\ tries'[n] = tries[n]
    BY <1>3, AttemptEffect DEF Send, time
  <2>2. \A a \in Attempts : a # <<m, tries'[m]>> => http'[a] = http[a]
    BY <1>3 DEF Send, TypeOK
  <2>3. \A a \in Attempts : http'[a] # "none" => a[2] <= tries'[a[1]]
    <3>1. ASSUME NEW a \in Attempts, http'[a] # "none"
          PROVE  a[2] <= tries'[a[1]]
      <4>1. a[1] \in Mutations /\ a[2] \in Nat /\ tries'[a[1]] \in Nat
            /\ tries[a[1]] <= tries'[a[1]]
        BY <1>0, <2>1 DEF Attempts
      <4>2. CASE a = <<m, tries'[m]>>
        BY <4>1, <4>2
      <4>3. CASE http[a] # "none"
        BY <1>0, <4>1, <4>3 DEF ClientInv
      <4> QED
        BY <2>2, <3>1, <4>2, <4>3
    <3> QED
      BY <3>1
  <2>4. \A n \in Mutations : (client'[n] \in {"new", "ready"}) = (tries'[n] = 0)
    BY <1>0, <2>1 DEF ClientInv
  <2> QED
    BY <2>1, <2>3, <2>4 DEF ClientInv
<1>4. ASSUME NEW m \in Mutations, NEW r, Learn(m, r), client[m] = "waiting",
             UNCHANGED <<tries, token, scope, http>>
      PROVE  ClientInv'
  <2>1. client'[m] \in {"acked", "refused", "unknown"}
        /\ \A n \in Mutations : n # m => client'[n] = client[n]
    BY <1>4, LearnEffect
  <2> QED
    BY <1>4, <2>1 DEF ClientInv
<1>5. ASSUME NEW m \in Mutations, Reenter(m)
      PROVE  ClientInv'
  <2>1. UNCHANGED <<scope, http>>
    BY <1>5 DEF Reenter, time, requests
  <2>2. CASE UNCHANGED clients
    BY <1>1, <2>1, <2>2
  <2>3. CASE Attempt(m)
    <3>1. /\ client[m] \in {"ready", "unknown"} /\ client'[m] = "waiting" /\ tries'[m] = tries[m] + 1
          /\ UNCHANGED <<token, scope, http>>
          /\ \A n \in Mutations : n # m => client'[n] = client[n] /\ tries'[n] = tries[n]
      BY <2>1, <2>3, AttemptEffect
    <3>2. \A a \in Attempts : http'[a] # "none" => a[2] <= tries'[a[1]]
      <4>1. \A a \in Attempts : a[1] \in Mutations /\ a[2] \in Nat /\ tries[a[1]] <= tries'[a[1]]
                                /\ tries[a[1]] \in Nat /\ tries'[a[1]] \in Nat
        BY <1>0, <3>1 DEF Attempts
      <4> QED
        BY <3>1, <4>1 DEF ClientInv
    <3>3. \A n \in Mutations : (client'[n] \in {"new", "ready"}) = (tries'[n] = 0)
      BY <1>0, <3>1 DEF ClientInv
    <3> QED
      BY <3>1, <3>2, <3>3 DEF ClientInv
  <2> QED
    BY <1>5, <2>2, <2>3 DEF Reenter
<1>6. CASE Return
  <2>1. calls # <<>> /\ Top.of \in Mutations /\ UNCHANGED <<tries, token, scope, http>>
    BY <1>6, TopIsCall, EmptySeq DEF Return, time, requests
  <2>2. CASE Top.inner
    BY <1>4, <1>6, <2>1, <2>2, TopIsCall DEF Return, StackInv
  <2>3. CASE ~Top.inner
    BY <1>1, <1>6, <2>1, <2>3 DEF Return, clients
  <2> QED
    BY <2>2, <2>3
<1>7. ASSUME UNCHANGED clients, scope' \in {scope, scope + 1},
             \A a \in Attempts : http[a] = "none" => http'[a] = "none"
      PROVE  ClientInv'
  BY <1>0, <1>7 DEF ClientInv, clients, TypeOK, Tokens
<1>8. CASE Serve \/ Perform \/ Complete \/ Raise \/ Abort \/ CloseServer \/ Tick \/ UNCHANGED vars
  BY <1>1, <1>8 DEF Serve, Perform, Complete, Raise, Abort, CloseServer, Tick, vars, time, requests
<1>9. CASE Finish
  <2>1. \A a \in Attempts : http[a] = "none" => http'[a] = "none"
    BY <1>9, TopIsCall, EmptySeq, NoneIsNothing DEF Finish, WorkerInv, TypeOK
  <2> QED
    BY <1>7, <1>9, <2>1 DEF Finish, time
<1>10. CASE FailRunning
  <2>1. \A a \in Attempts : http[a] = "none" => http'[a] = "none"
    BY <1>10 DEF FailRunning
  <2> QED
    BY <1>7, <1>10, <2>1 DEF FailRunning, time
<1>11. CASE Restart
  <2>1. \A a \in Attempts : http[a] = "none" => http'[a] = "none"
    BY <1>11 DEF Restart
  <2> QED
    BY <1>7, <1>11, <2>1 DEF Restart
<1>12. ASSUME NEW a \in Attempts, Receive(a) \/ Expire(a) \/ Interrupt(a)
       PROVE  ClientInv'
  <2>1. \A b \in Attempts : http[b] = "none" => http'[b] = "none"
    BY <1>12 DEF Receive, Expire, Interrupt, TypeOK
  <2> QED
    BY <1>7, <1>12, <2>1 DEF Receive, Expire, Interrupt, time
<1> QED
  <2>1. ASSUME NEW m \in Mutations, Hear(m) \/ GiveUp(m)
        PROVE  ClientInv'
    BY <1>4, <2>1 DEF Hear, GiveUp, time, requests
  <2> QED
    BY <1>2, <1>3, <2>1, <1>5, <1>6, <1>8, <1>9, <1>10, <1>11, <1>12 DEF Next

\* Every step keeps the shape of the stack.
LEMMA StackStep ==
    ASSUME IInv, [Next]_vars
    PROVE  StackInv'
<1> USE DEF IInv
<1>0. /\ calls \in Seq(Calls) /\ Len(calls) \in Nat
      /\ \A m \in Mutations : tries[m] \in Nat
      /\ \A i \in 1..Len(calls) : calls[i] \in Calls /\ calls[i].of \in Mutations
  <2>1. \A i \in 1..Len(calls) : calls[i] \in Calls
    BY ElementOfSeq DEF TypeOK
  <2> QED
    BY <2>1, LenProperties, RemoteMutationsAssumption, SMTT(30) DEF TypeOK, Calls
<1>1. ASSUME UNCHANGED <<calls, current>>,
             \A m \in Mutations : /\ tries[m] > 0 => tries'[m] > 0
                                  /\ m \in Direct /\ client[m] = "waiting" => client'[m] = "waiting"
      PROVE  StackInv'
  BY <1>0, <1>1 DEF StackInv
<1>2. ASSUME NEW m \in Mutations, Negotiate(m)
      PROVE  StackInv'
  <2>1. UNCHANGED <<calls, current, tries>> /\ client[m] = "new"
        /\ \A n \in Mutations : n # m => client'[n] = client[n]
    BY <1>2 DEF Negotiate, TypeOK, gateway, worker
  <2> QED
    BY <1>1, <2>1
<1>3. ASSUME NEW m \in Mutations, Send(m)
      PROVE  StackInv'
  <2>1. /\ m \notin Direct /\ UNCHANGED <<calls, current>>
        /\ \A n \in Mutations : n # m => client'[n] = client[n] /\ tries'[n] = tries[n]
        /\ tries'[m] = tries[m] + 1
    BY <1>3, AttemptEffect DEF Send, gateway, worker
  <2> QED
    BY <1>0, <1>1, <2>1
<1>4. ASSUME NEW m \in Mutations, Hear(m) \/ GiveUp(m)
      PROVE  StackInv'
  <2>1. m \notin Direct /\ \A n \in Mutations : n # m => client'[n] = client[n]
    BY <1>4, LearnEffect DEF Hear, GiveUp
  <2>2. UNCHANGED <<calls, current, tries>>
    BY <1>4 DEF Hear, GiveUp, gateway, worker
  <2> QED
    BY <1>1, <2>1, <2>2
<1>5. ASSUME NEW m \in Mutations, Reenter(m)
      PROVE  StackInv'
  <2>1. calls # <<>> /\ calls[Len(calls)].result = None /\ Len(calls) \in 1..Len(calls)
        /\ UNCHANGED current
    BY <1>5, TopIsCall DEF Reenter, Executing, worker
  <2>2. PICK inner \in BOOLEAN :
            /\ Enter(m, inner)
            /\ \/ inner /\ m \in Direct /\ Attempt(m)
               \/ ~inner /\ UNCHANGED clients /\ \E i \in 1..Len(calls) : calls[i].of = m
    BY <1>5 DEF Reenter
  <2>3. /\ token[m] # None
        /\ tries'[m] > 0
        /\ \A n \in Mutations : tries[n] > 0 => tries'[n] > 0
        /\ \A n \in Mutations : client[n] = "waiting" => client'[n] = "waiting"
        /\ inner => client'[m] = "waiting" /\ client[m] # "waiting"
    <3>1. CASE Attempt(m)
      BY <1>0, <3>1, AttemptEffect, <2>2 DEF ClientInv, clients
    <3>2. CASE ~inner
      BY <1>0, <2>2, <3>2, CallerHasToken DEF StackInv, clients
    <3> QED
      BY <2>2, <3>1, <3>2
  <2>4. PICK c \in Calls : calls' = Append(calls, c) /\ c.of = m /\ c.inner = inner
    BY <2>2, <2>3, EnterEffect
  <2>5. /\ Len(calls') = Len(calls) + 1 /\ calls'[Len(calls) + 1] = c
        /\ \A i \in 1..Len(calls) : calls'[i] = calls[i]
    BY <1>0, <2>4, PushCall
  <2>6. \A i \in 1..Len(calls') : i = Len(calls) + 1 \/ (i \in 1..Len(calls) /\ i # Len(calls) + 1)
    BY <1>0, <2>5
  <2>7. ASSUME NEW i \in 1..Len(calls), i # Len(calls) + 1
        PROVE  /\ tries'[calls'[i].of] > 0
               /\ i < Len(calls') => calls'[i].result = None
               /\ calls'[i].inner => calls'[i].of \in Direct /\ client'[calls'[i].of] = "waiting"
               /\ i = 1 => ~calls'[i].inner /\ calls'[i].of = current'[1]
    <3>1. i < Len(calls) \/ i = Len(calls)
      BY <1>0
    <3> QED
      BY <1>0, <2>1, <2>3, <2>5, <3>1 DEF StackInv
  <2>8. LET i == Len(calls) + 1 IN
               /\ tries'[calls'[i].of] > 0
               /\ ~(i < Len(calls')) /\ i # 1
               /\ calls'[i].inner => calls'[i].of \in Direct /\ client'[calls'[i].of] = "waiting"
    BY <1>0, <2>1, <2>2, <2>3, <2>4, <2>5
  <2>9. \A i \in 1..Len(calls) : ~(calls[i].inner /\ inner /\ calls[i].of = m)
    BY <2>3 DEF StackInv
  <2>10. ASSUME NEW i \in 1..Len(calls'), NEW j \in 1..Len(calls'),
                calls'[i].inner, calls'[j].inner, calls'[i].of = calls'[j].of
         PROVE  i = j
    BY <2>4, <2>5, <2>6, <2>9, <2>10 DEF StackInv
  <2> QED
    BY <2>6, <2>7, <2>8, <2>10 DEF StackInv
<1>6. ASSUME calls # <<>>, calls' \in Seq(Calls), Len(calls') = Len(calls), UNCHANGED <<current, clients>>,
             \A i \in 1..Len(calls) : /\ i # Len(calls) => calls'[i] = calls[i]
                                      /\ calls'[i].of = calls[i].of /\ calls'[i].inner = calls[i].inner
      PROVE  StackInv'
  BY <1>0, <1>6, SMTT(30) DEF StackInv, clients
<1>7. CASE Perform
  <2>1. calls # <<>> /\ UNCHANGED <<current, clients>>
    BY <1>7 DEF Perform, Executing, worker
  <2>2. [Top EXCEPT !.did = TRUE].of = Top.of /\ [Top EXCEPT !.did = TRUE].inner = Top.inner
    BY <2>1, TopIsCall DEF Calls
  <2> QED
    BY <1>6, <1>7, <2>1, <2>2, PerformEffect, TopIsCall
<1>8. CASE Complete \/ Raise \/ Abort
  <2>1. calls # <<>> /\ UNCHANGED <<current, clients>>
    BY <1>8 DEF Complete, Raise, Abort, Executing, worker
  <2>2. PICK r \in {None, "ok", "unknown", "error", "fatal"} : Outcome(r)
    BY <1>8 DEF Complete, Raise, Abort
  <2>3. [Top EXCEPT !.result = r].of = Top.of /\ [Top EXCEPT !.result = r].inner = Top.inner
    BY <2>1, TopIsCall DEF Calls
  <2> QED
    BY <1>6, <2>1, <2>2, <2>3, OutcomeEffect, TopIsCall
<1>9. CASE Return
  <2>1. calls # <<>> /\ Len(calls) > 1 /\ Len(calls) \in 1..Len(calls) /\ Top = calls[Len(calls)]
        /\ Top.of \in Mutations /\ UNCHANGED <<tries, current>>
    BY <1>9, TopIsCall, EmptySeq DEF Return, worker
  <2>2. /\ Len(calls') = Len(calls) - 1
        /\ \A i \in 1..Len(calls') : i \in 1..Len(calls) /\ i # Len(calls) /\ calls'[i] = calls[i]
    BY <1>0, <1>9, <2>1, PopCall DEF Return
  <2>3. \A i \in 1..Len(calls') : calls'[i].inner => client'[calls'[i].of] = client[calls[i].of]
    <3>1. CASE Top.inner
      <4>1. \A i \in 1..Len(calls') : calls[i].inner => calls[i].of # Top.of
        BY <2>1, <2>2, <3>1 DEF StackInv
      <4>2. \A n \in Mutations : n # Top.of => client'[n] = client[n]
        BY <1>9, <2>1, <3>1, LearnEffect DEF Return
      <4> QED
        BY <1>0, <2>2, <4>1, <4>2
    <3>2. CASE ~Top.inner
      BY <1>9, <2>2, <3>2 DEF Return
    <3> QED
      BY <3>1, <3>2
  <2>4. ASSUME NEW i \in 1..Len(calls')
        PROVE  /\ tries'[calls'[i].of] > 0
               /\ i < Len(calls') => calls'[i].result = None
               /\ calls'[i].inner => calls'[i].of \in Direct /\ client'[calls'[i].of] = "waiting"
               /\ i = 1 => ~calls'[i].inner /\ calls'[i].of = current'[1]
    <3>1. i \in 1..Len(calls) /\ calls'[i] = calls[i] /\ (i < Len(calls') => i < Len(calls))
      BY <1>0, <2>2
    <3> QED
      BY <2>1, <2>3, <3>1 DEF StackInv
  <2>5. ASSUME NEW i \in 1..Len(calls'), NEW j \in 1..Len(calls'),
               calls'[i].inner, calls'[j].inner, calls'[i].of = calls'[j].of
        PROVE  i = j
    BY <2>2, <2>5 DEF StackInv
  <2> QED
    BY <2>4, <2>5 DEF StackInv
<1>10. CASE Serve
  <2>1. calls = <<>> /\ Len(calls) = 0 /\ work # <<>> /\ UNCHANGED clients
    BY <1>10, EmptySeq DEF Serve, TypeOK
  <2>2. CASE calls' = calls
    BY <2>1, <2>2 DEF StackInv
  <2>3. CASE Head(work) # Stop /\ current' = Head(work) /\ Enter(Head(work)[1], FALSE)
    <3>1. Head(work)[1] \in Mutations /\ token[Head(work)[1]] # None /\ tries[Head(work)[1]] > 0
      <4>1. work \in Seq(Attempts \cup {Stop})
        BY DEF TypeOK
      <4>2. Head(work) = work[1] /\ 1 \in 1..Len(work)
        BY <2>1, <4>1, Dequeue
      <4> QED
        BY <2>3, <4>2, CallerHasToken
    <3>2. PICK c \in Calls : calls' = Append(calls, c) /\ c.of = Head(work)[1] /\ ~c.inner
      BY <2>3, <3>1, EnterEffect
    <3>3. Len(calls') = 1 /\ calls'[1] = c
      <4>1. Len(calls') = Len(calls) + 1 /\ calls'[Len(calls) + 1] = c
        BY <1>0, <3>2, PushCall
      <4> QED
        BY <2>1, <4>1
    <3>4. \A i \in 1..Len(calls') : i = 1 /\ ~(i < Len(calls')) /\ calls'[i] = c
      BY <3>3
    <3> QED
      BY <2>1, <2>3, <3>1, <3>2, <3>4 DEF StackInv, clients
  <2> QED
    BY <1>10, <2>2, <2>3 DEF Serve
<1>11. CASE Finish \/ Restart
  <2>1. Len(calls') = 0
    BY <1>11, EmptySeq DEF Finish, Restart
  <2> QED
    BY <2>1 DEF StackInv
<1>12. CASE UNCHANGED <<calls, current, clients>>
  BY <1>1, <1>12 DEF clients
<1> QED
  <2>1. ASSUME NEW a \in Attempts, Receive(a) \/ Expire(a) \/ Interrupt(a)
        PROVE  StackInv'
    BY <1>12, <2>1 DEF Receive, Expire, Interrupt, gateway, worker
  <2>2. CASE FailRunning \/ CloseServer \/ Tick \/ UNCHANGED vars
    BY <1>12, <2>2 DEF FailRunning, CloseServer, Tick, vars, gateway, worker
  <2> QED
    BY <1>2, <1>3, <1>4, <1>5, <1>7, <1>8, <1>9, <1>10, <1>11, <2>1, <2>2 DEF Next

-----------------------------------------------------------------------------
(* The ledger.                                                              *)

\* What a call does to the ledger: it keeps every live entry, and it executes
\* only a mutation whose key admits it, under the reservation it then makes.
LEMMA EnterKeeps ==
    ASSUME TypeOK, LedgerInv, NEW m \in Mutations, token[m] # None, NEW inner \in BOOLEAN,
           Enter(m, inner), UNCHANGED time
    PROVE  \E c \in Calls :
              /\ calls' = Append(calls, c)
              /\ c.of = m /\ c.inner = inner /\ ~c.did
              /\ c.result \in {None, "ok", "unknown", "error"}
              /\ c.result = "ok" =>
                   LET e == ledger[token[m].key] IN e # None /\ e.of = m /\ e.answer = "ok"
              /\ c.result = None => ~Spent(m) /\ ledger'[token[m].key] = Reservation(m)
              /\ \A k \in Mutations :
                   /\ ledger[k] # None /\ now < ledger[k].expires => ledger'[k] = ledger[k]
                   /\ ledger'[k] \in {None, ledger[k]}
                      \/ (c.result = None /\ k = token[m].key)
              /\ heap' = {<<ledger'[k].expires, k>> : k \in Held(ledger')}
<1> DEFINE t == token[m]
<1>1. t \in Tokens /\ t.key \in Mutations /\ t.expires \in Nat /\ t.scope \in Nat
  BY RemoteMutationsAssumption, SMTT(30) DEF TypeOK, Tokens
<1>2. PICK c \in Calls :
           /\ calls' = Append(calls, c)
           /\ c.of = m /\ c.inner = inner /\ ~c.did
           /\ c.result \in {None, "ok", "unknown", "error"}
           /\ EnterOutcome(m, c)
  BY EnterEffect
<1> SUFFICES
      /\ c.result = "ok" =>
           LET e == ledger[token[m].key] IN e # None /\ e.of = m /\ e.answer = "ok"
      /\ c.result = None => ~Spent(m) /\ ledger'[token[m].key] = Reservation(m)
      /\ \A k \in Mutations :
           /\ ledger[k] # None /\ now < ledger[k].expires => ledger'[k] = ledger[k]
           /\ ledger'[k] \in {None, ledger[k]}
              \/ (c.result = None /\ k = token[m].key)
      /\ heap' = {<<ledger'[k].expires, k>> : k \in Held(ledger')}
  BY <1>2
<1>3. now \in Nat /\ scope \in Nat /\ ledger' \in [Mutations -> Entries \cup {None}]
  <2>1. ledger' \in [Mutations -> Entries \cup {None}]
    BY EnterType
  <2> QED
    BY <2>1, RemoteMutationsAssumption DEF TypeOK
<1>4. /\ Pruned \in [Mutations -> Entries \cup {None}]
      /\ \A k \in Mutations : Pruned[k] =
            IF ledger[k] # None /\ ledger[k].expires <= now THEN None ELSE ledger[k]
      /\ heap \ Stale = {<<Pruned[k].expires, k>> : k \in Held(Pruned)}
  BY PruneEffect
<1>5. \A k \in Mutations : ledger[k] # None => ledger[k].expires \in Nat
  BY RemoteMutationsAssumption DEF TypeOK, Entries
<1>6. \A k \in Mutations : ledger[k] # None /\ now < ledger[k].expires => Pruned[k] = ledger[k]
  BY <1>3, <1>4, <1>5
<1>7. CASE c.result = "error" /\ UNCHANGED <<ledger, heap>>
  <2>1. c.result # None /\ c.result # "ok"
    BY <1>7, NoneIsNothing
  <2>2. heap' = {<<ledger'[k].expires, k>> : k \in Held(ledger')}
    BY <1>7 DEF LedgerInv, LedgerIsPrunable, Held
  <2>3. \A k \in Mutations : ledger'[k] = ledger[k]
    BY <1>7
  <2> QED
    BY <2>1, <2>2, <2>3
<1>8. CASE /\ c.result # None /\ ledger' = Pruned /\ heap' = heap \ Stale
           /\ c.result = "ok" => LET e == ledger[t.key] IN e # None /\ e.of = m /\ e.answer = "ok"
  <2>1. heap' = {<<ledger'[k].expires, k>> : k \in Held(ledger')}
    BY <1>4, <1>8 DEF Held
  <2>2. \A k \in Mutations : ledger'[k] \in {None, ledger[k]}
    BY <1>4, <1>8
  <2>3. \A k \in Mutations : ledger[k] # None /\ now < ledger[k].expires => ledger'[k] = ledger[k]
    BY <1>6, <1>8
  <2> QED
    BY <1>8, <2>1, <2>2, <2>3
<1>9. CASE /\ c.result = None /\ IsLive(t) /\ Pruned[t.key] = None
           /\ ledger' = [Pruned EXCEPT ![t.key] = Reservation(m)]
           /\ heap' = (heap \ Stale) \cup {<<t.expires, t.key>>}
  <2>1. /\ ledger'[t.key] = Reservation(m) /\ Reservation(m).expires = t.expires
        /\ \A k \in Mutations : k # t.key => ledger'[k] = Pruned[k]
    BY <1>1, <1>4, <1>9 DEF Reservation
  <2>2. Reservation(m) # None
    <3>1. Reservation(m) \in Entries
      BY <1>1 DEF Reservation, Entries, TypeOK, Tokens
    <3> QED
      BY <3>1, NoneIsNothing
  <2>3. \A k \in Mutations : k \in Held(ledger') <=> k = t.key \/ k \in Held(Pruned)
    BY <1>1, <1>9, <2>1, <2>2 DEF Held
  <2>4. heap' = {<<ledger'[k].expires, k>> : k \in Held(ledger')}
    <3>1. Held(ledger') = Held(Pruned) \cup {t.key} /\ t.key \notin Held(Pruned)
      BY <1>1, <1>9, <2>3 DEF Held
    <3>2. \A k \in Held(Pruned) : ledger'[k].expires = Pruned[k].expires
      BY <2>1, <3>1 DEF Held
    <3> QED
      <4>1. {<<ledger'[k].expires, k>> : k \in Held(Pruned)} = heap \ Stale
        BY <1>4, <3>2
      <4>2. {<<ledger'[k].expires, k>> : k \in Held(ledger')}
            = {<<ledger'[k].expires, k>> : k \in Held(Pruned)} \cup {<<ledger'[t.key].expires, t.key>>}
        BY <3>1
      <4> QED
        BY <1>9, <2>1, <4>1, <4>2
  <2>5. ~Spent(m)
    BY <1>1, <1>3, <1>4, <1>9 DEF Spent, IsLive, LedgerInv
  <2>6. \A k \in Mutations : ledger[k] # None /\ now < ledger[k].expires => k # t.key
    BY <1>6, <1>9
  <2>7. \A k \in Mutations :
           /\ ledger[k] # None /\ now < ledger[k].expires => ledger'[k] = ledger[k]
           /\ ledger'[k] \in {None, ledger[k]} \/ k = token[m].key
    BY <1>4, <1>6, <2>1, <2>6
  <2>8. c.result = None /\ c.result # "ok"
    BY <1>9, NoneIsNothing
  <2> QED
    BY <2>1, <2>4, <2>5, <2>7, <2>8
<1> QED
  BY <1>2, <1>7, <1>8, <1>9 DEF EnterOutcome

\* Every step keeps the ledger prunable and its entries those of their makers.
LEMMA LedgerStep ==
    ASSUME IInv, [Next]_vars
    PROVE  LedgerInv'
<1> USE DEF IInv
<1>1. CASE UNCHANGED <<ledger, heap, token>>
  BY <1>1 DEF LedgerInv, LedgerIsPrunable, Held
<1>2. ASSUME NEW m \in Mutations, Negotiate(m)
      PROVE  LedgerInv'
  <2>1. UNCHANGED <<ledger, heap>> /\ client[m] = "new" /\ token[m] = None
        /\ \A n \in Mutations : n # m => token'[n] = token[n]
    BY <1>2 DEF Negotiate, TypeOK, gateway, ClientInv
  <2>2. \A k \in Mutations : ledger[k] # None =>
             ledger[k].of \in Mutations /\ token'[ledger[k].of] = token[ledger[k].of]
    BY <2>1 DEF TypeOK, Entries, LedgerInv
  <2> QED
    BY <2>1, <2>2 DEF LedgerInv, LedgerIsPrunable, Held
<1>3. ASSUME NEW m \in Mutations, token[m] # None, NEW inner \in BOOLEAN, Enter(m, inner),
             UNCHANGED <<time, token>>
      PROVE  LedgerInv'
  <2>1. PICK c \in Calls :
            /\ c.result = None => ledger'[token[m].key] = Reservation(m)
            /\ \A k \in Mutations : ledger'[k] \in {None, ledger[k]}
                                    \/ (c.result = None /\ k = token[m].key)
            /\ heap' = {<<ledger'[k].expires, k>> : k \in Held(ledger')}
    BY <1>3, EnterKeeps
  <2>2. token[m].key \in Mutations
    BY <1>3 DEF TypeOK, Tokens
  <2>3. ASSUME NEW k \in Mutations, ledger'[k] # None
        PROVE  /\ token'[ledger'[k].of] # None
               /\ token'[ledger'[k].of].key = k
               /\ token'[ledger'[k].of].expires = ledger'[k].expires
    <3>1. CASE ledger'[k] = ledger[k]
      BY <1>3, <2>3, <3>1 DEF LedgerInv
    <3>2. CASE k = token[m].key /\ ledger'[k] = Reservation(m)
      BY <1>3, <3>2 DEF Reservation
    <3> QED
      BY <2>1, <2>3, <3>1, <3>2
  <2>4. LedgerIsPrunable'
    BY <2>1 DEF LedgerIsPrunable, Held
  <2> QED
    BY <2>3, <2>4 DEF LedgerInv
<1>4. ASSUME calls # <<>>, NEW answer \in {"ok", "unknown"}, Record(answer), UNCHANGED <<heap, token>>
      PROVE  LedgerInv'
  <2>1. \A k \in Mutations :
                /\ (ledger'[k] = None) = (ledger[k] = None)
                /\ ledger[k] # None =>
                     /\ ledger'[k].of = ledger[k].of
                     /\ ledger'[k].expires = ledger[k].expires
    BY <1>4, RecordEffect
  <2>2. LedgerIsPrunable'
    <3>1. Held(ledger') = Held(ledger)
      BY <2>1 DEF Held
    <3>2. \A k \in Held(ledger) : ledger'[k].expires = ledger[k].expires
      BY <2>1 DEF Held
    <3>3. {<<ledger'[k].expires, k>> : k \in Held(ledger')} = {<<ledger[k].expires, k>> : k \in Held(ledger)}
      BY <3>1, <3>2
    <3> QED
      BY <1>4, <3>3 DEF LedgerInv, LedgerIsPrunable, Held
  <2>3. \A k \in Mutations : ledger'[k] # None =>
             /\ token'[ledger'[k].of] # None
             /\ token'[ledger'[k].of].key = k
             /\ token'[ledger'[k].of].expires = ledger'[k].expires
    BY <1>4, <2>1 DEF LedgerInv
  <2> QED
    BY <2>2, <2>3 DEF LedgerInv
<1>5. ASSUME NEW m \in Mutations, Reenter(m)
      PROVE  LedgerInv'
  <2>1. token[m] # None /\ UNCHANGED <<time, token>>
    <3>1. CASE Attempt(m)
      BY <1>5, <3>1, AttemptEffect DEF Reenter, ClientInv
    <3>2. CASE UNCHANGED clients /\ \E i \in 1..Len(calls) : calls[i].of = m
      BY <1>5, <3>2, CallerHasToken DEF Reenter, clients
    <3> QED
      BY <1>5, <3>1, <3>2 DEF Reenter
  <2>2. PICK inner \in BOOLEAN : Enter(m, inner)
    BY <1>5 DEF Reenter
  <2> QED
    BY <1>3, <2>1, <2>2
<1>6. CASE Serve
  <2>1. work \in Seq(Attempts \cup {Stop}) /\ work # <<>>
    BY <1>6 DEF Serve, TypeOK
  <2>2. Head(work) = work[1] /\ 1 \in 1..Len(work)
    BY <2>1, Dequeue
  <2>3. CASE Head(work) # Stop /\ Enter(Head(work)[1], FALSE)
    <3>1. Head(work)[1] \in Mutations /\ token[Head(work)[1]] # None
      BY <2>2, <2>3, CallerHasToken
    <3> QED
      BY <1>3, <1>6, <2>3, <3>1 DEF Serve, clients
  <2>4. CASE UNCHANGED <<ledger, heap>>
    BY <1>1, <1>6, <2>4 DEF Serve, clients
  <2> QED
    BY <1>6, <2>3, <2>4 DEF Serve
<1>7. CASE Complete \/ Raise
  BY <1>4, <1>7 DEF Complete, Raise, Executing, clients
<1>8. CASE Restart
  BY <1>8 DEF Restart, LedgerInv, LedgerIsPrunable, Held
<1> QED
  <2>1. ASSUME NEW m \in Mutations, Send(m) \/ Hear(m) \/ GiveUp(m)
        PROVE  LedgerInv'
    BY <1>1, <2>1, AttemptEffect DEF Send, Hear, GiveUp, gateway
  <2>2. ASSUME NEW a \in Attempts, Receive(a) \/ Expire(a) \/ Interrupt(a)
        PROVE  LedgerInv'
    BY <1>1, <2>2 DEF Receive, Expire, Interrupt, gateway, clients
  <2>3. CASE Perform \/ Abort \/ Return \/ Finish \/ FailRunning \/ CloseServer \/ Tick \/ UNCHANGED vars
    BY <1>1, <2>3 DEF Perform, Abort, Return, Finish, FailRunning, CloseServer, Tick, vars, gateway, clients
  <2> QED
    BY <1>2, <1>5, <1>6, <1>7, <1>8, <2>1, <2>2, <2>3 DEF Next

\* The request that is served, and the mutation that is called again, have a token.
LEMMA ServeCalls ==
    ASSUME IInv, Serve
    PROVE  /\ calls = <<>> /\ Len(calls) = 0 /\ work # <<>> /\ 1 \in 1..Len(work) /\ Head(work) = work[1]
           /\ UNCHANGED <<time, applied, http, clients>>
           /\ \/ UNCHANGED <<ledger, heap, calls>>
              \/ LET a == Head(work) IN
                 /\ a \in Attempts /\ a[1] \in Mutations \ Direct /\ tries[a[1]] > 0
                 /\ token[a[1]] # None /\ Enter(a[1], FALSE)
<1> USE DEF IInv
<1>1. work \in Seq(Attempts \cup {Stop}) /\ work # <<>> /\ calls = <<>> /\ Len(calls) = 0
  BY EmptySeq DEF Serve, TypeOK
<1>2. Head(work) = work[1] /\ 1 \in 1..Len(work)
  BY <1>1, Dequeue
<1>3. \/ UNCHANGED <<ledger, heap, calls>>
      \/ Head(work) # Stop /\ Enter(Head(work)[1], FALSE)
  BY DEF Serve
<1>4. Head(work) # Stop => LET a == Head(work) IN
         /\ a \in Attempts /\ a[1] \in Mutations \ Direct /\ tries[a[1]] > 0 /\ token[a[1]] # None
  BY <1>2, CallerHasToken
<1>5. UNCHANGED <<time, applied, http, clients>>
  BY DEF Serve, requests
<1> QED
  BY <1>1, <1>2, <1>3, <1>4, <1>5

\* A provider calls back in: a nested call on top of one that is running.
LEMMA ReenterCalls ==
    ASSUME IInv, NEW m \in Mutations, Reenter(m)
    PROVE  /\ calls # <<>> /\ Len(calls) \in 1..Len(calls) /\ Running(Len(calls))
           /\ UNCHANGED <<time, applied, http, token>> /\ token[m] # None
           /\ \A n \in Mutations : n # m => client'[n] = client[n] /\ tries'[n] = tries[n]
           /\ \E inner \in BOOLEAN :
                /\ Enter(m, inner)
                /\ \/ /\ inner /\ m \in Direct /\ tries'[m] = tries[m] + 1
                      /\ client[m] \in {"ready", "unknown"} /\ client'[m] = "waiting"
                   \/ /\ ~inner /\ UNCHANGED clients
                      /\ \E i \in 1..Len(calls) : calls[i].of = m
<1> USE DEF IInv
<1>1. calls # <<>> /\ Len(calls) \in 1..Len(calls) /\ Running(Len(calls))
      /\ UNCHANGED <<time, applied, http>>
  BY TopIsCall DEF Reenter, Executing, Running, requests
<1>2. CASE m \in Direct /\ Attempt(m) /\ Enter(m, TRUE)
  BY <1>1, <1>2, AttemptEffect DEF ClientInv
<1>3. CASE /\ \E i \in 1..Len(calls) : calls[i].of = m
           /\ Enter(m, FALSE) /\ UNCHANGED clients
  BY <1>1, <1>3, CallerHasToken DEF clients
<1> QED
  BY <1>2, <1>3 DEF Reenter

-----------------------------------------------------------------------------
(* Recorded answers, and keys that are spent.                               *)

\* While the gateway runs, an entry survives until its time is over, and so
\* does the answer in it: an execution under way has no answer to overwrite.
LEMMA EntriesStay ==
    ASSUME IInv, [Next]_vars, scope' = scope
    PROVE  \A k \in Mutations : ledger[k] # None /\ now < ledger[k].expires =>
             /\ ledger'[k] # None
             /\ ledger'[k].of = ledger[k].of
             /\ ledger[k].answer = "ok" => ledger'[k].answer = "ok"
<1> USE DEF IInv
<1> DEFINE Stays == \A k \in Mutations : ledger[k] # None /\ now < ledger[k].expires =>
             /\ ledger'[k] # None
             /\ ledger'[k].of = ledger[k].of
             /\ ledger[k].answer = "ok" => ledger'[k].answer = "ok"
<1>1. CASE UNCHANGED ledger
  BY <1>1
<1>2. ASSUME NEW m \in Mutations, token[m] # None, NEW inner \in BOOLEAN, Enter(m, inner), UNCHANGED time
      PROVE  Stays
  BY <1>2, EnterKeeps
<1>3. CASE Serve
  BY <1>1, <1>2, <1>3, ServeCalls
<1>4. ASSUME NEW m \in Mutations, Reenter(m)
      PROVE  Stays
  BY <1>2, <1>4, ReenterCalls
<1>5. CASE Complete \/ Raise
  <2>1. calls # <<>> /\ Top = calls[Len(calls)] /\ Len(calls) \in 1..Len(calls) /\ Running(Len(calls))
        /\ Top.of \in Mutations
    BY <1>5, TopIsCall DEF Complete, Raise, Executing, Running
  <2>2. PICK answer \in {"ok", "unknown"} : Record(answer)
    BY <1>5 DEF Complete, Raise
  <2>3. \A k \in Mutations : ledger[k] # None /\ ledger[k].of = Top.of /\ k = token[Top.of].key
                                => ledger[k].answer = "unknown"
    BY <2>1 DEF CallInv, Counted
  <2> QED
    BY <2>1, <2>2, <2>3, RecordEffect
<1>6. ~Restart
  <2>1. scope \in Nat
    BY RemoteMutationsAssumption DEF TypeOK
  <2> QED
    BY <2>1 DEF Restart
<1> QED
  <2>1. ASSUME NEW m \in Mutations, Negotiate(m) \/ Send(m) \/ Hear(m) \/ GiveUp(m)
        PROVE  UNCHANGED ledger
    BY <2>1 DEF Negotiate, Send, Hear, GiveUp, gateway
  <2>2. ASSUME NEW a \in Attempts, Receive(a) \/ Expire(a) \/ Interrupt(a)
        PROVE  UNCHANGED ledger
    BY <2>2 DEF Receive, Expire, Interrupt, gateway
  <2>3. CASE Perform \/ Abort \/ Return \/ Finish \/ FailRunning \/ CloseServer \/ Tick \/ UNCHANGED vars
    BY <2>3 DEF Perform, Abort, Return, Finish, FailRunning, CloseServer, Tick, vars, gateway
  <2> QED
    BY <1>1, <1>3, <1>4, <1>5, <1>6, <2>1, <2>2, <2>3 DEF Next

\* Time passes and gateways are replaced; a token, once a client has it, stays.
LEMMA TimeStep ==
    ASSUME IInv, [Next]_vars
    PROVE  /\ \/ scope' = scope /\ now' \in {now, now + 1}
              \/ scope' = scope + 1 /\ Restart
           /\ \A m \in Mutations : token[m] # None => token'[m] = token[m]
<1> USE DEF IInv
<1>1. ASSUME NEW m \in Mutations, Negotiate(m)
      PROVE  UNCHANGED time /\ \A n \in Mutations : token[n] # None => token'[n] = token[n]
  BY <1>1 DEF Negotiate, TypeOK, ClientInv
<1>2. ASSUME NEW m \in Mutations, Send(m) \/ Hear(m) \/ GiveUp(m) \/ Reenter(m)
      PROVE  UNCHANGED <<time, token>>
  BY <1>2, AttemptEffect, ReenterCalls DEF Send, Hear, GiveUp
<1>3. ASSUME NEW a \in Attempts, Receive(a) \/ Expire(a) \/ Interrupt(a)
      PROVE  UNCHANGED <<time, token>>
  BY <1>3 DEF Receive, Expire, Interrupt, clients
<1>4. CASE Perform \/ Complete \/ Raise \/ Abort \/ Return \/ Serve \/ Finish \/ FailRunning
           \/ CloseServer \/ UNCHANGED vars
  BY <1>4 DEF Perform, Complete, Raise, Abort, Return, Serve, Finish, FailRunning, CloseServer, vars, time, clients
<1>5. CASE Tick \/ Restart
  BY <1>5 DEF Tick, Restart, clients
<1> QED
  BY <1>1, <1>2, <1>3, <1>4, <1>5 DEF Next, time

\* A key that is spent stays spent.
LEMMA SpentStep ==
    ASSUME IInv, [Next]_vars, NEW m \in Mutations, Spent(m)
    PROVE  Spent(m)'
<1> USE DEF IInv
<1>1. /\ now \in Nat /\ scope \in Nat /\ token[m] # None /\ token'[m] = token[m]
      /\ token[m].scope \in Nat /\ token[m].expires \in Nat /\ token[m].key \in Mutations
  <2>1. now \in Nat /\ scope \in Nat /\ token[m] \in Tokens
    BY RemoteMutationsAssumption DEF TypeOK, Spent
  <2>2. token[m].scope \in Nat /\ token[m].expires \in Nat /\ token[m].key \in Mutations
    BY <2>1, RemoteMutationsAssumption DEF Tokens
  <2> QED
    BY <2>1, <2>2, TimeStep DEF Spent
<1>2. CASE scope' = scope + 1
  BY <1>1, <1>2 DEF Spent, ClientInv
<1>3. CASE scope' = scope /\ now' \in {now, now + 1}
  <2>1. CASE token[m].scope < scope \/ token[m].expires <= now
    BY <1>1, <1>3, <2>1 DEF Spent
  <2>2. CASE ledger[token[m].key] # None /\ ledger[token[m].key].of = m
    BY <1>1, <1>3, <2>2, EntriesStay DEF Spent, LedgerInv
  <2> QED
    BY <2>1, <2>2 DEF Spent
<1> QED
  BY <1>2, <1>3, TimeStep

-----------------------------------------------------------------------------
(* Executions and their effects.                                            *)

\* Every execution below the top is under way, and so is the top of a stack
\* that gets another call or an outcome.
LEMMA CallsSoFar ==
    ASSUME IInv
    PROVE  /\ calls \in Seq(Calls) /\ Len(calls) \in Nat
           /\ \A i \in 1..Len(calls) : /\ calls[i] \in Calls /\ calls[i].of \in Mutations
                                       /\ calls[i].did \in BOOLEAN
                                       /\ token[calls[i].of] # None
                                       /\ token[calls[i].of].key \in Mutations
                                       /\ i # Len(calls) => Running(i)
           /\ \A m \in Mutations : tries[m] \in Nat /\ (tries[m] = 0 => applied[m] = 0 /\ Untouched(m))
<1> USE DEF IInv
<1>1. calls \in Seq(Calls) /\ Len(calls) \in Nat
  BY LenProperties DEF TypeOK
<1>2. ASSUME NEW i \in 1..Len(calls)
      PROVE  /\ calls[i] \in Calls /\ calls[i].of \in Mutations /\ calls[i].did \in BOOLEAN
             /\ token[calls[i].of] # None /\ token[calls[i].of].key \in Mutations
             /\ i # Len(calls) => Running(i)
  <2>1. calls[i] \in Calls
    BY <1>1, ElementOfSeq
  <2>2. calls[i].of \in Mutations /\ calls[i].did \in BOOLEAN
    BY <2>1 DEF Calls
  <2>3. token[calls[i].of] # None
    BY CallerHasToken
  <2>4. token[calls[i].of].key \in Mutations
    BY <2>2, <2>3 DEF TypeOK, Tokens
  <2>5. i # Len(calls) => i < Len(calls)
    BY <1>1
  <2> QED
    BY <2>1, <2>2, <2>3, <2>4, <2>5 DEF StackInv, Running
<1>3. ASSUME NEW m \in Mutations, tries[m] = 0
      PROVE  applied[m] = 0 /\ Untouched(m)
  <2>1. applied[m] = 0
    BY <1>3 DEF EffectInv
  <2>2. \A i \in 1..Len(calls) : calls[i].of # m
    BY <1>3 DEF StackInv
  <2> QED
    BY <2>1, <2>2 DEF Untouched
<1>4. \A m \in Mutations : tries[m] \in Nat
  BY RemoteMutationsAssumption DEF TypeOK
<1> QED
  BY <1>1, <1>2, <1>3, <1>4

\* A call that enters is counted, and those below it stay counted.
LEMMA EnterCounted ==
    ASSUME IInv, [Next]_vars, NEW m \in Mutations, token[m] # None, NEW inner \in BOOLEAN,
           Enter(m, inner), UNCHANGED <<time, applied, token>>,
           calls # <<>> => Running(Len(calls)),
           inner /\ tries'[m] = 1 => tries[m] = 0
    PROVE  CallInv'
<1> USE DEF IInv
<1> DEFINE key == token[m].key
<1>0. PICK n \in Nat : n = Len(calls) + 1
  BY CallsSoFar
<1>1. PICK c \in Calls :
           /\ calls' = Append(calls, c)
           /\ c.of = m /\ c.inner = inner /\ ~c.did
           /\ c.result = "ok" => ledger[key] # None /\ ledger[key].of = m /\ ledger[key].answer = "ok"
           /\ c.result = None => ~Spent(m) /\ ledger'[key] = Reservation(m)
           /\ \A k \in Mutations : \/ ledger'[k] \in {None, ledger[k]}
                                   \/ (c.result = None /\ k = key)
  BY EnterKeeps
<1>2. key \in Mutations /\ key = token'[m].key
  BY DEF TypeOK, Tokens
<1>3. /\ Len(calls') = n /\ n \in 1..Len(calls') /\ calls'[n] = c
      /\ \A i \in 1..Len(calls) : i # n /\ i \in 1..Len(calls') /\ calls'[i] = calls[i]
      /\ \A i \in 1..Len(calls') : i = n \/ i \in 1..Len(calls)
  BY <1>0, <1>1, CallsSoFar, PushCall
<1>4. \A i \in 1..Len(calls) : Running(i)
  BY CallsSoFar, EmptySeq
<1>5. ledger'[key] = Reservation(m) =>
         ledger'[key].of = m /\ ledger'[key].answer = "unknown" /\ ledger'[key] # None
  <2>1. Reservation(m) \in Entries
    BY DEF Reservation, Entries, TypeOK, Tokens
  <2> QED
    BY <2>1, NoneIsNothing DEF Reservation
<1>6. ASSUME NEW i \in 1..Len(calls)
      PROVE  Counted(i)'
  <2> DEFINE o == calls[i].of
             k == token[o].key
  <2>1. /\ o \in Mutations /\ k \in Mutations /\ Spent(o)'
        /\ calls'[i] = calls[i] /\ calls[i].result = None
        /\ applied[o] = (IF calls[i].did THEN 1 ELSE 0)
        /\ ledger[k] # None /\ ledger[k].of = o => ledger[k].answer = "unknown"
    BY <1>3, <1>4, CallsSoFar, SpentStep DEF CallInv, Counted, Running
  <2>2. ledger'[k] # None /\ ledger'[k].of = o => ledger'[k].answer = "unknown"
    BY <1>1, <1>5, <2>1
  <2> QED
    BY <2>1, <2>2, NoneIsNothing DEF Counted, Running
<1>7. Counted(n)'
  <2>0. calls'[n].of = m /\ calls'[n].inner = inner /\ ~calls'[n].did /\ calls'[n].result = c.result
    BY <1>1, <1>3
  <2>1. CASE c.result = None
    <3>1. Spent(m)'
      BY <1>1, <1>2, <1>5, <2>1 DEF Spent
    <3>2. applied[m] = 0
      BY <1>1, <2>1 DEF EffectInv
    <3>3. c.result # "ok" /\ c.result # "error"
      BY <2>1, NoneIsNothing
    <3> QED
      BY <1>1, <1>2, <1>5, <2>0, <2>1, <3>1, <3>2, <3>3 DEF Counted, Running
  <2>2. CASE c.result # None
    <3>1. c.result = "ok" => applied'[m] = 1
      BY <1>1, <1>2 DEF EffectInv
    <3>2. inner /\ tries'[m] = 1 =>
             applied'[m] = 0 /\ \A j \in 1..Len(calls') : calls'[j].of = m => j = n
      BY <1>3, CallsSoFar DEF Untouched
    <3> QED
      BY <2>0, <2>2, <3>1, <3>2 DEF Counted, Running
  <2> QED
    BY <2>1, <2>2
<1>8. RunsOnce'
  <2>1. \A i \in 1..Len(calls) : c.result = None => calls[i].of # m
    BY <1>1, <1>4 DEF CallInv, Counted
  <2> QED
    BY <1>1, <1>3, <1>4, <2>1 DEF CallInv, RunsOnce, Running
<1> QED
  BY <1>3, <1>6, <1>7, <1>8 DEF CallInv

\* An execution that ends leaves those below it as they were.
LEMMA OutcomeCounted ==
    ASSUME IInv, [Next]_vars, calls # <<>>, Running(Len(calls)), NEW r \in {"ok", "unknown", "fatal"},
           Outcome(r), r = "ok" => Top.did,
           UNCHANGED ledger \/ \E answer \in {"ok", "unknown"} : Record(answer),
           UNCHANGED <<applied, clients>>
    PROVE  CallInv'
<1> USE DEF IInv
<1>1. PICK n \in 1..Len(calls) : n = Len(calls)
  BY TopIsCall
<1>2. /\ Top = calls[n] /\ Top.of \in Mutations /\ Top \in Calls /\ Running(n)
      /\ Len(calls') = n /\ r # None /\ r # "error"
      /\ calls'[n].of = Top.of /\ calls'[n].result = r
      /\ \A i \in 1..Len(calls') : i \in 1..Len(calls) /\ (i # n => calls'[i] = calls[i] /\ Running(i))
  <2>1. calls'[n] = [Top EXCEPT !.result = r] /\ Top = calls[n] /\ Top \in Calls
        /\ Len(calls') = n /\ \A i \in 1..Len(calls) : i # n => calls'[i] = calls[i]
    BY <1>1, OutcomeEffect, TopIsCall
  <2>2. [Top EXCEPT !.result = r].of = Top.of /\ [Top EXCEPT !.result = r].result = r /\ Top.of \in Mutations
    BY <2>1 DEF Calls
  <2> QED
    BY <1>1, <2>1, <2>2, CallsSoFar, NoneIsNothing
<1>3. \A i \in 1..Len(calls) : i # n => calls[i].of # Top.of
  BY <1>1, <1>2 DEF CallInv, RunsOnce
<1>4. ASSUME NEW i \in 1..Len(calls'), i # n
      PROVE  Counted(i)'
  <2> DEFINE o == calls[i].of
             k == token[o].key
  <2>1. /\ o \in Mutations /\ k \in Mutations /\ Spent(o)' /\ o # Top.of
        /\ calls'[i] = calls[i] /\ calls[i].result = None
        /\ applied[o] = (IF calls[i].did THEN 1 ELSE 0)
        /\ ledger[k] # None /\ ledger[k].of = o => ledger[k].answer = "unknown"
    <3>1. i \in 1..Len(calls) /\ calls'[i] = calls[i] /\ Running(i) /\ o # Top.of
      BY <1>2, <1>3, <1>4
    <3>2. o \in Mutations /\ k \in Mutations
      BY <3>1, CallsSoFar
    <3>3. Counted(i)
      BY <3>1 DEF CallInv
    <3> QED
      BY <3>1, <3>2, <3>3, SpentStep DEF Counted, Running
  <2>2. ledger'[k] # None /\ ledger'[k].of = o => ledger'[k].answer = "unknown"
    <3>1. CASE UNCHANGED ledger
      BY <2>1, <3>1
    <3>2. CASE \E answer \in {"ok", "unknown"} : Record(answer)
      BY <2>1, <3>2, RecordEffect
    <3> QED
      BY <3>1, <3>2
  <2> QED
    BY <2>1, <2>2, NoneIsNothing DEF Counted, Running, clients
<1>5. Counted(n)'
  <2>1. applied[Top.of] = (IF Top.did THEN 1 ELSE 0)
    BY <1>2 DEF CallInv, Counted
  <2> QED
    BY <1>2, <2>1 DEF Counted, Running
<1>6. RunsOnce'
  BY <1>2 DEF CallInv, RunsOnce, Running
<1> QED
  BY <1>4, <1>5, <1>6 DEF CallInv

\* A change of the space is counted once, by the only execution of its mutation.
LEMMA PerformCounted ==
    ASSUME IInv, [Next]_vars, Perform
    PROVE  /\ CallInv' /\ Top.of \in Mutations /\ applied[Top.of] = 0 /\ applied'[Top.of] = 1
           /\ Spent(Top.of) /\ tries[Top.of] > 0
           /\ \A m \in Mutations : m # Top.of => applied'[m] = applied[m]
           /\ \A m \in Mutations : Untouched(m) => m # Top.of
           /\ UNCHANGED <<time, ledger, http, clients>>
<1> USE DEF IInv
<1>1. calls # <<>> /\ Top.result = None /\ ~Top.did /\ applied' = [applied EXCEPT ![Top.of] = @ + 1]
      /\ UNCHANGED <<time, ledger, http, clients>>
  BY DEF Perform, Executing, requests
<1>2. PICK n \in 1..Len(calls) : n = Len(calls)
  BY <1>1, TopIsCall
<1>3. /\ Top = calls[n] /\ Top.of \in Mutations /\ Running(n)
      /\ Len(calls') = n
      /\ calls'[n].of = Top.of /\ calls'[n].result = None /\ calls'[n].did
      /\ \A i \in 1..Len(calls') : i \in 1..Len(calls) /\ (i # n => calls'[i] = calls[i] /\ Running(i))
  <2>1. calls'[n] = [Top EXCEPT !.did = TRUE] /\ Top = calls[n] /\ Top \in Calls
        /\ Len(calls') = n /\ \A i \in 1..Len(calls) : i # n => calls'[i] = calls[i]
    BY <1>1, <1>2, PerformEffect, TopIsCall
  <2>2. [Top EXCEPT !.did = TRUE].of = Top.of /\ [Top EXCEPT !.did = TRUE].result = Top.result
        /\ [Top EXCEPT !.did = TRUE].did /\ Top.of \in Mutations
    BY <2>1 DEF Calls
  <2> QED
    BY <1>1, <1>2, <2>1, <2>2, CallsSoFar DEF Running
<1>4. \A i \in 1..Len(calls) : i # n => calls[i].of # Top.of
  BY <1>2, <1>3 DEF CallInv, RunsOnce
<1>5. applied[Top.of] = 0 /\ Spent(Top.of) /\ tries[Top.of] > 0
      /\ (LET k == token[Top.of].key IN
          ledger[k] # None /\ ledger[k].of = Top.of => ledger[k].answer = "unknown")
  <2>1. tries[Top.of] > 0
    BY <1>3 DEF StackInv
  <2> QED
    BY <1>1, <1>3, <2>1 DEF CallInv, Counted
<1>6. applied'[Top.of] = 1 /\ \A m \in Mutations : m # Top.of => applied'[m] = applied[m]
  BY <1>1, <1>3, <1>5 DEF TypeOK
<1>7. ASSUME NEW i \in 1..Len(calls'), i # n
      PROVE  Counted(i)'
  <2> DEFINE o == calls[i].of
  <2>1. /\ o \in Mutations /\ Spent(o)' /\ o # Top.of /\ applied'[o] = applied[o]
        /\ calls'[i] = calls[i] /\ calls[i].result = None
        /\ applied[o] = (IF calls[i].did THEN 1 ELSE 0)
        /\ ledger[token[o].key] # None /\ ledger[token[o].key].of = o => ledger[token[o].key].answer = "unknown"
    <3>1. i \in 1..Len(calls) /\ calls'[i] = calls[i] /\ Running(i) /\ o # Top.of
      BY <1>3, <1>4, <1>7
    <3>2. o \in Mutations /\ applied'[o] = applied[o]
      BY <1>6, <3>1, CallsSoFar
    <3>3. Counted(i)
      BY <3>1 DEF CallInv
    <3> QED
      BY <3>1, <3>2, <3>3, SpentStep DEF Counted, Running
  <2> QED
    BY <1>1, <2>1, NoneIsNothing DEF Counted, Running, clients
<1>8. Counted(n)'
  <2>1. PICK o \in Mutations : o = Top.of
    BY <1>3
  <2>2. Spent(o)'
    BY <1>5, <2>1, SpentStep
  <2> QED
    BY <1>1, <1>3, <1>5, <1>6, <2>1, <2>2, NoneIsNothing DEF Counted, Running, clients
<1>9. RunsOnce'
  BY <1>3, <1>4 DEF CallInv, RunsOnce, Running
<1>10. \A m \in Mutations : Untouched(m) => m # Top.of
  BY <1>3 DEF Untouched
<1> QED
  BY <1>1, <1>3, <1>5, <1>6, <1>7, <1>8, <1>9, <1>10 DEF CallInv

\* Every step keeps the account of the calls.
LEMMA CallStep ==
    ASSUME IInv, [Next]_vars
    PROVE  CallInv'
<1> USE DEF IInv
<1>1. ASSUME UNCHANGED <<calls, applied, ledger>>,
             \A m \in Direct : tries'[m] = tries[m]
      PROVE  CallInv'
  <2>1. ASSUME NEW i \in 1..Len(calls)
        PROVE  Counted(i)'
    <3> DEFINE o == calls[i].of
    <3>1. o \in Mutations /\ token'[o] = token[o] /\ (Spent(o) => Spent(o)')
          /\ (calls[i].inner => tries'[o] = tries[o])
      BY <1>1, CallsSoFar, TimeStep, SpentStep DEF StackInv
    <3>2. Counted(i)
      BY DEF CallInv
    <3> QED
      BY <1>1, <3>1, <3>2 DEF Counted, Running
  <2>2. RunsOnce'
    BY <1>1 DEF CallInv, RunsOnce, Running
  <2> QED
    BY <1>1, <2>1, <2>2 DEF CallInv
<1>2. ASSUME NEW m \in Mutations, Negotiate(m) \/ Send(m) \/ Hear(m) \/ GiveUp(m)
      PROVE  CallInv'
  <2>1. \A n \in Mutations : n \in Direct => tries'[n] = tries[n]
    BY <1>2, AttemptEffect DEF Negotiate, Send, Hear, GiveUp
  <2>2. \A n \in Direct : n \in Mutations
    BY RemoteMutationsAssumption
  <2> QED
    BY <1>1, <1>2, <2>1, <2>2 DEF Negotiate, Send, Hear, GiveUp, gateway
<1>3. ASSUME NEW m \in Mutations, Reenter(m)
      PROVE  CallInv'
  <2>1. PICK inner \in BOOLEAN :
             /\ Enter(m, inner)
             /\ inner => tries'[m] = tries[m] + 1
    BY <1>3, ReenterCalls
  <2>2. inner /\ tries'[m] = 1 => tries[m] = 0
    BY <2>1, CallsSoFar
  <2>3. token[m] # None /\ UNCHANGED <<time, applied, token>> /\ Running(Len(calls))
    BY <1>3, ReenterCalls
  <2> QED
    BY <2>1, <2>2, <2>3, EnterCounted
<1>4. CASE Serve
  <2>1. CASE UNCHANGED <<ledger, heap, calls>>
    BY <1>1, <1>4, <2>1, ServeCalls DEF clients
  <2>2. CASE LET a == Head(work) IN
                 a[1] \in Mutations /\ token[a[1]] # None /\ Enter(a[1], FALSE)
    <3>1. UNCHANGED <<time, applied, token>> /\ calls = <<>>
      BY <1>4, ServeCalls DEF clients
    <3> QED
      BY <2>2, <3>1, EnterCounted
  <2> QED
    BY <1>4, <2>1, <2>2, ServeCalls
<1>5. CASE Perform
  BY <1>5, PerformCounted
<1>6. CASE Complete \/ Raise \/ Abort
  <2>1. calls # <<>> /\ Running(Len(calls)) /\ UNCHANGED <<applied, clients>>
    BY <1>6, TopIsCall DEF Complete, Raise, Abort, Executing, Running
  <2>2. CASE Complete
    BY <2>1, <2>2, OutcomeCounted DEF Complete
  <2>3. CASE Raise
    BY <2>1, <2>3, OutcomeCounted DEF Raise
  <2>4. CASE Abort
    BY <2>1, <2>4, OutcomeCounted DEF Abort
  <2> QED
    BY <1>6, <2>2, <2>3, <2>4
<1>7. CASE Return
  <2>1. /\ Len(calls') = Len(calls) - 1 /\ Len(calls) \in Nat
        /\ \A i \in 1..Len(calls') : i \in 1..Len(calls) /\ i # Len(calls) /\ calls'[i] = calls[i]
        /\ UNCHANGED <<time, ledger, applied, tries, token>>
    BY <1>7, CallsSoFar, PopCall DEF Return
  <2>2. ASSUME NEW i \in 1..Len(calls')
        PROVE  Counted(i)'
    <3> DEFINE o == calls[i].of
    <3>1. /\ o \in Mutations /\ Spent(o)' /\ calls'[i] = calls[i] /\ calls[i].result = None
          /\ applied[o] = (IF calls[i].did THEN 1 ELSE 0)
          /\ ledger[token[o].key] # None /\ ledger[token[o].key].of = o => ledger[token[o].key].answer = "unknown"
      BY <2>1, CallsSoFar, SpentStep, ZenonT(60) DEF CallInv, Counted, Running
    <3> QED
      BY <2>1, <3>1, NoneIsNothing DEF Counted, Running
  <2>3. RunsOnce'
    BY <2>1 DEF CallInv, RunsOnce, Running
  <2> QED
    BY <2>2, <2>3 DEF CallInv
<1>8. CASE Finish \/ Restart
  <2>1. Len(calls') = 0
    BY <1>8, EmptySeq DEF Finish, Restart
  <2> QED
    BY <2>1 DEF CallInv, RunsOnce
<1> QED
  <2>1. ASSUME NEW a \in Attempts, Receive(a) \/ Expire(a) \/ Interrupt(a)
        PROVE  CallInv'
    BY <1>1, <2>1 DEF Receive, Expire, Interrupt, gateway, clients
  <2>2. CASE FailRunning \/ CloseServer \/ Tick \/ UNCHANGED vars
    BY <1>1, <2>2 DEF FailRunning, CloseServer, Tick, vars, gateway, clients
  <2> QED
    BY <1>2, <1>3, <1>4, <1>5, <1>6, <1>7, <1>8, <2>1, <2>2 DEF Next

-----------------------------------------------------------------------------
(* Effects, verdicts and responses.                                         *)

\* What a step does to the responses: a refusal stays one, no response
\* becomes one again, and only the end of a request says that it is done.
LEMMA HttpStep ==
    ASSUME IInv, [Next]_vars, NEW a \in Attempts
    PROVE  /\ http[a] = "refused" => http'[a] = "refused"
           /\ http'[a] \in {"none", "wire", "refused"} => http[a] \in {"none", "wire", "refused"}
           /\ http'[a] = "ok" => \/ http[a] = "ok"
                                 \/ Finish /\ a = current /\ Top.result = "ok" /\ Len(calls) = 1
<1> USE DEF IInv
<1>1. CASE UNCHANGED http
  BY <1>1
<1>2. ASSUME NEW m \in Mutations, Send(m)
      PROVE  http'[a] = http[a] \/ (http[a] = "none" /\ http'[a] = "wire")
  <2>1. tries[m] \in Nat /\ tries'[m] = tries[m] + 1
    BY <1>2, AttemptEffect, CallsSoFar DEF Send
  <2>2. CASE a = <<m, tries'[m]>>
    <3>1. ~(a[2] <= tries[a[1]])
      BY <2>1, <2>2
    <3>2. http[a] = "none"
      BY <3>1 DEF ClientInv
    <3> QED
      BY <1>2, <2>2, <3>2 DEF Send, TypeOK
  <2>3. CASE a # <<m, tries'[m]>>
    <3>1. http' = [http EXCEPT ![<<m, tries'[m]>>] = "wire"]
      BY <1>2 DEF Send
    <3> QED
      BY <2>3, <3>1 DEF TypeOK
  <2> QED
    BY <2>2, <2>3
<1>3. ASSUME NEW b \in Attempts, Receive(b) \/ Expire(b) \/ Interrupt(b)
      PROVE  \/ http'[a] = http[a]
             \/ http[a] = "wire" /\ http'[a] \in {"waiting", "refused"}
             \/ http[a] \in {"waiting", "expired"} /\ http'[a] \in {"expired", "unknown"}
  BY <1>3 DEF Receive, Expire, Interrupt, TypeOK
<1>4. CASE FailRunning \/ Restart
  BY <1>4 DEF FailRunning, Restart
<1>5. CASE Finish
  <2>1. current \in Attempts /\ http[current] \notin {"none", "wire", "refused"}
    <3>1. calls # <<>>
      BY <1>5, EmptySeq DEF Finish
    <3>2. current \in Attempts
      BY <3>1, TopIsCall
    <3> QED
      BY <3>2, NoneIsNothing DEF WorkerInv
  <2>2. \/ http' = http
        \/ \E r \in {"ok", "unknown"} :
             http' = [http EXCEPT ![current] = r] /\ (r = "ok" => Top.result = "ok")
    BY <1>5 DEF Finish, ReplyTo
  <2>3. \/ http'[a] = http[a]
        \/ /\ a = current /\ http'[a] \in {"ok", "unknown"}
           /\ http'[a] = "ok" => Top.result = "ok"
    BY <2>1, <2>2 DEF TypeOK
  <2> QED
    BY <1>5, <2>1, <2>3 DEF Finish
<1> QED
  <2>1. ASSUME NEW m \in Mutations, Negotiate(m) \/ Hear(m) \/ GiveUp(m) \/ Reenter(m)
        PROVE  UNCHANGED http
    BY <2>1 DEF Negotiate, Hear, GiveUp, Reenter, requests
  <2>2. CASE Perform \/ Complete \/ Raise \/ Abort \/ Return \/ Serve \/ CloseServer \/ Tick \/ UNCHANGED vars
    BY <1>1, <2>2 DEF Perform, Complete, Raise, Abort, Return, Serve, CloseServer, Tick, vars, requests
  <2> QED
    BY <1>1, <1>2, <1>3, <1>4, <1>5, <2>1, <2>2 DEF Next

\* What a step does to a mutation's client: it tries again unless it knows
\* the answer, and it knows the answer from a response or a nested call.
LEMMA KnowledgeStep ==
    ASSUME IInv, [Next]_vars, NEW m \in Mutations
    PROVE  /\ \/ tries'[m] = tries[m]
              \/ tries'[m] = tries[m] + 1 /\ client'[m] = "waiting" /\ client[m] \in {"ready", "unknown"}
           /\ client[m] = "refused" => tries'[m] = tries[m]
           /\ client'[m] = "refused" =>
                \/ client[m] = "refused"
                \/ /\ tries[m] = 1 /\ tries'[m] = 1
                   /\ \/ Return /\ Top.of = m /\ Top.inner /\ Top.result = "error"
                      \/ /\ m \notin Direct /\ http[<<m, 1>>] = "refused"
                         /\ UNCHANGED <<calls, applied, http>>
           /\ client'[m] = "acked" =>
                \/ client[m] = "acked"
                \/ Return /\ Top.of = m /\ Top.result = "ok"
                \/ m \notin Direct /\ client[m] = "waiting" /\ http[<<m, tries[m]>>] = "ok" /\ UNCHANGED applied
<1> USE DEF IInv
<1>1. CASE UNCHANGED clients
  BY <1>1 DEF clients
<1>2. ASSUME NEW n \in Mutations, Negotiate(n)
      PROVE  tries' = tries /\ (client'[m] = client[m] \/ client'[m] = "ready")
  BY <1>2 DEF Negotiate, TypeOK
<1>3. ASSUME NEW n \in Mutations, Attempt(n)
      PROVE  \/ client'[m] = client[m] /\ tries'[m] = tries[m]
             \/ /\ tries'[m] = tries[m] + 1 /\ client'[m] = "waiting"
                /\ client[m] \in {"ready", "unknown"}
  BY <1>3, AttemptEffect
<1>4. ASSUME NEW n \in Mutations, Hear(n) \/ GiveUp(n)
      PROVE  /\ tries' = tries /\ UNCHANGED <<calls, applied, http>>
             /\ \/ client'[m] = client[m]
                \/ /\ m \notin Direct /\ client[m] = "waiting"
                   /\ client'[m] = "acked" => http[<<m, tries[m]>>] = "ok"
                   /\ client'[m] = "refused" => http[<<m, tries[m]>>] = "refused" /\ tries[m] = 1
  <2>1. tries' = tries /\ UNCHANGED <<calls, applied, http>>
    BY <1>4 DEF Hear, GiveUp, gateway, requests
  <2>2. PICK r : /\ Learn(n, r) /\ n \notin Direct /\ client[n] = "waiting"
                 /\ r \in {"ok", "refused"} => http[<<n, tries[n]>>] = r
    <3>1. CASE Hear(n)
      <4>1. Learn(n, http[<<n, tries[n]>>]) /\ n \notin Direct /\ client[n] = "waiting"
        BY <3>1 DEF Hear
      <4> QED
        BY <4>1
    <3>2. CASE GiveUp(n)
      <4>1. Learn(n, "unknown") /\ n \notin Direct /\ client[n] = "waiting"
        BY <3>2 DEF GiveUp
      <4> QED
        BY <4>1
    <3> QED
      BY <1>4, <3>1, <3>2
  <2> QED
    BY <2>1, <2>2, LearnEffect
<1>5. CASE Return
  <2>1. tries' = tries /\ Top.of \in Mutations
    BY <1>5, TopIsCall, EmptySeq DEF Return
  <2>2. \/ client' = client
        \/ Top.inner /\ Learn(Top.of, IF Top.result = "error" THEN "refused" ELSE Top.result)
    BY <1>5 DEF Return
  <2>3. \/ client'[m] = client[m]
        \/ /\ m = Top.of /\ Top.inner
           /\ client'[m] = "acked" => Top.result = "ok"
           /\ client'[m] = "refused" => tries[m] = 1 /\ Top.result \in {"error", "refused"}
    BY <2>1, <2>2, LearnEffect
  <2>4. Top.result # "refused"
    <3>1. Top \in Calls
      BY <1>5, TopIsCall, EmptySeq DEF Return
    <3>2. Top.result \in {"ok", "unknown", "error", "fatal"}
      BY <1>5, <3>1 DEF Return, Calls
    <3> QED
      BY <3>2
  <2> QED
    BY <1>5, <2>1, <2>3, <2>4
<1> QED
  <2>1. ASSUME NEW n \in Mutations, Send(n) \/ Reenter(n)
        PROVE  Attempt(n) \/ UNCHANGED clients
    BY <2>1 DEF Send, Reenter
  <2>2. ASSUME NEW a \in Attempts, Receive(a) \/ Expire(a) \/ Interrupt(a)
        PROVE  UNCHANGED clients
    BY <2>2 DEF Receive, Expire, Interrupt
  <2>3. CASE Perform \/ Complete \/ Raise \/ Abort \/ Serve \/ Finish \/ FailRunning \/ CloseServer
             \/ Restart \/ Tick \/ UNCHANGED vars
    BY <1>1, <2>3
    DEF Perform, Complete, Raise, Abort, Serve, Finish, FailRunning, CloseServer, Restart, Tick, vars
  <2> QED
    BY <1>1, <1>2, <1>3, <1>4, <1>5, <2>1, <2>2, <2>3 DEF Next

\* A step begins the execution of a mutation only when the worker takes its
\* request or a direct client attempts it.
LEMMA UntouchedStep ==
    ASSUME IInv, [Next]_vars, NEW m \in Mutations, Untouched(m)
    PROVE  \/ Untouched(m)'
           \/ m \in Direct /\ client[m] \in {"ready", "unknown"}
           \/ \E a \in Attempts : /\ a[1] = m /\ a[2] \in Nat \ {0} /\ a[2] <= tries[m] /\ m \notin Direct
                                  /\ http[a] \notin {"none", "wire", "refused"}
<1> USE DEF IInv
<1>1. CASE UNCHANGED <<applied, calls>>
  BY <1>1 DEF Untouched
<1>2. ASSUME NEW n \in Mutations, n # m, token[n] # None, NEW inner \in BOOLEAN, Enter(n, inner),
             UNCHANGED <<time, applied>>
      PROVE  Untouched(m)'
  <2>1. PICK c \in Calls : calls' = Append(calls, c) /\ c.of = n
    BY <1>2, EnterKeeps
  <2>2. \A i \in 1..Len(calls') : calls'[i] = c \/ (i \in 1..Len(calls) /\ calls'[i] = calls[i])
    BY <2>1, CallsSoFar, PushCall
  <2> QED
    BY <1>2, <2>1, <2>2 DEF Untouched
<1>3. ASSUME NEW n \in Mutations, Reenter(n)
      PROVE  Untouched(m)' \/ (m \in Direct /\ client[m] \in {"ready", "unknown"})
  <2>1. CASE n = m
    BY <1>3, <2>1, ReenterCalls DEF Untouched
  <2>2. CASE n # m
    BY <1>2, <1>3, <2>2, ReenterCalls
  <2> QED
    BY <2>1, <2>2
<1>4. CASE Serve
  <2>1. CASE UNCHANGED calls
    BY <1>1, <1>4, <2>1, ServeCalls
  <2>2. CASE LET a == Head(work) IN
                 /\ a \in Attempts /\ a[1] \in Mutations \ Direct /\ tries[a[1]] > 0
                 /\ token[a[1]] # None /\ Enter(a[1], FALSE)
    <3> DEFINE a == Head(work)
    <3>1. CASE a[1] = m
      <4>1. a[2] \in Nat \ {0}
        BY <2>2, RemoteMutationsAssumption DEF Attempts
      <4>2. http[a] \notin {"none", "wire", "refused"}
        BY <1>4, <2>2, ServeCalls, NoneIsNothing DEF WorkerInv
      <4>3. a[2] <= tries[m]
        BY <2>2, <3>1, <4>2 DEF ClientInv
      <4> QED
        BY <2>2, <3>1, <4>1, <4>2, <4>3
    <3>2. CASE a[1] # m
      BY <1>2, <1>4, <2>2, <3>2, ServeCalls
    <3> QED
      BY <3>1, <3>2
  <2> QED
    BY <1>4, <2>1, <2>2, ServeCalls
<1>5. CASE Perform
  <2>1. applied'[m] = 0
    BY <1>5, PerformCounted DEF Untouched
  <2>2. Len(calls') = Len(calls) /\ \A i \in 1..Len(calls) : calls'[i].of = calls[i].of
    <3>1. [Top EXCEPT !.did = TRUE].of = Top.of
      BY <1>5, TopIsCall DEF Perform, Executing, Calls
    <3> QED
      BY <1>5, <3>1, PerformEffect, TopIsCall DEF Perform, Executing
  <2> QED
    BY <2>1, <2>2 DEF Untouched
<1>6. CASE Complete \/ Raise \/ Abort
  <2>1. calls # <<>> /\ UNCHANGED applied
    BY <1>6 DEF Complete, Raise, Abort, Executing
  <2>2. PICK r \in {None, "ok", "unknown", "error", "fatal"} : Outcome(r)
    BY <1>6 DEF Complete, Raise, Abort
  <2>3. Len(calls') = Len(calls) /\ \A i \in 1..Len(calls) : calls'[i].of = calls[i].of
    <3>1. [Top EXCEPT !.result = r].of = Top.of
      BY <2>1, TopIsCall DEF Calls
    <3> QED
      BY <2>1, <2>2, <3>1, OutcomeEffect, TopIsCall
  <2> QED
    BY <2>1, <2>3 DEF Untouched
<1>7. CASE Return
  BY <1>7, CallsSoFar, PopCall DEF Return, Untouched
<1>8. CASE Finish \/ Restart
  <2>1. Len(calls') = 0 /\ UNCHANGED applied
    BY <1>8, EmptySeq DEF Finish, Restart
  <2> QED
    BY <2>1 DEF Untouched
<1> QED
  <2>1. ASSUME NEW n \in Mutations, Negotiate(n) \/ Send(n) \/ Hear(n) \/ GiveUp(n)
        PROVE  UNCHANGED <<applied, calls>>
    BY <2>1 DEF Negotiate, Send, Hear, GiveUp, gateway
  <2>2. ASSUME NEW a \in Attempts, Receive(a) \/ Expire(a) \/ Interrupt(a)
        PROVE  UNCHANGED <<applied, calls>>
    BY <2>2 DEF Receive, Expire, Interrupt, gateway
  <2>3. CASE FailRunning \/ CloseServer \/ Tick \/ UNCHANGED vars
    BY <1>1, <2>3 DEF FailRunning, CloseServer, Tick, vars, gateway
  <2> QED
    BY <1>1, <1>3, <1>4, <1>5, <1>6, <1>7, <1>8, <2>1, <2>2, <2>3 DEF Next

\* Only a performed change is counted, and it is the first.
LEMMA AppliedStep ==
    ASSUME IInv, [Next]_vars
    PROVE  \/ UNCHANGED applied
           \/ /\ Perform /\ Top.of \in Mutations /\ applied[Top.of] = 0 /\ applied'[Top.of] = 1
              /\ \A m \in Mutations : m # Top.of => applied'[m] = applied[m]
<1>1. CASE Perform
  BY <1>1, PerformCounted
<1>2. ASSUME NEW m \in Mutations, Negotiate(m) \/ Send(m) \/ Hear(m) \/ GiveUp(m) \/ Reenter(m)
      PROVE  UNCHANGED applied
  BY <1>2 DEF Negotiate, Send, Hear, GiveUp, Reenter, gateway
<1>3. ASSUME NEW a \in Attempts, Receive(a) \/ Expire(a) \/ Interrupt(a)
      PROVE  UNCHANGED applied
  BY <1>3 DEF Receive, Expire, Interrupt, gateway
<1>4. CASE Complete \/ Raise \/ Abort \/ Return \/ Serve \/ Finish \/ FailRunning \/ CloseServer
           \/ Restart \/ Tick \/ UNCHANGED vars
  BY <1>4 DEF Complete, Raise, Abort, Return, Serve, Finish, FailRunning, CloseServer, Restart, Tick,
              vars, gateway
<1> QED
  BY <1>1, <1>2, <1>3, <1>4 DEF Next

\* Every step keeps what is counted, recorded, known and told in agreement.
LEMMA EffectStep ==
    ASSUME IInv, [Next]_vars
    PROVE  EffectInv'
<1> USE DEF IInv
<1>1. ASSUME NEW m \in Mutations
      PROVE  applied'[m] \in {0, 1} /\ (applied'[m] = 1 => Spent(m)' /\ tries'[m] > 0)
  <2>1. tries[m] > 0 => tries'[m] > 0
    <3>1. tries'[m] = tries[m] \/ tries'[m] = tries[m] + 1
      BY KnowledgeStep
    <3> QED
      BY <3>1, CallsSoFar
  <2>2. CASE applied'[m] = applied[m]
    BY <2>1, <2>2, SpentStep DEF EffectInv
  <2>3. CASE applied'[m] # applied[m]
    <3>1. Perform /\ m = Top.of
      BY <2>3, AppliedStep
    <3>2. applied'[m] = 1 /\ Spent(m) /\ tries[m] > 0
      BY <3>1, PerformCounted
    <3> QED
      BY <2>1, <3>2, SpentStep
  <2> QED
    BY <2>2, <2>3
<1>2. \A m \in Mutations : applied[m] = 1 => applied'[m] = 1
  BY AppliedStep
<1>3. \A k \in Mutations : ledger[k] # None => ledger[k].of \in Mutations
  BY DEF TypeOK, Entries
<1> DEFINE True == \A k \in Mutations : ledger'[k] # None /\ ledger'[k].answer = "ok" => applied'[ledger'[k].of] = 1
<1>4. ASSUME \A k \in Mutations : ledger'[k] \in {None, ledger[k]} \/ ledger'[k].answer = "unknown"
      PROVE  True
  BY <1>2, <1>3, <1>4 DEF EffectInv
<1>5. ASSUME NEW m \in Mutations, token[m] # None, NEW inner \in BOOLEAN, Enter(m, inner), UNCHANGED time
      PROVE  True
  <2>1. PICK c \in Calls :
            /\ c.result = None => ledger'[token[m].key] = Reservation(m)
            /\ \A k \in Mutations : ledger'[k] \in {None, ledger[k]}
                                    \/ (c.result = None /\ k = token[m].key)
    BY <1>5, EnterKeeps
  <2> QED
    BY <1>4, <2>1 DEF Reservation
<1>6. ASSUME NEW m \in Mutations, Reenter(m)
      PROVE  True
  BY <1>5, <1>6, ReenterCalls
<1>7. ASSUME Serve
      PROVE  True
  <2>1. CASE UNCHANGED ledger
    BY <1>4, <2>1
  <2> QED
    BY <1>5, <1>7, <2>1, ServeCalls
<1>8. ASSUME Complete \/ Raise
      PROVE  True
  <2>1. calls # <<>> /\ Len(calls) \in 1..Len(calls) /\ Running(Len(calls)) /\ Top = calls[Len(calls)]
        /\ Top.of \in Mutations
    BY <1>8, TopIsCall DEF Complete, Raise, Executing, Running
  <2>2. Complete => applied[Top.of] = 1
    BY <2>1 DEF CallInv, Counted, Complete
  <2>3. PICK answer \in {"ok", "unknown"} : Record(answer) /\ (answer = "ok" => Complete)
    BY <1>8 DEF Complete, Raise
  <2>4. \A k \in Mutations :
                /\ (ledger'[k] = None) = (ledger[k] = None)
                /\ ledger[k] # None =>
                     /\ ledger'[k].of = ledger[k].of
                     /\ \/ ledger'[k] = ledger[k]
                        \/ ledger[k].of = Top.of /\ ledger'[k].answer = answer
    BY <2>1, <2>3, RecordEffect
  <2> QED
    BY <1>2, <1>3, <2>1, <2>2, <2>3, <2>4 DEF EffectInv
<1>9. ASSUME Restart
      PROVE  True
  BY <1>9 DEF Restart
<1>10. ASSUME UNCHANGED ledger
      PROVE  True
  BY <1>4, <1>10
<1>11. True
  <2>1. ASSUME NEW m \in Mutations, Negotiate(m) \/ Send(m) \/ Hear(m) \/ GiveUp(m)
        PROVE  UNCHANGED ledger
    BY <2>1 DEF Negotiate, Send, Hear, GiveUp, gateway
  <2>2. ASSUME NEW a \in Attempts, Receive(a) \/ Expire(a) \/ Interrupt(a)
        PROVE  UNCHANGED ledger
    BY <2>2 DEF Receive, Expire, Interrupt, gateway
  <2>3. ASSUME Perform \/ Abort \/ Return \/ Finish \/ FailRunning \/ CloseServer \/ Tick \/ UNCHANGED vars
        PROVE  UNCHANGED ledger
    BY <2>3 DEF Perform, Abort, Return, Finish, FailRunning, CloseServer, Tick, vars, gateway
  <2> QED
    BY <1>6, <1>7, <1>8, <1>9, <1>10, <2>1, <2>2, <2>3 DEF Next
<1> QED
  BY <1>1, <1>11 DEF EffectInv

\* Every step keeps what the clients' verdicts say about the effects.
LEMMA VerdictStep ==
    ASSUME IInv, [Next]_vars
    PROVE  VerdictInv'
<1> USE DEF IInv
<1>1. ASSUME NEW m \in Mutations, client'[m] = "acked"
      PROVE  applied'[m] = 1
  <2>1. applied[m] = 1 => applied'[m] = 1
    BY AppliedStep
  <2>2. CASE client[m] = "acked"
    BY <2>1, <2>2 DEF VerdictInv
  <2>3. CASE Return /\ Top.of = m /\ Top.result = "ok"
    <3>1. calls # <<>>
      BY <2>3, EmptySeq DEF Return
    <3>2. Counted(Len(calls)) /\ Top = calls[Len(calls)]
      BY <3>1, TopIsCall DEF CallInv
    <3> QED
      BY <2>1, <2>3, <3>2 DEF Counted
  <2>4. CASE m \notin Direct /\ client[m] = "waiting" /\ http[<<m, tries[m]>>] = "ok"
    <3>1. tries[m] \in 1..MaxAttempts
      <4>1. tries[m] # 0
        BY <2>4 DEF ClientInv
      <4> QED
        BY <4>1, RemoteMutationsAssumption DEF TypeOK
    <3>2. <<m, tries[m]>> \in Attempts
      BY <2>4, <3>1 DEF Attempts
    <3>3. applied[<<m, tries[m]>>[1]] = 1
      BY <2>4, <3>2 DEF ReplyInv
    <3> QED
      BY <2>1, <3>3
  <2> QED
    BY <1>1, <2>2, <2>3, <2>4, KnowledgeStep
<1>2. ASSUME NEW m \in Mutations, m \notin Direct, tries[m] = 1
      PROVE  <<m, 1>> \in Attempts
  BY <1>2, RemoteMutationsAssumption DEF Attempts, TypeOK
<1>3. ASSUME NEW m \in Mutations, client'[m] = "refused"
      PROVE  tries'[m] = 1 /\ Untouched(m)' /\ (m \notin Direct => http'[<<m, 1>>] = "refused")
  <2>1. CASE client[m] = "refused"
    <3>1. tries[m] = 1 /\ Untouched(m) /\ (m \notin Direct => http[<<m, 1>>] = "refused")
      BY <2>1 DEF VerdictInv
    <3>2. tries'[m] = 1
      BY <2>1, <3>1, KnowledgeStep
    <3>3. m \notin Direct => http'[<<m, 1>>] = "refused"
      BY <1>2, <3>1, HttpStep
    <3>4. ~ \E a \in Attempts : /\ a[1] = m /\ a[2] \in Nat \ {0} /\ a[2] <= tries[m] /\ m \notin Direct
                                /\ http[a] \notin {"none", "wire", "refused"}
      <4>1. \A a \in Attempts : a[1] = m /\ a[2] \in Nat \ {0} /\ a[2] <= tries[m] => a = <<m, 1>>
        BY <3>1 DEF Attempts
      <4> QED
        BY <3>1, <4>1
    <3> QED
      BY <2>1, <3>1, <3>2, <3>3, <3>4, UntouchedStep
  <2>2. CASE /\ tries[m] = 1 /\ tries'[m] = 1
             /\ Return /\ Top.of = m /\ Top.inner /\ Top.result = "error"
    <3>1. calls # <<>>
      BY <2>2, EmptySeq DEF Return
    <3>2. Top = calls[Len(calls)] /\ Len(calls) \in 1..Len(calls)
      BY <3>1, TopIsCall
    <3>3. m \in Direct
      BY <2>2, <3>2 DEF StackInv
    <3>4. applied[m] = 0 /\ \A j \in 1..Len(calls) : calls[j].of = m => j = Len(calls)
      BY <2>2, <3>2 DEF CallInv, Counted
    <3>5. /\ \A i \in 1..Len(calls') : i \in 1..Len(calls) /\ i # Len(calls) /\ calls'[i] = calls[i]
          /\ UNCHANGED applied
      BY <2>2, CallsSoFar, PopCall DEF Return
    <3>6. Untouched(m)'
      BY <3>4, <3>5 DEF Untouched
    <3> QED
      BY <2>2, <3>3, <3>6
  <2>3. CASE /\ tries[m] = 1 /\ tries'[m] = 1
             /\ m \notin Direct /\ http[<<m, 1>>] = "refused" /\ UNCHANGED <<calls, applied, http>>
    <3>1. <<m, 1>> \in Attempts /\ <<m, 1>>[1] = m /\ <<m, 1>>[2] = 1
      BY <1>2, <2>3
    <3>2. Untouched(m)
      BY <2>3, <3>1 DEF ReplyInv
    <3>3. Untouched(m)'
      BY <2>3, <3>2 DEF Untouched
    <3> QED
      BY <2>3, <3>3
  <2> QED
    BY <1>3, <2>1, <2>2, <2>3, KnowledgeStep
<1> QED
  BY <1>1, <1>3 DEF VerdictInv

\* Every step keeps what the answers on the wire say about the effects.
LEMMA ReplyStep ==
    ASSUME IInv, [Next]_vars
    PROVE  ReplyInv'
<1> USE DEF IInv
<1>1. ASSUME NEW a \in Attempts, http'[a] = "ok"
      PROVE  applied'[a[1]] = 1
  <2>1. a[1] \in Mutations /\ (applied[a[1]] = 1 => applied'[a[1]] = 1)
    BY AppliedStep DEF Attempts
  <2>2. CASE http[a] = "ok"
    BY <2>1, <2>2 DEF ReplyInv
  <2>3. CASE Finish /\ a = current /\ Top.result = "ok" /\ Len(calls) = 1
    <3>1. 1 \in 1..Len(calls) /\ Top = calls[1]
      BY <2>3 DEF Top
    <3>2. Counted(1) /\ calls[1].of = a[1]
      BY <2>3, <3>1 DEF CallInv, StackInv
    <3> QED
      BY <2>1, <2>3, <3>1, <3>2 DEF Counted
  <2> QED
    BY <1>1, <2>2, <2>3, HttpStep
<1>2. ASSUME NEW a \in Attempts, a[2] = 1, tries'[a[1]] = 1, http'[a] \in {"none", "wire", "refused"}
      PROVE  Untouched(a[1])'
  <2>1. PICK m \in Mutations : m = a[1] /\ m \notin Direct /\ a = <<m, 1>>
    BY <1>2 DEF Attempts
  <2>2. http[a] \in {"none", "wire", "refused"}
    BY <1>2, HttpStep
  <2>3. tries[m] \in {0, 1}
    <3>1. tries'[m] = tries[m] \/ tries'[m] = tries[m] + 1
      BY KnowledgeStep
    <3> QED
      BY <1>2, <2>1, <3>1, CallsSoFar
  <2>4. Untouched(m)
    BY <1>2, <2>1, <2>2, <2>3, CallsSoFar DEF ReplyInv
  <2>5. \A b \in Attempts : b[1] = m /\ b[2] \in Nat \ {0} /\ b[2] <= tries[m] => b = a
    BY <2>1, <2>3 DEF Attempts
  <2> QED
    BY <2>1, <2>2, <2>4, <2>5, UntouchedStep
<1> QED
  BY <1>1, <1>2 DEF ReplyInv

\* The inductive invariant.
THEOREM Inductive == Spec => []IInv
<1>1. Init => IInv
  BY InitInv
<1>2. IInv /\ [Next]_vars => IInv'
  BY TypeStep, WorkerStep, ClientStep, StackStep, LedgerStep, CallStep, EffectStep, VerdictStep,
     ReplyStep DEF IInv
<1> QED
  BY <1>1, <1>2, PTL DEF Spec

-----------------------------------------------------------------------------
(* The refinement of MutationOnce.                                          *)

\* The verdict of the refinement mapping.
V == [m \in Mutations |-> Verdict(m)]

\* A client that attempts a mutation once more knows as much as before.
LEMMA VerdictOfAttempt ==
    ASSUME IInv, NEW n \in Mutations, Attempt(n)
    PROVE  V' = V
<1>1. \A m \in Mutations : m # n => Verdict(m)' = Verdict(m)
  <2>1. \A m \in Mutations : m # n => client'[m] = client[m] /\ tries'[m] = tries[m]
    BY AttemptEffect DEF IInv
  <2> QED
    BY <2>1 DEF Verdict
<1>2. Verdict(n)' = Verdict(n)
  <2>1. /\ client[n] \in {"ready", "unknown"} /\ client'[n] = "waiting"
        /\ tries[n] \in Nat /\ tries'[n] = tries[n] + 1
        /\ (client[n] \in {"new", "ready"}) = (tries[n] = 0)
    BY AttemptEffect, CallsSoFar DEF IInv, ClientInv
  <2>2. CASE client[n] = "ready"
    BY <2>1, <2>2 DEF Verdict
  <2>3. CASE client[n] = "unknown"
    BY <2>1, <2>3 DEF Verdict
  <2> QED
    BY <2>1, <2>2, <2>3
<1> QED
  BY <1>1, <1>2 DEF V

\* A client that learns an answer is acknowledged, is refused, or is in doubt.
LEMMA VerdictOfLearn ==
    ASSUME IInv, IInv', NEW n \in Mutations, NEW r, Learn(n, r), client[n] = "waiting",
           UNCHANGED <<applied, tries>>
    PROVE  [Promise!Next]_(Promise!vars)
<1>1. /\ client'[n] \in {"acked", "refused", "unknown"}
      /\ \A m \in Mutations : m # n => client'[m] = client[m]
  BY LearnEffect DEF IInv
<1>2. V \in [Mutations -> {"open", "doubt", "acked", "refused"}]
  BY DEF V, Verdict, IInv, TypeOK
<1>3. \A m \in Mutations : m # n => Verdict(m)' = Verdict(m)
  BY <1>1 DEF Verdict
<1>4. V' = [V EXCEPT ![n] = Verdict(n)']
  BY <1>3 DEF V
<1>5. V[n] = IF tries[n] <= 1 THEN "open" ELSE "doubt"
  BY DEF V, Verdict
<1>6. CASE client'[n] = "acked"
  <2>1. applied[n] = 1
    BY <1>6 DEF IInv, VerdictInv
  <2>2. Verdict(n)' = "acked"
    BY <1>6 DEF Verdict
  <2>3. Promise!Acknowledge(n)
    BY <1>4, <1>5, <2>1, <2>2 DEF Promise!Acknowledge, V
  <2> QED
    BY <2>3 DEF Promise!Next
<1>7. CASE client'[n] = "refused"
  <2>1. applied[n] = 0 /\ tries[n] = 1
    BY <1>7 DEF IInv, VerdictInv, Untouched
  <2>2. Verdict(n)' = "refused"
    BY <1>7 DEF Verdict
  <2>3. Promise!Refuse(n)
    BY <1>4, <1>5, <2>1, <2>2 DEF Promise!Refuse, V
  <2> QED
    BY <2>3 DEF Promise!Next
<1>8. CASE client'[n] = "unknown"
  <2>1. Verdict(n)' = "doubt"
    BY <1>8 DEF Verdict
  <2>2. CASE V[n] = "open"
    <3>1. Promise!Doubt(n)
      BY <1>4, <2>1, <2>2 DEF Promise!Doubt, V
    <3> QED
      BY <3>1 DEF Promise!Next
  <2>3. CASE V[n] = "doubt"
    <3>1. V' = V
      BY <1>2, <1>4, <2>1, <2>3
    <3> QED
      BY <3>1 DEF Promise!vars, V
  <2> QED
    BY <1>5, <2>2, <2>3
<1> QED
  BY <1>1, <1>6, <1>7, <1>8

\* A change of the space is the one effect of a mutation that is still open.
LEMMA PerformApplies ==
    ASSUME IInv, IInv', [Next]_vars, Perform
    PROVE  [Promise!Next]_(Promise!vars)
<1>1. PICK o \in Mutations : o = Top.of
  BY PerformCounted
<1>2. applied[o] = 0 /\ UNCHANGED <<client, tries>>
  BY <1>1, PerformCounted DEF clients
<1>3. applied' = [applied EXCEPT ![o] = 1]
  <2>1. applied' = [applied EXCEPT ![o] = @ + 1]
    BY <1>1 DEF Perform
  <2> QED
    BY <1>2, <2>1
<1>4. client[o] \notin {"acked", "refused"}
  <2>1. ~Untouched(o)
    BY <1>1, PerformCounted
  <2>2. VerdictInv /\ applied[o] # 1
    BY <1>2 DEF IInv
  <2> QED
    BY <2>1, <2>2 DEF VerdictInv
<1>5. V[o] \in {"open", "doubt"} /\ V' = V
  BY <1>2, <1>4 DEF V, Verdict, IInv, TypeOK
<1>6. Promise!Apply(o)
  BY <1>2, <1>3, <1>5 DEF Promise!Apply, V
<1> QED
  BY <1>6 DEF Promise!Next

\* Every step is one of MutationOnce or does not concern it.
LEMMA PromiseStep ==
    ASSUME IInv, IInv', [Next]_vars
    PROVE  [Promise!Next]_(Promise!vars)
<1>1. ASSUME V' = V, UNCHANGED applied
      PROVE  [Promise!Next]_(Promise!vars)
  BY <1>1 DEF Promise!vars, V
<1>2. ASSUME UNCHANGED <<applied, client, tries>>
      PROVE  [Promise!Next]_(Promise!vars)
  <2>1. V' = V
    BY <1>2 DEF V, Verdict
  <2> QED
    BY <1>1, <1>2, <2>1
<1>3. ASSUME NEW m \in Mutations, Negotiate(m)
      PROVE  [Promise!Next]_(Promise!vars)
  <2>1. UNCHANGED <<applied, tries>> /\ client[m] = "new" /\ client'[m] = "ready"
        /\ \A n \in Mutations : n # m => client'[n] = client[n]
    BY <1>3 DEF Negotiate, gateway, IInv, TypeOK
  <2>2. \A n \in Mutations : Verdict(n)' = Verdict(n)
    BY <2>1 DEF Verdict
  <2> QED
    BY <1>1, <2>1, <2>2 DEF V
<1>4. ASSUME NEW m \in Mutations, Send(m)
      PROVE  [Promise!Next]_(Promise!vars)
  BY <1>1, <1>4, VerdictOfAttempt DEF Send, gateway
<1>5. ASSUME NEW m \in Mutations, Hear(m) \/ GiveUp(m)
      PROVE  [Promise!Next]_(Promise!vars)
  <2>1. PICK r : Learn(m, r)
    BY <1>5 DEF Hear, GiveUp
  <2> QED
    BY <1>5, <2>1, VerdictOfLearn DEF Hear, GiveUp, gateway
<1>6. ASSUME NEW m \in Mutations, Reenter(m)
      PROVE  [Promise!Next]_(Promise!vars)
  <2>1. UNCHANGED applied /\ (Attempt(m) \/ UNCHANGED clients)
    BY <1>6 DEF Reenter
  <2> QED
    BY <1>1, <1>2, <2>1, VerdictOfAttempt DEF clients
<1>7. CASE Perform
  BY <1>7, PerformApplies
<1>8. CASE Return
  <2>1. calls # <<>> /\ UNCHANGED <<applied, tries>>
    BY <1>8, EmptySeq DEF Return
  <2>2. Top = calls[Len(calls)] /\ Len(calls) \in 1..Len(calls) /\ Top.of \in Mutations
    BY <2>1, TopIsCall DEF IInv
  <2>3. CASE Top.inner
    <3>1. client[Top.of] = "waiting"
      BY <2>2, <2>3 DEF IInv, StackInv
    <3>2. PICK o \in Mutations : o = Top.of
      BY <2>2
    <3>3. PICK r : Learn(o, r)
      BY <1>8, <2>3, <3>2 DEF Return
    <3> QED
      BY <2>1, <3>1, <3>2, <3>3, VerdictOfLearn
  <2>4. CASE ~Top.inner
    BY <1>2, <1>8, <2>1, <2>4 DEF Return
  <2> QED
    BY <2>3, <2>4
<1>9. CASE Complete \/ Raise \/ Abort \/ Serve \/ Finish \/ FailRunning \/ CloseServer \/ Restart \/ Tick
           \/ UNCHANGED vars
  BY <1>2, <1>9 DEF Complete, Raise, Abort, Serve, Finish, FailRunning, CloseServer, Restart, Tick,
                    vars, gateway, clients
<1>10. ASSUME NEW a \in Attempts, Receive(a) \/ Expire(a) \/ Interrupt(a)
       PROVE  [Promise!Next]_(Promise!vars)
  BY <1>2, <1>10 DEF Receive, Expire, Interrupt, gateway, clients
<1> QED
  BY <1>3, <1>4, <1>5, <1>6, <1>7, <1>8, <1>9, <1>10 DEF Next

-----------------------------------------------------------------------------
(* The theorems.                                                            *)

\* Every variable keeps its type: _mutate, _RemoteWorker and the clients
\* never leave the states the model describes.
THEOREM TypeCorrect == Spec => []TypeOK
  BY Inductive, PTL DEF IInv

\* The ledger's heap schedules exactly the entries the ledger holds, once each
\* (Gateway._mutate: reservation, pruning, late completion).
THEOREM Prunable == Spec => []LedgerIsPrunable
<1>1. IInv => LedgerIsPrunable
  BY DEF IInv, LedgerInv
<1> QED
  BY <1>1, Inductive, PTL

\* A handler waits only for a request that a live worker still owes an answer
\* (_RemoteWorker.call, stop, _fail_running).
THEOREM Waiters == Spec => []WaitersAreOwed
<1>1. IInv => WaitersAreOwed
  BY DEF IInv, WorkerInv
<1> QED
  BY <1>1, Inductive, PTL

\* An interrupt never outlives the abandoned request it is meant for
\* (_interrupt_if_running, _drain).
THEOREM Signals == Spec => []SignalIsAimed
<1>1. IInv => SignalIsAimed
  BY DEF IInv, WorkerInv
<1> QED
  BY <1>1, Inductive, PTL

\* While a gateway runs, an answer it recorded is what a retry gets until the
\* key expires (Gateway._mutate, OutcomeUnknown.retry).
THEOREM Retained == Spec => AnswersAreRetained
<1>1. IInv /\ [Next]_vars =>
        [\A k \in Mutations :
           scope' = scope /\ ledger[k] # None /\ now < ledger[k].expires
           => /\ ledger'[k] # None
              /\ ledger'[k].of = ledger[k].of
              /\ ledger[k].answer = "ok" => ledger'[k].answer = "ok"]_vars
  BY EntriesStay
<1> QED
  BY <1>1, Inductive, PTL DEF Spec, AnswersAreRetained

\* Through every loss, delay, retry, interrupt and restart a keyed mutation
\* keeps the promise of MutationOnce (Gateway._mutate, OutcomeUnknown).
THEOREM Implements == Spec => AtMostOnce
<1>1. Init => Promise!Init
  BY DEF Init, Promise!Init, Verdict
<1>2. IInv /\ IInv' /\ [Next]_vars => [Promise!Next]_(Promise!vars)
  BY PromiseStep
<1> QED
  BY <1>1, <1>2, Inductive, PTL DEF Spec, AtMostOnce, Promise!Spec

=============================================================================
