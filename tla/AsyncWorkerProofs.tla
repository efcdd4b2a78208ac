-------------------------- MODULE AsyncWorkerProofs --------------------------
(***************************************************************************)
(* Theorems about the engine worker of metta/aio/_worker.py, for any set   *)
(* of connections and requests.                                            *)
(***************************************************************************)
EXTENDS AsyncWorker, SequenceTheorems, TLAPS

\* What _deliver leaves behind is well typed, whoever it settles.
LEMMA SettleTypes ==
    ASSUME RequestTypeOK, NEW R, NEW how \in Futures
    PROVE  /\ FutAfter(R, how) \in [Requests -> Futures]
           /\ ReceiptAfter(R) \in [Requests -> Nat]
           /\ PhaseAfter(R) \in [Requests -> Phases]
  BY DEF RequestTypeOK, FutAfter, ReceiptAfter, PhaseAfter, Phases

\* A coroutine that raised before it had a request.
LEMMA RefuseTypes ==
    ASSUME RequestTypeOK, NEW r, Refuse(r)
    PROVE  phase' \in [Requests -> Phases] /\ fut' \in [Requests -> Futures]
  BY DEF RequestTypeOK, Refuse, Phases, Futures

\* start() in any of the worker's states.
LEMMA StartTypes ==
    ASSUME WorkerTypeOK, RequestTypeOK, NEW r \in Requests, Start(r)
    PROVE  /\ state' \in States
           /\ startup' \in {"none", "pending", "ok", "error"}
           /\ launcher' \in Requests \cup {NoReq}
           /\ phase' \in [Requests -> Phases]
           /\ fut' \in [Requests -> Futures]
<1>1. state' \in States /\ startup' \in {"none", "pending", "ok", "error"}
      /\ launcher' \in Requests \cup {NoReq}
  BY DEF WorkerTypeOK, Start, States
<1>2. phase' \in [Requests -> Phases] /\ fut' \in [Requests -> Futures]
  BY RefuseTypes DEF RequestTypeOK, Start, Phases
<1> QED
  BY <1>1, <1>2

\* The stop marker alone is a queue.
LEMMA StopMarkerType == <<Stop>> \in Seq(Requests \cup {Stop})
  OBVIOUS

\* close_soon() in any of the worker's states.
LEMMA CloseSoonTypes ==
    ASSUME WorkerTypeOK, RequestTypeOK, CloseSoon
    PROVE  /\ state' \in States
           /\ queue' \in Seq(Requests \cup {Stop})
           /\ abandoned' \subseteq Requests
           /\ receipt' \in [Requests -> Nat]
<1>1. state' \in States
  BY DEF WorkerTypeOK, CloseSoon, States
<1>2. queue' \in Seq(Requests \cup {Stop})
  BY StopMarkerType DEF WorkerTypeOK, CloseSoon, LastWord
<1>3. abandoned' \subseteq Requests
  BY DEF RequestTypeOK, CloseSoon, Rejected, Queued
<1>4. receipt' \in [Requests -> Nat]
  BY DEF RequestTypeOK, CloseSoon, ReceiptAfter
<1> QED
  BY <1>1, <1>2, <1>3, <1>4

\* Every reachable state of the worker, its requests and its connections is
\* well typed: _state, _current, the queue and the flags of _worker.py.
THEOREM TypeCorrect == Spec => []TypeOK
<1>1. Init => TypeOK
  BY AsyncWorkerAssumption DEF Init, TypeOK, WorkerTypeOK, RequestTypeOK, ConnTypeOK,
    InterruptTypeOK, States, Places, Phases, Futures, CloserPlaces, Callers
<1>2. TypeOK /\ [Next]_vars => TypeOK'
  <2> SUFFICES ASSUME WorkerTypeOK, RequestTypeOK, ConnTypeOK, InterruptTypeOK, [Next]_vars
               PROVE  TypeOK'
    BY DEF TypeOK
  <2>1. CASE Attach
    <3>1. WorkerTypeOK'
      BY <2>1, StopMarkerType DEF Attach, LastWord, WorkerTypeOK, States, Places,
        requests, conns, interrupts
    <3>2. RequestTypeOK' /\ ConnTypeOK' /\ InterruptTypeOK'
      BY <2>1 DEF Attach, RequestTypeOK, ConnTypeOK, InterruptTypeOK, requests, conns,
        interrupts
    <3> QED
      BY <3>1, <3>2 DEF TypeOK
  <2>2. CASE AttachFails
    <3>1. WorkerTypeOK'
      BY <2>2 DEF AttachFails, WorkerTypeOK, States, Places, requests, conns, interrupts
    <3>2. RequestTypeOK' /\ ConnTypeOK' /\ InterruptTypeOK'
      BY <2>2 DEF AttachFails, RequestTypeOK, ConnTypeOK, InterruptTypeOK, requests,
        conns, interrupts
    <3> QED
      BY <3>1, <3>2 DEF TypeOK
  <2>3. CASE Get
    <3>1. WorkerTypeOK'
      BY <2>3, AsyncWorkerAssumption DEF Get, IsStop, WorkerTypeOK, States, Places,
        conns, interrupts
    <3>2. RequestTypeOK'
      <4>1. fut' = fut /\ abandoned' = abandoned
        BY <2>3 DEF Get
      <4>2. \/ phase' = phase /\ receipt' = receipt
            \/ \E r : /\ receipt' = [receipt EXCEPT ![r] = @ + 1]
                    /\ phase' = [phase EXCEPT ![r] = "done"]
        BY <2>3 DEF Get
      <4> QED
        BY <4>1, <4>2 DEF RequestTypeOK, Phases
    <3>3. ConnTypeOK' /\ InterruptTypeOK'
      BY <2>3 DEF Get, ConnTypeOK, InterruptTypeOK, conns, interrupts
    <3> QED
      BY <3>1, <3>2, <3>3 DEF TypeOK
  <2>4. CASE Dispatch
    <3>1. WorkerTypeOK'
      BY <2>4 DEF Dispatch, WorkerTypeOK, States, Places, conns, interrupts
    <3>2. RequestTypeOK'
      BY <2>4, SettleTypes DEF Dispatch, Deliver, WorkerTypeOK, RequestTypeOK, Phases,
        Futures, conns, interrupts
    <3>3. ConnTypeOK' /\ InterruptTypeOK'
      BY <2>4 DEF Dispatch, ConnTypeOK, InterruptTypeOK, conns, interrupts
    <3> QED
      BY <3>1, <3>2, <3>3 DEF TypeOK
  <2>5. CASE RunEnds
    <3>1. WorkerTypeOK'
      BY <2>5 DEF RunEnds, WorkerTypeOK, States, Places, requests, conns, interrupts
    <3>2. RequestTypeOK' /\ ConnTypeOK' /\ InterruptTypeOK'
      BY <2>5 DEF RunEnds, RequestTypeOK, ConnTypeOK, InterruptTypeOK, requests, conns,
        interrupts
    <3> QED
      BY <3>1, <3>2 DEF TypeOK
  <2>6. CASE Thrown
    <3>1. WorkerTypeOK'
      BY <2>6 DEF Thrown, WorkerTypeOK, States, Places, requests, conns
    <3>2. InterruptTypeOK'
      BY <2>6 DEF Thrown, InterruptTypeOK, Callers, requests, conns
    <3>3. RequestTypeOK' /\ ConnTypeOK'
      BY <2>6 DEF Thrown, RequestTypeOK, ConnTypeOK, requests, conns
    <3> QED
      BY <3>1, <3>2, <3>3 DEF TypeOK
  <2>7. CASE Finish
    <3>1. WorkerTypeOK'
      BY <2>7 DEF Finish, WorkerTypeOK, States, Places, requests, conns
    <3>2. InterruptTypeOK'
      BY <2>7 DEF Finish, Drain, InterruptTypeOK, Callers, requests, conns
    <3>3. RequestTypeOK' /\ ConnTypeOK'
      BY <2>7 DEF Finish, RequestTypeOK, ConnTypeOK, requests, conns
    <3> QED
      BY <3>1, <3>2, <3>3 DEF TypeOK
  <2>8. CASE FinishFails
    <3>1. WorkerTypeOK'
      BY <2>8 DEF FinishFails, WorkerTypeOK, States, Places, requests, conns, interrupts
    <3>2. RequestTypeOK' /\ ConnTypeOK' /\ InterruptTypeOK'
      BY <2>8 DEF FinishFails, RequestTypeOK, ConnTypeOK, InterruptTypeOK, requests,
        conns, interrupts
    <3> QED
      BY <3>1, <3>2 DEF TypeOK
  <2>9. CASE DeliverOutcome
    <3>1. WorkerTypeOK'
      BY <2>9 DEF DeliverOutcome, WorkerTypeOK, States, Places, conns, interrupts
    <3>2. RequestTypeOK'
      BY <2>9, SettleTypes DEF DeliverOutcome, Deliver, WorkerTypeOK, RequestTypeOK,
        Phases, Futures, conns, interrupts
    <3>3. ConnTypeOK' /\ InterruptTypeOK'
      BY <2>9 DEF DeliverOutcome, ConnTypeOK, InterruptTypeOK, conns, interrupts
    <3> QED
      BY <3>1, <3>2, <3>3 DEF TypeOK
  <2>10. CASE FailWorker
    <3>1. WorkerTypeOK'
      BY <2>10 DEF FailWorker, WorkerTypeOK, States, Places, conns, interrupts
    <3>2. RequestTypeOK'
      BY <2>10, SettleTypes DEF FailWorker, Deliver, RequestTypeOK, Phases, Futures,
        conns, interrupts
    <3>3. ConnTypeOK' /\ InterruptTypeOK'
      BY <2>10 DEF FailWorker, ConnTypeOK, InterruptTypeOK, conns, interrupts
    <3> QED
      BY <3>1, <3>2, <3>3 DEF TypeOK
  <2>11. CASE Detach
    <3>1. WorkerTypeOK'
      BY <2>11 DEF Detach, WorkerTypeOK, States, Places, requests, conns, interrupts
    <3>2. RequestTypeOK' /\ ConnTypeOK' /\ InterruptTypeOK'
      BY <2>11 DEF Detach, RequestTypeOK, ConnTypeOK, InterruptTypeOK, requests, conns,
        interrupts
    <3> QED
      BY <3>1, <3>2 DEF TypeOK
  <2>12. CASE Spawn
    <3>1. WorkerTypeOK'
      BY <2>12 DEF Spawn, WorkerTypeOK, States, Places, conns, interrupts
    <3>2. RequestTypeOK'
      BY <2>12, RefuseTypes DEF Spawn, Launching, WorkerTypeOK, RequestTypeOK, Phases,
        Futures, conns, interrupts
    <3>3. ConnTypeOK' /\ InterruptTypeOK'
      BY <2>12 DEF Spawn, ConnTypeOK, InterruptTypeOK, conns, interrupts
    <3> QED
      BY <3>1, <3>2, <3>3 DEF TypeOK
  <2>13. ASSUME NEW r \in Requests, Call(r) PROVE TypeOK'
    <3>1. WorkerTypeOK'
      BY <2>13, StartTypes DEF Call, WorkerTypeOK, States, Places, conns, interrupts
    <3>2. RequestTypeOK'
      BY <2>13, StartTypes, RefuseTypes DEF Call, RequestTypeOK, Phases, Futures, conns,
        interrupts
    <3>3. ConnTypeOK' /\ InterruptTypeOK'
      BY <2>13 DEF Call, ConnTypeOK, InterruptTypeOK, conns, interrupts
    <3> QED
      BY <3>1, <3>2, <3>3 DEF TypeOK
  <2>14. ASSUME NEW r \in Requests, StartupDone(r) PROVE TypeOK'
    <3>1. WorkerTypeOK'
      BY <2>14 DEF StartupDone, WorkerTypeOK, States, Places, conns, interrupts
    <3>2. RequestTypeOK'
      BY <2>14, RefuseTypes DEF StartupDone, RequestTypeOK, Phases, Futures, conns,
        interrupts
    <3>3. ConnTypeOK' /\ InterruptTypeOK'
      BY <2>14 DEF StartupDone, ConnTypeOK, InterruptTypeOK, conns, interrupts
    <3> QED
      BY <3>1, <3>2, <3>3 DEF TypeOK
  <2>15. ASSUME NEW r \in Requests, Admit(r) PROVE TypeOK'
    <3>1. WorkerTypeOK'
      BY <2>15 DEF Admit, WorkerTypeOK, States, Places, conns, interrupts
    <3>2. RequestTypeOK'
      <4>1. abandoned' = abandoned
        BY <2>15 DEF Admit
      <4>2. \/ /\ phase' = [phase EXCEPT ![r] = "sent"]
               /\ fut' = [fut EXCEPT ![r] = "pending"] /\ receipt' = receipt
            \/ Refuse(r) /\ receipt' = [receipt EXCEPT ![r] = 1]
        BY <2>15 DEF Admit
      <4> QED
        BY <4>1, <4>2, RefuseTypes DEF RequestTypeOK, Phases, Futures
    <3>3. ConnTypeOK' /\ InterruptTypeOK'
      BY <2>15 DEF Admit, ConnTypeOK, InterruptTypeOK, conns, interrupts
    <3> QED
      BY <3>1, <3>2, <3>3 DEF TypeOK
  <2>16. ASSUME NEW r \in Requests, CancelStartup(r) PROVE TypeOK'
    <3>1. WorkerTypeOK'
      BY <2>16, CloseSoonTypes DEF CancelStartup, WorkerTypeOK, States, Places, conns,
        interrupts
    <3>2. RequestTypeOK'
      BY <2>16, CloseSoonTypes, SettleTypes DEF CancelStartup, RequestTypeOK, Phases,
        Futures, conns, interrupts
    <3>3. ConnTypeOK' /\ InterruptTypeOK'
      BY <2>16 DEF CancelStartup, ConnTypeOK, InterruptTypeOK, conns, interrupts
    <3> QED
      BY <3>1, <3>2, <3>3 DEF TypeOK
  <2>17. ASSUME NEW r \in Requests, Cancel(r) PROVE TypeOK'
    <3>1. RequestTypeOK'
      BY <2>17, SettleTypes DEF Cancel, RequestTypeOK, Phases, Futures, worker, conns
    <3>2. InterruptTypeOK'
      BY <2>17 DEF Cancel, InterruptTypeOK, Callers, worker, conns
    <3>3. WorkerTypeOK' /\ ConnTypeOK'
      BY <2>17 DEF Cancel, WorkerTypeOK, ConnTypeOK, worker, conns
    <3> QED
      BY <3>1, <3>2, <3>3 DEF TypeOK
  <2>18. ASSUME NEW u \in Users, Interrupt(u) PROVE TypeOK'
    <3>1. InterruptTypeOK'
      BY <2>18 DEF Interrupt, InterruptTypeOK, Callers, worker, requests, conns
    <3>2. WorkerTypeOK' /\ RequestTypeOK' /\ ConnTypeOK'
      BY <2>18 DEF Interrupt, WorkerTypeOK, RequestTypeOK, ConnTypeOK, worker, requests,
        conns
    <3> QED
      BY <3>1, <3>2 DEF TypeOK
  <2>19. ASSUME NEW x \in Callers, ReadEngine(x) PROVE TypeOK'
    <3>1. InterruptTypeOK'
      BY <2>19 DEF ReadEngine, InterruptTypeOK, Callers, worker, requests, conns
    <3>2. WorkerTypeOK' /\ RequestTypeOK' /\ ConnTypeOK'
      BY <2>19 DEF ReadEngine, WorkerTypeOK, RequestTypeOK, ConnTypeOK, worker,
        requests, conns
    <3> QED
      BY <3>1, <3>2 DEF TypeOK
  <2>20. ASSUME NEW x \in Callers, SendSignal(x) PROVE TypeOK'
    <3>1. InterruptTypeOK'
      BY <2>20 DEF SendSignal, Signals, WorkerTypeOK, InterruptTypeOK, Callers, worker,
        requests
    <3>2. ConnTypeOK'
      BY <2>20 DEF SendSignal, ConnTypeOK, CloserPlaces, worker, requests
    <3>3. WorkerTypeOK' /\ RequestTypeOK'
      BY <2>20 DEF SendSignal, WorkerTypeOK, RequestTypeOK, worker, requests
    <3> QED
      BY <3>1, <3>2, <3>3 DEF TypeOK
  <2>21. ASSUME NEW c \in Conns, BeginClose(c) PROVE TypeOK'
    <3>1. ConnTypeOK'
      BY <2>21 DEF BeginClose, ConnTypeOK, CloserPlaces, worker, requests
    <3>2. InterruptTypeOK'
      BY <2>21 DEF BeginClose, InterruptTypeOK, Callers, worker, requests
    <3>3. WorkerTypeOK' /\ RequestTypeOK'
      BY <2>21 DEF BeginClose, WorkerTypeOK, RequestTypeOK, worker, requests
    <3> QED
      BY <3>1, <3>2, <3>3 DEF TypeOK
  <2>22. ASSUME NEW c \in Conns, CloseInterrupted(c) PROVE TypeOK'
    <3>1. ConnTypeOK'
      BY <2>22 DEF CloseInterrupted, ConnTypeOK, CloserPlaces, worker, requests,
        interrupts
    <3>2. WorkerTypeOK' /\ RequestTypeOK' /\ InterruptTypeOK'
      BY <2>22 DEF CloseInterrupted, WorkerTypeOK, RequestTypeOK, InterruptTypeOK,
        worker, requests, interrupts
    <3> QED
      BY <3>1, <3>2 DEF TypeOK
  <2>23. ASSUME NEW c \in Conns, CloseReleased(c) PROVE TypeOK'
    <3>1. ConnTypeOK'
      BY <2>23 DEF CloseReleased, ConnTypeOK, CloserPlaces, worker, requests, interrupts
    <3>2. WorkerTypeOK' /\ RequestTypeOK' /\ InterruptTypeOK'
      BY <2>23 DEF CloseReleased, WorkerTypeOK, RequestTypeOK, InterruptTypeOK, worker,
        requests, interrupts
    <3> QED
      BY <3>1, <3>2 DEF TypeOK
  <2>24. ASSUME NEW c \in Conns, FinishClose(c) PROVE TypeOK'
    <3>1. ConnTypeOK'
      BY <2>24 DEF FinishClose, ConnTypeOK, CloserPlaces, worker, requests, interrupts
    <3>2. WorkerTypeOK' /\ RequestTypeOK' /\ InterruptTypeOK'
      BY <2>24 DEF FinishClose, WorkerTypeOK, RequestTypeOK, InterruptTypeOK, worker,
        requests, interrupts
    <3> QED
      BY <3>1, <3>2 DEF TypeOK
  <2>25. ASSUME NEW c \in Conns, CloseWorker(c) PROVE TypeOK'
    <3>1. WorkerTypeOK'
      BY <2>25, CloseSoonTypes DEF CloseWorker, WorkerTypeOK, States, Places, worker
    <3>2. RequestTypeOK'
      BY <2>25, CloseSoonTypes, SettleTypes DEF CloseWorker, RequestTypeOK, Phases,
        Futures, worker
    <3>3. ConnTypeOK'
      BY <2>25 DEF CloseWorker, ConnTypeOK, CloserPlaces, worker
    <3>4. InterruptTypeOK'
      BY <2>25 DEF CloseWorker, InterruptCall, InterruptTypeOK, Callers, worker
    <3> QED
      BY <3>1, <3>2, <3>3, <3>4 DEF TypeOK
  <2>26. ASSUME NEW c \in Conns, Join(c) PROVE TypeOK'
    <3>1. ConnTypeOK'
      BY <2>26 DEF Join, ConnTypeOK, CloserPlaces, worker, requests, interrupts
    <3>2. WorkerTypeOK' /\ RequestTypeOK' /\ InterruptTypeOK'
      BY <2>26 DEF Join, WorkerTypeOK, RequestTypeOK, InterruptTypeOK, worker, requests,
        interrupts
    <3> QED
      BY <3>1, <3>2 DEF TypeOK
  <2>27. ASSUME NEW c \in Conns, JoinTimeout(c) PROVE TypeOK'
    <3>1. ConnTypeOK'
      BY <2>27 DEF JoinTimeout, ConnTypeOK, CloserPlaces, worker, requests
    <3>2. InterruptTypeOK'
      BY <2>27 DEF JoinTimeout, InterruptTypeOK, Callers, worker, requests
    <3>3. WorkerTypeOK' /\ RequestTypeOK'
      BY <2>27 DEF JoinTimeout, WorkerTypeOK, RequestTypeOK, worker, requests
    <3> QED
      BY <3>1, <3>2, <3>3 DEF TypeOK
  <2>28. CASE LoopCloses
    <3>1. WorkerTypeOK'
      BY <2>28 DEF LoopCloses, WorkerTypeOK, States, Places, worker, requests, conns,
        interrupts
    <3>2. RequestTypeOK' /\ ConnTypeOK' /\ InterruptTypeOK'
      BY <2>28 DEF LoopCloses, RequestTypeOK, ConnTypeOK, InterruptTypeOK, worker,
        requests, conns, interrupts
    <3> QED
      BY <3>1, <3>2 DEF TypeOK
  <2>29. CASE UNCHANGED vars
    BY <2>29 DEF vars, worker, requests, conns, interrupts, TypeOK, WorkerTypeOK,
      RequestTypeOK, ConnTypeOK, InterruptTypeOK
  <2> QED
    BY <2>1, <2>2, <2>3, <2>4, <2>5, <2>6, <2>7, <2>8, <2>9, <2>10, <2>11, <2>12, <2>13,
      <2>14, <2>15, <2>16, <2>17, <2>18, <2>19, <2>20, <2>21, <2>22, <2>23, <2>24,
      <2>25, <2>26, <2>27, <2>28, <2>29 DEF Next, WorkerStep, RequestStep,
      InterruptStep, CloseStep
<1> QED
  BY <1>1, <1>2, PTL DEF Spec

-----------------------------------------------------------------------------
(* Signals.                                                                 *)

\* Once the drain has failed or the stop marker was read, the worker runs no
\* further request: a signal left over has nothing to poison.
Quiet == {"fail", "detach", "dead"}

\* The inductive strengthening of SignalsAimAtCurrent: a request is current
\* exactly while it runs or is being finished, and the interrupted mark that
\* makes repeated stops coalesce is set by every signal still pending.
SignalInv ==
    /\ current # NoReq <=> pc \in {"run", "finish"}
    /\ pc \notin Quiet =>
         \A r \in Requests : signals[r] > 0 =>
            r = current /\ signals[r] = 1 /\ r \in interrupted

\* A thread_signal never reaches a request it was not aimed at: while the
\* worker serves, what is pending is one signal for the current request, and
\* the drain inside _transition leaves none for the next.
THEOREM SignalsAimed == Spec => []SignalsAimAtCurrent
<1>1. Init => SignalInv
  BY DEF Init, SignalInv
<1>2. TypeOK /\ SignalInv /\ [Next]_vars => SignalInv'
  <2> SUFFICES ASSUME WorkerTypeOK, InterruptTypeOK, SignalInv, [Next]_vars PROVE SignalInv'
    BY DEF TypeOK
  <2>1. CASE Attach
    BY <2>1 DEF Attach, requests, conns, interrupts, SignalInv, Quiet
  <2>2. CASE AttachFails
    BY <2>2 DEF AttachFails, requests, conns, interrupts, SignalInv, Quiet
  <2>3. CASE Get
    BY <2>3 DEF Get, conns, interrupts, SignalInv, Quiet
  <2>4. CASE Dispatch
    BY <2>4, AsyncWorkerAssumption DEF Dispatch, conns, interrupts, SignalInv, Quiet,
      WorkerTypeOK
  <2>5. CASE RunEnds
    BY <2>5 DEF RunEnds, requests, conns, interrupts, SignalInv, Quiet
  <2>6. CASE Thrown
    <3>1. PICK r \in Requests : signals[r] > 0 /\ signals' = [signals EXCEPT ![r] = @ - 1]
      BY <2>6 DEF Thrown
    <3>2. \A s \in Requests : signals'[s] > 0 => signals[s] > 0 /\ signals'[s] <= signals[s]
      BY <3>1 DEF InterruptTypeOK
    <3> QED
      BY <2>6, <3>2 DEF Thrown, SignalInv, Quiet, InterruptTypeOK
  <2>7. CASE Finish
    <3>1. \A s \in Requests : signals'[s] = 0
      <4>1. CASE \E r \in Requests : signals[r] > 0
        <5>1. PICK r \in Requests : signals[r] > 0 /\ signals' = [signals EXCEPT ![r] = @ - 1]
          BY <2>7, <4>1 DEF Finish, Drain
        <5>2. \A s \in Requests : signals[s] > 0 => s = r /\ signals[s] = 1
          BY <2>7, <5>1 DEF Finish, SignalInv, Quiet
        <5> QED
          BY <5>1, <5>2 DEF InterruptTypeOK
      <4>2. CASE ~\E r \in Requests : signals[r] > 0
        BY <2>7, <4>2 DEF Finish, Drain, InterruptTypeOK
      <4> QED
        BY <4>1, <4>2
    <3> QED
      BY <2>7, <3>1 DEF Finish, SignalInv, Quiet
  <2>8. CASE FinishFails
    BY <2>8 DEF FinishFails, requests, conns, interrupts, SignalInv, Quiet
  <2>9. CASE DeliverOutcome
    BY <2>9 DEF DeliverOutcome, conns, interrupts, SignalInv, Quiet
  <2>10. CASE FailWorker
    BY <2>10 DEF FailWorker, conns, interrupts, SignalInv, Quiet
  <2>11. CASE Detach
    BY <2>11 DEF Detach, requests, conns, interrupts, SignalInv, Quiet
  <2>12. CASE Spawn
    BY <2>12 DEF Spawn, conns, interrupts, SignalInv, Quiet, Launching
  <2>13. ASSUME NEW r \in Requests, Call(r) PROVE SignalInv'
    BY <2>13 DEF Call, conns, interrupts, SignalInv, Quiet
  <2>14. ASSUME NEW r \in Requests, StartupDone(r) PROVE SignalInv'
    BY <2>14 DEF StartupDone, conns, interrupts, SignalInv, Quiet
  <2>15. ASSUME NEW r \in Requests, Admit(r) PROVE SignalInv'
    BY <2>15 DEF Admit, conns, interrupts, SignalInv, Quiet
  <2>16. ASSUME NEW r \in Requests, CancelStartup(r) PROVE SignalInv'
    BY <2>16 DEF CancelStartup, conns, interrupts, SignalInv, Quiet
  <2>17. ASSUME NEW r \in Requests, Cancel(r) PROVE SignalInv'
    BY <2>17 DEF Cancel, worker, conns, SignalInv, Quiet
  <2>18. ASSUME NEW u \in Users, Interrupt(u) PROVE SignalInv'
    BY <2>18 DEF Interrupt, worker, requests, conns, SignalInv, Quiet
  <2>19. ASSUME NEW x \in Callers, ReadEngine(x) PROVE SignalInv'
    BY <2>19 DEF ReadEngine, worker, requests, conns, SignalInv, Quiet
  <2>20. ASSUME NEW x \in Callers, SendSignal(x) PROVE SignalInv'
    <3>1. CASE Signals(x) /\ call[x] = "engine"
      <4>1. /\ signals' = [signals EXCEPT ![current] = @ + 1]
            /\ interrupted' = interrupted \cup {current}
            /\ UNCHANGED <<pc, current>>
        BY <2>20, <3>1 DEF SendSignal, worker
      <4>2. current \in Requests /\ current \notin interrupted
        BY <3>1 DEF Signals, WorkerTypeOK
      <4>3. pc \notin Quiet /\ signals[current] = 0
        BY <4>2, AsyncWorkerAssumption DEF SignalInv, Quiet, InterruptTypeOK
      <4> QED
        BY <4>1, <4>2, <4>3 DEF SignalInv, InterruptTypeOK
    <3>2. CASE ~(Signals(x) /\ call[x] = "engine")
      BY <2>20, <3>2 DEF SendSignal, SignalInv, worker
    <3> QED
      BY <3>1, <3>2
  <2>21. ASSUME NEW c \in Conns, BeginClose(c) PROVE SignalInv'
    BY <2>21 DEF BeginClose, worker, requests, SignalInv, Quiet
  <2>22. ASSUME NEW c \in Conns, CloseInterrupted(c) PROVE SignalInv'
    BY <2>22 DEF CloseInterrupted, worker, requests, interrupts, SignalInv, Quiet
  <2>23. ASSUME NEW c \in Conns, CloseReleased(c) PROVE SignalInv'
    BY <2>23 DEF CloseReleased, worker, requests, interrupts, SignalInv, Quiet
  <2>24. ASSUME NEW c \in Conns, FinishClose(c) PROVE SignalInv'
    BY <2>24 DEF FinishClose, worker, requests, interrupts, SignalInv, Quiet
  <2>25. ASSUME NEW c \in Conns, CloseWorker(c) PROVE SignalInv'
    BY <2>25 DEF CloseWorker, worker, SignalInv, Quiet
  <2>26. ASSUME NEW c \in Conns, Join(c) PROVE SignalInv'
    BY <2>26 DEF Join, worker, requests, interrupts, SignalInv, Quiet
  <2>27. ASSUME NEW c \in Conns, JoinTimeout(c) PROVE SignalInv'
    BY <2>27 DEF JoinTimeout, worker, requests, SignalInv, Quiet
  <2>28. CASE LoopCloses
    BY <2>28 DEF LoopCloses, worker, requests, conns, interrupts, SignalInv, Quiet
  <2>29. CASE UNCHANGED vars
    BY <2>29 DEF vars, worker, interrupts, SignalInv
  <2> QED
    BY <2>1, <2>2, <2>3, <2>4, <2>5, <2>6, <2>7, <2>8, <2>9, <2>10, <2>11, <2>12, <2>13,
      <2>14, <2>15, <2>16, <2>17, <2>18, <2>19, <2>20, <2>21, <2>22, <2>23, <2>24,
      <2>25, <2>26, <2>27, <2>28, <2>29 DEF Next, WorkerStep, RequestStep,
      InterruptStep, CloseStep
<1>3. SignalInv => SignalsAimAtCurrent
  BY DEF SignalInv, SignalsAimAtCurrent, Serving, Quiet
<1> QED
  BY <1>1, <1>2, <1>3, TypeCorrect, PTL DEF Spec

-----------------------------------------------------------------------------
(* Isolation.                                                               *)

\* The owner test of interrupt_if_running keeps borrowers apart: whatever the
\* interleaving, a request is signalled only by a call that returns for the
\* request itself, its own connection, the owner or a user's interrupt().
THEOREM Isolation == Spec => BorrowersAreIsolated
<1> DEFINE Isolated == \A r \in Requests : signals'[r] > signals[r] => CallReturns(r)
<1>1. TypeOK /\ Next => Isolated
  <2> SUFFICES ASSUME InterruptTypeOK, Next PROVE Isolated
    BY DEF TypeOK
  <2>1. CASE Attach
    BY <2>1 DEF Attach, interrupts, InterruptTypeOK
  <2>2. CASE AttachFails
    BY <2>2 DEF AttachFails, interrupts, InterruptTypeOK
  <2>3. CASE Get
    BY <2>3 DEF Get, interrupts, InterruptTypeOK
  <2>4. CASE Dispatch
    BY <2>4 DEF Dispatch, interrupts, InterruptTypeOK
  <2>5. CASE RunEnds
    BY <2>5 DEF RunEnds, interrupts, InterruptTypeOK
  <2>6. CASE Thrown
    BY <2>6 DEF Thrown, InterruptTypeOK
  <2>7. CASE Finish
    BY <2>7 DEF Finish, Drain, InterruptTypeOK
  <2>8. CASE FinishFails
    BY <2>8 DEF FinishFails, interrupts, InterruptTypeOK
  <2>9. CASE DeliverOutcome
    BY <2>9 DEF DeliverOutcome, interrupts, InterruptTypeOK
  <2>10. CASE FailWorker
    BY <2>10 DEF FailWorker, interrupts, InterruptTypeOK
  <2>11. CASE Detach
    BY <2>11 DEF Detach, interrupts, InterruptTypeOK
  <2>12. CASE Spawn
    BY <2>12 DEF Spawn, interrupts, InterruptTypeOK
  <2>13. ASSUME NEW r \in Requests, Call(r) PROVE Isolated
    BY <2>13 DEF Call, interrupts, InterruptTypeOK
  <2>14. ASSUME NEW r \in Requests, StartupDone(r) PROVE Isolated
    BY <2>14 DEF StartupDone, interrupts, InterruptTypeOK
  <2>15. ASSUME NEW r \in Requests, Admit(r) PROVE Isolated
    BY <2>15 DEF Admit, interrupts, InterruptTypeOK
  <2>16. ASSUME NEW r \in Requests, CancelStartup(r) PROVE Isolated
    BY <2>16 DEF CancelStartup, interrupts, InterruptTypeOK
  <2>17. ASSUME NEW r \in Requests, Cancel(r) PROVE Isolated
    BY <2>17 DEF Cancel, InterruptTypeOK
  <2>18. ASSUME NEW u \in Users, Interrupt(u) PROVE Isolated
    BY <2>18 DEF Interrupt, InterruptTypeOK
  <2>19. ASSUME NEW x \in Callers, ReadEngine(x) PROVE Isolated
    BY <2>19 DEF ReadEngine, InterruptTypeOK
  <2>20. ASSUME NEW x \in Callers, SendSignal(x) PROVE Isolated
    <3> SUFFICES ASSUME NEW r \in Requests, signals'[r] > signals[r] PROVE CallReturns(r)
      OBVIOUS
    <3>1. Signals(x) /\ signals' = [signals EXCEPT ![current] = @ + 1]
      BY <2>20 DEF SendSignal, InterruptTypeOK
    <3>2. current = r /\ current # NoReq
      BY <3>1 DEF InterruptTypeOK, Signals
    <3>3. x \in {r, ConnOf[r], Owner} \cup Users
      BY <3>1, <3>2 DEF Signals, Callers
    <3>4. call[x] # "idle" /\ call'[x] = "idle"
      BY <2>20 DEF SendSignal, InterruptTypeOK
    <3> QED
      BY <3>3, <3>4 DEF CallReturns
  <2>21. ASSUME NEW c \in Conns, BeginClose(c) PROVE Isolated
    BY <2>21 DEF BeginClose, InterruptTypeOK
  <2>22. ASSUME NEW c \in Conns, CloseInterrupted(c) PROVE Isolated
    BY <2>22 DEF CloseInterrupted, interrupts, InterruptTypeOK
  <2>23. ASSUME NEW c \in Conns, CloseReleased(c) PROVE Isolated
    BY <2>23 DEF CloseReleased, interrupts, InterruptTypeOK
  <2>24. ASSUME NEW c \in Conns, FinishClose(c) PROVE Isolated
    BY <2>24 DEF FinishClose, interrupts, InterruptTypeOK
  <2>25. ASSUME NEW c \in Conns, CloseWorker(c) PROVE Isolated
    BY <2>25 DEF CloseWorker, InterruptTypeOK
  <2>26. ASSUME NEW c \in Conns, Join(c) PROVE Isolated
    BY <2>26 DEF Join, interrupts, InterruptTypeOK
  <2>27. ASSUME NEW c \in Conns, JoinTimeout(c) PROVE Isolated
    BY <2>27 DEF JoinTimeout, InterruptTypeOK
  <2>28. CASE LoopCloses
    BY <2>28 DEF LoopCloses, interrupts, InterruptTypeOK
  <2> QED
    BY <2>1, <2>2, <2>3, <2>4, <2>5, <2>6, <2>7, <2>8, <2>9, <2>10, <2>11, <2>12, <2>13,
      <2>14, <2>15, <2>16, <2>17, <2>18, <2>19, <2>20, <2>21, <2>22, <2>23, <2>24,
      <2>25, <2>26, <2>27, <2>28 DEF Next, WorkerStep, RequestStep, InterruptStep,
      CloseStep
<1>2. TypeOK /\ [Next]_vars => [Isolated]_vars
  BY <1>1
<1> QED
  BY <1>2, TypeCorrect, PTL DEF Spec, BorrowersAreIsolated

-----------------------------------------------------------------------------
(* Accepted requests.                                                       *)

\* The places where the worker holds a request, and those where it serves
\* none and never will with this queue.
Busy == {"dispatch", "run", "finish", "deliver", "fail"}
Deaf == {"none", "attach", "detach", "dead"}

\* The queue holds each request once and the stop marker only as its last
\* word, after the worker has left the states that admit.
QueueInv ==
    /\ \A i, j \in 1..Len(queue) : queue[i] = queue[j] => i = j
    /\ \A i \in 1..Len(queue) :
         /\ queue[i] = Stop => i = Len(queue) /\ state \notin {"unstarted", "starting", "live"}
         /\ queue[i] \in Requests => phase[queue[i]] = "sent" /\ queue[i] # job

\* Where a request that was accepted is, and how often it was answered.
OwedInv ==
    /\ \A r \in Requests :
         /\ receipt[r] <= 1
         /\ phase[r] # "done" => receipt[r] = 0
         /\ phase[r] = "sent" => r = job \/ r \in Queued
    /\ job # NoReq <=> pc \in Busy
    /\ job # NoReq => phase[job] = "sent"

\* How far the thread is in each state of the worker.
StateInv ==
    /\ state \in {"unstarted", "starting"} => pc \in {"none", "attach"}
    /\ state = "live" => pc \notin Deaf
    /\ pc \in Deaf => Queued = {}

\* What follows the head.
LEMMA TailShifts ==
    ASSUME NEW S, NEW s \in Seq(S), s # <<>>
    PROVE  /\ Tail(s) \in Seq(S) /\ Head(s) = s[1] /\ Head(s) \in S
           /\ Len(s) \in Nat \ {0} /\ Len(Tail(s)) = Len(s) - 1
           /\ \A i \in 1..Len(Tail(s)) : i + 1 \in 1..Len(s) /\ Tail(s)[i] = s[i + 1]
           /\ \A i \in 1..Len(s) : i = 1 \/ (i - 1 \in 1..Len(Tail(s)) /\ Tail(s)[i - 1] = s[i])
<1>1. /\ Tail(s) \in Seq(S) /\ Head(s) = s[1] /\ Head(s) \in S
      /\ Len(Tail(s)) = Len(s) - 1
      /\ \A i \in 1..Len(Tail(s)) : Tail(s)[i] = s[i + 1]
  BY HeadTailProperties
<1>2. Len(s) \in Nat \ {0}
  BY EmptySeq, LenProperties
<1>3. \A i \in 1..Len(Tail(s)) : i + 1 \in 1..Len(s)
  BY <1>1, <1>2
<1>4. \A i \in 1..Len(s) : i # 1 => i - 1 \in 1..Len(Tail(s)) /\ (i - 1) + 1 = i
  BY <1>1, <1>2
<1> QED
  BY <1>1, <1>2, <1>3, <1>4

\* One more at the end.
LEMMA AppendExtends ==
    ASSUME NEW S, NEW s \in Seq(S), NEW x \in S
    PROVE  /\ Append(s, x) \in Seq(S) /\ Append(s, x) # <<>>
           /\ Len(s) \in Nat /\ Len(Append(s, x)) = Len(s) + 1
           /\ Len(s) + 1 \in 1..Len(Append(s, x)) /\ Append(s, x)[Len(s) + 1] = x
           /\ \A i \in 1..Len(s) : i \in 1..Len(Append(s, x)) /\ Append(s, x)[i] = s[i]
           /\ \A i \in 1..Len(Append(s, x)) : i = Len(s) + 1 \/ i \in 1..Len(s)
           /\ s # <<>> => Head(Append(s, x)) = Head(s)
           /\ s = <<>> => Head(Append(s, x)) = x
<1>1. /\ Append(s, x) \in Seq(S) /\ Append(s, x) # <<>> /\ Len(s) \in Nat
      /\ Len(Append(s, x)) = Len(s) + 1
      /\ \A i \in 1..Len(s) : Append(s, x)[i] = s[i]
      /\ Append(s, x)[Len(s) + 1] = x
  BY AppendProperties, LenProperties
<1>2. Head(Append(s, x)) = Append(s, x)[1]
  BY <1>1, HeadTailProperties
<1>3. s # <<>> => Len(s) # 0 /\ Head(s) = s[1]
  BY EmptySeq, HeadTailProperties
<1>4. s = <<>> => Len(s) = 0
  BY EmptySeq
<1> QED
  BY <1>1, <1>2, <1>3, <1>4

\* Everything about accepted requests.
AcceptedInv == QueueInv /\ OwedInv /\ StateInv

\* A step of somebody else.
LEMMA AcceptedQuiet ==
    ASSUME AcceptedInv, UNCHANGED <<state, pc, queue, job, phase, receipt>>
    PROVE  AcceptedInv'
  BY DEF AcceptedInv, QueueInv, OwedInv, StateInv, Queued

\* Requests come and go, and none of them was accepted.
LEMMA AcceptedMoves ==
    ASSUME TypeOK, AcceptedInv, UNCHANGED <<pc, queue, job>>,
           \A r \in Requests : phase'[r] = "sent" <=> phase[r] = "sent",
           \A r \in Requests : /\ receipt'[r] <= 1
                               /\ phase'[r] # "done" => receipt'[r] = 0,
           \/ state' = state
           \/ state = "unstarted" /\ state' = "starting"
           \/ state' \notin {"unstarted", "starting", "live"}
    PROVE  AcceptedInv'
<1>1. Queued' = Queued /\ job \in Requests \cup {NoReq}
  BY DEF Queued, TypeOK, WorkerTypeOK
<1>2. QueueInv'
  BY DEF AcceptedInv, QueueInv
<1>3. OwedInv'
  BY <1>1 DEF AcceptedInv, OwedInv
<1>4. StateInv'
  BY <1>1 DEF AcceptedInv, StateInv
<1> QED
  BY <1>2, <1>3, <1>4 DEF AcceptedInv

\* The worker goes on with the request it has.
LEMMA AcceptedRuns ==
    ASSUME AcceptedInv, UNCHANGED <<state, queue, job, phase, receipt>>,
           pc \in Busy, pc' \in Busy
    PROVE  AcceptedInv'
  BY DEF AcceptedInv, QueueInv, OwedInv, StateInv, Queued, Busy, Deaf

\* The request that the worker holds is settled.
LEMMA AcceptedSettles ==
    ASSUME TypeOK, AcceptedInv, NEW how, Deliver({job}, how), UNCHANGED <<state, queue>>,
           pc \in Busy, pc' = "get", job' = NoReq
    PROVE  AcceptedInv'
<1>1. job \in Requests /\ phase[job] = "sent" /\ receipt[job] = 0 /\ NoReq \notin Requests
  BY AsyncWorkerAssumption DEF TypeOK, WorkerTypeOK, AcceptedInv, OwedInv
<1>2. /\ phase' = [r \in Requests |-> IF r = job THEN "done" ELSE phase[r]]
      /\ receipt' = [r \in Requests |-> IF r = job THEN receipt[r] + 1 ELSE receipt[r]]
  BY DEF Deliver, PhaseAfter, ReceiptAfter
<1>3. Queued' = Queued
  BY DEF Queued
<1>4. QueueInv'
  BY <1>1, <1>2 DEF AcceptedInv, QueueInv
<1>5. OwedInv'
  BY <1>1, <1>2, <1>3 DEF AcceptedInv, OwedInv, Busy
<1>6. StateInv'
  BY <1>3 DEF AcceptedInv, StateInv, Busy, Deaf
<1> QED
  BY <1>4, <1>5, <1>6 DEF AcceptedInv

\* With the stop marker alone in it a queue holds no request.
LEMMA MarkerAlone ==
    ASSUME NEW s, s = <<Stop>>
    PROVE  /\ Len(s) = 1 /\ s[1] = Stop
           /\ \A r \in Requests : ~\E i \in 1..Len(s) : s[i] = r
  BY AsyncWorkerAssumption

\* close_soon() settles what is queued, and the worker keeps what it holds.
LEMMA AcceptedCloses ==
    ASSUME TypeOK, AcceptedInv, CloseSoon, UNCHANGED <<pc, job>>,
           \A r \in Requests : phase'[r] = "sent" <=> (phase[r] = "sent" /\ r \notin Rejected),
           \A r \in Rejected : phase'[r] = "done",
           \A r \in Requests : phase'[r] # "done" => phase[r] # "done"
    PROVE  AcceptedInv'
<1>1. receipt' = [r \in Requests |-> IF r \in Rejected THEN receipt[r] + 1 ELSE receipt[r]]
  BY DEF CloseSoon, ReceiptAfter
<1>2. \A r \in Queued : r \in Requests /\ phase[r] = "sent" /\ r # job
  BY DEF AcceptedInv, QueueInv, Queued
<1>3. receipt \in [Requests -> Nat] /\ job \in Requests \cup {NoReq}
  BY DEF TypeOK, RequestTypeOK, WorkerTypeOK
<1>4. Rejected \subseteq Queued
  BY DEF Rejected
<1>5. \A r \in Requests : /\ receipt'[r] <= 1
                          /\ phase'[r] # "done" => receipt'[r] = 0
  <2> SUFFICES ASSUME NEW r \in Requests
               PROVE  receipt'[r] <= 1 /\ (phase'[r] # "done" => receipt'[r] = 0)
    OBVIOUS
  <2>1. CASE r \in Rejected
    BY <1>1, <1>2, <1>3, <1>4, <2>1 DEF AcceptedInv, OwedInv
  <2>2. CASE r \notin Rejected
    BY <1>1, <1>3, <2>2 DEF AcceptedInv, OwedInv
  <2> QED
    BY <2>1, <2>2
<1>6. /\ state' \notin {"unstarted", "starting", "live"}
      /\ pc \in Deaf => Queued = {}
  BY DEF CloseSoon, TypeOK, WorkerTypeOK, States, AcceptedInv, StateInv
<1>7. CASE state \in {"starting", "live"}
  <2>1. queue' = <<Stop>> /\ Rejected = Queued
    BY <1>7 DEF CloseSoon, LastWord, Rejected
  <2>2. /\ Len(queue') = 1 /\ queue'[1] = Stop
        /\ \A r \in Requests : ~\E i \in 1..Len(queue') : queue'[i] = r
    BY <2>1, MarkerAlone
  <2>3. Queued' = {}
    BY <2>2 DEF Queued
  <2>4. QueueInv'
    BY <1>6, <2>2 DEF QueueInv
  <2>5. OwedInv'
    BY <1>2, <1>3, <1>5, <2>1 DEF AcceptedInv, OwedInv
  <2>6. StateInv'
    BY <1>6, <2>3 DEF StateInv
  <2> QED
    BY <2>4, <2>5, <2>6 DEF AcceptedInv
<1>8. CASE state \notin {"starting", "live"}
  <2>1. queue' = queue /\ Rejected = {}
    BY <1>8 DEF CloseSoon, Rejected
  <2> QED
    BY <1>5, <1>6, <2>1, AcceptedMoves
<1> QED
  BY <1>7, <1>8

\* The worker takes the first of its queue.
LEMMA AcceptedGets ==
    ASSUME TypeOK, AcceptedInv, Get
    PROVE  AcceptedInv'
<1>1. /\ pc = "get" /\ queue # <<>> /\ queue' = Tail(queue) /\ UNCHANGED state
      /\ queue \in Seq(Requests \cup {Stop}) /\ Stop \notin Requests /\ NoReq \notin Requests
  BY AsyncWorkerAssumption DEF Get, TypeOK, WorkerTypeOK
<1> DEFINE r == Head(queue)
<1>2. /\ r = queue[1] /\ r \in Requests \cup {Stop} /\ Len(queue) \in Nat \ {0}
      /\ Len(queue') = Len(queue) - 1
      /\ \A i \in 1..Len(queue') : i + 1 \in 1..Len(queue) /\ queue'[i] = queue[i + 1]
      /\ \A i \in 1..Len(queue) : i = 1 \/ (i - 1 \in 1..Len(queue') /\ queue'[i - 1] = queue[i])
  BY <1>1, TailShifts
<1>3. job = NoReq /\ 1 \in 1..Len(queue)
  BY <1>1, <1>2 DEF AcceptedInv, OwedInv, Busy
<1>4. \/ r = Stop /\ pc' = "detach" /\ UNCHANGED <<job, phase, receipt>>
      \/ /\ r # Stop /\ receipt' = [receipt EXCEPT ![r] = @ + 1]
         /\ phase' = [phase EXCEPT ![r] = "done"] /\ UNCHANGED <<pc, job>>
      \/ r # Stop /\ pc' = "dispatch" /\ job' = r /\ UNCHANGED <<phase, receipt>>
  BY DEF Get, IsStop
<1> HIDE DEF r
<1>5. \A i \in 1..Len(queue') : queue'[i] # r
  <2> SUFFICES ASSUME NEW i \in 1..Len(queue') PROVE queue'[i] # r
    OBVIOUS
  <2>1. i + 1 \in 1..Len(queue) /\ i + 1 # 1 /\ queue'[i] = queue[i + 1]
    BY <1>2
  <2> QED
    BY <1>2, <1>3, <2>1 DEF AcceptedInv, QueueInv
<1>6. \A i, j \in 1..Len(queue') : queue'[i] = queue'[j] => i = j
  <2> SUFFICES ASSUME NEW i \in 1..Len(queue'), NEW j \in 1..Len(queue'), queue'[i] = queue'[j]
               PROVE  i = j
    OBVIOUS
  <2>1. /\ i + 1 \in 1..Len(queue) /\ queue'[i] = queue[i + 1]
        /\ j + 1 \in 1..Len(queue) /\ queue'[j] = queue[j + 1]
    BY <1>2
  <2>2. i + 1 = j + 1
    BY <2>1 DEF AcceptedInv, QueueInv
  <2> QED
    BY <2>2
<1>7. \A i \in 1..Len(queue') :
         /\ queue'[i] = Stop => i = Len(queue') /\ state \notin {"unstarted", "starting", "live"}
         /\ queue'[i] \in Requests => phase[queue'[i]] = "sent" /\ queue'[i] # r
  <2> SUFFICES ASSUME NEW i \in 1..Len(queue')
               PROVE  /\ queue'[i] = Stop => i = Len(queue') /\ state \notin {"unstarted", "starting", "live"}
                      /\ queue'[i] \in Requests => phase[queue'[i]] = "sent" /\ queue'[i] # r
    OBVIOUS
  <2>1. i + 1 \in 1..Len(queue) /\ queue'[i] = queue[i + 1]
    BY <1>2
  <2>2. /\ queue[i + 1] = Stop => i + 1 = Len(queue) /\ state \notin {"unstarted", "starting", "live"}
        /\ queue[i + 1] \in Requests => phase[queue[i + 1]] = "sent"
    BY <2>1 DEF AcceptedInv, QueueInv
  <2> QED
    BY <1>2, <1>5, <2>1, <2>2
<1>8. Queued' = Queued \ {r}
  <2>1. ASSUME NEW x \in Queued, x # r
        PROVE  x \in Queued'
    <3>1. PICK i \in 1..Len(queue) : queue[i] = x
      BY <2>1 DEF Queued
    <3> QED
      BY <1>2, <2>1, <3>1 DEF Queued
  <2>2. ASSUME NEW x \in Queued'
        PROVE  x \in Queued /\ x # r
    BY <1>2, <1>5, <2>2 DEF Queued
  <2> QED
    BY <2>1, <2>2
<1>9. r # Stop => r \in Requests /\ phase[r] = "sent" /\ r \in Queued /\ receipt[r] = 0
  <2>1. r # Stop => r \in Requests /\ phase[r] = "sent" /\ r \in Queued
    BY <1>2, <1>3 DEF AcceptedInv, QueueInv, Queued
  <2> QED
    BY <2>1 DEF AcceptedInv, OwedInv
<1>10. phase \in [Requests -> Phases] /\ receipt \in [Requests -> Nat]
  BY DEF TypeOK, RequestTypeOK
<1>11. CASE r = Stop
  <2>1. pc' = "detach" /\ UNCHANGED <<job, phase, receipt>>
    BY <1>4, <1>11
  <2>2. Len(queue) = 1 /\ state \notin {"unstarted", "starting", "live"}
    BY <1>2, <1>3, <1>11 DEF AcceptedInv, QueueInv
  <2>3. Queued' = {}
    BY <1>2, <2>2 DEF Queued
  <2>4. Queued' = Queued
    BY <1>1, <1>8, <1>11 DEF Queued
  <2>5. QueueInv'
    BY <1>2, <2>2 DEF QueueInv
  <2>6. OwedInv'
    BY <1>3, <2>1, <2>4 DEF AcceptedInv, OwedInv, Busy
  <2>7. StateInv'
    BY <1>1, <2>2, <2>3 DEF StateInv
  <2> QED
    BY <2>5, <2>6, <2>7 DEF AcceptedInv
<1>12. CASE /\ r # Stop /\ receipt' = [receipt EXCEPT ![r] = @ + 1]
            /\ phase' = [phase EXCEPT ![r] = "done"] /\ UNCHANGED <<pc, job>>
  <2>1. /\ receipt'[r] = 1 /\ phase'[r] = "done"
        /\ \A x \in Requests : x # r => receipt'[x] = receipt[x] /\ phase'[x] = phase[x]
    BY <1>9, <1>10, <1>12
  <2>2. QueueInv'
    BY <1>1, <1>3, <1>5, <1>6, <1>7, <1>12, <2>1 DEF QueueInv
  <2>3. OwedInv'
    BY <1>1, <1>3, <1>8, <1>12, <2>1 DEF AcceptedInv, OwedInv, Busy
  <2>4. StateInv'
    BY <1>1, <1>12 DEF AcceptedInv, StateInv, Deaf
  <2> QED
    BY <2>2, <2>3, <2>4 DEF AcceptedInv
<1>13. CASE r # Stop /\ pc' = "dispatch" /\ job' = r /\ UNCHANGED <<phase, receipt>>
  <2>1. QueueInv'
    BY <1>1, <1>6, <1>7, <1>13 DEF QueueInv
  <2>2. OwedInv'
    BY <1>1, <1>3, <1>8, <1>9, <1>13 DEF AcceptedInv, OwedInv, Busy
  <2>3. StateInv'
    BY <1>1, <1>13 DEF AcceptedInv, StateInv, Deaf
  <2> QED
    BY <2>1, <2>2, <2>3 DEF AcceptedInv
<1> QED
  BY <1>4, <1>11, <1>12, <1>13

\* Nothing has been started before start() was called.
FreshInv == state = "unstarted" => pc = "none" /\ startup = "none"

\* start() leaves "unstarted" once, and nothing returns to it.
LEMMA StartsOnce ==
    ASSUME TypeOK, FreshInv, [Next]_vars
    PROVE  FreshInv'
<1>1. CASE UNCHANGED <<state, pc, startup>>
  BY <1>1 DEF FreshInv
<1>2. CASE WorkerStep
  <2>1. pc # "none" \/ UNCHANGED <<state, pc, startup>>
    BY <1>2 DEF WorkerStep, Attach, AttachFails, Get, Dispatch, RunEnds, Thrown, Finish,
      FinishFails, DeliverOutcome, FailWorker, Detach
  <2>2. state # "unstarted" => state' # "unstarted"
    BY <1>2 DEF WorkerStep, Attach, AttachFails, Get, Dispatch, RunEnds, Thrown, Finish,
      FinishFails, DeliverOutcome, FailWorker, Detach
  <2> QED
    BY <2>1, <2>2 DEF FreshInv
<1>3. CASE Spawn
  BY <1>3 DEF Spawn, Launching, FreshInv
<1>4. ASSUME NEW r \in Requests, Call(r) PROVE FreshInv'
  BY <1>4 DEF Call, Start, FreshInv
<1>5. ASSUME NEW r \in Requests, StartupDone(r) PROVE FreshInv'
  BY <1>5 DEF StartupDone, FreshInv
<1>6. ASSUME NEW r \in Requests, Admit(r) PROVE FreshInv'
  BY <1>6 DEF Admit, FreshInv
<1>7. ASSUME CloseSoon PROVE state' # "unstarted"
  BY <1>7 DEF CloseSoon
<1>8. ASSUME NEW r \in Requests, CancelStartup(r) PROVE FreshInv'
  BY <1>7, <1>8 DEF CancelStartup, FreshInv
<1>9. ASSUME NEW c \in Conns, CloseWorker(c) PROVE FreshInv'
  BY <1>7, <1>9 DEF CloseWorker, FreshInv
<1>10. CASE InterruptStep
  BY <1>10 DEF InterruptStep, Interrupt, ReadEngine, SendSignal, worker, FreshInv
<1>11. ASSUME NEW r \in Requests, Cancel(r) PROVE FreshInv'
  BY <1>11 DEF Cancel, worker, FreshInv
<1>12. ASSUME NEW c \in Conns,
              \/ BeginClose(c) \/ CloseInterrupted(c) \/ CloseReleased(c) \/ FinishClose(c)
              \/ Join(c) \/ JoinTimeout(c)
       PROVE  FreshInv'
  BY <1>12 DEF BeginClose, CloseInterrupted, CloseReleased, FinishClose, Join,
    JoinTimeout, worker, FreshInv
<1>13. CASE LoopCloses
  BY <1>13 DEF LoopCloses, worker, FreshInv
<1>14. CASE UNCHANGED vars
  BY <1>14 DEF vars, worker, FreshInv
<1> QED
  BY <1>2, <1>3, <1>4, <1>5, <1>6, <1>8, <1>9, <1>10, <1>11, <1>12, <1>13, <1>14
    DEF Next, RequestStep, CloseStep

\* The thread attaches its engine, or cannot.
LEMMA AcceptedAttaches ==
    ASSUME TypeOK, AcceptedInv, FreshInv, Attach \/ AttachFails
    PROVE  AcceptedInv'
<1>1. /\ pc = "attach" /\ Queued = {} /\ UNCHANGED <<job, phase, receipt>>
      /\ state \notin {"unstarted", "live"} /\ pc' \in {"get", "dead"}
      /\ pc' = "dead" => state' = "failed"
      /\ state' = "live" => state = "starting"
      /\ state' \notin {"unstarted", "starting"}
  BY DEF Attach, AttachFails, requests, AcceptedInv, StateInv, FreshInv, Deaf
<1>2. \/ queue' = queue
      \/ queue' = <<Stop>> /\ state' = "closing"
  BY DEF Attach, AttachFails, LastWord
<1>3. job = NoReq /\ \A r \in Requests : phase[r] # "sent"
  BY <1>1, AsyncWorkerAssumption DEF AcceptedInv, OwedInv, Busy
<1>4. job' = NoReq /\ \A r \in Requests : phase'[r] # "sent"
  BY <1>1, <1>3
<1>5. CASE queue' = queue
  <2>1. Queued' = {}
    BY <1>1, <1>5 DEF Queued
  <2>2. \A i \in 1..Len(queue) : queue[i] = Stop => state' # "live"
    BY <1>1 DEF AcceptedInv, QueueInv
  <2>3. QueueInv'
    BY <1>1, <1>5, <2>2 DEF AcceptedInv, QueueInv
  <2>4. OwedInv'
    BY <1>1, <1>3, <1>4 DEF AcceptedInv, OwedInv, Busy
  <2>5. StateInv'
    BY <1>1, <2>1 DEF StateInv, Deaf
  <2> QED
    BY <2>3, <2>4, <2>5 DEF AcceptedInv
<1>6. CASE queue' = <<Stop>> /\ state' = "closing"
  <2>1. /\ Len(queue') = 1 /\ queue'[1] = Stop
        /\ \A r \in Requests : ~\E i \in 1..Len(queue') : queue'[i] = r
    BY <1>6, MarkerAlone
  <2>2. Queued' = {}
    BY <2>1 DEF Queued
  <2>3. QueueInv'
    BY <1>6, <2>1, AsyncWorkerAssumption DEF QueueInv
  <2>4. OwedInv'
    BY <1>1, <1>3, <1>4 DEF AcceptedInv, OwedInv, Busy
  <2>5. StateInv'
    BY <1>6, <2>2 DEF StateInv
  <2> QED
    BY <2>3, <2>4, <2>5 DEF AcceptedInv
<1> QED
  BY <1>2, <1>5, <1>6

\* A failed worker answers everybody it still has.
LEMMA AcceptedFails ==
    ASSUME TypeOK, AcceptedInv, FailWorker
    PROVE  AcceptedInv'
<1>1. /\ pc = "fail" /\ state' = "failed" /\ queue' = <<>> /\ pc' = "detach" /\ job' = NoReq
      /\ Deliver(FailedRequests, "error")
  BY DEF FailWorker
<1>2. receipt \in [Requests -> Nat] /\ job \in Requests
  BY <1>1 DEF TypeOK, RequestTypeOK, WorkerTypeOK, AcceptedInv, OwedInv, Busy
<1>3. \A r \in FailedRequests : r \in Requests /\ phase[r] = "sent" /\ receipt[r] = 0
  <2>1. \A r \in Queued : r \in Requests /\ phase[r] = "sent"
    BY DEF AcceptedInv, QueueInv, Queued
  <2>2. phase[job] = "sent"
    BY <1>2, AsyncWorkerAssumption DEF AcceptedInv, OwedInv
  <2>3. \A r \in Requests : phase[r] = "sent" => receipt[r] = 0
    BY DEF AcceptedInv, OwedInv
  <2> QED
    BY <1>2, <2>1, <2>2, <2>3 DEF FailedRequests
<1>4. /\ phase' = [r \in Requests |-> IF r \in FailedRequests THEN "done" ELSE phase[r]]
      /\ receipt' = [r \in Requests |-> IF r \in FailedRequests THEN receipt[r] + 1 ELSE receipt[r]]
  BY <1>1 DEF Deliver, PhaseAfter, ReceiptAfter
<1>5. Queued' = {}
  BY <1>1, EmptySeq DEF Queued
<1>6. \A r \in Requests : phase[r] = "sent" => r \in FailedRequests
  BY DEF FailedRequests, AcceptedInv, OwedInv
<1>7. \A r \in Requests : /\ receipt'[r] <= 1
                          /\ phase'[r] # "done" => receipt'[r] = 0
                          /\ phase'[r] # "sent"
  <2> SUFFICES ASSUME NEW r \in Requests
               PROVE  /\ receipt'[r] <= 1
                      /\ phase'[r] # "done" => receipt'[r] = 0
                      /\ phase'[r] # "sent"
    OBVIOUS
  <2>1. CASE r \in FailedRequests
    BY <1>2, <1>3, <1>4, <2>1
  <2>2. CASE r \notin FailedRequests
    BY <1>4, <1>6, <2>2 DEF AcceptedInv, OwedInv
  <2> QED
    BY <2>1, <2>2
<1>8. QueueInv'
  BY <1>1, EmptySeq DEF QueueInv
<1>9. OwedInv'
  BY <1>1, <1>7 DEF OwedInv, Busy
<1>10. StateInv'
  BY <1>1, <1>5 DEF StateInv
<1> QED
  BY <1>8, <1>9, <1>10 DEF AcceptedInv

\* The thread lets its engine go: it left the states that admit before.
LEMMA AcceptedDetaches ==
    ASSUME TypeOK, AcceptedInv, Detach
    PROVE  AcceptedInv'
<1>1. /\ pc = "detach" /\ pc' = "dead" /\ Queued = {} /\ UNCHANGED <<queue, job, phase, receipt>>
      /\ state' \notin {"unstarted", "starting", "live"}
  BY DEF Detach, requests, TypeOK, WorkerTypeOK, States, AcceptedInv, StateInv, Deaf
<1>2. Queued' = {}
  BY <1>1 DEF Queued
<1>3. QueueInv'
  BY <1>1 DEF AcceptedInv, QueueInv
<1>4. OwedInv'
  BY <1>1, <1>2 DEF AcceptedInv, OwedInv, Busy
<1>5. StateInv'
  BY <1>1, <1>2 DEF StateInv
<1> QED
  BY <1>3, <1>4, <1>5 DEF AcceptedInv

\* The thread is launched, or refused before anything was accepted.
LEMMA AcceptedSpawns ==
    ASSUME TypeOK, AcceptedInv, FreshInv, Spawn
    PROVE  AcceptedInv'
<1>1. /\ pc = "none" /\ Queued = {} /\ UNCHANGED <<queue, job, receipt>>
      /\ state \notin {"unstarted", "live"}
      /\ \/ pc' = "attach" /\ UNCHANGED <<state, phase>>
         \/ pc' = "dead" /\ state' = "failed" /\ phase' = [phase EXCEPT ![launcher] = "done"]
  BY DEF Spawn, Launching, Refuse, AcceptedInv, StateInv, FreshInv, Deaf
<1>2. job = NoReq /\ \A r \in Requests : phase[r] # "sent"
  BY <1>1, AsyncWorkerAssumption DEF AcceptedInv, OwedInv, Busy
<1>3. phase \in [Requests -> Phases]
  BY DEF TypeOK, RequestTypeOK
<1>4. \A r \in Requests : phase'[r] # "sent" /\ (phase'[r] # "done" => phase[r] # "done")
  BY <1>1, <1>2, <1>3
<1>5. Queued' = {}
  BY <1>1 DEF Queued
<1>6. QueueInv'
  BY <1>1, <1>5 DEF AcceptedInv, QueueInv, Queued
<1>7. OwedInv'
  BY <1>1, <1>2, <1>4, <1>5 DEF AcceptedInv, OwedInv, Busy
<1>8. StateInv'
  BY <1>1, <1>5 DEF StateInv
<1> QED
  BY <1>6, <1>7, <1>8 DEF AcceptedInv

\* A request is admitted, or refused with a receipt.
LEMMA AcceptedAdmits ==
    ASSUME TypeOK, AcceptedInv, NEW r \in Requests, Admit(r)
    PROVE  AcceptedInv'
<1>1. phase[r] = "admit" /\ UNCHANGED <<pc, job>>
  BY DEF Admit
<1>2. /\ phase \in [Requests -> Phases] /\ receipt \in [Requests -> Nat]
      /\ queue \in Seq(Requests \cup {Stop})
      /\ Stop \notin Requests /\ NoReq \notin Requests
  BY AsyncWorkerAssumption DEF TypeOK, RequestTypeOK, WorkerTypeOK
<1>3. CASE /\ state = "live" /\ UNCHANGED <<state, receipt>>
           /\ queue' = Append(queue, r) /\ phase' = [phase EXCEPT ![r] = "sent"]
  <2>1. /\ Len(queue) \in Nat /\ Len(queue') = Len(queue) + 1 /\ queue'[Len(queue) + 1] = r
        /\ Len(queue) + 1 \in 1..Len(queue')
        /\ \A i \in 1..Len(queue) : i \in 1..Len(queue') /\ queue'[i] = queue[i]
        /\ \A i \in 1..Len(queue') : i = Len(queue) + 1 \/ i \in 1..Len(queue)
    <3>1. r \in Requests \cup {Stop} /\ queue' = Append(queue, r)
      BY <1>3
    <3> QED
      BY <1>2, <3>1, AppendExtends
  <2>2. \A i \in 1..Len(queue) : queue[i] # Stop /\ queue[i] # r
    BY <1>1, <1>3 DEF AcceptedInv, QueueInv
  <2>3. r # job
    BY <1>1, <1>2 DEF AcceptedInv, OwedInv
  <2>4. Queued' = Queued \cup {r}
    <3>1. ASSUME NEW x \in Queued PROVE x \in Queued'
      BY <2>1, <3>1 DEF Queued
    <3>2. r \in Queued'
      BY <2>1 DEF Queued
    <3>3. ASSUME NEW x \in Queued', x # r PROVE x \in Queued
      <4>1. PICK i \in 1..Len(queue') : queue'[i] = x
        BY <3>3 DEF Queued
      <4>2. i \in 1..Len(queue) /\ queue[i] = x /\ x \in Requests
        BY <2>1, <3>3, <4>1 DEF Queued
      <4> QED
        BY <4>2 DEF Queued
    <3> QED
      BY <3>1, <3>2, <3>3
  <2>5. \A i, j \in 1..Len(queue') : queue'[i] = queue'[j] => i = j
    <3> SUFFICES ASSUME NEW i \in 1..Len(queue'), NEW j \in 1..Len(queue'), queue'[i] = queue'[j]
                 PROVE  i = j
      OBVIOUS
    <3>1. CASE i \in 1..Len(queue) /\ j \in 1..Len(queue)
      BY <2>1, <3>1 DEF AcceptedInv, QueueInv
    <3>2. CASE i = Len(queue) + 1 \/ j = Len(queue) + 1
      BY <2>1, <2>2, <3>2
    <3> QED
      BY <2>1, <3>1, <3>2
  <2>6. ASSUME NEW i \in 1..Len(queue')
        PROVE  queue'[i] # Stop /\ queue'[i] # job /\ (queue'[i] \in Requests => phase'[queue'[i]] = "sent")
    <3>1. CASE i \in 1..Len(queue)
      <4>1. queue'[i] = queue[i] /\ queue[i] \in Requests
        BY <1>2, <2>1, <2>2, <3>1
      <4>2. phase[queue[i]] = "sent" /\ queue[i] # job
        BY <3>1, <4>1 DEF AcceptedInv, QueueInv
      <4> QED
        BY <1>2, <1>3, <2>2, <3>1, <4>1, <4>2
    <3>2. CASE i = Len(queue) + 1
      BY <1>2, <1>3, <2>1, <2>3, <3>2
    <3> QED
      BY <2>1, <3>1, <3>2
  <2>7. QueueInv'
    BY <1>1, <2>5, <2>6 DEF QueueInv
  <2>8. /\ phase'[r] = "sent" /\ receipt[r] = 0
        /\ \A x \in Requests : x # r => phase'[x] = phase[x]
    BY <1>1, <1>2, <1>3 DEF AcceptedInv, OwedInv
  <2>9. OwedInv'
    BY <1>1, <1>2, <1>3, <2>4, <2>8 DEF AcceptedInv, OwedInv
  <2>10. StateInv'
    BY <1>1, <1>3 DEF AcceptedInv, StateInv
  <2> QED
    BY <2>7, <2>9, <2>10 DEF AcceptedInv
<1>4. CASE /\ queue' = queue /\ state' \in {state, "failed"}
           /\ phase' = [phase EXCEPT ![r] = "done"] /\ receipt' = [receipt EXCEPT ![r] = 1]
  <2>1. \A x \in Requests : phase'[x] = "sent" <=> phase[x] = "sent"
    BY <1>1, <1>2, <1>4
  <2>2. \A x \in Requests : /\ receipt'[x] <= 1
                            /\ phase'[x] # "done" => receipt'[x] = 0
    BY <1>2, <1>4 DEF AcceptedInv, OwedInv
  <2> QED
    BY <1>1, <1>4, <2>1, <2>2, AcceptedMoves
<1> QED
  BY <1>3, <1>4 DEF Admit, Refuse

\* A coroutine whose start() is under way, or over.
LEMMA AcceptedStarts ==
    ASSUME TypeOK, AcceptedInv, NEW r \in Requests, Call(r) \/ StartupDone(r)
    PROVE  AcceptedInv'
<1>1. /\ UNCHANGED <<pc, queue, job, receipt>> /\ phase[r] \notin {"sent", "done"}
      /\ phase' \in {[phase EXCEPT ![r] = p] : p \in {"admit", "startup", "done"}}
      /\ \/ state' = state
         \/ state = "unstarted" /\ state' = "starting"
         \/ state' = "failed"
  BY DEF Call, Start, StartupDone, Refuse
<1>2. phase \in [Requests -> Phases]
  BY DEF TypeOK, RequestTypeOK
<1>3. \A x \in Requests : /\ phase'[x] = "sent" <=> phase[x] = "sent"
                          /\ phase'[x] # "done" => phase[x] # "done"
  BY <1>1, <1>2
<1>4. \A x \in Requests : /\ receipt'[x] <= 1
                          /\ phase'[x] # "done" => receipt'[x] = 0
  BY <1>1, <1>3 DEF AcceptedInv, OwedInv
<1> QED
  BY <1>1, <1>3, <1>4, AcceptedMoves

\* A coroutine cancelled while it awaits startup may close the worker.
LEMMA AcceptedCancels ==
    ASSUME TypeOK, AcceptedInv, NEW r \in Requests, CancelStartup(r)
    PROVE  AcceptedInv'
<1>1. phase[r] = "startup" /\ UNCHANGED <<pc, job>>
  BY DEF CancelStartup
<1>2. phase \in [Requests -> Phases]
  BY DEF TypeOK, RequestTypeOK
<1>3. CASE launcher = r
  <2>1. /\ CloseSoon
        /\ phase' = [[x \in Requests |-> IF x \in Rejected THEN "done" ELSE phase[x]]
                        EXCEPT ![r] = "done"]
    BY <1>3 DEF CancelStartup, PhaseAfter
  <2>2. \A x \in Requests :
          phase'[x] = IF x \in Rejected \/ x = r THEN "done" ELSE phase[x]
    BY <2>1
  <2>3. Rejected \subseteq Requests
    BY DEF Rejected, Queued
  <2> HIDE DEF Rejected
  <2>4. \A x \in Requests : phase'[x] = "sent" <=> (phase[x] = "sent" /\ x \notin Rejected)
    BY <1>1, <2>2
  <2>5. \A x \in Rejected : phase'[x] = "done"
    BY <2>2, <2>3
  <2>6. \A x \in Requests : phase'[x] # "done" => phase[x] # "done"
    BY <2>2
  <2> QED
    BY <1>1, <2>1, <2>4, <2>5, <2>6, AcceptedCloses
<1>4. CASE launcher # r
  <2>1. /\ UNCHANGED <<state, queue, receipt>>
        /\ phase' = [[x \in Requests |-> phase[x]] EXCEPT ![r] = "done"]
    BY <1>4 DEF CancelStartup, PhaseAfter
  <2>2. \A x \in Requests : /\ phase'[x] = "sent" <=> phase[x] = "sent"
                            /\ phase'[x] # "done" => phase[x] # "done"
    BY <1>1, <1>2, <2>1
  <2>3. \A x \in Requests : /\ receipt'[x] <= 1
                            /\ phase'[x] # "done" => receipt'[x] = 0
    BY <2>1, <2>2 DEF AcceptedInv, OwedInv
  <2> QED
    BY <1>1, <2>1, <2>2, <2>3, AcceptedMoves
<1> QED
  BY <1>3, <1>4

\* The owner closes the worker.
LEMMA AcceptedEnds ==
    ASSUME TypeOK, AcceptedInv, NEW c \in Conns, CloseWorker(c)
    PROVE  AcceptedInv'
<1>1. /\ CloseSoon /\ UNCHANGED <<pc, job>>
      /\ phase' = [x \in Requests |-> IF x \in Rejected THEN "done" ELSE phase[x]]
  BY DEF CloseWorker, PhaseAfter
<1>2. Rejected \subseteq Requests
  BY DEF Rejected, Queued
<1>3. /\ \A x \in Requests : phase'[x] = "sent" <=> (phase[x] = "sent" /\ x \notin Rejected)
      /\ \A x \in Rejected : phase'[x] = "done"
      /\ \A x \in Requests : phase'[x] # "done" => phase[x] # "done"
  BY <1>1, <1>2
<1> QED
  BY <1>1, <1>3, AcceptedCloses

\* A request the queue accepted is answered exactly once: whatever is
\* cancelled, closed or interrupted around it, and whether the worker's drain
\* fails or its loop goes, it waits in the queue of a thread that still reads
\* or in that thread's hands until its one receipt comes (submit(), _run(),
\* close_soon() and _fail_worker()).
THEOREM AcceptedOwed == Spec => []AcceptedIsOwed
<1>1. Init => AcceptedInv /\ FreshInv
  <2> SUFFICES ASSUME Init PROVE AcceptedInv /\ FreshInv
    OBVIOUS
  <2>1. Queued = {}
    BY EmptySeq DEF Init, Queued
  <2>2. QueueInv
    BY EmptySeq DEF Init, QueueInv
  <2>3. OwedInv /\ StateInv /\ FreshInv
    BY <2>1 DEF Init, OwedInv, StateInv, FreshInv, Busy
  <2> QED
    BY <2>2, <2>3 DEF AcceptedInv
<1>2. TypeOK /\ AcceptedInv /\ FreshInv /\ [Next]_vars => (AcceptedInv /\ FreshInv)'
  <2> SUFFICES ASSUME TypeOK, AcceptedInv, FreshInv, [Next]_vars PROVE AcceptedInv'
    BY StartsOnce
  <2>1. CASE Attach \/ AttachFails
    BY <2>1, AcceptedAttaches
  <2>2. CASE Get
    BY <2>2, AcceptedGets
  <2>3. CASE Dispatch
    <3>1. pc \in Busy /\ UNCHANGED <<state, queue>>
      BY <2>3 DEF Dispatch, Busy
    <3>2. \/ Deliver({job}, "error") /\ pc' = "get" /\ job' = NoReq
          \/ pc' \in Busy /\ UNCHANGED <<job, phase, receipt>>
      BY <2>3 DEF Dispatch, Busy
    <3> QED
      BY <3>1, <3>2, AcceptedSettles, AcceptedRuns
  <2>4. CASE RunEnds \/ Thrown \/ Finish \/ FinishFails
    <3>1. /\ pc \in Busy /\ pc' \in Busy
          /\ UNCHANGED <<state, queue, job, phase, receipt>>
      BY <2>4 DEF RunEnds, Thrown, Finish, FinishFails, requests, Busy
    <3> QED
      BY <3>1, AcceptedRuns
  <2>5. CASE DeliverOutcome
    <3>1. /\ pc \in Busy /\ pc' = "get" /\ job' = NoReq /\ UNCHANGED <<state, queue>>
          /\ Deliver({job}, outcome)
      BY <2>5 DEF DeliverOutcome, Busy
    <3> QED
      BY <3>1, AcceptedSettles
  <2>6. CASE FailWorker
    BY <2>6, AcceptedFails
  <2>7. CASE Detach
    BY <2>7, AcceptedDetaches
  <2>8. CASE Spawn
    BY <2>8, AcceptedSpawns
  <2>9. ASSUME NEW r \in Requests, Call(r) \/ StartupDone(r) PROVE AcceptedInv'
    BY <2>9, AcceptedStarts
  <2>10. ASSUME NEW r \in Requests, Admit(r) PROVE AcceptedInv'
    BY <2>10, AcceptedAdmits
  <2>11. ASSUME NEW r \in Requests, CancelStartup(r) PROVE AcceptedInv'
    BY <2>11, AcceptedCancels
  <2>12. ASSUME NEW c \in Conns, CloseWorker(c) PROVE AcceptedInv'
    BY <2>12, AcceptedEnds
  <2>13. ASSUME NEW r \in Requests, Cancel(r) PROVE AcceptedInv'
    BY <2>13, AcceptedQuiet DEF Cancel, worker
  <2>14. CASE InterruptStep
    BY <2>14, AcceptedQuiet DEF InterruptStep, Interrupt, ReadEngine, SendSignal, worker,
      requests
  <2>15. ASSUME NEW c \in Conns,
                \/ BeginClose(c) \/ CloseInterrupted(c) \/ CloseReleased(c) \/ FinishClose(c)
                \/ Join(c) \/ JoinTimeout(c)
         PROVE  AcceptedInv'
    BY <2>15, AcceptedQuiet DEF BeginClose, CloseInterrupted, CloseReleased, FinishClose,
      Join, JoinTimeout, worker, requests
  <2>16. CASE LoopCloses
    BY <2>16, AcceptedQuiet DEF LoopCloses, worker, requests
  <2>17. CASE UNCHANGED vars
    BY <2>17, AcceptedQuiet DEF vars, worker, requests
  <2> QED
    BY <2>1, <2>2, <2>3, <2>4, <2>5, <2>6, <2>7, <2>8, <2>9, <2>10, <2>11, <2>12, <2>13,
      <2>14, <2>15, <2>16, <2>17 DEF Next, WorkerStep, RequestStep, CloseStep
<1>3. AcceptedInv => AcceptedIsOwed
  <2> SUFFICES ASSUME AcceptedInv, NEW r \in Requests
               PROVE  /\ receipt[r] <= 1
                      /\ phase[r] = "sent" =>
                           /\ receipt[r] = 0
                           /\ r = job \/ r \in Queued
                           /\ pc \notin {"none", "attach", "detach", "dead"}
    BY DEF AcceptedIsOwed
  <2>1. /\ receipt[r] <= 1
        /\ phase[r] = "sent" => receipt[r] = 0 /\ (r = job \/ r \in Queued)
    BY DEF AcceptedInv, OwedInv
  <2>2. pc \in Deaf => Queued = {} /\ job = NoReq
    BY DEF AcceptedInv, OwedInv, StateInv, Busy, Deaf
  <2> QED
    BY <2>1, <2>2, AsyncWorkerAssumption DEF Deaf
<1> QED
  BY <1>1, <1>2, <1>3, TypeCorrect, PTL DEF Spec

=============================================================================
