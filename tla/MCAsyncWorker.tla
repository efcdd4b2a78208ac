---------------------------- MODULE MCAsyncWorker ----------------------------
(* One owner and one borrower, a request through each, and a thread that    *)
(* interrupts; or an owner alone.                                           *)
EXTENDS AsyncWorker, TLC

CONSTANTS own, bor, q1, q2, user

Pair == {own, bor}
PairRequests == {q1, q2}
PairConnOf == q1 :> own @@ q2 :> bor
Second == {q2}

Solo == {own}
SoloConnOf == q1 :> own @@ q2 :> own

OneUser == {user}
=============================================================================
