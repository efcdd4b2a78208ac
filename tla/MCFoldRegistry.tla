--------------------------- MODULE MCFoldRegistry ---------------------------
(* A subscription beside two plain folds, one of them a queue; or two        *)
(* subscriptions that one fact reflects.                                     *)
EXTENDS FoldRegistry, TLC

CONSTANTS cb, qu, twin, p1, fact, w1, w2, m1, r1

CallbackAndPlain == {cb, qu, p1}
QueueAndPlain == {qu, p1}
OneQueue == {qu}
OneCallback == {cb}
CallbackFact == cb :> fact

BothTwins == {cb, twin}
OneTwin == {twin}
TwinsFact == cb :> fact @@ twin :> fact

TwoWriters == {w1, w2}
OneWriter == {w1}
OneManager == {m1}
OneReader == {r1}
=============================================================================
