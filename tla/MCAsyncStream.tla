--------------------------- MODULE MCAsyncStream ---------------------------
(* Two consumers of one stream, everyone who can close it, and a writer. *)
EXTENDS AsyncStream

CONSTANTS c1, c2, x1, o1, s1, w1

TwoConsumers == {c1, c2}
OneCloser == {x1}
OneOwner == {o1}
OneStopper == {s1}
OneWriter == {w1}
FirstConsumer == {c1}
Refusals == {c1, o1, s1, w1}
=============================================================================
