-------------------------- MODULE MCRemoteCursors --------------------------
(* Three streams of one server: one that asks for all answers, one that    *)
(* asks for none, for a chunk or for more and whose engine cursor raises   *)
(* when it is closed, and one that asks once and may find the table full.  *)
EXTENDS RemoteCursors, TLC

CONSTANTS s1, s2, s3

Three == {s1, s2, s3}
Second == {s2}
Bounds == s1 :> {None} @@ s2 :> {0, 2, 3} @@ s3 :> {None}
Requests321 == s1 :> 3 @@ s2 :> 2 @@ s3 :> 1
=============================================================================
