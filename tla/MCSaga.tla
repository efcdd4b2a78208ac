------------------------------- MODULE MCSaga -------------------------------
(* One operation of the host, performed up to twice, and one of the engine. *)
EXTENDS Saga, TLC

CONSTANTS charge, book

Both == {charge, book}
OnlyCharge == {charge}
ChargeTwice == [r \in Both |-> IF r = charge THEN 2 ELSE 1]
Anywhere == {"forward", "reverse"}
=============================================================================
