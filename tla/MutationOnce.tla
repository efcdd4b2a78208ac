---------------------------- MODULE MutationOnce ----------------------------
(***************************************************************************)
(* What a keyed remote mutation promises the application that sends it:    *)
(* it takes effect at most once, an acknowledgement is given only for an   *)
(* effect, a refusal only for a mutation that never has one, and neither   *)
(* is taken back.  Anything else is doubt, which may end in either way.    *)
(***************************************************************************)
EXTENDS Naturals

CONSTANT Mutations

VARIABLES
    effect,     \* how often a mutation has changed the space
    verdict     \* what its client knows

vars == <<effect, verdict>>

Init ==
    /\ effect = [m \in Mutations |-> 0]
    /\ verdict = [m \in Mutations |-> "open"]

Apply(m) ==
    /\ effect[m] = 0 /\ verdict[m] \in {"open", "doubt"}
    /\ effect' = [effect EXCEPT ![m] = 1]
    /\ UNCHANGED verdict

Acknowledge(m) ==
    /\ effect[m] = 1 /\ verdict[m] \in {"open", "doubt"}
    /\ verdict' = [verdict EXCEPT ![m] = "acked"]
    /\ UNCHANGED effect

Refuse(m) ==
    /\ effect[m] = 0 /\ verdict[m] = "open"
    /\ verdict' = [verdict EXCEPT ![m] = "refused"]
    /\ UNCHANGED effect

Doubt(m) ==
    /\ verdict[m] = "open"
    /\ verdict' = [verdict EXCEPT ![m] = "doubt"]
    /\ UNCHANGED effect

Next == \E m \in Mutations : Apply(m) \/ Acknowledge(m) \/ Refuse(m) \/ Doubt(m)

Spec == Init /\ [][Next]_vars
=============================================================================
