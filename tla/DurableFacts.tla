---------------------------- MODULE DurableFacts ----------------------------
(***************************************************************************)
(* What a persistent fact space promises: its facts pass through a         *)
(* sequence of states, each one change from the last; losing the process   *)
(* falls back to one of them, and never behind the last one the caller was *)
(* told is safe.                                                           *)
(***************************************************************************)
EXTENDS Naturals, Sequences

VARIABLES
    hist,   \* the states a crash may fall back to; the last is the current one
    told    \* the caller was told that the current state is safe

vars == <<hist, told>>

Init == Len(hist) = 1 /\ told = FALSE

\* The facts change by one journal record; nobody was told it is safe yet.
Change ==
    /\ Len(hist') = Len(hist) + 1
    /\ SubSeq(hist', 1, Len(hist)) = hist
    /\ told' = FALSE

\* The states before the k-th can no longer come back. The caller may be told
\* only when no earlier state than the current one can.
Persist ==
    \E k \in 1..Len(hist) :
        /\ hist' = SubSeq(hist, k, Len(hist))
        /\ told' \in {told} \cup {k = Len(hist)}

\* Falling back to one of the states; a state that was told safe is the only one.
Crash ==
    \E k \in 1..Len(hist) :
        /\ hist' = <<hist[k]>>
        /\ UNCHANGED told

Next == Change \/ Persist \/ Crash

Spec == Init /\ [][Next]_vars
=============================================================================
