------------------------- MODULE MCRemoteMutations -------------------------
(* One mutation that is sent and retried over HTTP, and one that a         *)
(* provider sends from inside its execution, with a key of its own or with *)
(* the key of the first.                                                   *)
EXTENDS RemoteMutations

CONSTANTS add, inner

Both == {add, inner}
Inner == {inner}
=============================================================================
