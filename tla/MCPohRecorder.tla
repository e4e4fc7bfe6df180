---------------------------- MODULE MCPohRecorder -----------------------------
(* PohRecorder for TLC: one transaction, two consecutive leader slots. *)
EXTENDS PohRecorder

LastTwo == {2, 3}
=============================================================================
