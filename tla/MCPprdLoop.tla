----------------------------- MODULE MCPprdLoop -----------------------------
(***************************************************************************)
(* An instance of PprdLoop for TLC: two jobs with questions, the second of *)
(* which may be announced before it has been received.                     *)
(***************************************************************************)
EXTENDS PprdLoop

=============================================================================
