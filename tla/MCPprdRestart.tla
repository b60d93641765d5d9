--------------------------- MODULE MCPprdRestart ---------------------------
(***************************************************************************)
(* An instance of PprdRestart for TLC: two printers, a group of both, one  *)
(* job for a printer and one for the group.                                *)
(***************************************************************************)
EXTENDS PprdRestart, TLC

MCMembers == 10 :> <<0, 1>>
MCJobDest == 1 :> 0 @@ 2 :> 10
MCPriority == 1 :> 50 @@ 2 :> 50
MCSeq == 1 :> 1 @@ 2 :> 2
MCNoMedia == 1 :> {} @@ 2 :> {}
MCNoBins == 0 :> {} @@ 1 :> {}
MCWaiting == {STATUS_WAITING}
MCNoForkFails == {{}}
===========================================================================
