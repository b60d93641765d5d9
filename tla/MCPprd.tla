------------------------------ MODULE MCPprd ------------------------------
(***************************************************************************)
(* Small instances of Pprd for TLC: one printer or two, a group of them,   *)
(* two to four jobs.                                                       *)
(***************************************************************************)
EXTENDS Pprd, TLC

\* Destinations: group 10 has both printers, printer 0 only, or does not
\* exist at all.
MCMembers == 10 :> <<0, 1>>
MCOnlyMember == 10 :> <<0>>
MCNoMembers == [g \in {} |-> << >>]

\* Where the jobs go: the first to a printer and the rest to the group, all
\* to printer 0, or each to a printer of its own.
MCPrinterAndGroup == 1 :> 0 @@ 2 :> 10
MCPrinterAndGroup4 == 1 :> 0 @@ 2 :> 10 @@ 3 :> 10 @@ 4 :> 0
MCOnePrinter == 1 :> 0 @@ 2 :> 0
MCOnePerPrinter == 1 :> 0 @@ 2 :> 1

\* Jobs 3 and 4 are more urgent than the older jobs.
MCPriority == 1 :> 50 @@ 2 :> 50
MCPriority4 == 1 :> 50 @@ 2 :> 50 @@ 3 :> 60 @@ 4 :> 60
MCSeq == 1 :> 1 @@ 2 :> 2
MCSeq4 == 1 :> 1 @@ 2 :> 2 @@ 3 :> 3 @@ 4 :> 4

\* A printer without bins is taken to have every medium.
MCNoMedia == 1 :> {} @@ 2 :> {}
MCNoMedia4 == [j \in 1 .. 4 |-> {}]
MCNoBins == 0 :> {} @@ 1 :> {}
MCNoBins1 == 0 :> {}
MCMedia == 1 :> {7} @@ 2 :> {8}
MCBins == 0 :> {"upper"} @@ 1 :> {"upper"}

MCWaiting == {STATUS_WAITING}
MCWaitingOrHeld == {STATUS_WAITING, STATUS_HELD}
MCWaitingOrReceiving == {STATUS_WAITING, STATUS_RECEIVING}

MCNoForkFails == {{}}
MCForkFails == {{}, {0}}
===========================================================================
