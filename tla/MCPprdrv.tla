------------------------------ MODULE MCPprdrv ------------------------------
(***************************************************************************)
(* Instances of Pprdrv for TLC.  Small jobs meet trouble, with every       *)
(* jobbreak protocol, with a RIP and without; jobs of many shapes meet     *)
(* none, to have the order of their pages checked.                         *)
(***************************************************************************)
EXTENDS Pprdrv

\* copies is -1 if nobody has said how many.
Plain ==
  [kind |-> "postscript", pages |-> 1, mask |-> {1}, pageorder |-> 1,
   script |-> TRUE, N |-> 1, pagefactor |-> 1, sigsheets |-> 0,
   sigpart |-> {"fronts", "backs"}, copies |-> -1, collate |-> FALSE,
   cancollate |-> FALSE, faceup |-> FALSE, flags |-> {}, jobbreak |-> "none",
   feedback |-> TRUE, rip |-> FALSE, trouble |-> 0]

\* A job with its banner page, and everything that can go wrong, twice.
Troubled ==
  {[Plain EXCEPT !.jobbreak = b, !.rip = r, !.flags = {"first"},
                 !.trouble = 2] :
     b \in {"none", "signal", "newinterface", "control-d", "pjl", "signal/pjl"},
     r \in BOOLEAN}
  \cup {[Plain EXCEPT !.kind = k, !.jobbreak = b, !.flags = {"last"},
                      !.feedback = FALSE, !.trouble = 1] :
     k \in {"transparent", "barbar"}, b \in {"control-d", "pjl"}}

\* The wanted pages, of how many.
Masks ==
  {<<n, 1 .. n>> : n \in {1, 3, 4, 5, 9}}
  \cup {<<4, {1, 3, 4}>>, <<6, {2, 5}>>}

\* Pages on a side, on a sheet, and sheets in a signature.
Layouts == {<<1, 1, 0>>, <<1, 2, 0>>, <<2, 2, 0>>, <<2, 4, 0>>,
            <<2, 4, 1>>, <<2, 4, 2>>}

\* Copies, collated, by the printer.
CopyWays == {<<1, FALSE, FALSE>>, <<2, FALSE, FALSE>>, <<2, TRUE, FALSE>>,
             <<2, TRUE, TRUE>>}

Shaped ==
  {[Plain EXCEPT !.pages = m[1], !.mask = m[2], !.pageorder = o, !.faceup = u,
                 !.N = l[1], !.pagefactor = l[2], !.sigsheets = l[3],
                 !.copies = c[1], !.collate = c[2], !.cancollate = c[3]] :
     m \in Masks, o \in {1, -1}, u \in BOOLEAN, l \in Layouts, c \in CopyWays}
  \cup {[Plain EXCEPT !.pages = 3, !.mask = 1 .. 3, !.pageorder = 0,
                      !.script = s, !.faceup = u, !.pagefactor = f,
                      !.flags = {"first", "last"}, !.copies = c[1],
                      !.collate = c[2], !.cancollate = c[3]] :
     s \in BOOLEAN, u \in BOOLEAN, f \in {1, 2}, c \in CopyWays}

MCOrders == Troubled \cup Shaped
=============================================================================
