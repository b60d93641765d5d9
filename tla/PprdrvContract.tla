--------------------------- MODULE PprdrvContract ---------------------------
(***************************************************************************)
(* What a pprdrv owes to the pprd that starts it.  It hands pages to the   *)
(* interface and ends with one exit code, and the code says "printed" only *)
(* if the whole order is on the paper: each copy, each page that was asked *)
(* for, once, and in the order in which it will be read.                   *)
(*                                                                         *)
(* Paper is what the printer is given, in the order in which it is given:  *)
(* <<"doc", n>> begins a PostScript file of which the printer is to make n *)
(* copies (what it is set to, if n is -1, as it is when nobody has said),  *)
(* <<"page", p>> is page p of the job (0 is a blank one),                  *)
(* <<"flag", 0>> a banner or trailer page, <<"raw", 0>> a file that is     *)
(* passed through.                                                         *)
(***************************************************************************)
EXTENDS Integers, Sequences, FiniteSets, SequencesExt

VARIABLES
  order,      \* the job
  paper,      \* what the interface has taken
  complaint,  \* the printer has reported a PostScript error
  excuses,    \* what went wrong that pprdrv has no means to see
  verdict     \* the exit code, or "none"

contract == <<order, paper, complaint, excuses, verdict>>

\* n / m, rounded up.
Quotient(n, m) == (n + m - 1) \div m

\* s in pieces of length n.
Pieces(s, n) ==
  [i \in 1 .. Quotient(Len(s), n) |->
     SubSeq(s, (i - 1) * n + 1, IF i * n < Len(s) THEN i * n ELSE Len(s))]

\* s with blank pages at the end, to the length n.
Padded(s, n) == s \o [i \in 1 .. n - Len(s) |-> 0]

\* The leaves of a signature, with the innermost sheet first and its four
\* pages as they are printed, in the order in which the booklet is read.
Leafed(sheets) ==
  LET k == Len(sheets)
      outside == Reverse(sheets)
  IN  FlattenSeq([i \in 1 .. k |-> <<outside[i][4], outside[i][1]>>])
      \o FlattenSeq([i \in 1 .. k |-> <<sheets[i][2], sheets[i][3]>>])

\* One copy, as the reader finds it in the output tray.
Reading(o, copy) ==
  LET stack == Pieces(copy, o.pagefactor)
      sheets == IF o.faceup /\ o.pageorder # 0 THEN Reverse(stack) ELSE stack
  IN  IF o.sigsheets = 0 THEN FlattenSeq(sheets)
      ELSE LET signatures == Pieces(sheets, o.sigsheets)
           IN  FlattenSeq([i \in DOMAIN signatures |-> Leafed(signatures[i])])

\* The pages of one copy, as a reader wants them.
Wanted(o) ==
  [i \in 1 .. Cardinality(o.mask) |->
     CHOOSE p \in o.mask : Cardinality({x \in o.mask : x < p}) = i - 1]

\* Sheets are multiples of this many pages.
Unit(o) == o.pagefactor * (IF o.sigsheets = 0 THEN 1 ELSE o.sigsheets)

\* The pages of one copy with the blank ones that fill its last sheet.
FullLength(o) == Quotient(Cardinality(o.mask), Unit(o)) * Unit(o)

\* A script section holds one or more copies, of which only the last may do
\* without the blank pages at its end.
Copies(o, pages) == Quotient(Len(pages), FullLength(o))

ReadsWell(o, pages) ==
  LET copies == Pieces(pages, FullLength(o))
  IN  /\ pages # <<>>
      /\ \A i \in DOMAIN copies :
           /\ i < Len(copies) => Len(copies[i]) = FullLength(o)
           /\ Reading(o, Padded(copies[i], FullLength(o)))
                = Padded(Wanted(o), FullLength(o))

\* The whole order is on the paper, between the banner and the trailer page.
\* If the copies are to be collated the printer is asked for no more than one
\* copy of a file, unless it can collate.
Delivered(o, p) ==
  LET flags == {i \in DOMAIN p : p[i][1] = "flag"}
      first == IF "first" \in o.flags THEN 1 ELSE 0
      last == IF "last" \in o.flags THEN 1 ELSE 0
      body == SubSeq(p, 1 + first, Len(p) - last)
      docs == Cardinality({i \in DOMAIN body : body[i][1] = "doc"})
      doc == SubSeq(body, 1, Len(body) \div docs)
      pages == [i \in 1 .. Len(doc) - 1 |-> doc[i + 1][2]]
  IN  /\ flags = (IF "first" \in o.flags THEN {1} ELSE {})
                 \cup (IF "last" \in o.flags THEN {Len(p)} ELSE {})
      /\ IF o.kind # "postscript" THEN body = << <<"raw", 0>> >>
         ELSE /\ docs > 0 /\ doc[1][1] = "doc" /\ ReadsWell(o, pages)
              /\ body = FlattenSeq([i \in 1 .. docs |-> doc])
              /\ doc[1][2] * docs * Copies(o, pages) = o.copies
              /\ o.collate /\ ~ o.cancollate => doc[1][2] < 2

CInit ==
  /\ paper = <<>> /\ complaint = FALSE /\ excuses = {} /\ verdict = "none"

\* The interface takes something.
Take ==
  /\ verdict # "printed"
  /\ IsPrefix(paper, paper') /\ Len(paper') = Len(paper) + 1
  /\ UNCHANGED <<order, complaint, excuses, verdict>>

\* The printer reports a PostScript error.
Complain ==
  /\ verdict # "printed"
  /\ complaint' = TRUE
  /\ UNCHANGED <<order, paper, excuses, verdict>>

\* The interface or the RIP quits early without saying so.
Excuse ==
  /\ verdict = "none"
  /\ excuses \subseteq excuses'
  /\ UNCHANGED <<order, paper, complaint, verdict>>

\* pprdrv exits, once.
Finish ==
  /\ verdict = "none"
  /\ verdict' # "none"
  /\ verdict' = "printed" =>
       ~ complaint /\ (excuses = {} => Delivered(order, paper))
  /\ UNCHANGED <<order, paper, complaint, excuses>>

Contract == CInit /\ [][Take \/ Complain \/ Excuse \/ Finish]_contract
=============================================================================
