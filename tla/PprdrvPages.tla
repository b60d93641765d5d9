---------------------------- MODULE PprdrvPages ----------------------------
(***************************************************************************)
(* Which pages pprdrv sends, and in which order: the table of the pages    *)
(* that were asked for, the sheets they go on, signatures and booklets,    *)
(* and the methods of making more than one copy.                           *)
(*                                                                         *)
(* A job j has j.pages pages, of which those in j.mask are wanted.  They   *)
(* are in the file in the order j.pageorder: 1 ascending, -1 descending, 0 *)
(* special.  j.script tells whether pprdrv knows where pages begin.        *)
(***************************************************************************)
EXTENDS Integers, Sequences, FiniteSets, SequencesExt

\* The members of s that are in S, in their order.
Keep(s, S) ==
  LET kept[n \in 0 .. Len(s)] ==
        IF n = 0 THEN << >>
        ELSE IF s[n] \in S THEN Append(kept[n - 1], s[n]) ELSE kept[n - 1]
  IN  kept[Len(s)]

\* make_pagetable(): the pages in the order in which the file has them.
MakePagetable(j) ==
  LET file == [i \in 1 .. j.pages |->
                 IF j.pageorder = -1 THEN j.pages + 1 - i ELSE i]
  IN  Keep(file, j.mask)

PagemaskCount(j) == Cardinality(j.mask)

RoundedUp(n, m) == (n + m - 1) \div m

\* Mutant: the last sheet, if it is not full, is not counted.
SheetCountTruncated(j) ==
  IF j.sigsheets = 0 THEN PagemaskCount(j) \div j.pagefactor
  ELSE (PagemaskCount(j) \div (j.N * 2 * j.sigsheets))
         * j.sigsheets * ((j.N * 2) \div j.pagefactor)

\* page_computations().
SheetCount(j) ==
  IF j.sigsheets = 0 THEN RoundedUp(PagemaskCount(j), j.pagefactor)
  ELSE RoundedUp(PagemaskCount(j), j.N * 2 * j.sigsheets)
         * j.sigsheets * ((j.N * 2) \div j.pagefactor)

CurrentJobDirection(j) == IF j.pageorder = -1 THEN -1 ELSE 1

PrintDirection(j) == IF j.pageorder # 0 /\ j.faceup THEN -1 ELSE 1

\* signature(): the page that goes to a place on a sheet, or -1 if that side
\* of the sheet is not printed.
Signature(j, sheet, member) ==
  LET simplex == j.N = j.pagefactor
      s == IF simplex THEN sheet \div 2 ELSE sheet
      m == IF simplex /\ sheet % 2 = 1 THEN member + j.N ELSE member
      sigpages == j.N * j.sigsheets * 2
      leftcentre == (sigpages \div 2) - 1
      sigsheet == s % j.sigsheets
      sigpage ==
        IF j.N = 2
          THEN <<leftcentre - 2 * sigsheet, leftcentre + 2 * sigsheet + 1,
                 leftcentre + 2 * sigsheet + 2,
                 leftcentre - 2 * sigsheet - 1>>[m + 1]
          ELSE m
      side == IF m < j.pagefactor \div 2 THEN "fronts" ELSE "backs"
  IN  IF side \notin j.sigpart
        THEN -1
        ELSE (s \div j.sigsheets) * sigpages + sigpage

\* The page, counted from 0, that goes to a place on a sheet.
PageNumber(j, sheet, member) ==
  IF j.sigsheets = 0 THEN sheet * j.pagefactor + member
  ELSE Signature(j, sheet, member)

\* What is sent for one sheet: pages, dummy pages (0) in the place of those
\* that the job does not have, but none for the last sheet of all.
CopySheet(j, sheet, last) ==
  LET table == MakePagetable(j)
      n == Len(table)
      index(k) == IF CurrentJobDirection(j) = 1 THEN k ELSE n - k - 1
      places == [m \in 1 .. j.pagefactor |-> PageNumber(j, sheet, m - 1)]
      has(k) == index(k) \in 0 .. n - 1     \* as k itself is, then
      sent == Keep(places, IF last /\ j.sigsheets = 0 THEN 0 .. n - 1
                           ELSE Int \ {-1})
  IN  [i \in DOMAIN sent |->
         <<"page", IF has(sent[i]) THEN table[index(sent[i]) + 1] ELSE 0>>]

\* The script section, once: copy_pages() with copies_pages_countdown at
\* more, so many times more to be sent after this one.
CopyPages(j, more) ==
  LET sheets == SheetCount(j)
      sheet(i) == IF PrintDirection(j) = -1 THEN sheets - i ELSE i - 1
  IN  FlattenSeq([i \in 1 .. sheets |->
                    CopySheet(j, sheet(i), more = 0 /\ i = sheets)])

\* select_copies_method(): how many copies the printer is asked for, how
\* often the file is sent and how often the script section of the first one.
SelectCopiesMethod(j) ==
  IF j.copies < 2 \/ ~ j.collate \/ j.cancollate
    THEN [auto |-> j.copies, docs |-> 1, passes |-> 1]
  ELSE IF ~ j.script \/ j.pageorder = 0
    THEN [auto |-> 1, docs |-> j.copies, passes |-> 1]
  ELSE [auto |-> 1, docs |-> 1, passes |-> j.copies]

\* copies_pages_countdown is -1 after the first file and is not set again:
\* in later files copy_pages() goes on sending the script section.
Endless(j) ==
  /\ j.kind = "postscript" /\ j.script
  /\ SelectCopiesMethod(j).docs > 1

\* The nth PostScript file: a file in which pprdrv finds no pages is copied
\* as it is.
Document(j, nth) ==
  LET method == SelectCopiesMethod(j)
      body == IF ~ j.script
                THEN [i \in 1 .. j.pages |-> <<"page", i>>]
              ELSE IF nth > 1 THEN CopyPages(j, -1) \o << <<"again", 0>> >>
              ELSE FlattenSeq([i \in 1 .. method.passes |->
                                 CopyPages(j, method.passes - i)])
  IN  << <<"doc", method.auto>> >> \o body
=============================================================================
