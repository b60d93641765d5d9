---------------------------- MODULE PprdProofs ----------------------------
(***************************************************************************)
(* Safety of the spooler daemon for any number of printers, groups and     *)
(* jobs.  Sound(d, r, x, k) is the inductive invariant of the tables d     *)
(* while the jobs in r are being received.  Without restarts, x is empty   *)
(* and k is zero between two events.  Inside pprdrv_exited() there are     *)
(* exceptions: the printers in x have lost their pprdrv and not yet got a  *)
(* new status, and k printers are counted as starving that do not have     *)
(* that status yet.  After a restart the printers in x were loaded as busy *)
(* and have no pprdrv, and -k starved printers were loaded uncounted.      *)
(* There is one lemma per routine, and one step per action in the proof of *)
(* EventSound.                                                             *)
(***************************************************************************)
EXTENDS Pprd, TLAPS, FiniteSetTheorems, SequenceTheorems,
        WellFoundedInduction, NaturalsInduction

USE DEF PRNSTATUS_IDLE, PRNSTATUS_PRINTING, PRNSTATUS_CANCELING,
        PRNSTATUS_SEIZING, PRNSTATUS_FAULT, PRNSTATUS_ENGAGED,
        PRNSTATUS_STARVED, PRNSTATUS_STOPT, PRNSTATUS_STOPPING,
        PRNSTATUS_HALTING, PrnStatus, Busy,
        STATUS_WAITING, STATUS_HELD, STATUS_WAITING4MEDIA, STATUS_ARRESTED,
        STATUS_CANCEL, STATUS_SEIZING, STATUS_STRANDED, STATUS_RECEIVING,
        STATUS_NONE, NoJob

\* Every job with a status has an entry in the queue array.
Entries(d) ==
  \A j \in Jobs : Queued(d, j) => \E i \in DOMAIN d.queue : d.queue[i] = j

\* A pprdrv runs for a printer just when its status says so.
Drivers(d, x) ==
  /\ \A p \in Printers : p \in d.pids <=> d.status[p] \in Busy /\ p \notin x
  /\ \A p \in x : d.status[p] \in Busy

Actives(d) == d.active = Cardinality(d.pids) /\ d.active <= MaxActive

Exclusive(d) ==
  /\ \A p, q \in d.pids : d.job[p] = d.job[q] => p = q
  /\ \A j \in Jobs : d.jstatus[j] >= 0 =>
       /\ d.jstatus[j] \in d.pids
       /\ d.job[d.jstatus[j]] = j
       /\ d.jobdest[d.jstatus[j]] = d.jdest[j]
  /\ \A p \in d.pids :
       /\ d.job[p] # NoJob
       /\ d.jstatus[d.job[p]] \in {p, STATUS_CANCEL, STATUS_SEIZING}

Starvers(d, k) == Cardinality(Starved(d)) + k <= d.starving

\* The jobs in r are still being received, or are not queued.
Receiving(d, r) ==
  \A j \in r : d.jstatus[j] \in {STATUS_RECEIVING, STATUS_NONE}

Sound(d, r, x, k) ==
  /\ d \in Tables
  /\ Entries(d)
  /\ Drivers(d, x)
  /\ Actives(d)
  /\ Exclusive(d)
  /\ Starvers(d, k)
  /\ Receiving(d, r)

---------------------------------------------------------------------------
(* Facts about numbers, sets and the parameters *)

\* First() picks the least of a set of positions.
LEMMA FirstIn ==
  ASSUME NEW S \in SUBSET Nat, S # {}
  PROVE  First(S) \in S /\ \A k \in S : First(S) <= k
PROOF
<1>1. PICK i \in S : \A k \in S : ~ (<<k, i>> \in OpToRel(<, Nat))
  BY NatLessThanWellFounded, WFMin, Zenon
<1>2. ASSUME NEW k \in S, k < i
      PROVE  <<k, i>> \in OpToRel(<, Nat)
  BY <1>2 DEF OpToRel
<1>3. \A k \in S : ~ (k < i)
  BY <1>1, <1>2, Zenon
<1>4. \A k \in S : i <= k
  BY <1>3
<1> QED
  BY <1>4 DEF First

\* A remainder is an offset into a group's array of members.
LEMMA ModRange ==
  ASSUME NEW a \in Int, NEW n \in Nat \ {0}
  PROVE  a % n \in 0 .. n - 1
  OBVIOUS

\* Quotient and remainder.
LEMMA DivMod ==
  ASSUME NEW a \in Int, NEW n \in Nat \ {0}
  PROVE  /\ a \div n \in Int /\ a % n \in Int
         /\ a = n * (a \div n) + (a % n)
  OBVIOUS

\* Different multiples of n are at least n apart.
LEMMA MultiplesApart ==
  ASSUME NEW q \in Int, NEW r \in Int, NEW n \in Nat \ {0}, n * q < n * r
  PROVE  n * r - n * q >= n
PROOF
<1>1. n * q \in Int /\ n * r \in Int
  OBVIOUS
<1>2. ~ (q >= r)
  <2>1. ASSUME q >= r PROVE n * q >= n * r
    BY <2>1
  <2> QED
    BY <1>1, <2>1
<1>3. n * r >= n * (q + 1)
  BY <1>2
<1>4. n * (q + 1) = n * q + n
  OBVIOUS
<1> QED
  BY <1>1, <1>3, <1>4

\* Different numbers with the same remainder are at least n apart.
LEMMA ModApart ==
  ASSUME NEW a \in Int, NEW b \in Int, NEW n \in Nat \ {0},
         a % n = b % n, a < b
  PROVE  b - a >= n
PROOF
<1> DEFINE q == a \div n
           r == b \div n
           m == a % n
<1>1. q \in Int /\ r \in Int /\ m \in Int /\ a = n * q + m /\ b = n * r + m
  BY DivMod
<1> HIDE DEF q, r, m
<1>2. n * q \in Int /\ n * r \in Int
  BY <1>1
<1>3. n * q < n * r
  BY <1>1, <1>2
<1>4. n * r - n * q >= n
  BY <1>1, <1>3, MultiplesApart
<1> QED
  BY <1>1, <1>2, <1>4

\* Sets of printers are finite.
LEMMA PrintersFinite ==
  ASSUME NEW S \in SUBSET Printers
  PROVE  IsFiniteSet(S) /\ Cardinality(S) \in Nat
PROOF
<1>1. IsFiniteSet(Printers)
  BY PrintersAssumption, FS_Interval DEF Printers
<1> QED
  BY <1>1, FS_Subset, FS_CardinalityType

\* The members of a destination are printers.
LEMMA MembersArePrinters ==
  ASSUME NEW dest \in Dests
  PROVE  MembersOf(dest) \subseteq Printers
PROOF
<1>1. CASE dest \in Groups
  <2>1. Members[dest] \in Seq(Printers)
    BY <1>1, GroupsAssumption
  <2>2. \A i \in DOMAIN Members[dest] : Members[dest][i] \in Printers
    BY <2>1
  <2> QED
    BY <1>1, <2>2 DEF MembersOf, IsGroup
<1>2. CASE dest \notin Groups
  BY <1>2 DEF MembersOf, IsGroup, Dests
<1> QED
  BY <1>1, <1>2

\* Printer ids are natural numbers; a job status >= 0 is one of them.
LEMMA StatusRange ==
  /\ Printers \subseteq Nat
  /\ JobStatus \subseteq Int
  /\ \A s \in JobStatus : s >= 0 <=> s \in Printers
PROOF
<1>1. Printers \subseteq Nat
  BY PrintersAssumption DEF Printers
<1> QED
  BY <1>1 DEF JobStatus

\* A printer with a pprdrv has a job.
LEMMA RunningJobs ==
  ASSUME NEW d \in Tables, Exclusive(d), NEW p \in d.pids
  PROVE  p \in Printers /\ d.job[p] \in Jobs
PROOF
<1>1. p \in Printers
  BY DEF Tables
<1>2. d.job[p] \in Jobs \cup {NoJob}
  BY <1>1 DEF Tables
<1>3. d.job[p] # NoJob
  BY DEF Exclusive
<1> QED
  BY <1>1, <1>2, <1>3

\* The status of a job is a number.
LEMMA JobStatusType ==
  ASSUME NEW d \in Tables, NEW j \in Jobs
  PROVE  /\ d.jstatus[j] \in JobStatus /\ d.jstatus[j] \in Int
         /\ d.jdest[j] \in Dests
PROOF
<1>1. d.jstatus[j] \in JobStatus /\ d.jdest[j] \in Dests
  BY DEF Tables
<1> QED
  BY <1>1, StatusRange

\* The next lemmas say that tables in which some fields have new values are
\* tables when the values have the types of the fields. Here, struct QEntry's
\* status.
LEMMA JobStatusField ==
  ASSUME NEW d \in Tables, NEW x \in [Jobs -> JobStatus]
  PROVE  [d EXCEPT !.jstatus = x] \in Tables
  BY DEF Tables

\* The cancel_job flags of the printers.
LEMMA CancelJobField ==
  ASSUME NEW d \in Tables, NEW x \in SUBSET Printers
  PROVE  [d EXCEPT !.cancelJob = x] \in Tables
  BY DEF Tables

\* The drivers that have been sent SIGTERM.
LEMMA KilledField ==
  ASSUME NEW d \in Tables, NEW x \in SUBSET Printers
  PROVE  [d EXCEPT !.killed = x] \in Tables
  BY DEF Tables

\* What fork() gives a printer.
LEMMA DriverFields ==
  ASSUME NEW d \in Tables, NEW act \in Int, NEW pds \in SUBSET Printers,
         NEW job \in [Printers -> Jobs \cup {NoJob}],
         NEW jds \in [Printers -> Dests]
  PROVE  [d EXCEPT !.active = act, !.pids = pds, !.job = job,
                   !.jobdest = jds] \in Tables
  BY DEF Tables

\* What the launch of its pprdrv sets besides.
LEMMA LaunchFields ==
  ASSUME NEW d \in Tables, NEW sts \in [Printers -> PrnStatus],
         NEW wst \in SUBSET Printers, NEW jst \in [Jobs -> JobStatus],
         NEW lst \in [Groups -> Int]
  PROVE  [d EXCEPT !.status = sts, !.wasStarved = wst, !.jstatus = jst,
                   !.last = lst] \in Tables
  BY DEF Tables

---------------------------------------------------------------------------
(* The starving count *)

\* When no other printer becomes starved the count still covers them.
LEMMA FewerStarve ==
  ASSUME NEW d \in Tables, NEW e \in Tables, NEW k \in Int, Starvers(d, k),
         Starved(e) \subseteq Starved(d), e.starving >= d.starving
  PROVE  Starvers(e, k)
PROOF
<1>1. Starved(d) \subseteq Printers /\ Starved(e) \subseteq Printers
  BY DEF Starved
<1>2. Cardinality(Starved(e)) <= Cardinality(Starved(d))
  BY <1>1, PrintersFinite, FS_Subset
<1>3. d.starving \in Int /\ e.starving \in Int
  BY DEF Tables
<1> QED
  BY <1>1, <1>2, <1>3, PrintersFinite DEF Starvers

\* Starve() counts the printers that it makes starve.
LEMMA StarveSound ==
  ASSUME NEW d, NEW r \in SUBSET Jobs,
         NEW x \in SUBSET Printers, NEW k \in Int,
         Sound(d, r, x, k),
         NEW ps \in SUBSET Printers,
         \A p \in ps : d.status[p] = PRNSTATUS_IDLE
  PROVE  Sound(Starve(d, ps), r, x, k)
PROOF
<1> DEFINE e == Starve(d, ps)
<1>1. d \in Tables
  BY DEF Sound
<1>2. Cardinality(ps) \in Nat
  BY PrintersFinite
<1>3. e \in Tables
  <2>1. [p \in Printers |-> IF p \in ps THEN PRNSTATUS_STARVED ELSE d.status[p]]
          \in [Printers -> PrnStatus]
    BY <1>1 DEF Tables
  <2>2. d.wasStarved \ ps \in SUBSET Printers
    BY <1>1 DEF Tables
  <2>3. d.starving + Cardinality(ps) \in Int
    BY <1>1, <1>2 DEF Tables
  <2> QED
    BY <1>1, <2>1, <2>2, <2>3 DEF Starve, Tables
<1>4. /\ e.queue = d.queue /\ e.jstatus = d.jstatus /\ e.jdest = d.jdest
      /\ e.pids = d.pids /\ e.active = d.active
      /\ e.job = d.job /\ e.jobdest = d.jobdest
      /\ e.starving = d.starving + Cardinality(ps)
      /\ \A p \in Printers : e.status[p] =
           IF p \in ps THEN PRNSTATUS_STARVED ELSE d.status[p]
  BY <1>1 DEF Starve, Tables
<1> HIDE DEF e
<1>5. Entries(e) /\ Actives(e) /\ Exclusive(e) /\ Receiving(e, r)
  BY <1>4 DEF Sound, Entries, Actives, Exclusive, Queued, Receiving
<1>6. Drivers(e, x)
  BY <1>4 DEF Sound, Drivers
<1>7. Starvers(e, k)
  <2>1. Starved(e) = Starved(d) \cup ps /\ Starved(d) \cap ps = {}
    BY <1>4 DEF Starved
  <2>2. IsFiniteSet(Starved(d)) /\ IsFiniteSet(ps)
    BY PrintersFinite DEF Starved
  <2>3. Cardinality(Starved(e)) = Cardinality(Starved(d)) + Cardinality(ps)
    <3>1. Cardinality(Starved(d) \cup ps) =
            Cardinality(Starved(d)) + Cardinality(ps) - Cardinality({})
      BY <2>1, <2>2, FS_Union
    <3> QED
      BY <2>1, <2>2, <3>1, FS_EmptySet, FS_CardinalityType
  <2>4. Cardinality(Starved(d)) \in Nat /\ d.starving \in Int
    BY <1>1, <2>2, FS_CardinalityType DEF Tables
  <2> QED
    BY <1>2, <1>4, <2>3, <2>4 DEF Sound, Starvers
<1> QED
  BY <1>3, <1>5, <1>6, <1>7 DEF Sound, e

---------------------------------------------------------------------------
(* Changes of the tables, by what they leave alone *)

\* A change that touches no printer's status or pprdrv is sound if the jobs
\* that print are left as they are.
LEMMA FrameSound ==
  ASSUME NEW d, NEW r \in SUBSET Jobs,
         NEW x \in SUBSET Printers, NEW k \in Int,
         Sound(d, r, x, k),
         NEW e \in Tables, Entries(e),
         e.status = d.status, e.pids = d.pids, e.job = d.job,
         e.jobdest = d.jobdest, e.active = d.active,
         e.starving = d.starving,
         \A j \in Jobs : e.jstatus[j] >= 0 =>
           e.jstatus[j] = d.jstatus[j] /\ e.jdest[j] = d.jdest[j],
         \A p \in d.pids :
           e.jstatus[d.job[p]] \in {p, STATUS_CANCEL, STATUS_SEIZING},
         Receiving(e, r)
  PROVE  Sound(e, r, x, k)
PROOF
<1>1. Drivers(e, x) /\ Actives(e)
  BY DEF Sound, Drivers, Actives
<1>2. Exclusive(e)
  BY DEF Sound, Exclusive
<1>3. Starvers(e, k)
  BY DEF Sound, Starvers, Starved
<1> QED
  BY <1>1, <1>2, <1>3 DEF Sound

\* The same when the jobs that a pprdrv works on are not touched at all.
LEMMA IdleJobsSound ==
  ASSUME NEW d, NEW r \in SUBSET Jobs,
         NEW x \in SUBSET Printers, NEW k \in Int,
         Sound(d, r, x, k),
         NEW e \in Tables, Entries(e),
         e.status = d.status, e.pids = d.pids, e.job = d.job,
         e.jobdest = d.jobdest, e.active = d.active,
         e.starving = d.starving,
         \A j \in Jobs :
           \/ e.jstatus[j] = d.jstatus[j] /\ e.jdest[j] = d.jdest[j]
           \/ e.jstatus[j] < 0 /\ e.jstatus[j] = d.jstatus[j]
           \/ /\ e.jstatus[j] < 0 /\ d.jstatus[j] < 0
              /\ d.jstatus[j] \notin {STATUS_CANCEL, STATUS_SEIZING},
         Receiving(e, r)
  PROVE  Sound(e, r, x, k)
PROOF
<1>1. d \in Tables /\ Exclusive(d)
  BY DEF Sound
<1>2. /\ \A p \in d.pids : p \in Printers /\ d.job[p] \in Jobs
      /\ \A j \in Jobs : d.jstatus[j] \in Int /\ e.jstatus[j] \in Int
      /\ \A p \in Printers : p \in Nat
  BY <1>1, RunningJobs, JobStatusType, StatusRange
<1>3. \A p \in d.pids :
        e.jstatus[d.job[p]] \in {p, STATUS_CANCEL, STATUS_SEIZING}
  BY <1>1, <1>2 DEF Exclusive
<1>4. \A j \in Jobs : e.jstatus[j] >= 0 =>
        e.jstatus[j] = d.jstatus[j] /\ e.jdest[j] = d.jdest[j]
  BY <1>2
<1> QED
  BY <1>3, <1>4, FrameSound

\* e differs from d in nothing that soundness depends on.
Quiet(d, e) ==
  /\ e.queue = d.queue /\ e.jstatus = d.jstatus /\ e.jdest = d.jdest
  /\ e.status = d.status /\ e.pids = d.pids /\ e.job = d.job
  /\ e.jobdest = d.jobdest /\ e.active = d.active
  /\ e.starving = d.starving

\* Such a change is sound.
LEMMA QuietSound ==
  ASSUME NEW d, NEW r \in SUBSET Jobs,
         NEW x \in SUBSET Printers, NEW k \in Int,
         Sound(d, r, x, k), NEW e \in Tables, Quiet(d, e)
  PROVE  Sound(e, r, x, k)
PROOF
<1>1. Entries(e) /\ Receiving(e, r)
  BY DEF Sound, Entries, Queued, Receiving, Quiet
<1> QED
  BY <1>1, IdleJobsSound DEF Quiet

\* printer_new_status(), for a status that agrees with whether a pprdrv runs,
\* or is of the same kind as the old one, and that, if it is STARVED, has been
\* counted.
LEMMA NewStatusSound ==
  ASSUME NEW d, NEW r \in SUBSET Jobs,
         NEW x \in SUBSET Printers, NEW k \in Int, NEW l \in Int,
         Sound(d, r, x, k),
         NEW p \in Printers, NEW s \in PrnStatus, NEW y,
         \/ y = x \ {p} /\ (s \in Busy <=> p \in d.pids)
         \/ y = x /\ (s \in Busy <=> d.status[p] \in Busy),
         IF s = PRNSTATUS_STARVED THEN l + 1 <= k ELSE l <= k
  PROVE  Sound(PrinterNewStatus(d, p, s), r, y, l)
PROOF
<1> DEFINE e == PrinterNewStatus(d, p, s)
<1>1. d \in Tables
  BY DEF Sound
<1>2. e \in Tables
  <2> DEFINE st == [d.status EXCEPT ![p] = s]
             ws == IF d.status[p] = PRNSTATUS_STARVED
                     THEN d.wasStarved \cup {p} ELSE d.wasStarved \ {p}
             wt == IF s = PRNSTATUS_STOPT THEN d.waiter \ {p} ELSE d.waiter
  <2>1. /\ st \in [Printers -> PrnStatus]
        /\ ws \in SUBSET Printers
        /\ wt \in SUBSET Printers
    BY <1>1 DEF Tables
  <2>2. e = [d EXCEPT !.status = st, !.wasStarved = ws, !.waiter = wt]
    BY DEF PrinterNewStatus
  <2> HIDE DEF e, st, ws, wt
  <2> QED
    BY <1>1, <2>1, <2>2 DEF Tables
<1>3. /\ e.queue = d.queue /\ e.jstatus = d.jstatus /\ e.jdest = d.jdest
      /\ e.pids = d.pids /\ e.active = d.active /\ e.starving = d.starving
      /\ e.job = d.job /\ e.jobdest = d.jobdest
      /\ \A q \in Printers :
           e.status[q] = IF q = p THEN s ELSE d.status[q]
  BY <1>1 DEF PrinterNewStatus, Tables
<1> HIDE DEF e
<1>4. Entries(e) /\ Actives(e) /\ Exclusive(e) /\ Receiving(e, r)
  BY <1>3 DEF Sound, Entries, Actives, Exclusive, Queued, Receiving
<1>5. Drivers(e, y)
  BY <1>3 DEF Sound, Drivers
<1>6. Starvers(e, l)
  <2>1. /\ Starved(d) \in SUBSET Printers /\ Starved(e) \in SUBSET Printers
        /\ Starved(e) \subseteq Starved(d) \cup {p}
        /\ s # PRNSTATUS_STARVED => Starved(e) \subseteq Starved(d)
    BY <1>3 DEF Starved
  <2>2. /\ IsFiniteSet(Starved(d)) /\ IsFiniteSet(Starved(d) \cup {p})
        /\ Cardinality(Starved(d)) \in Nat /\ Cardinality(Starved(e)) \in Nat
        /\ Cardinality(Starved(d) \cup {p}) <= Cardinality(Starved(d)) + 1
    BY <2>1, PrintersFinite, FS_AddElement
  <2>3. /\ Cardinality(Starved(e)) <= Cardinality(Starved(d)) + 1
        /\ s # PRNSTATUS_STARVED =>
             Cardinality(Starved(e)) <= Cardinality(Starved(d))
    <3>1. Cardinality(Starved(e)) <= Cardinality(Starved(d) \cup {p})
      BY <2>1, <2>2, FS_Subset
    <3>2. s # PRNSTATUS_STARVED =>
            Cardinality(Starved(e)) <= Cardinality(Starved(d))
      BY <2>1, <2>2, FS_Subset
    <3>3. Cardinality(Starved(d) \cup {p}) \in Nat
      BY <2>1, PrintersFinite
    <3> QED
      BY <2>2, <3>1, <3>2, <3>3
  <2>4. d.starving \in Int
    BY <1>1 DEF Tables
  <2> QED
    BY <1>3, <2>2, <2>3, <2>4 DEF Sound, Starvers
<1> QED
  BY <1>2, <1>4, <1>5, <1>6 DEF Sound, e

\* The offset of a member in its group's array is a number.
LEMMA OffsetType ==
  ASSUME NEW g \in Groups, NEW p \in MembersOf(g)
  PROVE  MemberOffset(g, p) \in Int
PROOF
<1>1. Members[g] \in Seq(Printers)
  BY GroupsAssumption
<1>2. \E i \in DOMAIN Members[g] : Members[g][i] = p
  BY DEF MembersOf, IsGroup
<1>3. (CHOOSE i \in DOMAIN Members[g] : Members[g][i] = p)
        \in DOMAIN Members[g]
  BY <1>2
<1>4. DOMAIN Members[g] \subseteq Int
  BY <1>1
<1> QED
  BY <1>3, <1>4 DEF MemberOffset

---------------------------------------------------------------------------
(* Starting a pprdrv *)

\* pprdrv_start() launches a waiting job on an idle printer while there is
\* a ration left.
LEMMA LaunchSound ==
  ASSUME NEW d, NEW r \in SUBSET Jobs,
         NEW x \in SUBSET Printers, NEW k \in Int,
         Sound(d, r, x, k),
         NEW p \in Printers, d.status[p] = PRNSTATUS_IDLE,
         NEW j \in Jobs, d.jstatus[j] = STATUS_WAITING,
         Covers(d.jdest[j], p), d.active # MaxActive
  PROVE  Sound(Launch(d, p, j), r, x, k)
PROOF
<1> DEFINE e == Launch(d, p, j)
<1>1. d \in Tables /\ Exclusive(d) /\ Drivers(d, x) /\ p \notin d.pids
  BY DEF Sound, Drivers
<1>2. d.jdest[j] \in Dests
  BY <1>1, JobStatusType
<1>3. e \in Tables
  <2>1. [g \in Groups |-> IF g = d.jdest[j] THEN MemberOffset(g, p)
                                            ELSE d.last[g]]
          \in [Groups -> Int]
    BY <1>1, OffsetType DEF Tables, Covers
  <2>2. p \in JobStatus /\ j \in Jobs \cup {NoJob}
    BY DEF JobStatus
  <2>3. /\ d.active + 1 \in Int
        /\ d.pids \cup {p} \in SUBSET Printers
        /\ d.wasStarved \ {p} \in SUBSET Printers
        /\ [d.job EXCEPT ![p] = j] \in [Printers -> Jobs \cup {NoJob}]
        /\ [d.jobdest EXCEPT ![p] = d.jdest[j]] \in [Printers -> Dests]
        /\ [d.status EXCEPT ![p] = PRNSTATUS_PRINTING]
             \in [Printers -> PrnStatus]
        /\ [d.jstatus EXCEPT ![j] = p] \in [Jobs -> JobStatus]
    BY <1>1, <1>2, <2>2 DEF Tables
  <2> DEFINE act == d.active + 1
             pds == d.pids \cup {p}
             wst == d.wasStarved \ {p}
             job == [d.job EXCEPT ![p] = j]
             jds == [d.jobdest EXCEPT ![p] = d.jdest[j]]
             sts == [d.status EXCEPT ![p] = PRNSTATUS_PRINTING]
             jst == [d.jstatus EXCEPT ![j] = p]
             lst == [g \in Groups |-> IF g = d.jdest[j] THEN MemberOffset(g, p)
                                                        ELSE d.last[g]]
             f   == [d EXCEPT !.active = act, !.pids = pds, !.job = job,
                              !.jobdest = jds]
  <2>4. e = [f EXCEPT !.status = sts, !.wasStarved = wst, !.jstatus = jst,
                      !.last = lst]
    BY <1>1 DEF Launch, Tables
  <2>5. /\ act \in Int /\ pds \in SUBSET Printers
        /\ job \in [Printers -> Jobs \cup {NoJob}]
        /\ jds \in [Printers -> Dests]
    BY <2>3
  <2>6. /\ sts \in [Printers -> PrnStatus] /\ wst \in SUBSET Printers
        /\ jst \in [Jobs -> JobStatus] /\ lst \in [Groups -> Int]
    BY <2>1, <2>3
  <2> HIDE DEF e, act, pds, wst, job, jds, sts, jst, lst
  <2>7. f \in Tables
    BY <1>1, <2>5, DriverFields
  <2> HIDE DEF f
  <2> QED
    BY <2>4, <2>6, <2>7, LaunchFields
<1>4. /\ e.queue = d.queue /\ e.jdest = d.jdest /\ e.starving = d.starving
      /\ e.pids = d.pids \cup {p} /\ e.active = d.active + 1
      /\ \A q \in Printers :
           /\ e.job[q] = IF q = p THEN j ELSE d.job[q]
           /\ e.jobdest[q] = IF q = p THEN d.jdest[j] ELSE d.jobdest[q]
           /\ e.status[q] = IF q = p THEN PRNSTATUS_PRINTING ELSE d.status[q]
      /\ \A i \in Jobs : e.jstatus[i] = IF i = j THEN p ELSE d.jstatus[i]
  BY <1>1 DEF Launch, Tables
<1> HIDE DEF e
<1>5. Entries(e)
  BY <1>4 DEF Sound, Entries, Queued
<1>6. Drivers(e, x)
  BY <1>1, <1>4 DEF Drivers
<1>7. Actives(e)
  <2>1. IsFiniteSet(d.pids) /\ Cardinality(d.pids) \in Nat
    BY <1>1, PrintersFinite DEF Tables
  <2>2. Cardinality(d.pids \cup {p}) = Cardinality(d.pids) + 1
    BY <1>1, <2>1, FS_AddElement
  <2> QED
    BY <1>4, <2>1, <2>2, LimitsAssumption DEF Sound, Actives
<1>8. Exclusive(e)
  <2>1. \A q \in d.pids : q \in Printers /\ d.job[q] \in Jobs /\ d.job[q] # j
    BY <1>1, RunningJobs, StatusRange DEF Exclusive
  <2>2. \A q \in e.pids, u \in e.pids : e.job[q] = e.job[u] => q = u
    BY <1>1, <1>4, <2>1 DEF Exclusive
  <2>3. ASSUME NEW i \in Jobs, e.jstatus[i] >= 0
        PROVE  /\ e.jstatus[i] \in e.pids
               /\ e.job[e.jstatus[i]] = i
               /\ e.jobdest[e.jstatus[i]] = e.jdest[i]
    <3>1. CASE i = j
      BY <1>4, <3>1
    <3>2. CASE i # j
      BY <1>1, <1>4, <2>1, <2>3, <3>2 DEF Exclusive
    <3> QED
      BY <3>1, <3>2
  <2>4. ASSUME NEW q \in e.pids
        PROVE  /\ e.job[q] # NoJob
               /\ e.jstatus[e.job[q]] \in {q, STATUS_CANCEL, STATUS_SEIZING}
    <3>1. CASE q = p
      BY <1>4, <3>1, JobsAssumption
    <3>2. CASE q # p
      BY <1>1, <1>4, <2>1, <2>4, <3>2 DEF Exclusive
    <3> QED
      BY <3>1, <3>2
  <2> QED
    BY <2>2, <2>3, <2>4 DEF Exclusive
<1>9. Starvers(e, k)
  <2>1. Starved(e) \subseteq Starved(d)
    BY <1>4 DEF Starved
  <2>2. d.starving \in Int
    BY <1>1 DEF Tables
  <2> QED
    BY <1>1, <1>3, <1>4, <2>1, <2>2, FewerStarve DEF Sound
<1>10. Receiving(e, r)
  BY <1>4 DEF Sound, Receiving
<1> QED
  BY <1>3, <1>5, <1>6, <1>7, <1>8, <1>9, <1>10 DEF Sound, e

\* fatal() leaves the tables sound.
LEMMA DieSound ==
  ASSUME NEW d, NEW r \in SUBSET Jobs,
         NEW x \in SUBSET Printers, NEW k \in Int,
         Sound(d, r, x, k)
  PROVE  Sound(Die(d), r, x, k)
PROOF
<1>1. d \in Tables
  BY DEF Sound
<1>2. Die(d) \in Tables
  BY <1>1 DEF Die, Tables
<1>3. Quiet(d, Die(d))
  BY <1>1 DEF Die, Tables, Quiet
<1> QED
  BY <1>2, <1>3, QuietSound

\* printer_look_for_work()
LEMMA LookSound ==
  ASSUME NEW d, NEW r \in SUBSET Jobs,
         NEW x \in SUBSET Printers, NEW k \in Int,
         Sound(d, r, x, k),
         NEW p \in Printers, NEW ff
  PROVE  Sound(PrinterLookForWork(d, p, ff), r, x, k)
PROOF
<1> DEFINE work == {i \in DOMAIN d.queue :
                      /\ d.jstatus[d.queue[i]] = STATUS_WAITING
                      /\ Covers(d.jdest[d.queue[i]], p)
                      /\ Suitable(d, p, d.queue[i])}
<1>1. d.queue \in Seq(Jobs)
  BY DEF Sound, Tables
<1>2. CASE d.status[p] # PRNSTATUS_IDLE
  BY <1>2, DieSound DEF PrinterLookForWork
<1>3. CASE d.status[p] = PRNSTATUS_IDLE /\ work = {}
  BY <1>3 DEF PrinterLookForWork
<1>4. CASE d.status[p] = PRNSTATUS_IDLE /\ work # {}
  <2>0. DOMAIN d.queue \subseteq Nat /\ work \subseteq DOMAIN d.queue
    BY <1>1
  <2>1. First(work) \in work
    <3> HIDE DEF work
    <3> QED
      BY <1>4, <2>0, FirstIn
  <2>2. d.queue[First(work)] \in Jobs
    <3>1. First(work) \in DOMAIN d.queue
      BY <2>0, <2>1, Zenon
    <3> HIDE DEF work
    <3> QED
      BY <1>1, <3>1
  <2>3. CASE MayFork(d, p, 0) /\ p \notin ff
    <3>1. Sound(Launch(d, p, d.queue[First(work)]), r, x, k)
      BY <1>4, <2>1, <2>2, <2>3, LaunchSound DEF MayFork
    <3> QED
      BY <1>4, <2>3, <3>1 DEF PrinterLookForWork
  <2>4. CASE ~ (MayFork(d, p, 0) /\ p \notin ff)
    <3>1. Sound(Starve(d, {p}), r, x, k)
      BY <1>4, StarveSound
    <3> QED
      BY <1>4, <2>4, <3>1 DEF PrinterLookForWork
  <2> QED
    BY <2>3, <2>4
<1> QED
  BY <1>2, <1>3, <1>4

\* The printers tried for a job are members of its destination.
LEMMA TryOrderMembers ==
  ASSUME NEW d \in Tables, NEW j \in Jobs, NEW i \in DOMAIN TryOrder(d, j)
  PROVE  /\ i \in Nat
         /\ TryOrder(d, j)[i] \in Printers
         /\ Covers(d.jdest[j], TryOrder(d, j)[i])
PROOF
<1> DEFINE g == d.jdest[j]
           n == Len(Members[g])
           y == IF g \in Rotating THEN d.last[g] ELSE -1
<1>1. g \in Dests
  BY JobStatusType
<1>2. CASE g \in Groups
  <2>0. Members[g] \in Seq(Printers)
    BY <1>2, GroupsAssumption
  <2>1. n \in Nat /\ DOMAIN Members[g] = 1 .. n /\ y \in Int
    <3>1. d.last[g] \in Int
      BY <1>2 DEF Tables
    <3> QED
      BY <2>0, <3>1, LenProperties
  <2>2. TryOrder(d, j) = [z \in 1 .. n |-> Members[g][((y + z) % n) + 1]]
    BY <1>2 DEF TryOrder, IsGroup
  <2>3. i \in 1 .. n /\ n \in Nat \ {0} /\ y + i \in Int
    <3>1. i \in 1 .. n
      BY <2>2
    <3> HIDE DEF n, y, g
    <3> QED
      BY <2>1, <3>1
  <2>4. ((y + i) % n) + 1 \in 1 .. n
    <3> HIDE DEF n, y, g
    <3>1. (y + i) % n \in 0 .. n - 1
      BY <2>3, ModRange
    <3> QED
      BY <2>3, <3>1
  <2>5. TryOrder(d, j)[i] = Members[g][((y + i) % n) + 1]
    BY <2>2, <2>3
  <2>6. ((y + i) % n) + 1 \in DOMAIN Members[g]
    BY <2>1, <2>4
  <2>7. TryOrder(d, j)[i] \in MembersOf(g)
    BY <1>2, <2>5, <2>6 DEF MembersOf, IsGroup
  <2> QED
    BY <1>1, <2>3, <2>7, MembersArePrinters DEF Covers
<1>3. CASE g \notin Groups
  BY <1>1, <1>3 DEF TryOrder, IsGroup, Dests, Covers, MembersOf
<1> QED
  BY <1>2, <1>3

\* No printer is tried twice for a job.
LEMMA TryOrderDistinct ==
  ASSUME NEW d \in Tables, NEW j \in Jobs,
         NEW i \in DOMAIN TryOrder(d, j), NEW k \in DOMAIN TryOrder(d, j),
         i < k
  PROVE  TryOrder(d, j)[i] # TryOrder(d, j)[k]
PROOF
<1> DEFINE g == d.jdest[j]
           n == Len(Members[g])
           y == IF g \in Rotating THEN d.last[g] ELSE -1
<1>1. g \in Dests
  BY JobStatusType
<1>2. CASE g \in Groups
  <2>0. Members[g] \in Seq(Printers)
    BY <1>2, GroupsAssumption
  <2>1. n \in Nat /\ DOMAIN Members[g] = 1 .. n /\ y \in Int
    <3>1. d.last[g] \in Int
      BY <1>2 DEF Tables
    <3> QED
      BY <2>0, <3>1, LenProperties
  <2>2. TryOrder(d, j) = [z \in 1 .. n |-> Members[g][((y + z) % n) + 1]]
    BY <1>2 DEF TryOrder, IsGroup
  <2>3. i \in 1 .. n /\ k \in 1 .. n
    BY <2>2
  <2> DEFINE a == (y + i) % n
             b == (y + k) % n
  <2>4. a \in 0 .. n - 1 /\ b \in 0 .. n - 1 /\ a # b
    <3> HIDE DEF n, y, g
    <3>1. n \in Nat \ {0} /\ y + i \in Int /\ y + k \in Int
      BY <2>1, <2>3
    <3>2. ASSUME a = b PROVE (y + k) - (y + i) >= n
      <4> DEFINE u == y + i
                 v == y + k
      <4>1. u \in Int /\ v \in Int /\ u < v /\ u % n = v % n
        BY <2>1, <2>3, <3>1, <3>2
      <4> HIDE DEF u, v
      <4>2. v - u >= n
        BY <3>1, <4>1, ModApart
      <4> QED
        BY <4>2 DEF u, v
    <3>3. ~ ((y + k) - (y + i) >= n)
      BY <2>1, <2>3
    <3> QED
      BY <3>1, <3>2, <3>3, ModRange
  <2>5. a + 1 \in DOMAIN Members[g] /\ b + 1 \in DOMAIN Members[g]
        /\ a + 1 # b + 1
    <3> HIDE DEF n, y, g, a, b
    <3> QED
      BY <2>1, <2>4
  <2>6. Members[g][a + 1] # Members[g][b + 1]
    <3> HIDE DEF n, y, g, a, b
    <3> QED
      BY <1>2, <2>5, GroupsAssumption
  <2> QED
    BY <2>2, <2>3, <2>6
<1>3. CASE g \notin Groups
  <2>1. i \in 1 .. 1 /\ k \in 1 .. 1
    BY <1>3 DEF TryOrder, IsGroup
  <2> QED
    BY <2>1
<1> QED
  BY <1>2, <1>3

\* printer_try_start_suitable_4_this_job()
LEMMA TryStartSound ==
  ASSUME NEW d, NEW r \in SUBSET Jobs,
         NEW x \in SUBSET Printers, NEW k \in Int,
         Sound(d, r, x, k),
         NEW j \in Jobs, NEW ff
  PROVE  Sound(TryStartSuitable(d, j, ff), r, x, k)
PROOF
<1> DEFINE try  == TryOrder(d, j)
           idle == {i \in DOMAIN try : /\ d.status[try[i]] = PRNSTATUS_IDLE
                                       /\ Suitable(d, try[i], j)}
           before(i) == {try[m] : m \in {m \in idle : m < i}}
           able == {i \in idle : /\ MayFork(d, try[i], Cardinality(before(i)))
                                 /\ try[i] \notin ff}
           w    == First(able)
<1>1. d \in Tables
  BY DEF Sound
<1>2. \A i \in idle : /\ i \in Nat
                      /\ try[i] \in Printers
                      /\ Covers(d.jdest[j], try[i])
                      /\ d.status[try[i]] = PRNSTATUS_IDLE
  BY <1>1, TryOrderMembers
<1>3. CASE d.jstatus[j] # STATUS_WAITING
  BY <1>3, DieSound DEF TryStartSuitable
<1>4. CASE d.jstatus[j] = STATUS_WAITING /\ able = {}
  <2>1. Sound(Starve(d, {try[i] : i \in idle}), r, x, k)
    <3> HIDE DEF idle, try
    <3>1. {try[i] : i \in idle} \in SUBSET Printers
      BY <1>2
    <3> QED
      BY <1>2, <3>1, StarveSound
  <2> QED
    BY <1>4, <2>1 DEF TryStartSuitable
<1>5. CASE d.jstatus[j] = STATUS_WAITING /\ able # {}
  <2>1. able \subseteq idle
    OBVIOUS
  <2>2. w \in able
    <3>1. able \in SUBSET Nat
      BY <1>2, <2>1
    <3> HIDE DEF able
    <3> QED
      BY <1>5, <3>1, FirstIn
  <2>3. /\ w \in Nat /\ try[w] \in Printers /\ Covers(d.jdest[j], try[w])
        /\ d.status[try[w]] = PRNSTATUS_IDLE
        /\ d.active # MaxActive
    <3>1. d.active # MaxActive
      BY <2>2 DEF MayFork
    <3> HIDE DEF able, idle, w, try
    <3> QED
      BY <1>2, <2>1, <2>2, <3>1
  <2>4. before(w) \in SUBSET Printers
    <3> HIDE DEF idle, w, try
    <3> QED
      BY <1>2
  <2>5. \A p \in before(w) : d.status[p] = PRNSTATUS_IDLE
    <3> HIDE DEF idle, w, try
    <3> QED
      BY <1>2
  <2>6. try[w] \notin before(w)
    <3>1. ASSUME NEW m \in idle, m < w PROVE try[m] # try[w]
      <4>1. m \in DOMAIN try /\ w \in DOMAIN try
        BY <2>1, <2>2
      <4> HIDE DEF idle, w
      <4> QED
        BY <1>1, <3>1, <4>1, TryOrderDistinct
    <3> HIDE DEF idle, w, try
    <3> QED
      BY <3>1
  <2> DEFINE s == Starve(d, before(w))
  <2>7. Sound(s, r, x, k)
    <3> HIDE DEF before, w
    <3> QED
      BY <2>4, <2>5, StarveSound
  <2>8. /\ s.status[try[w]] = PRNSTATUS_IDLE
        /\ s.jstatus = d.jstatus /\ s.jdest = d.jdest
        /\ s.active = d.active
    <3> HIDE DEF before, w, try
    <3> QED
      BY <1>1, <2>3, <2>6 DEF Starve, Tables
  <2>9. Sound(Launch(s, try[w], j), r, x, k)
    <3> HIDE DEF s, w, try
    <3> QED
      BY <1>5, <2>3, <2>7, <2>8, LaunchSound
  <2> QED
    BY <1>5, <2>9 DEF TryStartSuitable
<1> QED
  BY <1>3, <1>4, <1>5

\* The tail of queue_accept_queuefile()
LEMMA StartIfWaitingSound ==
  ASSUME NEW d, NEW r \in SUBSET Jobs,
         NEW x \in SUBSET Printers, NEW k \in Int,
         Sound(d, r, x, k),
         NEW j \in Jobs, NEW ff
  PROVE  Sound(StartIfWaiting(d, j, ff), r, x, k)
  BY TryStartSound DEF StartIfWaiting

---------------------------------------------------------------------------
(* The media caches *)

\* Only a job that waits gets another reason to wait.
LEMMA WaitReasons ==
  ASSUME NEW d \in Tables, NEW j \in Jobs
  PROVE  /\ JobWaitReason(d, j) \in JobStatus
         /\ \/ JobWaitReason(d, j) = d.jstatus[j]
            \/ /\ d.jstatus[j] \in {STATUS_WAITING, STATUS_WAITING4MEDIA}
               /\ JobWaitReason(d, j) \in {STATUS_WAITING, STATUS_WAITING4MEDIA}
PROOF
<1>1. d.jstatus[j] \in JobStatus
  BY JobStatusType
<1>2. STATUS_WAITING \in JobStatus /\ STATUS_WAITING4MEDIA \in JobStatus
  BY DEF JobStatus
<1> QED
  BY <1>1, <1>2 DEF JobWaitReason

\* media_startstop_update_waitreason()
LEMMA WaitReasonSound ==
  ASSUME NEW d, NEW r \in SUBSET Jobs,
         NEW x \in SUBSET Printers, NEW k \in Int,
         Sound(d, r, x, k),
         NEW p \in Printers
  PROVE  Sound(UpdateWaitReason(d, p), r, x, k)
PROOF
<1> DEFINE e == UpdateWaitReason(d, p)
           new == [j \in Jobs |-> IF Covers(d.jdest[j], p)
                                    THEN JobWaitReason(d, j) ELSE d.jstatus[j]]
<1>1. d \in Tables
  BY DEF Sound
<1>2. new \in [Jobs -> JobStatus]
  BY <1>1, WaitReasons, JobStatusType
<1>3. \A j \in Jobs : \/ new[j] = d.jstatus[j]
                      \/ /\ d.jstatus[j] \in {STATUS_WAITING, STATUS_WAITING4MEDIA}
                         /\ new[j] \in {STATUS_WAITING, STATUS_WAITING4MEDIA}
  BY <1>1, WaitReasons
<1>4. e = [d EXCEPT !.jstatus = new]
  BY DEF UpdateWaitReason
<1> HIDE DEF e, new
<1>5. e \in Tables
  BY <1>1, <1>2, <1>4 DEF Tables
<1>6. /\ e.queue = d.queue /\ e.jstatus = new /\ e.jdest = d.jdest
      /\ e.status = d.status /\ e.pids = d.pids /\ e.job = d.job
      /\ e.jobdest = d.jobdest /\ e.active = d.active
      /\ e.starving = d.starving
  BY <1>1, <1>4 DEF Tables
<1>7. Entries(e) /\ Receiving(e, r)
  BY <1>3, <1>6 DEF Sound, Entries, Queued, Receiving
<1>8. Sound(e, r, x, k)
  BY <1>3, <1>5, <1>6, <1>7, IdleJobsSound
<1> QED
  BY <1>8 DEF e

\* media_update_notnow()
LEMMA UpdateNotNowSound ==
  ASSUME NEW d, NEW r \in SUBSET Jobs,
         NEW x \in SUBSET Printers, NEW k \in Int,
         Sound(d, r, x, k),
         NEW p \in Printers
  PROVE  Sound(UpdateNotNow(d, p), r, x, k)
PROOF
<1> DEFINE new == [j \in Jobs |->
                     IF ~ Queued(d, j) \/ ~ Covers(d.jdest[j], p)
                       THEN d.notnow[j]
                     ELSE IF HasMedia(d, p, j) THEN d.notnow[j] \ {p}
                     ELSE d.notnow[j] \cup {p}]
           e == [d EXCEPT !.notnow = new]
<1>1. d \in Tables
  BY DEF Sound
<1>2. new \in [Jobs -> SUBSET Printers]
  <2>1. \A j \in Jobs : d.notnow[j] \in SUBSET Printers
    BY <1>1 DEF Tables
  <2> QED
    BY <2>1
<1>3. UpdateNotNow(d, p) = UpdateWaitReason(e, p)
  BY DEF UpdateNotNow
<1> HIDE DEF new
<1>4. e \in Tables
  BY <1>1, <1>2 DEF Tables
<1>5. Quiet(d, e)
  BY <1>1 DEF Tables, Quiet
<1> HIDE DEF e
<1>6. Sound(e, r, x, k)
  BY <1>4, <1>5, QuietSound
<1> QED
  BY <1>3, <1>6, WaitReasonSound

\* media_set_notnow_for_job()
LEMMA SetNotNowSound ==
  ASSUME NEW d, NEW r \in SUBSET Jobs,
         NEW x \in SUBSET Printers, NEW k \in Int,
         Sound(d, r, x, k),
         NEW j \in Jobs
  PROVE  Sound(SetNotNowForJob(d, j), r, x, k)
PROOF
<1> DEFINE mask == {p \in MembersOf(d.jdest[j]) : ~ HasMedia(d, p, j)}
           f == [d EXCEPT !.notnow[j] = mask]
           s == JobWaitReason(f, j)
           e == SetNotNowForJob(d, j)
<1>1. d \in Tables
  BY DEF Sound
<1>2. mask \in SUBSET Printers
  BY <1>1, JobStatusType, MembersArePrinters
<1>3. e = [f EXCEPT !.jstatus[j] = s]
  BY DEF SetNotNowForJob
<1> HIDE DEF mask
<1>4. f \in Tables
  BY <1>1, <1>2 DEF Tables
<1>5. /\ f.queue = d.queue /\ f.jstatus = d.jstatus /\ f.jdest = d.jdest
      /\ f.status = d.status /\ f.pids = d.pids /\ f.job = d.job
      /\ f.jobdest = d.jobdest /\ f.active = d.active
      /\ f.starving = d.starving
  BY <1>1 DEF Tables
<1> HIDE DEF f, e
<1>6. /\ s \in JobStatus
      /\ \/ s = d.jstatus[j]
         \/ /\ d.jstatus[j] \in {STATUS_WAITING, STATUS_WAITING4MEDIA}
            /\ s \in {STATUS_WAITING, STATUS_WAITING4MEDIA}
  BY <1>4, <1>5, WaitReasons
<1> HIDE DEF s
<1>7. e \in Tables
  BY <1>3, <1>4, <1>6 DEF Tables
<1>8. /\ e.queue = d.queue /\ e.jdest = d.jdest
      /\ e.status = d.status /\ e.pids = d.pids /\ e.job = d.job
      /\ e.jobdest = d.jobdest /\ e.active = d.active
      /\ e.starving = d.starving
      /\ \A i \in Jobs : e.jstatus[i] = IF i = j THEN s ELSE d.jstatus[i]
  BY <1>3, <1>4, <1>5 DEF Tables
<1>9. Entries(e) /\ Receiving(e, r)
  BY <1>6, <1>8 DEF Sound, Entries, Queued, Receiving
<1>10. Sound(e, r, x, k)
  BY <1>6, <1>7, <1>8, <1>9, IdleJobsSound
<1> QED
  BY <1>10 DEF e

---------------------------------------------------------------------------
(* The queue array *)

\* A job put into the array is in it, and so is all that was there.
LEMMA InsertProperties ==
  ASSUME NEW q \in Seq(Jobs), NEW n \in 1 .. Len(q) + 1, NEW j \in Jobs
  PROVE  /\ Insert(q, n, j) \in Seq(Jobs)
         /\ \E i \in DOMAIN Insert(q, n, j) : Insert(q, n, j)[i] = j
         /\ \A m \in DOMAIN q :
              \E i \in DOMAIN Insert(q, n, j) : Insert(q, n, j)[i] = q[m]
PROOF
<1> DEFINE a == SubSeq(q, 1, n - 1)
           b == <<j>>
           c == SubSeq(q, n, Len(q))
           r == Insert(q, n, j)
<1>1. Len(q) \in Nat /\ DOMAIN q = 1 .. Len(q)
  BY LenProperties
<1>2. /\ a \in Seq(Jobs) /\ Len(a) = n - 1
      /\ \A i \in 1 .. n - 1 : a[i] = q[i]
  BY <1>1, SubSeqProperties
<1>3. /\ c \in Seq(Jobs) /\ Len(c) = Len(q) - n + 1
      /\ \A i \in 1 .. Len(q) - n + 1 : c[i] = q[n + i - 1]
  BY <1>1, SubSeqProperties
<1>4. b \in Seq(Jobs) /\ Len(b) = 1 /\ b[1] = j
  OBVIOUS
<1> DEFINE u == a \o b
<1>5. r = u \o c
  BY DEF Insert
<1> HIDE DEF a, b, c, r
<1>6. /\ u \in Seq(Jobs) /\ Len(u) = n
      /\ \A i \in 1 .. n : u[i] = IF i <= n - 1 THEN q[i] ELSE j
  <2>1. /\ u \in Seq(Jobs) /\ Len(u) = Len(a) + Len(b)
        /\ \A i \in 1 .. Len(a) + Len(b) : u[i] =
             IF i <= Len(a) THEN a[i] ELSE b[i - Len(a)]
    BY <1>2, <1>4, ConcatProperties, Zenon
  <2> HIDE DEF u
  <2>2. Len(a) + Len(b) = n /\ Len(a) = n - 1
    BY <1>2, <1>4
  <2>3. ASSUME NEW i \in 1 .. n
        PROVE  u[i] = IF i <= n - 1 THEN q[i] ELSE j
    <3>1. CASE i <= n - 1
      BY <1>2, <2>1, <2>2, <2>3, <3>1
    <3>2. CASE ~ (i <= n - 1)
      <4>1. i = n /\ i - (n - 1) = 1
        BY <2>3, <3>2
      <4> QED
        BY <1>4, <2>1, <2>2, <2>3, <3>2, <4>1
    <3> QED
      BY <3>1, <3>2
  <2> QED
    BY <2>1, <2>2, <2>3
<1> HIDE DEF u
<1>7. /\ r \in Seq(Jobs) /\ Len(r) = Len(q) + 1 /\ DOMAIN r = 1 .. Len(q) + 1
      /\ \A i \in 1 .. Len(q) + 1 : r[i] = IF i <= n THEN u[i] ELSE c[i - n]
  <2>1. Len(u) + Len(c) = Len(q) + 1
    BY <1>1, <1>3, <1>6
  <2>2. /\ r \in Seq(Jobs) /\ Len(r) = Len(u) + Len(c)
        /\ \A i \in 1 .. Len(u) + Len(c) : r[i] =
             IF i <= Len(u) THEN u[i] ELSE c[i - Len(u)]
    BY <1>3, <1>5, <1>6, ConcatProperties
  <2>3. DOMAIN r = 1 .. Len(q) + 1
    BY <2>1, <2>2, LenProperties
  <2> QED
    BY <1>6, <2>1, <2>2, <2>3
<1>8. r[n] = j /\ n \in DOMAIN r
  <2>1. n \in 1 .. n /\ n \in 1 .. Len(q) + 1 /\ ~ (n <= n - 1)
    BY <1>1
  <2> QED
    BY <1>6, <1>7, <2>1
<1>9. ASSUME NEW m \in DOMAIN q PROVE \E i \in DOMAIN r : r[i] = q[m]
  <2>1. CASE m < n
    <3>1. m \in 1 .. n /\ m \in 1 .. Len(q) + 1 /\ m <= n - 1
      BY <1>1, <1>9, <2>1
    <3>2. m \in DOMAIN r /\ r[m] = q[m]
      BY <1>6, <1>7, <3>1
    <3> QED
      BY <3>2
  <2>2. CASE m >= n
    <3>0. m + 1 \in 1 .. Len(q) + 1 /\ ~ (m + 1 <= n)
      BY <1>1, <1>9, <2>2
    <3>1. m + 1 \in DOMAIN r /\ r[m + 1] = c[m + 1 - n]
      BY <1>7, <3>0
    <3>2. m + 1 - n \in 1 .. Len(q) - n + 1
      BY <1>1, <1>9, <2>2
    <3>3. c[m + 1 - n] = q[n + (m + 1 - n) - 1]
      BY <1>3, <3>2
    <3>4. n + (m + 1 - n) - 1 = m
      BY <1>1, <1>9
    <3> QED
      BY <3>1, <3>3, <3>4
  <2> QED
    BY <1>1, <2>1, <2>2
<1> QED
  BY <1>7, <1>8, <1>9 DEF r

\* A job taken from the array leaves all others in it.
LEMMA RemoveProperties ==
  ASSUME NEW q \in Seq(Jobs), NEW j \in Jobs,
         \E i \in DOMAIN q : q[i] = j
  PROVE  /\ Remove(q, j) \in Seq(Jobs)
         /\ \A m \in DOMAIN q : q[m] # j =>
              \E i \in DOMAIN Remove(q, j) : Remove(q, j)[i] = q[m]
PROOF
<1> DEFINE n == CHOOSE i \in DOMAIN q : q[i] = j
           a == SubSeq(q, 1, n - 1)
           c == SubSeq(q, n + 1, Len(q))
           r == Remove(q, j)
<1>1. Len(q) \in Nat /\ DOMAIN q = 1 .. Len(q)
  BY LenProperties
<1>2. n \in 1 .. Len(q) /\ q[n] = j
  BY <1>1
<1>3. r = a \o c
  BY DEF Remove
<1> HIDE DEF n, r
<1>4. /\ a \in Seq(Jobs) /\ Len(a) = n - 1
      /\ \A i \in 1 .. n - 1 : a[i] = q[i]
  BY <1>1, <1>2, SubSeqProperties
<1>5. /\ c \in Seq(Jobs) /\ Len(c) = Len(q) - n
      /\ \A i \in 1 .. Len(q) - n : c[i] = q[n + i]
  <2>1. n + 1 \in 1 .. Len(q) + 1
    BY <1>1, <1>2
  <2>2. /\ c \in Seq(Jobs)
        /\ Len(c) = IF n + 1 <= Len(q) THEN Len(q) - (n + 1) + 1 ELSE 0
        /\ \A i \in 1 .. Len(q) - (n + 1) + 1 : c[i] = q[(n + 1) + i - 1]
    <3>1. \A i \in n + 1 .. Len(q) : q[i] \in Jobs
      BY <1>1, <1>2
    <3> QED
      BY <1>1, <2>1, <3>1, SubSeqProperties
  <2> HIDE DEF c
  <2>3. Len(c) = Len(q) - n
    <3>1. CASE n + 1 <= Len(q)
      <4>1. Len(q) - (n + 1) + 1 = Len(q) - n
        BY <1>1, <1>2
      <4> QED
        BY <2>2, <3>1, <4>1
    <3>2. CASE ~ (n + 1 <= Len(q))
      <4> DEFINE l == Len(q)
      <4>0. l \in Nat /\ n \in 1 .. l /\ ~ (n + 1 <= l)
        BY <1>1, <1>2, <3>2
      <4>1. Len(q) - n = 0
        <5>1. l - n = 0
          <6> HIDE DEF l
          <6> QED
            BY <4>0
        <5> QED
          BY <5>1
      <4>2. Len(c) = 0
        BY <2>2, <3>2, Zenon
      <4> QED
        BY <4>1, <4>2
    <3> QED
      BY <3>1, <3>2
  <2>4. ASSUME NEW i \in 1 .. Len(q) - n PROVE c[i] = q[n + i]
    <3>1. i \in 1 .. Len(q) - (n + 1) + 1 /\ (n + 1) + i - 1 = n + i
      BY <1>1, <1>2, <2>4
    <3> QED
      BY <2>2, <3>1
  <2> QED
    BY <2>2, <2>3, <2>4
<1> HIDE DEF a, c
<1>6. /\ r \in Seq(Jobs) /\ DOMAIN r = 1 .. Len(q) - 1
      /\ \A i \in 1 .. Len(q) - 1 : r[i] = IF i <= n - 1 THEN a[i]
                                                         ELSE c[i - (n - 1)]
  <2>1. Len(a) + Len(c) = Len(q) - 1 /\ Len(a) = n - 1
    BY <1>1, <1>2, <1>4, <1>5
  <2>2. /\ r \in Seq(Jobs) /\ Len(r) = Len(a) + Len(c)
        /\ \A i \in 1 .. Len(a) + Len(c) : r[i] =
             IF i <= Len(a) THEN a[i] ELSE c[i - Len(a)]
    BY <1>3, <1>4, <1>5, ConcatProperties
  <2>3. DOMAIN r = 1 .. Len(q) - 1
    BY <2>1, <2>2, LenProperties
  <2> QED
    BY <2>1, <2>2, <2>3
<1>7. ASSUME NEW m \in DOMAIN q, q[m] # j
      PROVE  \E i \in DOMAIN r : r[i] = q[m]
  <2>1. CASE m < n
    <3>1. m \in DOMAIN r /\ r[m] = q[m]
      BY <1>1, <1>2, <1>4, <1>6, <1>7, <2>1
    <3> QED
      BY <3>1
  <2>2. CASE m > n
    <3>1. m - 1 \in DOMAIN r /\ r[m - 1] = c[(m - 1) - (n - 1)]
      BY <1>1, <1>2, <1>6, <1>7, <2>2
    <3>2. (m - 1) - (n - 1) = m - n /\ m - n \in 1 .. Len(q) - n
          /\ n + (m - n) = m
      BY <1>1, <1>2, <1>7, <2>2
    <3> QED
      BY <1>5, <3>1, <3>2
  <2> QED
    BY <1>1, <1>2, <1>7, <2>1, <2>2
<1> QED
  BY <1>6, <1>7 DEF r

\* The scan for room ends inside the array or just behind it.
LEMMA PositionRange ==
  ASSUME NEW d \in Tables, NEW j \in Jobs
  PROVE  InsertPosition(d, j) \in 1 .. Len(d.queue) + 1
PROOF
<1> DEFINE later == {i \in DOMAIN d.queue :
                       \/ JobPriority[j] > d.prio[d.queue[i]]
                       \/ /\ JobPriority[j] = d.prio[d.queue[i]]
                          /\ JobSeq[j] < JobSeq[d.queue[i]]}
<1>1. d.queue \in Seq(Jobs)
  BY DEF Tables
<1>2. Len(d.queue) \in Nat /\ DOMAIN d.queue = 1 .. Len(d.queue)
  BY <1>1, LenProperties
<1>3. later \in SUBSET (1 .. Len(d.queue)) /\ later \in SUBSET Nat
  BY <1>2
<1>4. InsertPosition(d, j) =
        IF later = {} THEN Len(d.queue) + 1 ELSE First(later)
  BY DEF InsertPosition
<1> HIDE DEF later
<1>5. CASE later = {}
  BY <1>2, <1>4, <1>5
<1>6. CASE later # {}
  <2>1. First(later) \in later
    BY <1>3, <1>6, FirstIn
  <2>2. First(later) \in 1 .. Len(d.queue)
    BY <1>3, <2>1
  <2> QED
    BY <1>2, <1>4, <1>6, <2>2
<1> QED
  BY <1>5, <1>6

\* What queue_dequeue_job() leaves of the tables when it finds the job.
LEMMA DequeueFacts ==
  ASSUME NEW d \in Tables, Entries(d), NEW dest, NEW j \in Jobs,
         Queued(d, j), d.jdest[j] = dest,
         NEW e, e = DequeueJob(d, dest, j)
  PROVE  /\ e \in Tables /\ Entries(e)
         /\ e.status = d.status /\ e.pids = d.pids /\ e.job = d.job
         /\ e.jobdest = d.jobdest /\ e.active = d.active
         /\ e.starving = d.starving
         /\ \A i \in Jobs :
              /\ e.jstatus[i] = IF i = j THEN STATUS_NONE ELSE d.jstatus[i]
              /\ i # j => e.jdest[i] = d.jdest[i]
PROOF
<1> DEFINE que == Remove(d.queue, j)
           fil == d.files \ {j}
           cnt == [d.count EXCEPT ![dest] = @ - 1]
           jst == [d.jstatus EXCEPT ![j] = STATUS_NONE]
           jds == [d.jdest EXCEPT ![j] = JobDest[j]]
           pri == [d.prio EXCEPT ![j] = JobPriority[j]]
           nev == [d.never EXCEPT ![j] = {}]
           non == [d.notnow EXCEPT ![j] = {}]
           pas == [d.pass EXCEPT ![j] = 0]
<1>1. /\ que \in Seq(Jobs)
      /\ \A m \in DOMAIN d.queue : d.queue[m] # j =>
           \E i \in DOMAIN que : que[i] = d.queue[m]
  <2>1. d.queue \in Seq(Jobs) /\ \E i \in DOMAIN d.queue : d.queue[i] = j
    BY DEF Entries, Tables
  <2> QED
    BY <2>1, RemoveProperties
<1>2. STATUS_NONE \in JobStatus /\ JobDest[j] \in Dests /\ JobPriority[j] \in Nat
  BY JobsAssumption DEF JobStatus
<1>3. cnt \in [Dests -> Int]
  <2>1. dest \in Dests
    BY JobStatusType
  <2> QED
    BY <2>1 DEF Tables
<1>4. /\ fil \in SUBSET Jobs /\ jst \in [Jobs -> JobStatus]
      /\ jds \in [Jobs -> Dests]
  BY <1>2 DEF Tables
<1>5. /\ pri \in [Jobs -> Nat] /\ nev \in [Jobs -> SUBSET Printers]
      /\ non \in [Jobs -> SUBSET Printers] /\ pas \in [Jobs -> Nat]
  BY <1>2 DEF Tables
<1>6. \A i \in Jobs :
        /\ jst[i] = IF i = j THEN STATUS_NONE ELSE d.jstatus[i]
        /\ i # j => jds[i] = d.jdest[i]
  BY DEF Tables
<1>7. e = [d EXCEPT !.queue = que, !.files = fil, !.count = cnt,
                    !.jstatus = jst, !.jdest = jds, !.prio = pri,
                    !.never = nev, !.notnow = non, !.pass = pas]
  <2>1. DequeueJob(d, dest, j) =
          [d EXCEPT !.queue = que, !.files = fil, !.count = cnt,
                    !.jstatus = jst, !.jdest = jds, !.prio = pri,
                    !.never = nev, !.notnow = non, !.pass = pas]
    BY DEF DequeueJob
  <2> HIDE DEF que, fil, cnt, jst, jds, pri, nev, non, pas
  <2> QED
    BY <2>1, Zenon
<1> HIDE DEF que, fil, cnt, jst, jds, pri, nev, non, pas
<1>8. e \in Tables
  <2> DEFINE f == [d EXCEPT !.queue = que, !.files = fil, !.count = cnt,
                            !.jstatus = jst, !.jdest = jds]
  <2>1. f \in Tables
    BY <1>1, <1>3, <1>4 DEF Tables
  <2>2. e = [f EXCEPT !.prio = pri, !.never = nev, !.notnow = non, !.pass = pas]
    BY <1>7
  <2> HIDE DEF f
  <2>3. [f EXCEPT !.prio = pri, !.never = nev, !.notnow = non, !.pass = pas]
          \in Tables
    BY <1>5, <2>1 DEF Tables
  <2> QED
    BY <2>2, <2>3, Zenon
<1>9. /\ e.queue = que /\ e.jstatus = jst /\ e.jdest = jds
      /\ e.status = d.status /\ e.pids = d.pids /\ e.job = d.job
      /\ e.jobdest = d.jobdest /\ e.active = d.active
      /\ e.starving = d.starving
  BY <1>7 DEF Tables
<1>10. Entries(e)
  BY <1>1, <1>6, <1>9 DEF Entries, Queued
<1> QED
  BY <1>6, <1>8, <1>9, <1>10

\* queue_dequeue_job(), for a job that no pprdrv works on.
LEMMA DequeueSound ==
  ASSUME NEW d, NEW r \in SUBSET Jobs,
         NEW x \in SUBSET Printers, NEW k \in Int,
         Sound(d, r, x, k),
         NEW dest, NEW j \in Jobs, \A p \in d.pids : d.job[p] # j
  PROVE  Sound(DequeueJob(d, dest, j), r, x, k)
PROOF
<1> DEFINE e == DequeueJob(d, dest, j)
<1>1. d \in Tables /\ Exclusive(d) /\ Entries(d)
  BY DEF Sound
<1>2. CASE ~ Queued(d, j) \/ d.jdest[j] # dest
  BY <1>2 DEF DequeueJob
<1>3. CASE Queued(d, j) /\ d.jdest[j] = dest
  <2> HIDE DEF e
  <2>1. /\ e \in Tables /\ Entries(e)
        /\ e.status = d.status /\ e.pids = d.pids /\ e.job = d.job
        /\ e.jobdest = d.jobdest /\ e.active = d.active
        /\ e.starving = d.starving
        /\ \A i \in Jobs :
             /\ e.jstatus[i] = IF i = j THEN STATUS_NONE ELSE d.jstatus[i]
             /\ i # j => e.jdest[i] = d.jdest[i]
    BY <1>1, <1>3, DequeueFacts DEF e
  <2>2. Receiving(e, r)
    BY <2>1 DEF Sound, Receiving
  <2>3. \A i \in Jobs : e.jstatus[i] >= 0 =>
           e.jstatus[i] = d.jstatus[i] /\ e.jdest[i] = d.jdest[i]
    BY <2>1
  <2>4. \A p \in d.pids :
           e.jstatus[d.job[p]] \in {p, STATUS_CANCEL, STATUS_SEIZING}
    <3>1. \A p \in d.pids : d.job[p] \in Jobs
      BY <1>1, RunningJobs
    <3> QED
      BY <1>1, <2>1, <3>1 DEF Exclusive
  <2>5. Sound(e, r, x, k)
    BY <2>1, <2>2, <2>3, <2>4, FrameSound
  <2> QED
    BY <2>5 DEF e
<1> QED
  BY <1>2, <1>3

\* queue_accept_queuefile() fills the entry of a job that is in the array
\* and on no printer.  A job that is being received is among those in r.
LEMMA LoadEntrySound ==
  ASSUME NEW d, NEW r \in SUBSET Jobs,
         NEW x \in SUBSET Printers, NEW k \in Int,
         Sound(d, r, x, k),
         NEW j \in Jobs, \E i \in DOMAIN d.queue : d.queue[i] = j,
         d.jstatus[j] \in {STATUS_NONE, STATUS_RECEIVING},
         NEW st \in {STATUS_WAITING, STATUS_HELD, STATUS_RECEIVING},
         NEW t \in SUBSET Jobs,
         t = IF st = STATUS_RECEIVING THEN r \cup {j} ELSE r \ {j}
  PROVE  Sound(LoadEntry(d, j, st), t, x, k)
PROOF
<1> DEFINE jst == [d.jstatus EXCEPT ![j] = st]
           pri == [d.prio EXCEPT ![j] = JobPriority[j]]
           nev == [d.never EXCEPT ![j] = {}]
           pas == [d.pass EXCEPT ![j] = FirstPass(d.jdest[j])]
           e == [d EXCEPT !.jstatus = jst, !.prio = pri, !.never = nev,
                          !.pass = pas]
<1>1. d \in Tables
  BY DEF Sound
<1>2. st \in JobStatus /\ JobPriority[j] \in Nat /\ FirstPass(d.jdest[j]) \in Nat
  BY JobsAssumption DEF JobStatus, FirstPass
<1>3. /\ jst \in [Jobs -> JobStatus] /\ pri \in [Jobs -> Nat]
      /\ nev \in [Jobs -> SUBSET Printers] /\ pas \in [Jobs -> Nat]
  BY <1>1, <1>2 DEF Tables
<1>4. \A i \in Jobs : jst[i] = IF i = j THEN st ELSE d.jstatus[i]
  BY <1>1 DEF Tables
<1>5. LoadEntry(d, j, st) = SetNotNowForJob(e, j)
  BY DEF LoadEntry
<1> HIDE DEF jst, pri, nev, pas
<1>6. e \in Tables
  BY <1>1, <1>3 DEF Tables
<1>7. /\ e.queue = d.queue /\ e.jstatus = jst /\ e.jdest = d.jdest
      /\ e.status = d.status /\ e.pids = d.pids /\ e.job = d.job
      /\ e.jobdest = d.jobdest /\ e.active = d.active
      /\ e.starving = d.starving
  BY <1>1 DEF Tables
<1> HIDE DEF e
<1>8. Entries(e)
  BY <1>4, <1>7 DEF Sound, Entries, Queued
<1>9. Sound(d, {}, x, k)
  BY DEF Sound, Receiving
<1>10. Sound(e, {}, x, k)
  <2>1. Receiving(e, {})
    BY DEF Receiving
  <2> QED
    BY <1>4, <1>6, <1>7, <1>8, <1>9, <2>1, IdleJobsSound
<1>11. Receiving(e, t)
  BY <1>4, <1>7 DEF Sound, Receiving
<1>12. Sound(e, t, x, k)
  BY <1>10, <1>11 DEF Sound
<1> QED
  BY <1>5, <1>12, SetNotNowSound

\* Fewer jobs that are being received are no less sound.
LEMMA FewerReceiving ==
  ASSUME NEW d, NEW r \in SUBSET Jobs, NEW t \in SUBSET Jobs,
         NEW x \in SUBSET Printers, NEW k \in Int,
         Sound(d, r, x, k), \A j \in t \ r : d.jstatus[j] = STATUS_NONE
  PROVE  Sound(d, t, x, k)
  BY DEF Sound, Receiving

\* The files of a job do not matter to what follows.
LEMMA FilesSound ==
  ASSUME NEW d, NEW r \in SUBSET Jobs,
         NEW x \in SUBSET Printers, NEW k \in Int,
         Sound(d, r, x, k), NEW s \in SUBSET Jobs
  PROVE  Sound([d EXCEPT !.files = s], r, x, k)
PROOF
<1> DEFINE e == [d EXCEPT !.files = s]
<1>1. d \in Tables
  BY DEF Sound
<1>2. e \in Tables /\ Quiet(d, e)
  BY <1>1 DEF Tables, Quiet
<1> QED
  BY <1>2, QuietSound

\* queue_new_job()
LEMMA AcceptSound ==
  ASSUME NEW d, NEW r \in SUBSET Jobs,
         NEW lost \in SUBSET Printers, NEW owed \in Int,
         Sound(d, r, lost, owed),
         NEW j \in Jobs, ~ Queued(d, j), j \notin r,
         NEW st \in {STATUS_WAITING, STATUS_HELD, STATUS_RECEIVING}, NEW ff,
         NEW t, t = IF st = STATUS_RECEIVING THEN r \cup {j} ELSE r
  PROVE  Sound(AcceptQueueFile(d, j, st, ff), t, lost, owed)
PROOF
<1>1. d \in Tables /\ t \in SUBSET Jobs
  BY DEF Sound
<1>2. CASE JobDest[j] \notin d.accepting \/ Len(d.queue) = QueueMax
  <2>1. d.files \ {j} \in SUBSET Jobs
    BY <1>1 DEF Tables
  <2>2. Sound(d, t, lost, owed)
    BY <1>1, FewerReceiving DEF Queued
  <2>3. Sound([d EXCEPT !.files = d.files \ {j}], t, lost, owed)
    BY <1>1, <2>1, <2>2, FilesSound
  <2> QED
    BY <1>2, <2>3 DEF AcceptQueueFile
<1>3. CASE ~ (JobDest[j] \notin d.accepting \/ Len(d.queue) = QueueMax)
  <2> DEFINE que == Insert(d.queue, InsertPosition(d, j), j)
             fil == d.files \cup {j}
             cnt == [d.count EXCEPT ![d.jdest[j]] = @ + 1]
             e   == [d EXCEPT !.queue = que, !.files = fil, !.count = cnt]
  <2>1. /\ que \in Seq(Jobs)
        /\ \E i \in DOMAIN que : que[i] = j
        /\ \A m \in DOMAIN d.queue : \E i \in DOMAIN que : que[i] = d.queue[m]
    <3>1. d.queue \in Seq(Jobs)
      BY <1>1 DEF Tables
    <3>2. InsertPosition(d, j) \in 1 .. Len(d.queue) + 1
      BY <1>1, PositionRange
    <3> QED
      BY <3>1, <3>2, InsertProperties, Zenon
  <2>2. fil \in SUBSET Jobs /\ cnt \in [Dests -> Int]
    <3>1. d.jdest[j] \in Dests
      BY <1>1, JobStatusType
    <3> QED
      BY <1>1, <3>1 DEF Tables
  <2>3. AcceptQueueFile(d, j, st, ff) =
          StartIfWaiting(LoadEntry(e, j, st), j, ff)
    BY <1>3 DEF AcceptQueueFile
  <2> HIDE DEF que, fil, cnt
  <2>4. e \in Tables
    BY <1>1, <2>1, <2>2 DEF Tables
  <2>5. /\ e.queue = que /\ e.jstatus = d.jstatus /\ e.jdest = d.jdest
        /\ e.status = d.status /\ e.pids = d.pids /\ e.job = d.job
        /\ e.jobdest = d.jobdest /\ e.active = d.active
        /\ e.starving = d.starving
    BY <1>1 DEF Tables
  <2> HIDE DEF e
  <2>6. Entries(e) /\ Receiving(e, r)
    BY <2>1, <2>5 DEF Sound, Entries, Queued, Receiving
  <2>7. Sound(e, r, lost, owed)
    BY <2>4, <2>5, <2>6, IdleJobsSound
  <2>8. /\ e.jstatus[j] \in {STATUS_NONE, STATUS_RECEIVING}
        /\ \E i \in DOMAIN e.queue : e.queue[i] = j
    BY <2>1, <2>5 DEF Queued
  <2>9. t = IF st = STATUS_RECEIVING THEN r \cup {j} ELSE r \ {j}
    OBVIOUS
  <2>10. Sound(LoadEntry(e, j, st), t, lost, owed)
    BY <1>1, <2>7, <2>8, <2>9, LoadEntrySound
  <2> QED
    BY <1>1, <2>3, <2>10, StartIfWaitingSound
<1> QED
  BY <1>2, <1>3

\* queue_reload_job(), for a job whose data has arrived.
LEMMA ReloadSound ==
  ASSUME NEW d, NEW r \in SUBSET Jobs,
         NEW lost \in SUBSET Printers, NEW owed \in Int,
         Sound(d, r, lost, owed),
         NEW j \in r, NEW ff
  PROVE  Sound(ReloadQueueFile(d, j, STATUS_WAITING, ff), r \ {j}, lost, owed)
PROOF
<1> DEFINE bad == \/ JobDest[j] \notin d.accepting
                  \/ ~ Queued(d, j) \/ d.jdest[j] # JobDest[j]
           fil == IF d.jdest[j] = JobDest[j] THEN d.files \ {j} ELSE d.files
<1>1. d \in Tables /\ j \in Jobs /\ r \ {j} \in SUBSET Jobs
  BY DEF Sound
<1>2. CASE bad
  <2>1. fil \in SUBSET Jobs
    BY <1>1 DEF Tables
  <2>2. Sound(d, r \ {j}, lost, owed)
    BY <1>1, FewerReceiving
  <2>3. Sound([d EXCEPT !.files = fil], r \ {j}, lost, owed)
    BY <1>1, <2>1, <2>2, FilesSound
  <2> QED
    BY <1>2, <2>3 DEF ReloadQueueFile
<1>3. CASE ~ bad
  <2>1. /\ \E i \in DOMAIN d.queue : d.queue[i] = j
        /\ d.jstatus[j] \in {STATUS_NONE, STATUS_RECEIVING}
    BY <1>1, <1>3 DEF Sound, Entries, Receiving
  <2>2. Sound(LoadEntry(d, j, STATUS_WAITING), r \ {j}, lost, owed)
    BY <1>1, <2>1, LoadEntrySound
  <2> QED
    BY <1>1, <1>3, <2>2, StartIfWaitingSound DEF ReloadQueueFile
<1> QED
  BY <1>2, <1>3

---------------------------------------------------------------------------
(* A pprdrv has exited *)

\* What pprdrv_exited() has done to the tables before it turns to the job.
LEMMA NoteExitFacts ==
  ASSUME NEW d \in Tables, Exclusive(d), NEW p \in d.pids, NEW c, NEW e,
         e = NoteExit(d, p, c)
  PROVE  /\ e \in Tables
         /\ e.queue = d.queue /\ e.jstatus = d.jstatus /\ e.jdest = d.jdest
         /\ e.status = d.status /\ e.job = d.job /\ e.jobdest = d.jobdest
         /\ e.pids = d.pids \ {p} /\ e.active = d.active - 1
         /\ e.starving = IF c = "starved" THEN d.starving + 1 ELSE d.starving
PROOF
<1> DEFINE j == d.job[p]
           refused == c = "incapable" /\ IsGroup(d.jobdest[p]) /\ AllRefused(d, p)
           pds == d.pids \ {p}
           kil == d.killed \ {p}
           act == d.active - 1
           stv == IF c = "starved" THEN d.starving + 1 ELSE d.starving
           can == IF c = "printed" THEN d.cancelJob \ {p} ELSE d.cancelJob
           hol == d.holdJob \ {p}
           err == [d.errRetry EXCEPT ![p] =
                     IF c = "prnerr" THEN d.errRetry[p] + 1
                     ELSE IF c \in {"printed", "joberr", "noretry"} THEN 0
                     ELSE d.errRetry[p]]
           cou == [d.countdown EXCEPT ![p] =
                     IF c = "prnerr" THEN RetryDelay(d.errRetry[p] + 1)
                     ELSE IF c = "noretry" THEN 0
                     ELSE IF c = "engaged" THEN EngagedRetry
                     ELSE d.countdown[p]]
           pas == [d.pass EXCEPT ![j] = IF refused THEN d.pass[j] + 1
                                                   ELSE d.pass[j]]
           nev == [d.never EXCEPT ![j] =
                     IF c # "incapable" THEN d.never[j]
                     ELSE IF refused /\ ~ Stranded(d, p) THEN {}
                     ELSE d.never[j] \cup {p}]
           f == [d EXCEPT !.pids = pds, !.killed = kil, !.active = act,
                          !.starving = stv, !.cancelJob = can, !.holdJob = hol]
<1>1. p \in Printers /\ j \in Jobs
  BY RunningJobs
<1>2. /\ pds \in SUBSET Printers /\ kil \in SUBSET Printers /\ act \in Int
      /\ stv \in Int /\ can \in SUBSET Printers /\ hol \in SUBSET Printers
  BY DEF Tables
<1>3. err \in [Printers -> Nat]
  BY <1>1 DEF Tables
<1>4. cou \in [Printers -> Int]
  <2>1. \A n \in Nat : RetryDelay(n) \in Int
    <3>1. \A n \in Nat : n * RetryMultiplier \in Int
      BY LimitsAssumption
    <3> QED
      BY <3>1, LimitsAssumption DEF RetryDelay
  <2>2. RetryDelay(d.errRetry[p] + 1) \in Int /\ d.countdown[p] \in Int
    BY <1>1, <2>1 DEF Tables
  <2>3. d.countdown \in [Printers -> Int] /\ EngagedRetry \in Int
    BY LimitsAssumption DEF Tables
  <2> QED
    BY <1>1, <2>2, <2>3
<1>5. pas \in [Jobs -> Nat] /\ nev \in [Jobs -> SUBSET Printers]
  <2>1. d.pass[j] \in Nat /\ d.never[j] \in SUBSET Printers
    BY <1>1 DEF Tables
  <2> HIDE DEF refused, j
  <2>2. pas \in [Jobs -> Nat]
    BY <1>1, <2>1 DEF Tables
  <2>3. nev \in [Jobs -> SUBSET Printers]
    BY <1>1, <2>1 DEF Tables
  <2> QED
    BY <2>2, <2>3
<1>6. NoteExit(d, p, c) =
        [f EXCEPT !.errRetry = err, !.countdown = cou, !.pass = pas,
                  !.never = nev]
  BY DEF NoteExit
<1> HIDE DEF pds, kil, act, stv, can, hol, err, cou, pas, nev
<1>7. f \in Tables
  BY <1>2 DEF Tables
<1>8. /\ f.queue = d.queue /\ f.jstatus = d.jstatus /\ f.jdest = d.jdest
      /\ f.status = d.status /\ f.job = d.job /\ f.jobdest = d.jobdest
      /\ f.pids = pds /\ f.active = act /\ f.starving = stv
  BY DEF Tables
<1> HIDE DEF f
<1> DEFINE g == [f EXCEPT !.errRetry = err, !.countdown = cou, !.pass = pas,
                          !.never = nev]
<1>9. g \in Tables
  BY <1>3, <1>4, <1>5, <1>7 DEF Tables
<1>10. /\ g.queue = d.queue /\ g.jstatus = d.jstatus /\ g.jdest = d.jdest
       /\ g.status = d.status /\ g.job = d.job /\ g.jobdest = d.jobdest
       /\ g.pids = pds /\ g.active = act /\ g.starving = stv
  BY <1>7, <1>8 DEF Tables
<1>11. e = g
  BY <1>6
<1> HIDE DEF g
<1> QED
  BY <1>9, <1>10, <1>11 DEF pds, act, stv

\* Once the job has got another status than that it prints, all is sound
\* but the status of the printer, which may yet become STARVED (l is 1).
LEMMA ExitFrame ==
  ASSUME NEW d, NEW r \in SUBSET Jobs,
         NEW lost \in SUBSET Printers, NEW owed \in Int,
         Sound(d, r, lost, owed),
         NEW p \in d.pids, NEW l \in Nat, NEW e \in Tables, Entries(e),
         e.status = d.status, e.job = d.job, e.jobdest = d.jobdest,
         e.pids = d.pids \ {p}, e.active = d.active - 1,
         e.starving = d.starving + l,
         e.jstatus[d.job[p]] < 0,
         \A i \in Jobs : i # d.job[p] =>
           e.jstatus[i] = d.jstatus[i] /\ e.jdest[i] = d.jdest[i]
  PROVE  Sound(e, r, lost \cup {p}, owed + l)
PROOF
<1>1. /\ d \in Tables /\ Exclusive(d) /\ Drivers(d, lost) /\ Actives(d)
      /\ Starvers(d, owed) /\ Receiving(d, r)
  BY DEF Sound
<1>2. /\ p \in Printers
      /\ \A q \in d.pids : q \in Printers /\ q \in Nat /\ d.job[q] \in Jobs
  BY <1>1, RunningJobs, StatusRange
<1>3. Drivers(e, lost \cup {p})
  BY <1>1, <1>2 DEF Drivers
<1>4. Actives(e)
  <2>1. IsFiniteSet(d.pids) /\ Cardinality(d.pids) \in Nat
    BY <1>1, PrintersFinite DEF Tables
  <2>2. Cardinality(d.pids \ {p}) = Cardinality(d.pids) - 1
    BY <2>1, FS_RemoveElement
  <2> QED
    BY <1>1, <2>1, <2>2, LimitsAssumption DEF Actives
<1>5. Exclusive(e)
  <2>1. \A q \in e.pids, u \in e.pids : e.job[q] = e.job[u] => q = u
    BY <1>1 DEF Exclusive
  <2>2. ASSUME NEW i \in Jobs, e.jstatus[i] >= 0
        PROVE  /\ e.jstatus[i] \in e.pids
               /\ e.job[e.jstatus[i]] = i
               /\ e.jobdest[e.jstatus[i]] = e.jdest[i]
    <3>1. e.jstatus[i] \in Int
      BY JobStatusType
    <3>2. i # d.job[p]
      BY <2>2, <3>1
    <3> QED
      BY <1>1, <2>2, <3>2 DEF Exclusive
  <2>3. \A q \in e.pids :
          /\ e.job[q] # NoJob
          /\ e.jstatus[e.job[q]] \in {q, STATUS_CANCEL, STATUS_SEIZING}
    BY <1>1, <1>2 DEF Exclusive
  <2> QED
    BY <2>1, <2>2, <2>3 DEF Exclusive
<1>6. Starvers(e, owed + l)
  <2>1. Starved(e) = Starved(d) /\ Starved(d) \in SUBSET Printers
    BY DEF Starved
  <2>2. Cardinality(Starved(d)) \in Nat /\ d.starving \in Int
    BY <1>1, <2>1, PrintersFinite DEF Tables
  <2> QED
    BY <1>1, <2>1, <2>2 DEF Starvers
<1>7. Receiving(e, r)
  <2>1. d.job[p] \notin r
    BY <1>1, <1>2 DEF Exclusive, Receiving
  <2> QED
    BY <1>1, <2>1 DEF Receiving
<1> QED
  BY <1>3, <1>4, <1>5, <1>6, <1>7 DEF Sound

\* The part of pprdrv_exited() that is about the job: it ends in fatal() or
\* leaves only the status of the printer to be settled.
LEMMA DisposeSound ==
  ASSUME NEW d, NEW r \in SUBSET Jobs,
         NEW lost \in SUBSET Printers, NEW owed \in Int,
         Sound(d, r, lost, owed),
         NEW p \in d.pids, NEW c, NEW ff,
         NEW l \in Nat, l = IF c = "starved" THEN 1 ELSE 0,
         NEW e, e = DisposeOfJob(d, p, c, ff), e.fatal # TRUE
  PROVE  Sound(e, r, lost \cup {p}, owed + l)
PROOF
<1> DEFINE j    == d.job[p]
           dest == d.jobdest[p]
           f    == NoteExit(d, p, c)
           new  == JobStatusAfter(d, p, c)
           g    == JobNewStatus(f, dest, j, new)
           h    == DequeueJob(f, dest, j)
<1>1. d \in Tables /\ Exclusive(d) /\ Entries(d)
  BY DEF Sound
<1>2. /\ p \in Printers /\ j \in Jobs
      /\ lost \cup {p} \in SUBSET Printers /\ owed + l \in Int
  BY <1>1, RunningJobs
<1>3. /\ d.starving \in Int
      /\ d.jstatus[j] \in {p, STATUS_CANCEL, STATUS_SEIZING}
      /\ d.jstatus[j] = p => d.jdest[j] = dest
  <2>1. d.starving \in Int
    BY <1>1 DEF Tables
  <2>2. d.jstatus[j] \in {p, STATUS_CANCEL, STATUS_SEIZING}
    BY <1>1 DEF Exclusive
  <2>3. p >= 0
    BY <1>2, StatusRange
  <2>4. d.jstatus[j] = p => d.jdest[j] = dest
    BY <1>1, <1>2, <2>3 DEF Exclusive
  <2> QED
    BY <2>1, <2>2, <2>4
<1>4. /\ f \in Tables
      /\ f.queue = d.queue /\ f.jstatus = d.jstatus /\ f.jdest = d.jdest
      /\ f.status = d.status /\ f.job = d.job /\ f.jobdest = d.jobdest
      /\ f.pids = d.pids \ {p} /\ f.active = d.active - 1
      /\ f.starving = d.starving + l
  <2>1. /\ f \in Tables
        /\ f.queue = d.queue /\ f.jstatus = d.jstatus /\ f.jdest = d.jdest
        /\ f.status = d.status /\ f.job = d.job /\ f.jobdest = d.jobdest
        /\ f.pids = d.pids \ {p} /\ f.active = d.active - 1
        /\ f.starving = IF c = "starved" THEN d.starving + 1 ELSE d.starving
    BY <1>1, NoteExitFacts
  <2> HIDE DEF f
  <2> QED
    BY <1>3, <2>1
<1>5. e = IF c = "printed" \/ p \in d.cancelJob
            THEN [h EXCEPT !.cancelJob = @ \ {p}]
          ELSE IF g.fatal \/ new # STATUS_WAITING THEN g
          ELSE TryStartSuitable(g, j, ff)
  BY DEF DisposeOfJob
<1>6. Entries(f)
  <2> HIDE DEF f
  <2> QED
    BY <1>1, <1>4 DEF Entries, Queued
<1>7. new \in JobStatus /\ new < 0 /\ new # STATUS_NONE
  BY DEF JobStatusAfter, JobStatus
<1> HIDE DEF f, new
<1>8. CASE c = "printed" \/ p \in d.cancelJob
  <2>1. Sound(h, r, lost \cup {p}, owed + l)
    <3>1. CASE Queued(f, j) /\ f.jdest[j] = dest
      <4>1. /\ h \in Tables /\ Entries(h)
            /\ h.status = f.status /\ h.pids = f.pids /\ h.job = f.job
            /\ h.jobdest = f.jobdest /\ h.active = f.active
            /\ h.starving = f.starving
            /\ \A i \in Jobs :
                 /\ h.jstatus[i] = IF i = j THEN STATUS_NONE ELSE f.jstatus[i]
                 /\ i # j => h.jdest[i] = f.jdest[i]
        BY <1>2, <1>4, <1>6, <3>1, DequeueFacts
      <4> HIDE DEF h
      <4>2. h.jstatus[j] < 0
        BY <1>2, <4>1
      <4> QED
        BY <1>4, <4>1, <4>2, ExitFrame
    <3>2. CASE ~ (Queued(f, j) /\ f.jdest[j] = dest)
      <4>1. h = f
        BY <3>2 DEF DequeueJob
      <4>2. f.jstatus[j] < 0
        BY <1>3, <1>4, <3>2, StatusRange DEF Queued
      <4> QED
        BY <1>4, <1>6, <4>1, <4>2, ExitFrame
    <3> QED
      BY <3>1, <3>2
  <2> HIDE DEF h
  <2> DEFINE can == h.cancelJob \ {p}
             u   == [h EXCEPT !.cancelJob = can]
  <2>2. h \in Tables /\ can \in SUBSET Printers
    BY <2>1 DEF Sound, Tables
  <2> HIDE DEF can
  <2>3. u \in Tables /\ Quiet(h, u)
    BY <2>2 DEF Tables, Quiet
  <2>4. e = u
    BY <1>5, <1>8 DEF can
  <2> HIDE DEF u
  <2> QED
    BY <1>2, <2>1, <2>3, <2>4, QuietSound
<1>9. CASE ~ (c = "printed" \/ p \in d.cancelJob)
  <2>1. CASE Queued(f, j) /\ f.jdest[j] = dest
    <3> DEFINE jst == [f.jstatus EXCEPT ![j] = new]
               u   == [f EXCEPT !.jstatus = jst]
    <3>1. g = u
      BY <2>1 DEF JobNewStatus
    <3>2. /\ jst \in [Jobs -> JobStatus]
          /\ \A i \in Jobs : jst[i] = IF i = j THEN new ELSE f.jstatus[i]
      BY <1>2, <1>4, <1>7 DEF Tables
    <3> HIDE DEF jst, g
    <3>3. u \in Tables
      BY <1>4, <3>2 DEF Tables
    <3>4. /\ u.queue = f.queue /\ u.jstatus = jst /\ u.jdest = f.jdest
          /\ u.status = f.status /\ u.job = f.job /\ u.jobdest = f.jobdest
          /\ u.pids = f.pids /\ u.active = f.active
          /\ u.starving = f.starving
      BY <1>4 DEF Tables
    <3> HIDE DEF u
    <3>5. Entries(u)
      BY <1>6, <2>1, <3>2, <3>4 DEF Entries, Queued
    <3>6. u.jstatus[j] < 0
      BY <1>2, <1>7, <3>2, <3>4
    <3>7. Sound(u, r, lost \cup {p}, owed + l)
      <4>1. /\ u.status = d.status /\ u.job = d.job /\ u.jobdest = d.jobdest
            /\ u.pids = d.pids \ {p} /\ u.active = d.active - 1
            /\ u.starving = d.starving + l
            /\ \A i \in Jobs : i # d.job[p] =>
                 u.jstatus[i] = d.jstatus[i] /\ u.jdest[i] = d.jdest[i]
        BY <1>4, <3>2, <3>4
      <4> QED
        BY <3>3, <3>5, <3>6, <4>1, ExitFrame
    <3>8. Sound(TryStartSuitable(u, j, ff), r, lost \cup {p}, owed + l)
      BY <1>2, <3>7, TryStartSound
    <3> QED
      BY <1>5, <1>9, <3>1, <3>7, <3>8
  <2>2. CASE ~ (Queued(f, j) /\ f.jdest[j] = dest)
    <3>1. g = Die(f)
      BY <2>2 DEF JobNewStatus
    <3>2. Die(f).fatal = TRUE
      BY <1>4 DEF Die, Tables
    <3> HIDE DEF g
    <3> QED
      BY <1>5, <1>9, <3>1, <3>2
  <2> QED
    BY <2>1, <2>2
<1> QED
  BY <1>8, <1>9

\* pprdrv_exited()
LEMMA ExitSound ==
  ASSUME NEW d, NEW r \in SUBSET Jobs,
         NEW lost \in SUBSET Printers, NEW owed \in Int,
         Sound(d, r, lost, owed),
         NEW p \in d.pids, NEW code, NEW ff
  PROVE  Sound(PprdrvExited(d, p, code, ff), r, lost, owed)
PROOF
<1> DEFINE c == EffectiveExit(d, p, code)
           f == DisposeOfJob(d, p, c, ff)
           s == PrnStatusAfter(f, p, c)
           g == PrinterNewStatus(f, p, s)
           l == IF c = "starved" THEN 1 ELSE 0
<1>0. d \in Tables /\ Exclusive(d)
  BY DEF Sound
<1>1. p \in Printers
  BY <1>0, RunningJobs
<1>2. PprdrvExited(d, p, code, ff) =
        IF f.fatal THEN Die(d)
        ELSE IF g.status[p] = PRNSTATUS_IDLE THEN PrinterLookForWork(g, p, ff)
        ELSE g
  BY DEF PprdrvExited
<1> HIDE DEF f, c
<1>3. CASE f.fatal
  BY <1>2, <1>3, DieSound
<1>4. CASE ~ f.fatal
  <2>1. Sound(f, r, lost \cup {p}, owed + l)
    <3>1. l \in Nat
      OBVIOUS
    <3> HIDE DEF l
    <3> QED
      <4>1. l = IF c = "starved" THEN 1 ELSE 0
        BY DEF l
      <4>2. f.fatal # TRUE
        BY <1>4
      <4> QED
        BY <3>1, <4>1, <4>2, DisposeSound DEF f
  <2>2. p \notin f.pids
    BY <1>1, <2>1 DEF Sound, Drivers
  <2>3. /\ s \in PrnStatus /\ s \notin Busy
        /\ s = PRNSTATUS_STARVED => c = "starved"
    BY DEF PrnStatusAfter
  <2>4. lost = (lost \cup {p}) \ {p}
    BY <1>1 DEF Sound, Drivers
  <2>5. Sound(g, r, lost, owed)
    <3> HIDE DEF s
    <3>1. /\ owed + l \in Int /\ lost \cup {p} \in SUBSET Printers
          /\ s \in Busy <=> p \in f.pids
          /\ IF s = PRNSTATUS_STARVED THEN owed + 1 <= owed + l
                                      ELSE owed <= owed + l
      BY <1>1, <2>2, <2>3
    <3> HIDE DEF l
    <3> QED
      BY <1>1, <2>1, <2>3, <2>4, <3>1, NewStatusSound
  <2> HIDE DEF g
  <2> QED
    BY <1>1, <1>2, <1>4, <2>5, LookSound
<1> QED
  BY <1>3, <1>4

---------------------------------------------------------------------------
(* The commands *)

\* printer_new_status() between two events: a printer that is not busy, or
\* one that is, gets a status of the same kind.
LEMMA SameKindSound ==
  ASSUME NEW d, NEW r \in SUBSET Jobs,
         NEW lost \in SUBSET Printers, NEW owed \in Int,
         Sound(d, r, lost, owed),
         NEW p \in Printers, NEW s \in PrnStatus, s # PRNSTATUS_STARVED,
         s \in Busy <=> d.status[p] \in Busy
  PROVE  /\ Sound(PrinterNewStatus(d, p, s), r, lost, owed)
         /\ PrinterNewStatus(d, p, s).jstatus = d.jstatus
PROOF
<1>1. d \in Tables
  BY DEF Sound
<1>2. IF s = PRNSTATUS_STARVED THEN owed + 1 <= owed ELSE owed <= owed
  OBVIOUS
<1>3. Sound(PrinterNewStatus(d, p, s), r, lost, owed)
  BY <1>2, NewStatusSound
<1>4. PrinterNewStatus(d, p, s).jstatus = d.jstatus
  BY <1>1 DEF PrinterNewStatus, Tables
<1> QED
  BY <1>3, <1>4

\* The same with the wait reasons of the jobs.
LEMMA ChangeSound ==
  ASSUME NEW d, NEW r \in SUBSET Jobs,
         NEW lost \in SUBSET Printers, NEW owed \in Int,
         Sound(d, r, lost, owed),
         NEW p \in Printers, NEW s \in PrnStatus, s # PRNSTATUS_STARVED,
         s \in Busy <=> d.status[p] \in Busy
  PROVE  Sound(Change(d, p, s), r, lost, owed)
  BY SameKindSound, WaitReasonSound DEF Change

\* Who waits for a printer to stop does not matter to soundness.
LEMMA WaiterSound ==
  ASSUME NEW d, NEW r \in SUBSET Jobs,
         NEW lost \in SUBSET Printers, NEW owed \in Int,
         Sound(d, r, lost, owed),
         NEW w, w = d.waiter \/ \E p \in Printers :
                  w = d.waiter \cup {p} \/ w = d.waiter \ {p}
  PROVE  Sound([d EXCEPT !.waiter = w], r, lost, owed)
PROOF
<1> DEFINE e == [d EXCEPT !.waiter = w]
<1>1. d \in Tables
  BY DEF Sound
<1>2. w \in SUBSET Printers
  BY <1>1 DEF Tables
<1>3. e \in Tables /\ Quiet(d, e)
  BY <1>1, <1>2 DEF Tables, Quiet
<1> QED
  BY <1>3, QuietSound

\* pprdrv_kill()
LEMMA KillSound ==
  ASSUME NEW d, NEW r \in SUBSET Jobs,
         NEW lost \in SUBSET Printers, NEW owed \in Int,
         Sound(d, r, lost, owed), NEW p \in Printers
  PROVE  Sound(PprdrvKill(d, p), r, lost, owed)
PROOF
<1> DEFINE k == d.killed \cup {p}
           e == [d EXCEPT !.killed = k]
<1>1. d \in Tables
  BY DEF Sound
<1>2. k \in SUBSET Printers
  BY <1>1 DEF Tables
<1>3. PprdrvKill(d, p) = IF p \in d.pids THEN e ELSE d
  BY DEF PprdrvKill
<1> HIDE DEF k
<1>4. e \in Tables /\ Quiet(d, e)
  BY <1>1, <1>2 DEF Tables, Quiet
<1> HIDE DEF e
<1>5. Sound(e, r, lost, owed)
  BY <1>4, QuietSound
<1> QED
  BY <1>3, <1>5

\* ppop start and ipp_resume_printer()
LEMMA StartSound ==
  ASSUME NEW d, NEW r \in SUBSET Jobs,
         NEW lost \in SUBSET Printers, NEW owed \in Int,
         Sound(d, r, lost, owed),
         NEW p \in Printers, NEW release, NEW ff
  PROVE  Sound(StartPrinter(d, p, release, ff), r, lost, owed)
PROOF
<1>1. CASE d.status[p] \in {PRNSTATUS_FAULT, PRNSTATUS_STOPT}
  <2>1. Sound(Change(d, p, PRNSTATUS_IDLE), r, lost, owed)
    BY <1>1, ChangeSound
  <2>2. Sound(PrinterLookForWork(Change(d, p, PRNSTATUS_IDLE), p, ff),
              r, lost, owed)
    BY <2>1, LookSound
  <2> QED
    BY <1>1, <2>2 DEF StartPrinter
<1>2. CASE d.status[p] = PRNSTATUS_STOPPING
  <2> DEFINE w == IF release THEN d.waiter \ {p} ELSE d.waiter
             e == [d EXCEPT !.waiter = w]
  <2>0. d \in Tables
    BY DEF Sound
  <2>1. Sound(e, r, lost, owed) /\ e.status = d.status
    BY <2>0, WaiterSound DEF Tables
  <2>2. StartPrinter(d, p, release, ff) = Change(e, p, PRNSTATUS_PRINTING)
    BY <1>2 DEF StartPrinter
  <2> HIDE DEF e
  <2> QED
    BY <1>2, <2>1, <2>2, ChangeSound
<1>3. CASE d.status[p] \notin {PRNSTATUS_FAULT, PRNSTATUS_STOPT,
                               PRNSTATUS_STOPPING}
  BY <1>3 DEF StartPrinter
<1> QED
  BY <1>1, <1>2, <1>3

\* ppop stop, wstop and halt, and ipp_pause_printer()
LEMMA StopSound ==
  ASSUME NEW d, NEW r \in SUBSET Jobs,
         NEW lost \in SUBSET Printers, NEW owed \in Int,
         Sound(d, r, lost, owed),
         NEW p \in Printers, NEW halt, NEW wait
  PROVE  Sound(StopPrinter(d, p, halt, wait), r, lost, owed)
PROOF
<1> DEFINE delayed(z) == [z EXCEPT !.waiter = IF wait THEN z.waiter \cup {p}
                                                      ELSE z.waiter]
           h == Change(d, p, PRNSTATUS_HALTING)
           s == Change(d, p, PRNSTATUS_STOPPING)
<1>1. ASSUME NEW z, Sound(z, r, lost, owed)
      PROVE  Sound(delayed(z), r, lost, owed)
  BY <1>1, WaiterSound
<1>2. CASE d.status[p] \in {PRNSTATUS_FAULT, PRNSTATUS_IDLE,
                            PRNSTATUS_ENGAGED, PRNSTATUS_STARVED}
  <2>1. Sound(Change(d, p, PRNSTATUS_STOPT), r, lost, owed)
    BY <1>2, ChangeSound
  <2> QED
    BY <1>2, <2>1 DEF StopPrinter
<1>3. CASE d.status[p] \in {PRNSTATUS_CANCELING, PRNSTATUS_SEIZING,
                            PRNSTATUS_PRINTING, PRNSTATUS_STOPPING}
  <2>1. Sound(h, r, lost, owed) /\ Sound(s, r, lost, owed)
    BY <1>3, ChangeSound
  <2>2. Sound(PprdrvKill(h, p), r, lost, owed)
    BY <2>1, KillSound
  <2>3. /\ Sound(delayed(h), r, lost, owed) /\ Sound(delayed(s), r, lost, owed)
        /\ Sound(delayed(PprdrvKill(h, p)), r, lost, owed)
    <3> HIDE DEF delayed, h, s
    <3> QED
      BY <1>1, <2>1, <2>2
  <2>4. StopPrinter(d, p, halt, wait) \in
          {delayed(h), delayed(s), delayed(PprdrvKill(h, p)), d}
    BY <1>3 DEF StopPrinter
  <2> HIDE DEF delayed, h, s
  <2> QED
    BY <2>3, <2>4
<1>4. CASE d.status[p] \notin {PRNSTATUS_FAULT, PRNSTATUS_IDLE,
                               PRNSTATUS_ENGAGED, PRNSTATUS_STARVED,
                               PRNSTATUS_CANCELING, PRNSTATUS_SEIZING,
                               PRNSTATUS_PRINTING, PRNSTATUS_STOPPING}
  BY <1>4 DEF StopPrinter
<1> QED
  BY <1>2, <1>3, <1>4

\* A job gets another status: one whose pprdrv is being killed, or any if
\* no pprdrv works on it and it is not being received.
LEMMA NewJobStatusSound ==
  ASSUME NEW d, NEW r \in SUBSET Jobs,
         NEW lost \in SUBSET Printers, NEW owed \in Int,
         Sound(d, r, lost, owed),
         NEW j \in Jobs, NEW s \in JobStatus, s < 0, s # STATUS_NONE,
         d.jstatus[j] \notin {STATUS_NONE, STATUS_RECEIVING},
         \/ s \in {STATUS_CANCEL, STATUS_SEIZING}
         \/ /\ d.jstatus[j] < 0
            /\ d.jstatus[j] \notin {STATUS_CANCEL, STATUS_SEIZING},
         NEW e, e = [d EXCEPT !.jstatus[j] = s]
  PROVE  Sound(e, r, lost, owed)
PROOF
<1> DEFINE jst == [d.jstatus EXCEPT ![j] = s]
           f   == [d EXCEPT !.jstatus = jst]
<1>1. d \in Tables /\ Exclusive(d)
  BY DEF Sound
<1>2. /\ jst \in [Jobs -> JobStatus]
      /\ \A i \in Jobs : jst[i] = IF i = j THEN s ELSE d.jstatus[i]
  BY <1>1 DEF Tables
<1>3. e = f
  OBVIOUS
<1> HIDE DEF jst
<1>4. f \in Tables
  BY <1>1, <1>2 DEF Tables
<1>5. /\ f.queue = d.queue /\ f.jstatus = jst /\ f.jdest = d.jdest
      /\ f.status = d.status /\ f.pids = d.pids /\ f.job = d.job
      /\ f.jobdest = d.jobdest /\ f.active = d.active
      /\ f.starving = d.starving
  BY <1>1 DEF Tables
<1> HIDE DEF f
<1>6. Entries(f) /\ Receiving(f, r)
  BY <1>2, <1>5 DEF Sound, Entries, Queued, Receiving
<1>7. \A q \in d.pids : q \in Nat /\ d.job[q] \in Jobs
  BY <1>1, RunningJobs, StatusRange
<1>8. \A q \in d.pids :
        f.jstatus[d.job[q]] \in {q, STATUS_CANCEL, STATUS_SEIZING}
  <2>1. ASSUME NEW q \in d.pids, d.job[q] = j
        PROVE  s \in {STATUS_CANCEL, STATUS_SEIZING}
    <3>1. d.jstatus[j] \in {q, STATUS_CANCEL, STATUS_SEIZING} /\ q \in Nat
      BY <1>1, <1>7, <2>1 DEF Exclusive
    <3> QED
      BY <3>1
  <2> QED
    BY <1>1, <1>2, <1>5, <1>7, <2>1 DEF Exclusive
<1>9. \A i \in Jobs : f.jstatus[i] >= 0 =>
        f.jstatus[i] = d.jstatus[i] /\ f.jdest[i] = d.jdest[i]
  <2>1. s \in Int
    BY StatusRange
  <2> QED
    BY <1>2, <1>5, <2>1
<1>10. Sound(f, r, lost, owed)
  BY <1>4, <1>5, <1>6, <1>8, <1>9, FrameSound
<1> QED
  BY <1>3, <1>10

\* The flags for the end of a pprdrv do not matter to soundness.
LEMMA FlagsSound ==
  ASSUME NEW d, NEW r \in SUBSET Jobs,
         NEW lost \in SUBSET Printers, NEW owed \in Int,
         Sound(d, r, lost, owed),
         NEW cancel \in SUBSET Printers, NEW hold \in SUBSET Printers
  PROVE  Sound([d EXCEPT !.cancelJob = cancel, !.holdJob = hold],
               r, lost, owed)
PROOF
<1> DEFINE e == [d EXCEPT !.cancelJob = cancel, !.holdJob = hold]
<1>1. d \in Tables
  BY DEF Sound
<1>2. e \in Tables /\ Quiet(d, e)
  BY <1>1 DEF Tables, Quiet
<1> QED
  BY <1>2, QuietSound

\* The printer that a job's status names is one with a pprdrv.
LEMMA PrintsOn ==
  ASSUME NEW d, NEW r, NEW lost, NEW owed, Sound(d, r, lost, owed),
         NEW j \in Jobs, d.jstatus[j] >= 0
  PROVE  /\ d.jstatus[j] \in Printers /\ d.jstatus[j] \in d.pids
         /\ d.status[d.jstatus[j]] \in Busy
         /\ d.jstatus[j] \notin {STATUS_NONE, STATUS_RECEIVING}
PROOF
<1>1. d \in Tables /\ d.jstatus[j] \in d.pids
  BY DEF Sound, Exclusive
<1>2. d.jstatus[j] \in Printers
  BY <1>1 DEF Tables
<1>3. d.jstatus[j] \in Nat
  BY <1>2, StatusRange
<1> QED
  BY <1>1, <1>2, <1>3 DEF Sound, Drivers

\* ppop hold and ipp_hold_job()
LEMMA HoldSound ==
  ASSUME NEW d, NEW r \in SUBSET Jobs,
         NEW lost \in SUBSET Printers, NEW owed \in Int,
         Sound(d, r, lost, owed),
         NEW j \in Jobs, NEW dies \in BOOLEAN
  PROVE  Sound(HoldJob(d, j, dies), r, lost, owed)
PROOF
<1> DEFINE s == d.jstatus[j]
<1>1. d \in Tables /\ s \in Int
  BY JobStatusType DEF Sound
<1>2. STATUS_HELD \in JobStatus /\ STATUS_SEIZING \in JobStatus
  BY DEF JobStatus
<1>3. CASE s \in {STATUS_WAITING, STATUS_WAITING4MEDIA}
  <2> DEFINE e == [d EXCEPT !.jstatus[j] = STATUS_HELD]
  <2>1. Sound(e, r, lost, owed)
    BY <1>2, <1>3, NewJobStatusSound
  <2> QED
    BY <1>3, <2>1 DEF HoldJob
<1>4. CASE s = STATUS_CANCEL
  <2> DEFINE e == [d EXCEPT !.jstatus[j] = STATUS_SEIZING]
             f == [e EXCEPT !.fatal = dies]
  <2>1. Sound(e, r, lost, owed)
    BY <1>2, <1>4, NewJobStatusSound
  <2>2. HoldJob(d, j, dies) = f
    BY <1>4 DEF HoldJob
  <2> HIDE DEF e
  <2>3. e \in Tables
    BY <2>1 DEF Sound
  <2>4. f \in Tables /\ Quiet(e, f)
    BY <2>3 DEF Tables, Quiet
  <2> HIDE DEF f
  <2> QED
    BY <2>1, <2>2, <2>4, QuietSound
<1>5. CASE s >= 0
  <2> DEFINE u == PrinterNewStatus(d, s, PRNSTATUS_SEIZING)
             e == [u EXCEPT !.jstatus[j] = STATUS_SEIZING]
             h == u.holdJob \cup {s}
             f == [e EXCEPT !.cancelJob = e.cancelJob, !.holdJob = h]
  <2>1. s \in Printers /\ d.status[s] \in Busy
        /\ s \notin {STATUS_NONE, STATUS_RECEIVING}
    BY <1>5, PrintsOn
  <2>2. Sound(u, r, lost, owed) /\ u.jstatus = d.jstatus
    BY <2>1, SameKindSound
  <2>3. HoldJob(d, j, dies) =
          PprdrvKill([u EXCEPT !.jstatus[j] = STATUS_SEIZING,
                               !.holdJob = h], s)
    BY <1>5 DEF HoldJob
  <2> HIDE DEF u
  <2>4. Sound(e, r, lost, owed)
    BY <1>2, <2>1, <2>2, NewJobStatusSound
  <2>5. h \in SUBSET Printers /\ u \in Tables
    BY <2>1, <2>2 DEF Sound, Tables
  <2>6. [u EXCEPT !.jstatus[j] = STATUS_SEIZING, !.holdJob = h] = f
    BY <2>5 DEF Tables
  <2> HIDE DEF h, e
  <2>7. e.cancelJob \in SUBSET Printers
    BY <2>4 DEF Sound, Tables
  <2>8. Sound(f, r, lost, owed)
    BY <2>4, <2>5, <2>7, FlagsSound
  <2> HIDE DEF f
  <2> QED
    BY <2>1, <2>3, <2>6, <2>8, KillSound
<1>6. CASE ~ (s >= 0) /\ s \notin {STATUS_WAITING, STATUS_WAITING4MEDIA,
                                   STATUS_CANCEL}
  BY <1>6 DEF HoldJob
<1> QED
  BY <1>3, <1>4, <1>5, <1>6

\* ppop release
LEMMA ReleaseSound ==
  ASSUME NEW d, NEW r \in SUBSET Jobs,
         NEW lost \in SUBSET Printers, NEW owed \in Int,
         Sound(d, r, lost, owed),
         NEW j \in Jobs, NEW ff
  PROVE  Sound(ReleaseJob(d, j, ff), r, lost, owed)
PROOF
<1> DEFINE e == [d EXCEPT !.jstatus[j] = STATUS_WAITING]
<1>1. CASE d.jstatus[j] \in {STATUS_HELD, STATUS_ARRESTED}
  <2>1. STATUS_WAITING \in JobStatus
    BY DEF JobStatus
  <2>2. Sound(e, r, lost, owed)
    BY <1>1, <2>1, NewJobStatusSound
  <2>3. Sound(StartIfWaiting(SetNotNowForJob(e, j), j, ff), r, lost, owed)
    BY <2>2, SetNotNowSound, StartIfWaitingSound
  <2> QED
    BY <1>1, <2>3 DEF ReleaseJob
<1>2. CASE d.jstatus[j] \notin {STATUS_HELD, STATUS_ARRESTED}
  BY <1>2 DEF ReleaseJob
<1> QED
  BY <1>1, <1>2

\* ppop cancel, purge and ipp_cancel_job_core()
LEMMA CancelSound ==
  ASSUME NEW d, NEW r \in SUBSET Jobs,
         NEW lost \in SUBSET Printers, NEW owed \in Int,
         Sound(d, r, lost, owed), NEW j \in Jobs
  PROVE  Sound(CancelJob(d, j), r, lost, owed)
PROOF
<1> DEFINE s == d.jstatus[j]
           withdraw(q, from) ==
             IF d.status[q] = from
               THEN PrinterNewStatus(d, q, PRNSTATUS_CANCELING) ELSE d
<1>1. d \in Tables /\ Exclusive(d) /\ s \in Int
  BY JobStatusType DEF Sound
<1>2. STATUS_CANCEL \in JobStatus
  BY DEF JobStatus
<1>3. ASSUME NEW q \in Printers,
             NEW from \in {PRNSTATUS_PRINTING, PRNSTATUS_SEIZING}
      PROVE  /\ Sound(withdraw(q, from), r, lost, owed)
             /\ withdraw(q, from).jstatus = d.jstatus
  <2>1. CASE d.status[q] = from
    BY <1>3, <2>1, SameKindSound
  <2>2. CASE d.status[q] # from
    BY <2>2
  <2> QED
    BY <2>1, <2>2
<1> HIDE DEF withdraw
<1>4. ASSUME s \notin {STATUS_NONE, STATUS_RECEIVING},
             NEW q \in Printers,
             NEW from \in {PRNSTATUS_PRINTING, PRNSTATUS_SEIZING},
             NEW hold, hold \in {withdraw(q, from).holdJob,
                                 withdraw(q, from).holdJob \ {q}}
      PROVE  Sound([withdraw(q, from) EXCEPT
                      !.holdJob    = hold,
                      !.cancelJob  = @ \cup {q},
                      !.jstatus[j] = STATUS_CANCEL], r, lost, owed)
  <2> DEFINE u == withdraw(q, from)
             e == [u EXCEPT !.jstatus[j] = STATUS_CANCEL]
             c == u.cancelJob \cup {q}
             f == [e EXCEPT !.cancelJob = c, !.holdJob = hold]
  <2>1. Sound(u, r, lost, owed) /\ u.jstatus = d.jstatus
    BY <1>3, <1>4
  <2> HIDE DEF u
  <2>2. Sound(e, r, lost, owed)
    BY <1>2, <1>4, <2>1, NewJobStatusSound
  <2>3. c \in SUBSET Printers /\ hold \in SUBSET Printers /\ u \in Tables
    BY <1>4, <2>1 DEF Sound, Tables, u
  <2>4. [u EXCEPT !.holdJob = hold, !.cancelJob = @ \cup {q},
                  !.jstatus[j] = STATUS_CANCEL] = f
    BY <2>3 DEF Tables
  <2> HIDE DEF e, c
  <2>5. Sound(f, r, lost, owed)
    BY <2>2, <2>3, FlagsSound
  <2> QED
    BY <2>4, <2>5 DEF u
<1>5. CASE s >= 0
  <2> DEFINE u == withdraw(s, PRNSTATUS_PRINTING)
             e == [u EXCEPT !.holdJob    = u.holdJob,
                            !.cancelJob  = @ \cup {s},
                            !.jstatus[j] = STATUS_CANCEL]
             f == [u EXCEPT !.cancelJob  = @ \cup {s},
                            !.jstatus[j] = STATUS_CANCEL]
  <2>1. s \in Printers /\ s \notin {STATUS_NONE, STATUS_RECEIVING}
    BY <1>5, PrintsOn
  <2>2. Sound(e, r, lost, owed)
    BY <1>4, <2>1
  <2>3. u \in Tables
    BY <1>3, <2>1 DEF Sound
  <2>4. CancelJob(d, j) = PprdrvKill(f, s)
    BY <1>5 DEF CancelJob, withdraw
  <2> HIDE DEF u
  <2>5. e = f
    BY <2>3 DEF Tables
  <2> HIDE DEF e, f
  <2> QED
    BY <2>1, <2>2, <2>4, <2>5, KillSound
<1>6. CASE s = STATUS_CANCEL
  BY <1>6 DEF CancelJob
<1>7. CASE s = STATUS_SEIZING
  <2> DEFINE had == HadJob(d, j)
             p   == First(had)
             u   == withdraw(p, PRNSTATUS_SEIZING)
             e   == [u EXCEPT !.holdJob    = u.holdJob \ {p},
                              !.cancelJob  = @ \cup {p},
                              !.jstatus[j] = STATUS_CANCEL]
             f   == [u EXCEPT !.holdJob    = @ \ {p},
                              !.cancelJob  = @ \cup {p},
                              !.jstatus[j] = STATUS_CANCEL]
  <2>1. CASE had = {}
    BY <1>7, <2>1 DEF CancelJob
  <2>2. CASE had # {}
    <3>1. had \in SUBSET Printers /\ had \in SUBSET Nat
      BY StatusRange DEF HadJob
    <3>2. CancelJob(d, j) = f
      BY <1>7, <2>2 DEF CancelJob, withdraw
    <3>3. f = e
      OBVIOUS
    <3> HIDE DEF had
    <3>4. p \in Printers
      BY <2>2, <3>1, FirstIn
    <3>5. s \notin {STATUS_NONE, STATUS_RECEIVING}
      BY <1>7
    <3> HIDE DEF p
    <3>6. Sound(e, r, lost, owed)
      BY <1>4, <3>4, <3>5
    <3> HIDE DEF e, f
    <3> QED
      BY <3>2, <3>3, <3>6
  <2> QED
    BY <2>1, <2>2
<1>8. CASE ~ (s >= 0) /\ s \notin {STATUS_CANCEL, STATUS_SEIZING}
  <2>1. ASSUME NEW q \in d.pids PROVE d.job[q] # j
    <3>1. q \in Nat
      BY <1>1, RunningJobs, StatusRange
    <3> QED
      BY <1>1, <1>8, <3>1 DEF Exclusive
  <2>2. Sound(DequeueJob(d, d.jdest[j], j), r, lost, owed)
    BY <2>1, DequeueSound
  <2> QED
    BY <1>8, <2>2 DEF CancelJob
<1> QED
  BY <1>5, <1>6, <1>7, <1>8

\* ppop_move()
LEMMA MoveSound ==
  ASSUME NEW d, NEW r \in SUBSET Jobs,
         NEW lost \in SUBSET Printers, NEW owed \in Int,
         Sound(d, r, lost, owed), NEW j \in Jobs,
         NEW to \in Dests, NEW ff
  PROVE  Sound(MoveJob(d, j, to, ff), r, lost, owed)
PROOF
<1> DEFINE s   == d.jstatus[j]
           new == IF s = STATUS_STRANDED THEN STATUS_WAITING ELSE s
           jds == [d.jdest EXCEPT ![j] = to]
           jst == [d.jstatus EXCEPT ![j] = new]
           nev == [d.never EXCEPT ![j] = {}]
           pas == [d.pass EXCEPT ![j] = FirstPass(to)]
           e   == [d EXCEPT !.jdest = jds, !.jstatus = jst, !.never = nev,
                            !.pass = pas]
<1>1. d \in Tables /\ s \in Int /\ s \in JobStatus
  BY JobStatusType DEF Sound
<1>2. CASE s >= 0
  BY <1>2 DEF MoveJob
<1>3. CASE ~ (s >= 0)
  <2>1. new \in JobStatus /\ FirstPass(to) \in Nat
    BY <1>1 DEF JobStatus, FirstPass
  <2>2. /\ jds \in [Jobs -> Dests] /\ jst \in [Jobs -> JobStatus]
        /\ nev \in [Jobs -> SUBSET Printers] /\ pas \in [Jobs -> Nat]
    BY <1>1, <2>1 DEF Tables
  <2>3. \A i \in Jobs :
          /\ jst[i] = IF i = j THEN new ELSE d.jstatus[i]
          /\ i # j => jds[i] = d.jdest[i]
    BY <1>1 DEF Tables
  <2>4. MoveJob(d, j, to, ff) = StartIfWaiting(SetNotNowForJob(e, j), j, ff)
    BY <1>3 DEF MoveJob
  <2> HIDE DEF jds, jst, nev, pas
  <2>5. e \in Tables
    BY <1>1, <2>2 DEF Tables
  <2>6. /\ e.queue = d.queue /\ e.jstatus = jst /\ e.jdest = jds
        /\ e.status = d.status /\ e.pids = d.pids /\ e.job = d.job
        /\ e.jobdest = d.jobdest /\ e.active = d.active
        /\ e.starving = d.starving
    BY <1>1 DEF Tables
  <2> HIDE DEF e
  <2>7. Entries(e) /\ Receiving(e, r)
    BY <2>3, <2>6 DEF Sound, Entries, Queued, Receiving
  <2>8. ASSUME NEW i \in Jobs
        PROVE  \/ e.jstatus[i] = d.jstatus[i] /\ e.jdest[i] = d.jdest[i]
               \/ e.jstatus[i] < 0 /\ e.jstatus[i] = d.jstatus[i]
               \/ /\ e.jstatus[i] < 0 /\ d.jstatus[i] < 0
                  /\ d.jstatus[i] \notin {STATUS_CANCEL, STATUS_SEIZING}
    <3>1. CASE i = j
      BY <1>1, <1>3, <2>3, <2>6, <3>1
    <3>2. CASE i # j
      BY <2>3, <2>6, <3>2
    <3> QED
      BY <3>1, <3>2
  <2>9. Sound(e, r, lost, owed)
    BY <2>5, <2>6, <2>7, <2>8, IdleJobsSound
  <2>10. Sound(SetNotNowForJob(e, j), r, lost, owed)
    BY <2>9, SetNotNowSound
  <2> QED
    BY <2>4, <2>10, StartIfWaitingSound
<1> QED
  BY <1>2, <1>3

\* ppop rush and last
LEMMA RushSound ==
  ASSUME NEW d, NEW r \in SUBSET Jobs,
         NEW lost \in SUBSET Printers, NEW owed \in Int,
         Sound(d, r, lost, owed), NEW j \in Jobs,
         Queued(d, j), NEW head \in BOOLEAN
  PROVE  Sound(RushJob(d, j, head), r, lost, owed)
PROOF
<1> DEFINE rest == Remove(d.queue, j)
           que  == IF head THEN <<j>> \o rest ELSE Append(rest, j)
           pri  == [d.prio EXCEPT ![j] = IF head THEN 101 ELSE 1]
           e    == [d EXCEPT !.queue = que, !.prio = pri]
<1>1. d \in Tables
  BY DEF Sound
<1>2. /\ rest \in Seq(Jobs)
      /\ \A m \in DOMAIN d.queue : d.queue[m] # j =>
           \E i \in DOMAIN rest : rest[i] = d.queue[m]
  <2>1. d.queue \in Seq(Jobs) /\ \E i \in DOMAIN d.queue : d.queue[i] = j
    BY <1>1 DEF Sound, Entries, Tables
  <2> QED
    BY <2>1, RemoveProperties
<1>3. pri \in [Jobs -> Nat]
  BY <1>1 DEF Tables
<1>4. RushJob(d, j, head) = e
  BY DEF RushJob
<1> HIDE DEF rest, pri
<1>5. /\ que \in Seq(Jobs)
      /\ \E i \in DOMAIN que : que[i] = j
      /\ \A m \in DOMAIN rest : \E i \in DOMAIN que : que[i] = rest[m]
  <2>1. Len(rest) \in Nat /\ DOMAIN rest = 1 .. Len(rest)
    BY <1>2, LenProperties
  <2>2. CASE head
    <3> DEFINE a == <<j>>
               u == a \o rest
    <3>1. a \in Seq(Jobs) /\ Len(a) = 1 /\ a[1] = j
      OBVIOUS
    <3>2. que = u
      BY <2>2
    <3> HIDE DEF a, que
    <3>3. /\ u \in Seq(Jobs) /\ Len(u) = 1 + Len(rest)
          /\ \A i \in 1 .. 1 + Len(rest) :
               u[i] = IF i <= 1 THEN a[i] ELSE rest[i - 1]
      <4>1. /\ u \in Seq(Jobs) /\ Len(u) = Len(a) + Len(rest)
            /\ \A i \in 1 .. Len(a) + Len(rest) :
                 u[i] = IF i <= Len(a) THEN a[i] ELSE rest[i - Len(a)]
        BY <1>2, <3>1, ConcatProperties, Zenon
      <4> HIDE DEF u
      <4> QED
        BY <3>1, <4>1
    <3> HIDE DEF u
    <3>4. DOMAIN u = 1 .. 1 + Len(rest)
      BY <3>3, LenProperties
    <3>5. 1 \in DOMAIN u /\ u[1] = j
      BY <2>1, <3>1, <3>3, <3>4
    <3>6. ASSUME NEW m \in DOMAIN rest PROVE \E i \in DOMAIN u : u[i] = rest[m]
      <4>1. m + 1 \in 1 .. 1 + Len(rest) /\ ~ (m + 1 <= 1) /\ (m + 1) - 1 = m
        BY <2>1
      <4> QED
        BY <3>3, <3>4, <4>1
    <3> QED
      BY <3>2, <3>3, <3>5, <3>6
  <2>3. CASE ~ head
    <3> DEFINE u == Append(rest, j)
    <3>1. que = u
      BY <2>3
    <3> HIDE DEF que
    <3>2. /\ u \in Seq(Jobs) /\ Len(u) = Len(rest) + 1
          /\ \A i \in 1 .. Len(rest) : u[i] = rest[i]
          /\ u[Len(rest) + 1] = j
      BY <1>2, AppendProperties
    <3> HIDE DEF u
    <3>3. DOMAIN u = 1 .. Len(rest) + 1
      BY <3>2, LenProperties
    <3>4. Len(rest) + 1 \in DOMAIN u
      BY <2>1, <3>3
    <3>5. \A m \in DOMAIN rest : m \in DOMAIN u
      BY <2>1, <3>3
    <3> QED
      BY <2>1, <3>1, <3>2, <3>4, <3>5
  <2> QED
    BY <2>2, <2>3
<1> HIDE DEF que
<1>6. e \in Tables
  BY <1>1, <1>3, <1>5 DEF Tables
<1>7. /\ e.queue = que /\ e.jstatus = d.jstatus /\ e.jdest = d.jdest
      /\ e.status = d.status /\ e.pids = d.pids /\ e.job = d.job
      /\ e.jobdest = d.jobdest /\ e.active = d.active
      /\ e.starving = d.starving
  BY <1>1 DEF Tables
<1> HIDE DEF e
<1>8. Receiving(e, r)
  BY <1>7 DEF Sound, Receiving
<1>9. Entries(e)
  <2>1. ASSUME NEW i \in Jobs, Queued(e, i)
        PROVE  \E m \in DOMAIN que : que[m] = i
    <3>1. CASE i = j
      BY <1>5, <3>1
    <3>2. CASE i # j
      <4>1. PICK m \in DOMAIN d.queue : d.queue[m] = i
        BY <1>7, <2>1 DEF Sound, Entries, Queued
      <4>2. PICK n \in DOMAIN rest : rest[n] = i
        BY <1>2, <3>2, <4>1
      <4> QED
        BY <1>5, <4>2
    <3> QED
      BY <3>1, <3>2
  <2> QED
    BY <1>7, <2>1 DEF Entries
<1>10. Sound(e, r, lost, owed)
  BY <1>6, <1>7, <1>8, <1>9, IdleJobsSound
<1> QED
  BY <1>4, <1>10

\* ppop_mount()
LEMMA MountSound ==
  ASSUME NEW d, NEW r \in SUBSET Jobs,
         NEW lost \in SUBSET Printers, NEW owed \in Int,
         Sound(d, r, lost, owed), NEW p \in Printers,
         NEW b \in Bins[p], NEW m \in MediaIds \cup {NoMedium}, NEW ff
  PROVE  Sound(Mount(d, p, b, m, ff), r, lost, owed)
PROOF
<1> DEFINE all == UNION {Bins[q] : q \in Printers}
           row == [d.mounted[p] EXCEPT ![b] = m]
           mou == [d.mounted EXCEPT ![p] = row]
           e   == [d EXCEPT !.mounted = mou]
           u   == UpdateNotNow(e, p)
<1>1. d \in Tables
  BY DEF Sound
<1>2. mou \in [Printers -> [all -> MediaIds \cup {NoMedium}]]
  <2>1. d.mounted \in [Printers -> [all -> MediaIds \cup {NoMedium}]]
    BY <1>1 DEF Tables
  <2> HIDE DEF all
  <2>2. row \in [all -> MediaIds \cup {NoMedium}]
    BY <2>1
  <2> HIDE DEF row
  <2> QED
    BY <2>1, <2>2
<1>3. Mount(d, p, b, m, ff) =
        IF u.status[p] = PRNSTATUS_IDLE THEN PrinterLookForWork(u, p, ff) ELSE u
  BY DEF Mount
<1> HIDE DEF mou
<1>4. e \in Tables /\ Quiet(d, e)
  BY <1>1, <1>2 DEF Tables, Quiet
<1> HIDE DEF e
<1>5. Sound(e, r, lost, owed)
  BY <1>4, QuietSound
<1>6. Sound(u, r, lost, owed)
  BY <1>5, UpdateNotNowSound
<1> HIDE DEF u
<1> QED
  BY <1>3, <1>6, LookSound

---------------------------------------------------------------------------
(* The timer *)

\* The first loop of printer_tick()
LEMMA TickRetrySound ==
  ASSUME NEW d, NEW r \in SUBSET Jobs,
         NEW lost \in SUBSET Printers, NEW owed \in Int,
         Sound(d, r, lost, owed), NEW p \in Printers,
         NEW ff
  PROVE  Sound(TickRetry(d, p, ff), r, lost, owed)
PROOF
<1> DEFINE cou == [d.countdown EXCEPT ![p] = @ - TickInterval]
           e   == [d EXCEPT !.countdown = cou]
           due == \/ d.status[p] = PRNSTATUS_FAULT /\ d.errRetry[p] # 0
                  \/ d.status[p] = PRNSTATUS_ENGAGED
<1>1. d \in Tables
  BY DEF Sound
<1>2. cou \in [Printers -> Int]
  BY <1>1, LimitsAssumption DEF Tables
<1>3. TickRetry(d, p, ff) =
        IF due
          THEN IF e.countdown[p] > 0 THEN e
               ELSE PrinterLookForWork(
                      PrinterNewStatus(e, p, PRNSTATUS_IDLE), p, ff)
          ELSE d
  BY DEF TickRetry
<1> HIDE DEF cou
<1>4. e \in Tables /\ Quiet(d, e)
  BY <1>1, <1>2 DEF Tables, Quiet
<1> HIDE DEF e
<1>5. Sound(e, r, lost, owed) /\ e.status = d.status
  BY <1>4, QuietSound DEF Quiet
<1>6. CASE due
  <2>1. Sound(PrinterNewStatus(e, p, PRNSTATUS_IDLE), r, lost, owed)
    BY <1>5, <1>6, SameKindSound
  <2>2. Sound(PrinterLookForWork(
                PrinterNewStatus(e, p, PRNSTATUS_IDLE), p, ff), r, lost, owed)
    BY <2>1, LookSound
  <2> QED
    BY <1>3, <1>5, <1>6, <2>2
<1>7. CASE ~ due
  BY <1>3, <1>7
<1> QED
  BY <1>6, <1>7

\* The second loop of printer_tick()
LEMMA TickHungrySound ==
  ASSUME NEW d, NEW r \in SUBSET Jobs,
         NEW lost \in SUBSET Printers, NEW owed \in Int,
         Sound(d, r, lost, owed), NEW ff
  PROVE  Sound(TickHungry(d, ff), r, lost, owed)
PROOF
<1> DEFINE p == IF d.hungry >= NumPrinters THEN 0 ELSE d.hungry
           e == [d EXCEPT !.hungry = p + 1]
           f == PrinterNewStatus(e, p, PRNSTATUS_IDLE)
           g == [f EXCEPT !.starving = f.starving - 1]
<1>1. d \in Tables
  BY DEF Sound
<1>2. p \in Printers /\ p + 1 \in Nat
  <2>1. d.hungry \in Nat
    BY <1>1 DEF Tables
  <2> QED
    BY <2>1, PrintersAssumption DEF Printers
<1>3. TickHungry(d, ff) =
        IF d.starving = 0 \/ d.active >= MaxActive THEN d
        ELSE IF d.status[p] = PRNSTATUS_STARVED THEN PrinterLookForWork(g, p, ff)
        ELSE e
  BY DEF TickHungry
<1> HIDE DEF p
<1>4. e \in Tables /\ Quiet(d, e)
  BY <1>1, <1>2 DEF Tables, Quiet
<1> HIDE DEF e
<1>5. Sound(e, r, lost, owed) /\ e.status = d.status /\ e.starving = d.starving
  BY <1>4, QuietSound DEF Quiet
<1>6. CASE d.status[p] = PRNSTATUS_STARVED
  <2>1. Sound(f, r, lost, owed)
    BY <1>2, <1>5, <1>6, SameKindSound
  <2>2. /\ f \in Tables /\ f.starving = e.starving
        /\ \A q \in Printers :
             f.status[q] = IF q = p THEN PRNSTATUS_IDLE ELSE e.status[q]
    <3>1. f \in Tables
      BY <2>1 DEF Sound
    <3>2. f.starving = e.starving
      BY <1>4 DEF PrinterNewStatus, Tables
    <3>3. \A q \in Printers :
             f.status[q] = IF q = p THEN PRNSTATUS_IDLE ELSE e.status[q]
      BY <1>2, <1>4 DEF PrinterNewStatus, Tables
    <3> HIDE DEF f
    <3> QED
      BY <3>1, <3>2, <3>3
  <2> HIDE DEF f
  <2>3. f.starving - 1 \in Int
    BY <2>2 DEF Tables
  <2>4. /\ g \in Tables
        /\ g.queue = f.queue /\ g.jstatus = f.jstatus /\ g.jdest = f.jdest
        /\ g.status = f.status /\ g.pids = f.pids /\ g.job = f.job
        /\ g.jobdest = f.jobdest /\ g.active = f.active
        /\ g.starving = f.starving - 1
    BY <2>2, <2>3 DEF Tables
  <2> HIDE DEF g
  <2>5. Starvers(g, owed)
    <3>1. Starved(g) = Starved(d) \ {p} /\ p \in Starved(d)
          /\ Starved(d) \in SUBSET Printers
      BY <1>2, <1>5, <1>6, <2>2, <2>4 DEF Starved
    <3>2. IsFiniteSet(Starved(d)) /\ Cardinality(Starved(d)) \in Nat
      BY <3>1, PrintersFinite
    <3>3. Cardinality(Starved(g)) = Cardinality(Starved(d)) - 1
      BY <3>1, <3>2, FS_RemoveElement
    <3>4. d.starving \in Int
      BY <1>1 DEF Tables
    <3> QED
      BY <1>5, <2>2, <2>4, <3>2, <3>3, <3>4 DEF Sound, Starvers
  <2>6. /\ Entries(g) /\ Drivers(g, lost) /\ Actives(g) /\ Exclusive(g)
        /\ Receiving(g, r)
    BY <2>1, <2>4
       DEF Sound, Entries, Queued, Drivers, Actives, Exclusive, Receiving
  <2>7. Sound(g, r, lost, owed)
    BY <2>4, <2>5, <2>6 DEF Sound
  <2>8. Sound(PrinterLookForWork(g, p, ff), r, lost, owed)
    BY <1>2, <2>7, LookSound
  <2> QED
    BY <1>3, <1>6, <2>8
<1>7. CASE d.status[p] # PRNSTATUS_STARVED
  BY <1>3, <1>5, <1>7
<1> QED
  BY <1>6, <1>7

---------------------------------------------------------------------------
(* The specification *)

\* The inductive invariant: between two events no exception is left.
IndInv ==
  /\ Sound(pprd, recv, {}, 0)
  /\ todo \in Seq(Task)
  /\ recv \in SUBSET Jobs
  /\ excused \in SUBSET Jobs

\* A fresh installation is sound.
LEMMA InitInductive == Init => IndInv
PROOF
<1> SUFFICES ASSUME Init PROVE IndInv
  OBVIOUS
<1> DEFINE d == InitTables
<1>1. 0 \in Dests /\ 0 \in PrnStatus /\ STATUS_NONE \in JobStatus
      /\ \A j \in Jobs : JobPriority[j] \in Nat
  BY PrintersAssumption, JobsAssumption DEF Dests, Printers, JobStatus
<1>2. JobPriority \in [Jobs -> Nat]
  BY JobsAssumption
<1>3. d \in Tables
  BY <1>1, <1>2, JobsAssumption DEF InitTables, Tables
<1>4. /\ d.pids = {} /\ d.active = 0 /\ d.starving = 0
      /\ \A p \in Printers : d.status[p] = PRNSTATUS_IDLE
      /\ \A j \in Jobs : d.jstatus[j] = STATUS_NONE
  BY DEF InitTables
<1> HIDE DEF d
<1>5. Entries(d) /\ Drivers(d, {}) /\ Exclusive(d) /\ Receiving(d, {})
  BY <1>4 DEF Entries, Queued, Drivers, Exclusive, Receiving
<1>6. Actives(d) /\ Starvers(d, 0)
  <2>1. Starved(d) = {}
    BY <1>4 DEF Starved
  <2> QED
    BY <1>4, <2>1, FS_EmptySet, LimitsAssumption DEF Actives, Starvers
<1>7. Sound(d, {}, {}, 0)
  BY <1>3, <1>5, <1>6 DEF Sound
<1> QED
  BY <1>7 DEF Init, IndInv, d

\* The first pending iteration and the rest of them.
LEMMA NextTask ==
  ASSUME todo \in Seq(Task), todo # << >>
  PROVE  /\ Tail(todo) \in Seq(Task)
         /\ Head(todo).op \in {"retry", "look"} => Head(todo).arg \in Printers
         /\ Head(todo).op \in {"purge", "move"} => Head(todo).arg \in Jobs
         /\ Head(todo).op = "move" => Head(todo).to \in Dests
PROOF
<1>1. Head(todo) \in Task /\ Tail(todo) \in Seq(Task)
  BY HeadTailProperties
<1> QED
  BY <1>1 DEF Task

\* Every event leaves the tables as sound as they were.
LEMMA EventSound ==
  ASSUME NEW lost \in SUBSET Printers, NEW owed \in Int,
         Sound(pprd, recv, lost, owed), todo \in Seq(Task),
         recv \in SUBSET Jobs, excused \in SUBSET Jobs, [Next]_vars
  PROVE  /\ Sound(pprd', recv', lost, owed) /\ todo' \in Seq(Task)
         /\ recv' \in SUBSET Jobs /\ excused' \in SUBSET Jobs
PROOF
<1>1. /\ Sound(pprd, recv, lost, owed) /\ todo \in Seq(Task)
      /\ recv \in SUBSET Jobs /\ excused \in SUBSET Jobs
      /\ pprd \in Tables /\ pprd.queue \in Seq(Jobs)
  BY DEF Sound, Tables
<1>2. ASSUME NEW op, NEW d, Sound(d, recv, lost, owed), Simple(op, d)
      PROVE  /\ Sound(pprd', recv', lost, owed) /\ todo' \in Seq(Task)
             /\ recv' \in SUBSET Jobs /\ excused' \in SUBSET Jobs
  BY <1>1, <1>2 DEF Simple, Command
<1>3. CASE UNCHANGED vars
  BY <1>1, <1>3 DEF vars
<1>4. CASE PurgeStep
  <2>1. Head(todo).arg \in Jobs /\ Tail(todo) \in Seq(Task)
    BY <1>1, <1>4, NextTask DEF PurgeStep
  <2>2. Sound(CancelJob(pprd, Head(todo).arg), recv, lost, owed)
    BY <1>1, <2>1, CancelSound
  <2> QED
    BY <1>1, <1>4, <2>1, <2>2 DEF PurgeStep
<1>5. CASE MoveStep
  <2>1. /\ Head(todo).arg \in Jobs /\ Tail(todo) \in Seq(Task)
        /\ Head(todo).to \in Dests
    BY <1>1, <1>5, NextTask DEF MoveStep
  <2>2. \A ff : Sound(MoveJob(pprd, Head(todo).arg, Head(todo).to, ff),
                      recv, lost, owed)
    BY <1>1, <2>1, MoveSound
  <2> QED
    BY <1>1, <1>5, <2>1, <2>2 DEF MoveStep
<1>6. CASE LookStep
  <2>1. Head(todo).arg \in Printers /\ Tail(todo) \in Seq(Task)
    BY <1>1, <1>6, NextTask DEF LookStep
  <2>2. \A ff : Sound(PrinterLookForWork(pprd, Head(todo).arg, ff),
                      recv, lost, owed)
    BY <1>1, <2>1, LookSound
  <2> QED
    BY <1>1, <1>6, <2>1, <2>2 DEF LookStep
<1>7. CASE TickStep
  <2>1. /\ Head(todo).op = "retry" => Head(todo).arg \in Printers
        /\ Tail(todo) \in Seq(Task)
    BY <1>1, <1>7, NextTask DEF TickStep
  <2>2. \A ff : /\ Head(todo).op = "retry" =>
                     Sound(TickRetry(pprd, Head(todo).arg, ff),
                           recv, lost, owed)
                /\ Sound(TickHungry(pprd, ff), recv, lost, owed)
    BY <1>1, <2>1, TickRetrySound, TickHungrySound
  <2> QED
    BY <1>1, <1>7, <2>1, <2>2 DEF TickStep
<1>8. CASE Tick
  <2>1. [i \in 1 .. 2 * NumPrinters |->
           IF i <= NumPrinters THEN [op |-> "retry", arg |-> i - 1]
                               ELSE [op |-> "hungry"]] \in Seq(Task)
    <3>1. 2 * NumPrinters \in Nat
      BY PrintersAssumption
    <3>2. \A i \in 1 .. 2 * NumPrinters :
            i <= NumPrinters => i - 1 \in Printers
      BY PrintersAssumption DEF Printers
    <3> QED
      BY <3>1, <3>2 DEF Task
  <2> QED
    BY <1>1, <1>8, <2>1 DEF Tick
<1>9. ASSUME NEW j \in Jobs, NEW st \in Arrivals, SubmitJob(j, st)
      PROVE  /\ Sound(pprd', recv', lost, owed) /\ todo' \in Seq(Task)
             /\ recv' \in SUBSET Jobs /\ excused' \in SUBSET Jobs
  <2>1. PICK ff \in ForkFailures : pprd' = AcceptQueueFile(pprd, j, st, ff)
    BY <1>9 DEF SubmitJob
  <2>2. /\ ~ Queued(pprd, j) /\ j \notin recv
        /\ recv' = IF st = STATUS_RECEIVING THEN recv \cup {j} ELSE recv
        /\ excused' \in SUBSET Jobs /\ todo' = todo
    BY <1>1, <1>9 DEF SubmitJob
  <2>3. st \in {STATUS_WAITING, STATUS_HELD, STATUS_RECEIVING}
    BY InstanceAssumption
  <2>4. Sound(AcceptQueueFile(pprd, j, st, ff), recv', lost, owed)
    BY <1>1, <2>2, <2>3, AcceptSound
  <2> QED
    BY <1>1, <2>1, <2>2, <2>4
<1>10. ASSUME NEW j \in Jobs, ReloadJob(j)
       PROVE  /\ Sound(pprd', recv', lost, owed) /\ todo' \in Seq(Task)
              /\ recv' \in SUBSET Jobs /\ excused' \in SUBSET Jobs
  <2>1. \A ff : Sound(ReloadQueueFile(pprd, j, STATUS_WAITING, ff),
                      recv \ {j}, lost, owed)
    BY <1>1, <1>10, ReloadSound DEF ReloadJob
  <2> QED
    BY <1>1, <1>10, <2>1 DEF ReloadJob
<1>11. ASSUME NEW p \in Printers, NEW code, Exit(p, code)
       PROVE  /\ Sound(pprd', recv', lost, owed) /\ todo' \in Seq(Task)
              /\ recv' \in SUBSET Jobs /\ excused' \in SUBSET Jobs
  <2>1. \A ff : Sound(PprdrvExited(pprd, p, code, ff), recv, lost, owed)
    BY <1>1, <1>11, ExitSound DEF Exit
  <2>2. excused' \in SUBSET Jobs
    <3>1. pprd.job[p] \in Jobs
      BY <1>1, <1>11, RunningJobs DEF Exit, Sound
    <3> QED
      BY <1>1, <1>11, <3>1 DEF Exit
  <2> QED
    BY <1>1, <1>11, <2>1, <2>2 DEF Exit
<1>12. ASSUME NEW p \in Printers,
              PpopStart(p) \/ PpopStop(p) \/ PpopWstop(p) \/ PpopHalt(p)
                \/ IppPausePrinter(p) \/ IppResumePrinter(p)
       PROVE  /\ Sound(pprd', recv', lost, owed) /\ todo' \in Seq(Task)
              /\ recv' \in SUBSET Jobs /\ excused' \in SUBSET Jobs
  <2>1. \A release, ff :
          Sound(StartPrinter(pprd, p, release, ff), recv, lost, owed)
    BY <1>1, StartSound
  <2>2. \A halt, wait :
          Sound(StopPrinter(pprd, p, halt, wait), recv, lost, owed)
    BY <1>1, StopSound
  <2>3. CASE PpopStart(p) \/ IppResumePrinter(p)
    BY <1>2, <2>1, <2>3 DEF PpopStart, IppResumePrinter
  <2>4. CASE PpopStop(p) \/ PpopWstop(p) \/ PpopHalt(p)
    BY <1>2, <2>2, <2>4 DEF PpopStop, PpopWstop, PpopHalt
  <2>5. CASE IppPausePrinter(p)
    BY <1>1, <1>2, <2>2, <2>5 DEF IppPausePrinter
  <2> QED
    BY <1>12, <2>3, <2>4, <2>5
<1>13. ASSUME NEW j \in Jobs,
              PpopHold(j) \/ PpopRelease(j) \/ PpopRush(j) \/ PpopLast(j)
       PROVE  /\ Sound(pprd', recv', lost, owed) /\ todo' \in Seq(Task)
              /\ recv' \in SUBSET Jobs /\ excused' \in SUBSET Jobs
  <2>1. \A dies \in BOOLEAN : Sound(HoldJob(pprd, j, dies), recv, lost, owed)
    BY <1>1, HoldSound
  <2>2. \A ff : Sound(ReleaseJob(pprd, j, ff), recv, lost, owed)
    BY <1>1, ReleaseSound
  <2>3. Queued(pprd, j) =>
          \A head \in BOOLEAN :
            Sound(RushJob(pprd, j, head), recv, lost, owed)
    BY <1>1, RushSound
  <2> QED
    BY <1>2, <1>13, <2>1, <2>2, <2>3 DEF PpopHold, PpopRelease, PpopRush, PpopLast
<1>14. ASSUME NEW j \in Jobs, PpopCancel(j)
       PROVE  /\ Sound(pprd', recv', lost, owed) /\ todo' \in Seq(Task)
              /\ recv' \in SUBSET Jobs /\ excused' \in SUBSET Jobs
  <2>1. Sound(CancelJob(pprd, j), recv, lost, owed)
    BY <1>1, CancelSound
  <2> QED
    BY <1>1, <1>14, <2>1 DEF PpopCancel, Command
<1>15. ASSUME NEW j \in Jobs, NEW to \in Dests, PpopMove(j, to)
       PROVE  /\ Sound(pprd', recv', lost, owed) /\ todo' \in Seq(Task)
              /\ recv' \in SUBSET Jobs /\ excused' \in SUBSET Jobs
  <2>1. \A ff : Sound(MoveJob(pprd, j, to, ff), recv, lost, owed)
    BY <1>1, MoveSound
  <2> QED
    BY <1>2, <1>15, <2>1 DEF PpopMove
<1>16. ASSUME NEW p \in Printers, NEW b \in Bins[p],
              NEW m \in MediaIds \cup {NoMedium}, PpopMount(p, b, m)
       PROVE  /\ Sound(pprd', recv', lost, owed) /\ todo' \in Seq(Task)
              /\ recv' \in SUBSET Jobs /\ excused' \in SUBSET Jobs
  <2>1. \A ff : Sound(Mount(pprd, p, b, m, ff), recv, lost, owed)
    BY <1>1, MountSound
  <2> QED
    BY <1>2, <1>16, <2>1 DEF PpopMount
<1>17. ASSUME NEW dest \in Dests \cup {AllDests}, PpopPurge(dest)
       PROVE  /\ Sound(pprd', recv', lost, owed) /\ todo' \in Seq(Task)
              /\ recv' \in SUBSET Jobs /\ excused' \in SUBSET Jobs
  <2>1. [i \in 1 .. Len(pprd.queue) |->
           [op |-> "purge", arg |-> pprd.queue[i], from |-> dest]] \in Seq(Task)
    <3>1. Len(pprd.queue) \in Nat
          /\ \A i \in 1 .. Len(pprd.queue) : pprd.queue[i] \in Jobs
      BY <1>1
    <3> QED
      BY <3>1 DEF Task
  <2> QED
    BY <1>1, <1>17, <2>1 DEF PpopPurge, Command
<1>18. ASSUME NEW from \in Dests, NEW to \in Dests, PpopMoveAll(from, to)
       PROVE  /\ Sound(pprd', recv', lost, owed) /\ todo' \in Seq(Task)
              /\ recv' \in SUBSET Jobs /\ excused' \in SUBSET Jobs
  <2>1. [i \in 1 .. Len(pprd.queue) |->
           [op |-> "move", arg |-> pprd.queue[i], from |-> from, to |-> to]]
          \in Seq(Task)
    <3>1. Len(pprd.queue) \in Nat
          /\ \A i \in 1 .. Len(pprd.queue) : pprd.queue[i] \in Jobs
      BY <1>1
    <3> QED
      BY <3>1 DEF Task
  <2> QED
    BY <1>1, <1>18, <2>1 DEF PpopMoveAll, Command
<1>19. ASSUME NEW dest \in Dests, PpopAccept(dest) \/ PpopReject(dest)
       PROVE  /\ Sound(pprd', recv', lost, owed) /\ todo' \in Seq(Task)
              /\ recv' \in SUBSET Jobs /\ excused' \in SUBSET Jobs
  <2>1. ASSUME NEW s \in SUBSET Dests
        PROVE  Sound([pprd EXCEPT !.accepting = s], recv, lost, owed)
    <3> DEFINE e == [pprd EXCEPT !.accepting = s]
    <3>1. e \in Tables /\ Quiet(pprd, e)
      BY <1>1 DEF Tables, Quiet
    <3> QED
      BY <1>1, <3>1, QuietSound
  <2>2. /\ pprd.accepting \cup {dest} \in SUBSET Dests
        /\ pprd.accepting \ {dest} \in SUBSET Dests
    BY <1>1 DEF Tables
  <2>3. /\ Sound([pprd EXCEPT !.accepting = @ \cup {dest}], recv, lost, owed)
        /\ Sound([pprd EXCEPT !.accepting = @ \ {dest}], recv, lost, owed)
    BY <2>1, <2>2
  <2> QED
    BY <1>2, <1>19, <2>3 DEF PpopAccept, PpopReject
<1>20. ASSUME NEW g \in Groups, IppPauseGroup(g) \/ IppResumeGroup(g)
       PROVE  /\ Sound(pprd', recv', lost, owed) /\ todo' \in Seq(Task)
              /\ recv' \in SUBSET Jobs /\ excused' \in SUBSET Jobs
  <2>1. ASSUME NEW s \in SUBSET Groups
        PROVE  Sound([pprd EXCEPT !.heldGroups = s], recv, lost, owed)
    <3> DEFINE e == [pprd EXCEPT !.heldGroups = s]
    <3>1. e \in Tables /\ Quiet(pprd, e)
      BY <1>1 DEF Tables, Quiet
    <3> QED
      BY <1>1, <3>1, QuietSound
  <2>2. /\ pprd.heldGroups \cup {g} \in SUBSET Groups
        /\ pprd.heldGroups \ {g} \in SUBSET Groups
    BY <1>1 DEF Tables
  <2>3. /\ Sound([pprd EXCEPT !.heldGroups = @ \cup {g}], recv, lost, owed)
        /\ Sound([pprd EXCEPT !.heldGroups = @ \ {g}], recv, lost, owed)
    BY <2>1, <2>2
  <2>4. CASE IppPauseGroup(g)
    BY <1>2, <2>3, <2>4 DEF IppPauseGroup
  <2>5. CASE IppResumeGroup(g)
    <3>1. Members[g] \in Seq(Printers)
      BY GroupsAssumption
    <3>2. Len(Members[g]) \in Nat
          /\ \A i \in 1 .. Len(Members[g]) : Members[g][i] \in Printers
      BY <3>1
    <3>3. [i \in 1 .. Len(Members[g]) |->
             [op |-> "look", arg |-> Members[g][i]]] \in Seq(Task)
      BY <3>2 DEF Task
    <3> QED
      BY <1>1, <2>3, <2>5, <3>3 DEF IppResumeGroup, Command
  <2> QED
    BY <1>20, <2>4, <2>5
<1> QED
  BY <1>3, <1>4, <1>5, <1>6, <1>7, <1>8, <1>9, <1>10, <1>11, <1>12, <1>13,
     <1>14, <1>15, <1>16, <1>17, <1>18, <1>19, <1>20
  DEF Next, LoopStep, Event, ExitOf, StartCommand, StopCommand

\* Every event leaves the invariant.
LEMMA Preserved == IndInv /\ [Next]_vars => IndInv'
PROOF
<1> SUFFICES ASSUME IndInv, [Next]_vars PROVE IndInv'
  OBVIOUS
<1>1. {} \in SUBSET Printers /\ 0 \in Int
  OBVIOUS
<1> QED
  BY <1>1, EventSound DEF IndInv

---------------------------------------------------------------------------
(* The theorems *)

\* The tables stay sound in every run.
LEMMA Invariance == Spec => []IndInv
  BY InitInductive, Preserved, PTL DEF Spec

\* The tables, the agenda and the observers keep their types, and every job
\* with a status has an entry in the queue array (pprd_queue.c).
THEOREM TypesHold == Spec => []TypeOK
PROOF
<1>1. IndInv => TypeOK
  BY DEF IndInv, Sound, Entries, TypeOK
<1> QED
  BY <1>1, Invariance, PTL

\* pprdrv_start(), pprdrv_exited() and the commands keep the status of a
\* printer in step with whether a pprdrv runs for it.
THEOREM DriversMatch == Spec => []DriverMatchesStatus
PROOF
<1>1. IndInv => DriverMatchesStatus
  BY DEF IndInv, Sound, Drivers, DriverMatchesStatus
<1> QED
  BY <1>1, Invariance, PTL

\* active_printers counts the pprdrv processes and MAX_ACTIVE bounds them.
THEOREM ActiveIsCounted == Spec => []ActiveCount
PROOF
<1>1. IndInv => ActiveCount
  BY DEF IndInv, Sound, Actives, ActiveCount
<1> QED
  BY <1>1, Invariance, PTL

\* No job is ever in the hands of two pprdrv processes, and one that a
\* pprdrv works on is never offered to another printer.
THEOREM PrintingIsExclusive == Spec => []ExclusivePrinting
PROOF
<1>1. IndInv => ExclusivePrinting
  BY DEF IndInv, Sound, Exclusive, ExclusivePrinting
<1> QED
  BY <1>1, Invariance, PTL

\* starving_printers never misses a starved printer, so that printer_tick()
\* goes on feeding until none is left.
THEOREM StarvingIsCovered == Spec => []StarvingCovered
PROOF
<1>1. IndInv => StarvingCovered
  <2> SUFFICES ASSUME IndInv PROVE StarvingCovered
    OBVIOUS
  <2>1. Cardinality(Starved(pprd)) \in Nat
    BY PrintersFinite DEF Starved
  <2>2. Cardinality(Starved(pprd)) + 0 <= pprd.starving
    BY DEF IndInv, Sound, Starvers
  <2> QED
    BY <2>1, <2>2 DEF StarvingCovered
<1> QED
  BY <1>1, Invariance, PTL

\* A job is not printed before ppr has received all of it: until the command
\* "J" its status stays RECEIVING or it leaves the queue.
THEOREM DataComesFirst == Spec => []ReceivedFirst
PROOF
<1>1. IndInv => ReceivedFirst
  BY DEF IndInv, Sound, Receiving, ReceivedFirst, Queued
<1> QED
  BY <1>1, Invariance, PTL
===========================================================================
