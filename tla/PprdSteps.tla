----------------------------- MODULE PprdSteps -----------------------------
(***************************************************************************)
(* What each routine of the spooler daemon changes in the tables, as facts *)
(* that the proofs of its invariants share.  A fact is a relation between  *)
(* the tables before (d) and after (e): Starts is what an attempt to start *)
(* a job may do, Changed a new status of a printer, Refreshed a new entry, *)
(* Stays and Leaves the two ends of a pprdrv.  There is one lemma per      *)
(* routine, and one per handler at the end.                                *)
(***************************************************************************)
EXTENDS PprdProofs

USE DEF PRNSTATUS_IDLE, PRNSTATUS_PRINTING, PRNSTATUS_CANCELING,
        PRNSTATUS_SEIZING, PRNSTATUS_FAULT, PRNSTATUS_ENGAGED,
        PRNSTATUS_STARVED, PRNSTATUS_STOPT, PRNSTATUS_STOPPING,
        PRNSTATUS_HALTING, PrnStatus, Busy,
        STATUS_WAITING, STATUS_HELD, STATUS_WAITING4MEDIA, STATUS_ARRESTED,
        STATUS_CANCEL, STATUS_SEIZING, STATUS_STRANDED, STATUS_RECEIVING,
        STATUS_NONE, NoJob

---------------------------------------------------------------------------
(* What the routines leave alone *)

\* The queue array and what is known of jobs, but for their status and media.
SameEntries(d, e) ==
  /\ e.queue = d.queue /\ e.prio = d.prio /\ e.files = d.files
  /\ e.count = d.count /\ e.jdest = d.jdest /\ e.never = d.never
  /\ e.pass = d.pass /\ e.mounted = d.mounted
  /\ e.accepting = d.accepting /\ e.heldGroups = d.heldGroups

SameJobs(d, e) == SameEntries(d, e) /\ e.notnow = d.notnow

\* Who prints what, and what has been asked of it.
SameHands(d, e) ==
  /\ e.pids = d.pids /\ e.job = d.job /\ e.jobdest = d.jobdest
  /\ e.cancelJob = d.cancelJob /\ e.holdJob = d.holdJob

\* pprdrv_start() gives up.
LEMMA StarveFacts ==
  ASSUME NEW d \in Tables, NEW ps \in SUBSET Printers,
         NEW e, e = Starve(d, ps)
  PROVE  /\ e \in Tables /\ SameJobs(d, e) /\ SameHands(d, e)
         /\ e.jstatus = d.jstatus /\ e.fatal = d.fatal /\ e.waiter = d.waiter
         /\ \A p \in Printers : e.status[p] =
              IF p \in ps THEN PRNSTATUS_STARVED ELSE d.status[p]
PROOF
<1>1. [p \in Printers |-> IF p \in ps THEN PRNSTATUS_STARVED ELSE d.status[p]]
        \in [Printers -> PrnStatus]
  BY DEF Tables
<1>2. Cardinality(ps) \in Nat
  BY PrintersFinite
<1>3. /\ d.wasStarved \ ps \in SUBSET Printers
      /\ d.starving + Cardinality(ps) \in Int
  BY <1>2 DEF Tables
<1>4. e \in Tables
  BY <1>1, <1>3 DEF Starve, Tables
<1>5. /\ SameJobs(d, e) /\ SameHands(d, e)
      /\ e.jstatus = d.jstatus /\ e.fatal = d.fatal /\ e.waiter = d.waiter
      /\ \A p \in Printers : e.status[p] =
           IF p \in ps THEN PRNSTATUS_STARVED ELSE d.status[p]
  BY DEF Starve, Tables, SameJobs, SameEntries, SameHands
<1> QED
  BY <1>4, <1>5

\* pprdrv_start() has forked.
LEMMA LaunchFacts ==
  ASSUME NEW d \in Tables, NEW p \in Printers, NEW j \in Jobs,
         NEW e, e = Launch(d, p, j)
  PROVE  /\ SameJobs(d, e)
         /\ e.pids = d.pids \cup {p}
         /\ e.cancelJob = d.cancelJob /\ e.holdJob = d.holdJob
         /\ e.fatal = d.fatal /\ e.waiter = d.waiter
         /\ \A i \in Jobs : e.jstatus[i] = IF i = j THEN p ELSE d.jstatus[i]
         /\ \A q \in Printers :
              /\ e.status[q] =
                   IF q = p THEN PRNSTATUS_PRINTING ELSE d.status[q]
              /\ e.job[q] = IF q = p THEN j ELSE d.job[q]
              /\ e.jobdest[q] = IF q = p THEN d.jdest[j] ELSE d.jobdest[q]
  BY DEF Launch, Tables, SameJobs, SameEntries

\* printer_new_status()
LEMMA NewStatusFacts ==
  ASSUME NEW d \in Tables, NEW p \in Printers, NEW s, s \in PrnStatus,
         NEW e, e = PrinterNewStatus(d, p, s)
  PROVE  /\ SameJobs(d, e) /\ SameHands(d, e)
         /\ e.jstatus = d.jstatus /\ e.fatal = d.fatal
         /\ s = PRNSTATUS_STOPT => e.waiter = d.waiter \ {p}
         /\ s # PRNSTATUS_STOPT => e.waiter = d.waiter
         /\ \A q \in Printers :
              e.status[q] = IF q = p THEN s ELSE d.status[q]
  BY DEF PrinterNewStatus, Tables, SameJobs, SameEntries, SameHands

\* printer_new_status() keeps the types.
LEMMA NewStatusType ==
  ASSUME NEW d \in Tables, NEW p \in Printers, NEW s, s \in PrnStatus
  PROVE  PrinterNewStatus(d, p, s) \in Tables
PROOF
<1> DEFINE st == [d.status EXCEPT ![p] = s]
           ws == IF d.status[p] = PRNSTATUS_STARVED
                   THEN d.wasStarved \cup {p} ELSE d.wasStarved \ {p}
           wt == IF s = PRNSTATUS_STOPT THEN d.waiter \ {p} ELSE d.waiter
<1>1. st \in [Printers -> PrnStatus]
  BY DEF Tables
<1>2. ws \in SUBSET Printers /\ wt \in SUBSET Printers
  BY DEF Tables
<1> DEFINE f == [d EXCEPT !.status = st]
           g == [f EXCEPT !.wasStarved = ws]
<1>3. PrinterNewStatus(d, p, s) = [g EXCEPT !.waiter = wt]
  BY DEF PrinterNewStatus
<1> HIDE DEF st, ws, wt
<1>4. f \in Tables
  BY <1>1 DEF Tables
<1> HIDE DEF f
<1>5. g \in Tables
  BY <1>2, <1>4 DEF Tables
<1> HIDE DEF g
<1>6. [g EXCEPT !.waiter = wt] \in Tables
  BY <1>2, <1>5 DEF Tables
<1> QED
  BY <1>3, <1>6

\* fatal()
LEMMA DieFacts ==
  ASSUME NEW d \in Tables, NEW e, e = Die(d)
  PROVE  /\ SameJobs(d, e) /\ SameHands(d, e)
         /\ e.jstatus = d.jstatus /\ e.fatal = TRUE
         /\ e.waiter = d.waiter /\ e.status = d.status
  BY DEF Die, Tables, SameJobs, SameEntries, SameHands

\* pprdrv_kill()
LEMMA KillFacts ==
  ASSUME NEW d \in Tables, NEW p, NEW e, e = PprdrvKill(d, p)
  PROVE  /\ SameJobs(d, e) /\ SameHands(d, e)
         /\ e.jstatus = d.jstatus /\ e.fatal = d.fatal
         /\ e.waiter = d.waiter /\ e.status = d.status
  BY DEF PprdrvKill, Tables, SameJobs, SameEntries, SameHands

\* media_startstop_update_waitreason()
LEMMA WaitReasonFacts ==
  ASSUME NEW d \in Tables, NEW p, NEW e, e = UpdateWaitReason(d, p)
  PROVE  /\ SameJobs(d, e) /\ SameHands(d, e)
         /\ e.fatal = d.fatal /\ e.waiter = d.waiter /\ e.status = d.status
         /\ \A j \in Jobs : e.jstatus[j] =
              IF Covers(d.jdest[j], p) THEN JobWaitReason(d, j)
                                       ELSE d.jstatus[j]
  BY DEF UpdateWaitReason, Tables, SameJobs, SameEntries, SameHands

\* printer_look_for_work() fails an assertion, finds nothing, starts a job
\* that waits and that the printer may print, or starves.
LEMMA LookShape ==
  ASSUME NEW d \in Tables, Entries(d), NEW p \in Printers, NEW ff,
         NEW e, e = PrinterLookForWork(d, p, ff)
  PROVE  \/ d.status[p] # PRNSTATUS_IDLE /\ e = Die(d)
         \/ /\ d.status[p] = PRNSTATUS_IDLE /\ e = d
            /\ \A j \in Jobs : ~ (/\ d.jstatus[j] = STATUS_WAITING
                                  /\ Covers(d.jdest[j], p)
                                  /\ Suitable(d, p, j))
         \/ /\ d.status[p] = PRNSTATUS_IDLE
            /\ e = Starve(d, {p})
         \/ /\ d.status[p] = PRNSTATUS_IDLE
            /\ \E j \in Jobs :
                 /\ d.jstatus[j] = STATUS_WAITING
                 /\ Covers(d.jdest[j], p) /\ Suitable(d, p, j)
                 /\ e = Launch(d, p, j)
PROOF
<1> DEFINE work == {i \in DOMAIN d.queue :
                      /\ d.jstatus[d.queue[i]] = STATUS_WAITING
                      /\ Covers(d.jdest[d.queue[i]], p)
                      /\ Suitable(d, p, d.queue[i])}
<1>1. d.queue \in Seq(Jobs)
  BY DEF Tables
<1>2. CASE d.status[p] # PRNSTATUS_IDLE
  BY <1>2 DEF PrinterLookForWork
<1>3. CASE d.status[p] = PRNSTATUS_IDLE /\ work = {}
  <2>1. e = d
    BY <1>3 DEF PrinterLookForWork
  <2>2. ASSUME NEW j \in Jobs, d.jstatus[j] = STATUS_WAITING,
               Covers(d.jdest[j], p), Suitable(d, p, j)
        PROVE  FALSE
    <3>1. PICK i \in DOMAIN d.queue : d.queue[i] = j
      BY <2>2 DEF Entries, Queued
    <3>2. i \in work
      BY <2>2, <3>1
    <3> QED
      BY <1>3, <3>2
  <2> QED
    BY <1>3, <2>1, <2>2
<1>4. CASE d.status[p] = PRNSTATUS_IDLE /\ work # {}
  <2>0. DOMAIN d.queue \subseteq Nat /\ work \subseteq DOMAIN d.queue
    BY <1>1
  <2>1. First(work) \in work
    <3> HIDE DEF work
    <3> QED
      BY <1>4, <2>0, FirstIn
  <2>2. d.queue[First(work)] \in Jobs
    <3>1. First(work) \in DOMAIN d.queue
      BY <2>0, <2>1, Zenon
    <3> HIDE DEF work
    <3> QED
      BY <1>1, <3>1
  <2>3. CASE MayFork(d, p, 0) /\ p \notin ff
    <3>1. e = Launch(d, p, d.queue[First(work)])
      BY <1>4, <2>3 DEF PrinterLookForWork
    <3>2. /\ d.jstatus[d.queue[First(work)]] = STATUS_WAITING
          /\ Covers(d.jdest[d.queue[First(work)]], p)
          /\ Suitable(d, p, d.queue[First(work)])
      BY <2>1
    <3> HIDE DEF work
    <3> QED
      BY <1>4, <2>2, <3>1, <3>2
  <2>4. CASE ~ (MayFork(d, p, 0) /\ p \notin ff)
    <3>1. e = Starve(d, {p})
      BY <1>4, <2>4 DEF PrinterLookForWork
    <3> QED
      BY <1>4, <3>1
  <2> QED
    BY <2>3, <2>4
<1> QED
  BY <1>2, <1>3, <1>4

\* Every printer of the job's destination is tried.
LEMMA TryOrderCovers ==
  ASSUME NEW d \in Tables, NEW j \in Jobs, NEW p, Covers(d.jdest[j], p)
  PROVE  \E i \in DOMAIN TryOrder(d, j) : TryOrder(d, j)[i] = p
PROOF
<1> DEFINE g == d.jdest[j]
           n == Len(Members[g])
           y == IF g \in Rotating THEN d.last[g] ELSE -1
<1>1. CASE g \notin Groups
  BY <1>1 DEF TryOrder, IsGroup, Covers, MembersOf
<1>2. CASE g \in Groups
  <2>1. /\ Members[g] \in Seq(Printers)
        /\ n \in Nat /\ DOMAIN Members[g] = 1 .. n
    BY <1>2, GroupsAssumption, LenProperties
  <2>2. y \in Int
    BY <1>2 DEF Tables
  <2>3. PICK m \in 1 .. n : Members[g][m] = p
    BY <1>2, <2>1 DEF Covers, MembersOf, IsGroup
  <2>4. TryOrder(d, j) = [x \in 1 .. n |-> Members[g][((y + x) % n) + 1]]
    BY <1>2 DEF TryOrder, IsGroup
  <2>5. \E x \in 1 .. n : (y + x) % n = m - 1
    <3> HIDE DEF n, y
    <3> DEFINE k == (m - 2 - y) % n
    <3>1. n \in Nat \ {0} /\ m - 2 - y \in Int
      BY <2>1, <2>2, <2>3
    <3>2. k \in 0 .. n - 1 /\ m - 2 - y = n * ((m - 2 - y) \div n) + k
          /\ (m - 2 - y) \div n \in Int
      BY <3>1, ModRange, DivMod
    <3> DEFINE q == (m - 2 - y) \div n
    <3> HIDE DEF k, q
    <3>3. k \in 0 .. n - 1 /\ m - 2 - y = n * q + k /\ q \in Int
      BY <3>2 DEF q, k
    <3>4. k + 1 \in 1 .. n
      BY <3>1, <3>3
    <3>5. n * q \in Int /\ y + (k + 1) = (m - 1) - n * q
      BY <2>2, <2>3, <3>1, <3>3
    <3>6. ((m - 1) - n * q) % n = m - 1
      <4> DEFINE a == (m - 1) - n * q
                 b == a \div n
                 c == a % n
      <4>1. a \in Int
        BY <2>3, <3>5
      <4>2. b \in Int /\ c \in 0 .. n - 1 /\ a = n * b + c
        BY <3>1, <4>1, ModRange, DivMod
      <4> HIDE DEF b, c
      <4>3. m - 1 \in 0 .. n - 1 /\ n * b \in Int
        BY <2>3, <3>1, <4>2
      <4>4. n * b + n * q = n * (b + q) /\ b + q \in Int
        BY <3>1, <3>3, <4>2
      <4>5. m - 1 = n * (b + q) + c
        BY <2>3, <3>5, <4>2, <4>3, <4>4
      <4> DEFINE u == b + q
      <4>6. u \in Int /\ m - 1 = n * u + c /\ n * u \in Int /\ n * 0 = 0
        BY <3>1, <4>4, <4>5
      <4> HIDE DEF u
      <4>7. ~ (n * 0 < n * u) /\ ~ (n * u < n * 0)
        BY <3>1, <4>2, <4>3, <4>6, MultiplesApart
      <4>8. n * u = 0
        BY <4>6, <4>7
      <4> QED
        BY <4>2, <4>3, <4>6, <4>8 DEF c, a
    <3> QED
      BY <3>4, <3>5, <3>6
  <2>6. PICK x \in 1 .. n : (y + x) % n = m - 1
    BY <2>5
  <2>7. TryOrder(d, j)[x] = p /\ x \in DOMAIN TryOrder(d, j)
    <3>1. TryOrder(d, j)[x] = Members[g][((y + x) % n) + 1]
      BY <2>4
    <3>2. (m - 1) + 1 = m
      BY <2>3, <2>1
    <3> HIDE DEF n, y
    <3> QED
      BY <2>3, <2>4, <2>6, <3>1, <3>2
  <2> QED
    BY <2>7
<1> QED
  BY <1>1, <1>2

\* p may print j, and j waits for that.
Fits(d, p, j) ==
  /\ d.jstatus[j] = STATUS_WAITING
  /\ Covers(d.jdest[j], p)
  /\ Suitable(d, p, j)

\* p has the status it had, or was idle and starves.
StillOrStarves(d, e, p) ==
  \/ e.status[p] = d.status[p]
  \/ d.status[p] = PRNSTATUS_IDLE /\ e.status[p] = PRNSTATUS_STARVED

\* The idle printer p has begun to print j.
Begins(d, e, p, j) ==
  /\ d.status[p] = PRNSTATUS_IDLE /\ Fits(d, p, j)
  /\ e.pids = d.pids \cup {p}
  /\ \A i \in Jobs : e.jstatus[i] = IF i = j THEN p ELSE d.jstatus[i]
  /\ e.status[p] = PRNSTATUS_PRINTING /\ e.job[p] = j
  /\ e.jobdest[p] = d.jdest[j]
  /\ \A q \in Printers \ {p} :
       /\ StillOrStarves(d, e, q)
       /\ e.job[q] = d.job[q] /\ e.jobdest[q] = d.jobdest[q]

\* What an attempt to start a job may do: some idle printers starve, and at
\* most one begins to print a job that it may print.
Starts(d, e) ==
  /\ SameJobs(d, e)
  /\ e.cancelJob = d.cancelJob /\ e.holdJob = d.holdJob
  /\ e.waiter = d.waiter /\ e.fatal = d.fatal
  /\ \/ /\ SameHands(d, e) /\ e.jstatus = d.jstatus
        /\ \A p \in Printers : StillOrStarves(d, e, p)
     \/ \E p \in Printers, j \in Jobs : Begins(d, e, p, j)

\* Only idle printers are started.
LEMMA StartsIdle ==
  ASSUME NEW d, NEW e, Starts(d, e), NEW p \in Printers,
         d.status[p] # PRNSTATUS_IDLE
  PROVE  e.status[p] = d.status[p]
PROOF
  BY DEF Starts, StillOrStarves, Begins

\* Nothing is tried.
LEMMA NothingStarts ==
  ASSUME NEW d
  PROVE  Starts(d, d)
  BY DEF Starts, SameJobs, SameEntries, SameHands, StillOrStarves

\* Some printers starve.
LEMMA StarveStarts ==
  ASSUME NEW d \in Tables, NEW ps \in SUBSET Printers,
         \A p \in ps : d.status[p] = PRNSTATUS_IDLE
  PROVE  Starts(d, Starve(d, ps))
PROOF
<1> DEFINE e == Starve(d, ps)
<1> HIDE DEF e
<1>1. /\ SameJobs(d, e) /\ SameHands(d, e)
      /\ e.jstatus = d.jstatus /\ e.fatal = d.fatal /\ e.waiter = d.waiter
      /\ \A p \in Printers : e.status[p] =
           IF p \in ps THEN PRNSTATUS_STARVED ELSE d.status[p]
  BY StarveFacts DEF e
<1>2. Starts(d, e)
  BY <1>1 DEF Starts, SameHands, StillOrStarves
<1> QED
  BY <1>2 DEF e

\* A printer begins to print, perhaps after others have begun to starve.
LEMMA LaunchStarts ==
  ASSUME NEW d \in Tables, NEW s \in Tables, Starts(d, s),
         s.jstatus = d.jstatus, SameHands(d, s),
         NEW p \in Printers, d.status[p] = PRNSTATUS_IDLE,
         s.status[p] = PRNSTATUS_IDLE,
         NEW j \in Jobs, Fits(d, p, j)
  PROVE  Starts(d, Launch(s, p, j))
PROOF
<1> DEFINE e == Launch(s, p, j)
<1> HIDE DEF e
<1>1. /\ SameJobs(s, e)
      /\ e.pids = s.pids \cup {p}
      /\ e.cancelJob = s.cancelJob /\ e.holdJob = s.holdJob
      /\ e.fatal = s.fatal /\ e.waiter = s.waiter
      /\ \A i \in Jobs : e.jstatus[i] = IF i = j THEN p ELSE s.jstatus[i]
      /\ \A q \in Printers :
           /\ e.status[q] = IF q = p THEN PRNSTATUS_PRINTING ELSE s.status[q]
           /\ e.job[q] = IF q = p THEN j ELSE s.job[q]
           /\ e.jobdest[q] = IF q = p THEN s.jdest[j] ELSE s.jobdest[q]
  BY LaunchFacts DEF e
<1>2. \A q \in Printers : StillOrStarves(d, s, q)
  <2>1. CASE \A q \in Printers : StillOrStarves(d, s, q)
    BY <2>1
  <2>2. CASE \E q \in Printers, i \in Jobs : Begins(d, s, q, i)
    <3>1. PICK q \in Printers, i \in Jobs : Begins(d, s, q, i)
      BY <2>2
    <3>2. s.jstatus[i] = q /\ d.jstatus[i] = STATUS_WAITING
      BY <3>1 DEF Begins, Fits
    <3> QED
      BY <3>2, StatusRange
  <2> QED
    BY <2>1, <2>2 DEF Starts
<1>3. SameJobs(d, s) /\ SameJobs(d, e) /\ s.jdest = d.jdest
  BY <1>1 DEF Starts, SameJobs, SameEntries
<1>4. /\ e.cancelJob = d.cancelJob /\ e.holdJob = d.holdJob
      /\ e.waiter = d.waiter /\ e.fatal = d.fatal
  BY <1>1 DEF Starts
<1>5. Begins(d, e, p, j)
  BY <1>1, <1>2, <1>3 DEF Begins, SameHands, StillOrStarves
<1>6. Starts(d, e)
  BY <1>3, <1>4, <1>5 DEF Starts
<1> QED
  BY <1>6 DEF e

\* printer_look_for_work() of an idle printer: if the printer is idle
\* afterwards there is no job for it.
LEMMA LookFacts ==
  ASSUME NEW d \in Tables, Entries(d), NEW p \in Printers, NEW ff,
         d.status[p] = PRNSTATUS_IDLE,
         NEW e, e = PrinterLookForWork(d, p, ff)
  PROVE  /\ Starts(d, e)
         /\ e.status[p] = PRNSTATUS_IDLE =>
              e = d /\ \A j \in Jobs : ~ Fits(d, p, j)
PROOF
<1>1. CASE e = d /\ \A j \in Jobs : ~ Fits(d, p, j)
  BY <1>1, NothingStarts
<1>2. CASE e = Starve(d, {p})
  <2>1. Starts(d, e)
    BY <1>2, StarveStarts
  <2>2. e.status[p] = PRNSTATUS_STARVED
    BY <1>2, StarveFacts
  <2> QED
    BY <2>1, <2>2
<1>3. CASE \E j \in Jobs : Fits(d, p, j) /\ e = Launch(d, p, j)
  <2>1. PICK j \in Jobs : Fits(d, p, j) /\ e = Launch(d, p, j)
    BY <1>3
  <2>2. Starts(d, d) /\ SameHands(d, d)
    BY NothingStarts DEF SameHands
  <2>3. Starts(d, e)
    BY <2>1, <2>2, LaunchStarts
  <2>4. e.status[p] = PRNSTATUS_PRINTING
    BY <2>1, LaunchFacts
  <2> QED
    BY <2>3, <2>4
<1> QED
  BY <1>1, <1>2, <1>3, LookShape DEF Fits

\* printer_try_start_suitable_4_this_job() for a job that waits: if the job
\* waits afterwards no printer that may print it is left idle.
LEMMA TryFacts ==
  ASSUME NEW d \in Tables, NEW j \in Jobs, NEW ff,
         d.jstatus[j] = STATUS_WAITING,
         NEW e, e = TryStartSuitable(d, j, ff)
  PROVE  /\ Starts(d, e)
         /\ e.jstatus[j] # STATUS_WAITING
              \/ \A p \in Printers : e.status[p] = PRNSTATUS_IDLE =>
                                       ~ Fits(d, p, j)
PROOF
<1> DEFINE try  == TryOrder(d, j)
           idle == {i \in DOMAIN try : /\ d.status[try[i]] = PRNSTATUS_IDLE
                                       /\ Suitable(d, try[i], j)}
           before(i) == {try[m] : m \in {m \in idle : m < i}}
           able == {i \in idle : /\ MayFork(d, try[i], Cardinality(before(i)))
                                 /\ try[i] \notin ff}
           w    == First(able)
<1>2. \A i \in idle : /\ i \in Nat
                      /\ try[i] \in Printers
                      /\ Covers(d.jdest[j], try[i])
                      /\ Suitable(d, try[i], j)
                      /\ d.status[try[i]] = PRNSTATUS_IDLE
  BY TryOrderMembers
<1>4. CASE able = {}
  <2> DEFINE all == {try[i] : i \in idle}
  <2>1. all \in SUBSET Printers /\ \A p \in all : d.status[p] = PRNSTATUS_IDLE
    <3> HIDE DEF idle, try
    <3> QED
      BY <1>2
  <2>2. e = Starve(d, all)
    BY <1>4 DEF TryStartSuitable
  <2>3. ASSUME NEW p \in Printers, d.status[p] = PRNSTATUS_IDLE, Fits(d, p, j)
        PROVE  p \in all
    <3>1. PICK i \in DOMAIN try : try[i] = p
      BY <2>3, TryOrderCovers DEF Fits
    <3>2. i \in idle
      BY <2>3, <3>1 DEF Fits
    <3> HIDE DEF idle, try
    <3> QED
      BY <3>1, <3>2
  <2> HIDE DEF all
  <2>4. Starts(d, e)
    BY <2>1, <2>2, StarveStarts
  <2>5. \A p \in Printers : e.status[p] =
           IF p \in all THEN PRNSTATUS_STARVED ELSE d.status[p]
    BY <2>1, <2>2, StarveFacts
  <2> QED
    BY <2>3, <2>4, <2>5
<1>5. CASE able # {}
  <2>1. able \subseteq idle
    OBVIOUS
  <2>2. w \in able
    <3>1. able \in SUBSET Nat
      BY <1>2, <2>1
    <3> HIDE DEF able
    <3> QED
      BY <1>5, <3>1, FirstIn
  <2>3. /\ w \in Nat /\ try[w] \in Printers
        /\ d.status[try[w]] = PRNSTATUS_IDLE
        /\ Fits(d, try[w], j)
    <3> HIDE DEF able, idle, w, try
    <3> QED
      BY <1>2, <2>1, <2>2 DEF Fits
  <2>4. /\ before(w) \in SUBSET Printers
        /\ \A p \in before(w) : d.status[p] = PRNSTATUS_IDLE
    <3> HIDE DEF idle, w, try
    <3> QED
      BY <1>2
  <2>6. try[w] \notin before(w)
    <3>1. ASSUME NEW m \in idle, m < w PROVE try[m] # try[w]
      <4>1. m \in DOMAIN try /\ w \in DOMAIN try
        BY <2>1, <2>2
      <4> HIDE DEF idle, w
      <4> QED
        BY <3>1, <4>1, TryOrderDistinct
    <3> HIDE DEF idle, w, try
    <3> QED
      BY <3>1
  <2> DEFINE s == Starve(d, before(w))
             q == try[w]
  <2>7. e = Launch(s, q, j)
    BY <1>5 DEF TryStartSuitable
  <2> HIDE DEF before, w, try
  <2>8. Starts(d, s) /\ s \in Tables
    BY <2>4, StarveStarts, StarveFacts
  <2>9. /\ s.status[q] = PRNSTATUS_IDLE
        /\ s.jstatus = d.jstatus /\ SameHands(d, s)
    BY <2>3, <2>4, <2>6, StarveFacts
  <2> HIDE DEF s, q
  <2>10. q \in Printers /\ d.status[q] = PRNSTATUS_IDLE /\ Fits(d, q, j)
    BY <2>3 DEF q
  <2>11. Starts(d, e)
    BY <2>7, <2>8, <2>9, <2>10, LaunchStarts
  <2>12. e.jstatus[j] = q
    BY <2>7, <2>8, <2>10, LaunchFacts
  <2> QED
    BY <2>10, <2>11, <2>12, StatusRange
<1> QED
  BY <1>4, <1>5

---------------------------------------------------------------------------
(* Media *)

\* The members of the job's destination that lack its media.
Mask(d, j) == {p \in MembersOf(d.jdest[j]) : ~ HasMedia(d, p, j)}

\* Every member of the job's destination lacks its media or is stopt.
Lacking(d, j) ==
  \A p \in MembersOf(d.jdest[j]) :
    p \in d.notnow[j] \/ d.status[p] >= PRNSTATUS_DELIBERATELY_DOWN

\* media_set_job_wait_reason() lets a job wait for media only if it must,
\* and no member that could print the job is left if it waits for a printer
\* instead while every one lacks media or is stopt.
LEMMA ReasonFacts ==
  ASSUME NEW d \in Tables, NEW j \in Jobs
  PROVE  /\ \/ /\ JobWaitReason(d, j) = d.jstatus[j]
               /\ d.jstatus[j] \notin {STATUS_WAITING, STATUS_WAITING4MEDIA}
            \/ /\ d.jstatus[j] \in {STATUS_WAITING, STATUS_WAITING4MEDIA}
               /\ JobWaitReason(d, j) \in {STATUS_WAITING, STATUS_WAITING4MEDIA}
         /\ JobWaitReason(d, j) = STATUS_WAITING4MEDIA => Lacking(d, j)
PROOF
<1>1. JobWaitReason(d, j) = STATUS_WAITING4MEDIA =>
        d.notnow[j] \cup StoptMask(d, d.jdest[j]) = MembersOf(d.jdest[j])
  BY DEF JobWaitReason
<1>2. \A p : p \in StoptMask(d, d.jdest[j]) =>
               d.status[p] >= PRNSTATUS_DELIBERATELY_DOWN
  BY DEF StoptMask
<1>3. JobWaitReason(d, j) = STATUS_WAITING4MEDIA => Lacking(d, j)
  BY <1>1, <1>2 DEF Lacking
<1> QED
  BY <1>3 DEF JobWaitReason

\* media_set_notnow_for_job()
LEMMA SetNotNowFacts ==
  ASSUME NEW d \in Tables, NEW j \in Jobs, NEW e, e = SetNotNowForJob(d, j)
  PROVE  /\ e \in Tables /\ SameEntries(d, e) /\ SameHands(d, e)
         /\ e.fatal = d.fatal /\ e.waiter = d.waiter /\ e.status = d.status
         /\ \A i \in Jobs :
              /\ e.notnow[i] = IF i = j THEN Mask(d, j) ELSE d.notnow[i]
              /\ i # j => e.jstatus[i] = d.jstatus[i]
         /\ \/ /\ e.jstatus[j] = d.jstatus[j]
               /\ d.jstatus[j] \notin {STATUS_WAITING, STATUS_WAITING4MEDIA}
            \/ /\ d.jstatus[j] \in {STATUS_WAITING, STATUS_WAITING4MEDIA}
               /\ e.jstatus[j] \in {STATUS_WAITING, STATUS_WAITING4MEDIA}
         /\ e.jstatus[j] = STATUS_WAITING4MEDIA => Lacking(e, j)
PROOF
<1> DEFINE m == Mask(d, j)
           n == [d.notnow EXCEPT ![j] = m]
           f == [d EXCEPT !.notnow = n]
           s == JobWaitReason(f, j)
           t == [f.jstatus EXCEPT ![j] = s]
<1>1. m \in SUBSET Printers
  BY JobStatusType, MembersArePrinters DEF Mask
<1>2. e = [f EXCEPT !.jstatus = t]
  BY DEF SetNotNowForJob, Mask
<1> HIDE DEF m
<1>3. /\ n \in [Jobs -> SUBSET Printers]
      /\ \A i \in Jobs : n[i] = IF i = j THEN m ELSE d.notnow[i]
  BY <1>1 DEF Tables
<1> HIDE DEF n
<1>4. /\ f \in Tables /\ SameEntries(d, f) /\ SameHands(d, f)
      /\ f.notnow = n /\ f.jstatus = d.jstatus
      /\ f.fatal = d.fatal /\ f.waiter = d.waiter /\ f.status = d.status
  BY <1>3 DEF Tables, SameEntries, SameHands
<1> HIDE DEF f
<1>5. /\ s \in JobStatus
      /\ \/ s = d.jstatus[j]
            /\ d.jstatus[j] \notin {STATUS_WAITING, STATUS_WAITING4MEDIA}
         \/ /\ d.jstatus[j] \in {STATUS_WAITING, STATUS_WAITING4MEDIA}
            /\ s \in {STATUS_WAITING, STATUS_WAITING4MEDIA}
      /\ s = STATUS_WAITING4MEDIA => Lacking(f, j)
  BY <1>4, ReasonFacts, WaitReasons
<1> HIDE DEF s
<1>6. /\ t \in [Jobs -> JobStatus]
      /\ \A i \in Jobs : t[i] = IF i = j THEN s ELSE d.jstatus[i]
  BY <1>4, <1>5 DEF Tables
<1> HIDE DEF t
<1>7. /\ e \in Tables /\ SameEntries(f, e) /\ SameHands(f, e)
      /\ e.notnow = n /\ e.jstatus = t
      /\ e.fatal = f.fatal /\ e.waiter = f.waiter /\ e.status = f.status
  <2>1. f \in Tables /\ f.notnow = n
    BY <1>4
  <2>2. e \in Tables
    BY <1>2, <1>6, <2>1, JobStatusField
  <2>3. SameEntries(f, e) /\ SameHands(f, e)
    BY <1>2, <2>1 DEF Tables, SameEntries, SameHands
  <2>4. /\ e.notnow = n /\ e.jstatus = t
        /\ e.fatal = f.fatal /\ e.waiter = f.waiter /\ e.status = f.status
    BY <1>2, <2>1 DEF Tables
  <2> QED
    BY <2>2, <2>3, <2>4
<1>8. SameEntries(d, e) /\ SameHands(d, e)
  BY <1>4, <1>7 DEF SameEntries, SameHands
<1>9. s = STATUS_WAITING4MEDIA => Lacking(e, j)
  BY <1>4, <1>5, <1>7 DEF Lacking, SameEntries
<1> QED
  BY <1>3, <1>4, <1>5, <1>6, <1>7, <1>8, <1>9 DEF m

\* A mask depends on the destination of the job and on what is mounted.
LEMMA SameMask ==
  ASSUME NEW d, NEW e, NEW j, e.jdest[j] = d.jdest[j], e.mounted = d.mounted
  PROVE  Mask(e, j) = Mask(d, j)
  BY DEF Mask, HasMedia

\* The jobs that p could print wait for a printer or for media, whichever
\* is right; no other status changes.
ReasonsFollow(d, e, p) ==
  \A j \in Jobs :
    /\ ~ Covers(d.jdest[j], p) => e.jstatus[j] = d.jstatus[j]
    /\ \/ e.jstatus[j] = d.jstatus[j]
       \/ /\ d.jstatus[j] \in {STATUS_WAITING, STATUS_WAITING4MEDIA}
          /\ e.jstatus[j] \in {STATUS_WAITING, STATUS_WAITING4MEDIA}
    /\ Covers(d.jdest[j], p) /\ e.jstatus[j] = STATUS_WAITING4MEDIA
         => Lacking(e, j)

\* The masks of the queued jobs that p could print say whether it has the
\* media.
MasksFollow(d, e, p) ==
  \A j \in Jobs : e.notnow[j] =
    IF ~ Queued(d, j) \/ ~ Covers(d.jdest[j], p) THEN d.notnow[j]
    ELSE IF HasMedia(e, p, j) THEN d.notnow[j] \ {p}
    ELSE d.notnow[j] \cup {p}

\* Of the tables before the change, both are about three fields only.
LEMMA FollowFrame ==
  ASSUME NEW d, NEW f, f.jdest = d.jdest, f.jstatus = d.jstatus,
         f.notnow = d.notnow, NEW g, NEW p,
         MasksFollow(f, g, p), ReasonsFollow(f, g, p)
  PROVE  MasksFollow(d, g, p) /\ ReasonsFollow(d, g, p)
PROOF
<1>1. MasksFollow(d, g, p)
  <2>1. \A j : Queued(f, j) <=> Queued(d, j)
    BY DEF Queued
  <2> QED
    BY <2>1 DEF MasksFollow
<1>2. ReasonsFollow(d, g, p)
  BY DEF ReasonsFollow
<1> QED
  BY <1>1, <1>2

\* media_startstop_update_waitreason()
LEMMA UpdateReasonFacts ==
  ASSUME NEW d \in Tables, NEW p, NEW e, e = UpdateWaitReason(d, p)
  PROVE  /\ e \in Tables /\ SameJobs(d, e) /\ SameHands(d, e)
         /\ e.fatal = d.fatal /\ e.waiter = d.waiter /\ e.status = d.status
         /\ ReasonsFollow(d, e, p)
PROOF
<1> DEFINE t == [j \in Jobs |-> IF Covers(d.jdest[j], p)
                                  THEN JobWaitReason(d, j) ELSE d.jstatus[j]]
<1>1. t \in [Jobs -> JobStatus]
  BY WaitReasons, JobStatusType
<1>2. \A j \in Jobs :
        /\ ~ Covers(d.jdest[j], p) => t[j] = d.jstatus[j]
        /\ \/ t[j] = d.jstatus[j]
           \/ /\ d.jstatus[j] \in {STATUS_WAITING, STATUS_WAITING4MEDIA}
              /\ t[j] \in {STATUS_WAITING, STATUS_WAITING4MEDIA}
        /\ Covers(d.jdest[j], p) /\ t[j] = STATUS_WAITING4MEDIA => Lacking(d, j)
  BY ReasonFacts
<1>3. e = [d EXCEPT !.jstatus = t]
  BY DEF UpdateWaitReason
<1> HIDE DEF t
<1>4. /\ e \in Tables /\ SameJobs(d, e) /\ SameHands(d, e) /\ e.jstatus = t
      /\ e.fatal = d.fatal /\ e.waiter = d.waiter /\ e.status = d.status
  <2>1. e \in Tables
    BY <1>1, <1>3, JobStatusField
  <2>2. SameJobs(d, e) /\ SameHands(d, e)
    BY <1>3 DEF Tables, SameJobs, SameEntries, SameHands
  <2>3. /\ e.jstatus = t
        /\ e.fatal = d.fatal /\ e.waiter = d.waiter /\ e.status = d.status
    BY <1>3 DEF Tables
  <2> QED
    BY <2>1, <2>2, <2>3
<1>5. \A j \in Jobs : Lacking(d, j) => Lacking(e, j)
  BY <1>4 DEF Lacking, SameJobs, SameEntries
<1>6. ReasonsFollow(d, e, p)
  BY <1>2, <1>4, <1>5 DEF ReasonsFollow
<1> QED
  BY <1>4, <1>6

\* media_update_notnow()
LEMMA UpdateNotNowFacts ==
  ASSUME NEW d \in Tables, NEW p \in Printers, NEW e, e = UpdateNotNow(d, p)
  PROVE  /\ e \in Tables /\ SameEntries(d, e) /\ SameHands(d, e)
         /\ e.fatal = d.fatal /\ e.waiter = d.waiter /\ e.status = d.status
         /\ MasksFollow(d, e, p) /\ ReasonsFollow(d, e, p)
PROOF
<1> DEFINE new(j) == IF ~ Queued(d, j) \/ ~ Covers(d.jdest[j], p)
                       THEN d.notnow[j]
                     ELSE IF HasMedia(d, p, j) THEN d.notnow[j] \ {p}
                     ELSE d.notnow[j] \cup {p}
           n == [j \in Jobs |-> new(j)]
           f == [d EXCEPT !.notnow = n]
<1>1. n \in [Jobs -> SUBSET Printers]
  <2>1. \A j \in Jobs : d.notnow[j] \in SUBSET Printers
    BY DEF Tables
  <2> QED
    BY <2>1
<1>2. e = UpdateWaitReason(f, p)
  BY DEF UpdateNotNow
<1>3. \A j \in Jobs : n[j] = new(j)
  OBVIOUS
<1> HIDE DEF n
<1>4. /\ f \in Tables /\ SameEntries(d, f) /\ SameHands(d, f)
      /\ f.notnow = n /\ f.jstatus = d.jstatus
      /\ f.fatal = d.fatal /\ f.waiter = d.waiter /\ f.status = d.status
  BY <1>1 DEF Tables, SameEntries, SameHands
<1> HIDE DEF f
<1>5. f.jdest = d.jdest
  BY <1>4 DEF SameEntries
<1>6. /\ e \in Tables /\ SameJobs(f, e) /\ SameHands(f, e)
      /\ e.fatal = f.fatal /\ e.waiter = f.waiter /\ e.status = f.status
      /\ ReasonsFollow(f, e, p)
  BY <1>2, <1>4, UpdateReasonFacts
<1>7. SameEntries(d, e) /\ SameHands(d, e) /\ e.notnow = n
  BY <1>4, <1>6 DEF SameJobs, SameEntries, SameHands
<1>8. MasksFollow(d, e, p)
  <2>1. \A j \in Jobs : HasMedia(e, p, j) <=> HasMedia(d, p, j)
    BY <1>7 DEF SameEntries, HasMedia
  <2> QED
    BY <1>3, <1>7, <2>1 DEF MasksFollow
<1>9. ReasonsFollow(d, e, p)
  BY <1>4, <1>5, <1>6 DEF ReasonsFollow
<1> QED
  BY <1>4, <1>6, <1>7, <1>8, <1>9

---------------------------------------------------------------------------
(* Entries of the queue array *)

\* j has left the queue and nothing else has changed.
Dequeued(d, e, j) ==
  /\ SameHands(d, e)
  /\ e.mounted = d.mounted /\ e.accepting = d.accepting
  /\ e.heldGroups = d.heldGroups /\ e.status = d.status
  /\ e.fatal = d.fatal /\ e.waiter = d.waiter
  /\ e.queue = Remove(d.queue, j) /\ e.files = d.files \ {j}
  /\ \A x \in Dests :
       e.count[x] = IF x = d.jdest[j] THEN d.count[x] - 1 ELSE d.count[x]
  /\ e.jstatus[j] = STATUS_NONE
  /\ \A i \in Jobs :
       /\ e.prio[i] = IF i = j THEN JobPriority[j] ELSE d.prio[i]
       /\ i # j => /\ e.jstatus[i] = d.jstatus[i]
                   /\ e.jdest[i] = d.jdest[i]
                   /\ e.never[i] = d.never[i]
                   /\ e.notnow[i] = d.notnow[i]
                   /\ e.pass[i] = d.pass[i]

\* queue_dequeue_job() of a job that is found.
LEMMA DequeueMore ==
  ASSUME NEW d \in Tables, Entries(d), NEW dest, NEW j \in Jobs,
         Queued(d, j), d.jdest[j] = dest,
         NEW e, e = DequeueJob(d, dest, j)
  PROVE  e \in Tables /\ Entries(e) /\ Dequeued(d, e, j)
PROOF
<1>1. /\ e \in Tables /\ Entries(e)
      /\ \A i \in Jobs :
           /\ e.jstatus[i] = IF i = j THEN STATUS_NONE ELSE d.jstatus[i]
           /\ i # j => e.jdest[i] = d.jdest[i]
  BY DequeueFacts
<1>2. /\ SameHands(d, e)
      /\ e.mounted = d.mounted /\ e.accepting = d.accepting
      /\ e.heldGroups = d.heldGroups /\ e.status = d.status
      /\ e.fatal = d.fatal /\ e.waiter = d.waiter
      /\ e.queue = Remove(d.queue, j) /\ e.files = d.files \ {j}
      /\ e.count = [d.count EXCEPT ![dest] = @ - 1]
      /\ e.prio = [d.prio EXCEPT ![j] = JobPriority[j]]
      /\ e.never = [d.never EXCEPT ![j] = {}]
      /\ e.notnow = [d.notnow EXCEPT ![j] = {}]
      /\ e.pass = [d.pass EXCEPT ![j] = 0]
  BY DEF DequeueJob, Tables, SameHands
<1>3. \A x \in Dests :
        e.count[x] = IF x = dest THEN d.count[x] - 1 ELSE d.count[x]
  BY <1>2 DEF Tables
<1>4. \A i \in Jobs :
        /\ e.prio[i] = IF i = j THEN JobPriority[j] ELSE d.prio[i]
        /\ i # j => /\ e.never[i] = d.never[i]
                    /\ e.notnow[i] = d.notnow[i]
                    /\ e.pass[i] = d.pass[i]
  BY <1>2 DEF Tables
<1> QED
  BY <1>1, <1>2, <1>3, <1>4 DEF Dequeued

\* The pprdrv of p has ended, its job is still there with status s, and the
\* exit code c is noted.
Stays(d, e, p, c, s) ==
  LET j == d.job[p]
      refused == c = "incapable" /\ IsGroup(d.jobdest[p]) /\ AllRefused(d, p)
  IN  /\ e.pids = d.pids \ {p} /\ e.job = d.job /\ e.jobdest = d.jobdest
      /\ e.holdJob = d.holdJob \ {p}
      /\ e.queue = d.queue /\ e.prio = d.prio /\ e.files = d.files
      /\ e.count = d.count /\ e.jdest = d.jdest /\ e.notnow = d.notnow
      /\ e.mounted = d.mounted /\ e.accepting = d.accepting
      /\ e.heldGroups = d.heldGroups /\ e.status = d.status
      /\ e.fatal = d.fatal /\ e.waiter = d.waiter
      /\ e.jstatus[j] = s
      /\ \A i \in Jobs : i # j =>
           /\ e.jstatus[i] = d.jstatus[i]
           /\ e.never[i] = d.never[i] /\ e.pass[i] = d.pass[i]
      /\ e.pass[j] = IF refused THEN d.pass[j] + 1 ELSE d.pass[j]
      /\ e.never[j] = IF c # "incapable" THEN d.never[j]
                      ELSE IF refused /\ ~ Stranded(d, p) THEN {}
                      ELSE d.never[j] \cup {p}

\* What pprdrv_exited() notes about the printer and the job.
LEMMA NoteExitMore ==
  ASSUME NEW d \in Tables, Exclusive(d), NEW p \in d.pids, NEW c, NEW e,
         e = NoteExit(d, p, c)
  PROVE  /\ e \in Tables /\ e.jstatus = d.jstatus
         /\ e.cancelJob = IF c = "printed" THEN d.cancelJob \ {p}
                                           ELSE d.cancelJob
         /\ Stays(d, e, p, c, d.jstatus[d.job[p]])
PROOF
<1> DEFINE j == d.job[p]
           refused == c = "incapable" /\ IsGroup(d.jobdest[p]) /\ AllRefused(d, p)
           pas == [d.pass EXCEPT ![j] = IF refused THEN d.pass[j] + 1
                                                   ELSE d.pass[j]]
           nev == [d.never EXCEPT ![j] =
                     IF c # "incapable" THEN d.never[j]
                     ELSE IF refused /\ ~ Stranded(d, p) THEN {}
                     ELSE d.never[j] \cup {p}]
<1>1. p \in Printers /\ j \in Jobs
  BY RunningJobs
<1>2. e \in Tables /\ e.pids = d.pids \ {p}
  BY NoteExitFacts
<1>3. /\ e.queue = d.queue /\ e.prio = d.prio /\ e.files = d.files
      /\ e.count = d.count /\ e.jdest = d.jdest /\ e.notnow = d.notnow
      /\ e.mounted = d.mounted /\ e.accepting = d.accepting
      /\ e.heldGroups = d.heldGroups /\ e.jstatus = d.jstatus
      /\ e.status = d.status /\ e.job = d.job /\ e.jobdest = d.jobdest
      /\ e.fatal = d.fatal /\ e.waiter = d.waiter
      /\ e.cancelJob = IF c = "printed" THEN d.cancelJob \ {p}
                                        ELSE d.cancelJob
      /\ e.holdJob = d.holdJob \ {p}
  BY DEF NoteExit, Tables
<1>4. e.pass = pas /\ e.never = nev
  BY DEF NoteExit, Tables
<1> HIDE DEF refused, j
<1>5. /\ \A i \in Jobs : i # j => pas[i] = d.pass[i] /\ nev[i] = d.never[i]
      /\ pas[j] = IF refused THEN d.pass[j] + 1 ELSE d.pass[j]
      /\ nev[j] = IF c # "incapable" THEN d.never[j]
                  ELSE IF refused /\ ~ Stranded(d, p) THEN {}
                  ELSE d.never[j] \cup {p}
  BY <1>1 DEF Tables
<1> HIDE DEF pas, nev
<1> QED
  BY <1>2, <1>3, <1>4, <1>5 DEF Stays, j, refused

---------------------------------------------------------------------------
(* The end of a pprdrv, by what becomes of its job *)

\* The pprdrv of p has ended, with the job gone: everything but the job,
\* and the status of p, is as it was.
Leaves(d, e, p) ==
  LET j == d.job[p]
  IN  /\ e.pids = d.pids \ {p} /\ e.job = d.job /\ e.jobdest = d.jobdest
      /\ e.cancelJob = d.cancelJob \ {p} /\ e.holdJob = d.holdJob \ {p}
      /\ e.mounted = d.mounted /\ e.accepting = d.accepting
      /\ e.heldGroups = d.heldGroups /\ e.status = d.status
      /\ e.fatal = d.fatal /\ e.waiter = d.waiter
      /\ e.queue = Remove(d.queue, j) /\ e.files = d.files \ {j}
      /\ \A x \in Dests :
           e.count[x] = IF x = d.jdest[j] THEN d.count[x] - 1 ELSE d.count[x]
      /\ e.jstatus[j] = STATUS_NONE
      /\ \A i \in Jobs :
           /\ e.prio[i] = IF i = j THEN JobPriority[j] ELSE d.prio[i]
           /\ i # j => /\ e.jstatus[i] = d.jstatus[i]
                       /\ e.jdest[i] = d.jdest[i]
                       /\ e.never[i] = d.never[i]
                       /\ e.notnow[i] = d.notnow[i]
                       /\ e.pass[i] = d.pass[i]

\* The job has been printed or is canceled, and it is found.
LEMMA DisposeGone ==
  ASSUME NEW d, NEW r, NEW lost, NEW owed, Sound(d, r, lost, owed),
         NEW p \in d.pids, NEW c, NEW ff,
         c = "printed" \/ p \in d.cancelJob,
         d.jdest[d.job[p]] = d.jobdest[p],
         NEW e, e = DisposeOfJob(d, p, c, ff)
  PROVE  e \in Tables /\ Entries(e) /\ Leaves(d, e, p)
PROOF
<1> DEFINE j == d.job[p]
           f == NoteExit(d, p, c)
           h == DequeueJob(f, d.jobdest[p], j)
<1>1. d \in Tables /\ Exclusive(d) /\ Entries(d)
  BY DEF Sound
<1>2. p \in Printers /\ j \in Jobs
  BY <1>1, RunningJobs
<1>3. Queued(d, j)
  <2>1. d.jstatus[j] \in {p, STATUS_CANCEL, STATUS_SEIZING}
    BY <1>1 DEF Exclusive
  <2> QED
    BY <1>2, <2>1, StatusRange DEF Queued
<1>4. /\ f \in Tables /\ f.jstatus = d.jstatus
      /\ f.cancelJob = IF c = "printed" THEN d.cancelJob \ {p}
                                        ELSE d.cancelJob
      /\ Stays(d, f, p, c, d.jstatus[j])
  BY <1>1, NoteExitMore
<1>5. e = [h EXCEPT !.cancelJob = @ \ {p}]
  BY DEF DisposeOfJob
<1> HIDE DEF f
<1>6. Entries(f) /\ Queued(f, j) /\ f.jdest[j] = d.jobdest[p]
  BY <1>1, <1>3, <1>4 DEF Entries, Queued, Stays
<1>7. h \in Tables /\ Entries(h) /\ Dequeued(f, h, j)
  BY <1>2, <1>4, <1>6, DequeueMore
<1> HIDE DEF h, j
<1>8. /\ e \in Tables
      /\ e.pids = h.pids /\ e.job = h.job /\ e.jobdest = h.jobdest
      /\ e.cancelJob = h.cancelJob \ {p} /\ e.holdJob = h.holdJob
      /\ e.mounted = h.mounted /\ e.accepting = h.accepting
      /\ e.heldGroups = h.heldGroups /\ e.status = h.status
      /\ e.fatal = h.fatal /\ e.waiter = h.waiter
      /\ e.queue = h.queue /\ e.files = h.files /\ e.count = h.count
      /\ e.jstatus = h.jstatus /\ e.jdest = h.jdest /\ e.prio = h.prio
      /\ e.never = h.never /\ e.notnow = h.notnow /\ e.pass = h.pass
  <2>1. h \in Tables /\ h.cancelJob \ {p} \in SUBSET Printers
    BY <1>7 DEF Tables
  <2>2. e \in Tables
    <3> DEFINE can == h.cancelJob \ {p}
    <3>1. can \in SUBSET Printers /\ e = [h EXCEPT !.cancelJob = can]
      BY <1>5, <2>1
    <3> HIDE DEF can
    <3> QED
      BY <2>1, <3>1, CancelJobField
  <2>3. /\ e.pids = h.pids /\ e.job = h.job /\ e.jobdest = h.jobdest
        /\ e.cancelJob = h.cancelJob \ {p} /\ e.holdJob = h.holdJob
        /\ e.mounted = h.mounted /\ e.accepting = h.accepting
        /\ e.heldGroups = h.heldGroups /\ e.status = h.status
        /\ e.fatal = h.fatal /\ e.waiter = h.waiter
    BY <1>5, <2>1 DEF Tables
  <2>4. /\ e.queue = h.queue /\ e.files = h.files /\ e.count = h.count
        /\ e.jstatus = h.jstatus /\ e.jdest = h.jdest /\ e.prio = h.prio
        /\ e.never = h.never /\ e.notnow = h.notnow /\ e.pass = h.pass
    BY <1>5, <2>1 DEF Tables
  <2> QED
    BY <2>2, <2>3, <2>4
<1>9. Entries(e)
  BY <1>7, <1>8 DEF Entries, Queued
<1>10. d.jobdest[p] = d.jdest[j]
  BY DEF j
<1>11. Leaves(d, e, p)
  <2>1. /\ e.pids = d.pids \ {p} /\ e.job = d.job /\ e.jobdest = d.jobdest
        /\ e.cancelJob = d.cancelJob \ {p} /\ e.holdJob = d.holdJob \ {p}
    BY <1>4, <1>7, <1>8 DEF SameHands, Stays, Dequeued
  <2>2. /\ e.mounted = d.mounted /\ e.accepting = d.accepting
        /\ e.heldGroups = d.heldGroups /\ e.status = d.status
        /\ e.fatal = d.fatal /\ e.waiter = d.waiter
        /\ e.queue = Remove(d.queue, j) /\ e.files = d.files \ {j}
    BY <1>4, <1>7, <1>8 DEF Stays, Dequeued
  <2>3. /\ \A x \in Dests :
             e.count[x] = IF x = d.jdest[j] THEN d.count[x] - 1 ELSE d.count[x]
        /\ e.jstatus[j] = STATUS_NONE
    BY <1>4, <1>7, <1>8, <1>10 DEF Stays, Dequeued
  <2>4. \A i \in Jobs :
          /\ e.prio[i] = IF i = j THEN JobPriority[j] ELSE d.prio[i]
          /\ i # j => /\ e.jstatus[i] = d.jstatus[i]
                      /\ e.jdest[i] = d.jdest[i]
                      /\ e.never[i] = d.never[i]
                      /\ e.notnow[i] = d.notnow[i]
                      /\ e.pass[i] = d.pass[i]
    BY <1>4, <1>7, <1>8 DEF Stays, Dequeued, j
  <2> QED
    BY <2>1, <2>2, <2>3, <2>4 DEF Leaves, j
<1> QED
  BY <1>8, <1>9, <1>11

\* The job has been printed or is canceled, and it is not found: it has been
\* moved in the meantime.
LEMMA DisposeStuck ==
  ASSUME NEW d, NEW r, NEW lost, NEW owed, Sound(d, r, lost, owed),
         NEW p \in d.pids, NEW c, NEW ff,
         c = "printed" \/ p \in d.cancelJob,
         d.jdest[d.job[p]] # d.jobdest[p],
         NEW e, e = DisposeOfJob(d, p, c, ff)
  PROVE  /\ e \in Tables /\ Entries(e)
         /\ e.cancelJob = d.cancelJob \ {p}
         /\ d.jstatus[d.job[p]] \in {STATUS_CANCEL, STATUS_SEIZING}
         /\ Stays(d, e, p, c, d.jstatus[d.job[p]])
PROOF
<1> DEFINE j == d.job[p]
           f == NoteExit(d, p, c)
           can == f.cancelJob \ {p}
<1>1. d \in Tables /\ Exclusive(d) /\ Entries(d)
  BY DEF Sound
<1>2. p \in Printers /\ j \in Jobs /\ p >= 0
  <2>1. p \in Printers /\ j \in Jobs
    BY <1>1, RunningJobs
  <2> QED
    BY <2>1, StatusRange
<1>3. d.jstatus[j] \in {STATUS_CANCEL, STATUS_SEIZING}
  BY <1>1, <1>2 DEF Exclusive
<1>4. /\ f \in Tables /\ f.jstatus = d.jstatus
      /\ f.cancelJob \in {d.cancelJob, d.cancelJob \ {p}}
      /\ Stays(d, f, p, c, d.jstatus[j])
  <2>1. /\ f \in Tables /\ f.jstatus = d.jstatus
        /\ f.cancelJob = IF c = "printed" THEN d.cancelJob \ {p}
                                          ELSE d.cancelJob
        /\ Stays(d, f, p, c, d.jstatus[j])
    BY <1>1, NoteExitMore
  <2> HIDE DEF f
  <2> QED
    BY <2>1
<1>5. e = [f EXCEPT !.cancelJob = can]
  <2>1. f.jdest[j] # d.jobdest[p]
    BY <1>4 DEF Stays
  <2> QED
    BY <2>1 DEF DisposeOfJob, DequeueJob
<1>6. Entries(f)
  <2> HIDE DEF f
  <2> QED
    BY <1>1, <1>4 DEF Entries, Queued, Stays
<1> HIDE DEF f
<1>7. can \in SUBSET Printers /\ can = d.cancelJob \ {p}
  BY <1>1, <1>4 DEF Tables
<1> HIDE DEF can
<1>8. e \in Tables /\ e.cancelJob = can
  <2>1. e \in Tables
    BY <1>4, <1>5, <1>7, CancelJobField
  <2>2. e.cancelJob = can
    BY <1>4, <1>5 DEF Tables
  <2> QED
    BY <2>1, <2>2
<1>9. /\ e.pids = f.pids /\ e.job = f.job /\ e.jobdest = f.jobdest
      /\ e.holdJob = f.holdJob /\ e.queue = f.queue /\ e.prio = f.prio
      /\ e.files = f.files /\ e.count = f.count /\ e.jdest = f.jdest
      /\ e.notnow = f.notnow /\ e.mounted = f.mounted
      /\ e.accepting = f.accepting /\ e.heldGroups = f.heldGroups
      /\ e.status = f.status /\ e.fatal = f.fatal /\ e.waiter = f.waiter
      /\ e.jstatus = f.jstatus /\ e.never = f.never /\ e.pass = f.pass
  BY <1>4, <1>5 DEF Tables
<1>10. Entries(e)
  BY <1>6, <1>9 DEF Entries, Queued
<1>11. Stays(d, e, p, c, d.jstatus[j])
  BY <1>4, <1>9 DEF Stays
<1> QED
  BY <1>3, <1>7, <1>8, <1>10, <1>11

\* The job is neither printed nor canceled, and it is not found:
\* queue_job_new_status() ends in fatal().
LEMMA DisposeLost ==
  ASSUME NEW d, NEW r, NEW lost, NEW owed, Sound(d, r, lost, owed),
         NEW p \in d.pids, NEW c, NEW ff,
         ~ (c = "printed" \/ p \in d.cancelJob),
         d.jdest[d.job[p]] # d.jobdest[p],
         NEW e, e = DisposeOfJob(d, p, c, ff)
  PROVE  e.fatal
PROOF
<1> DEFINE f == NoteExit(d, p, c)
           g == JobNewStatus(f, d.jobdest[p], d.job[p], JobStatusAfter(d, p, c))
<1>1. d \in Tables /\ Exclusive(d)
  BY DEF Sound
<1>2. f \in Tables /\ Stays(d, f, p, c, d.jstatus[d.job[p]])
  BY <1>1, NoteExitMore
<1> HIDE DEF f
<1>3. f.jdest[d.job[p]] # d.jobdest[p]
  BY <1>2 DEF Stays
<1>4. g = Die(f)
  BY <1>3 DEF JobNewStatus
<1>5. g.fatal = TRUE
  BY <1>2, <1>4, DieFacts
<1>6. e = IF g.fatal \/ JobStatusAfter(d, p, c) # STATUS_WAITING THEN g
          ELSE TryStartSuitable(g, d.job[p], ff)
  BY DEF DisposeOfJob, f
<1> HIDE DEF g
<1> QED
  BY <1>5, <1>6

\* The job is kept, gets a new status and, if it waits, is offered to the
\* printers.
Keeps(d, e, p, c) ==
  \E g \in Tables :
    /\ Entries(g) /\ Stays(d, g, p, c, JobStatusAfter(d, p, c))
    /\ g.cancelJob = d.cancelJob
    /\ Starts(g, e)
    /\ e.jstatus[d.job[p]] = STATUS_WAITING =>
         \A q \in Printers : e.status[q] = PRNSTATUS_IDLE =>
                               ~ Fits(g, q, d.job[p])

\* The job is neither printed nor canceled, and it is found.
LEMMA DisposeKept ==
  ASSUME NEW d, NEW r \in SUBSET Jobs, NEW lost \in SUBSET Printers,
         NEW owed \in Int, Sound(d, r, lost, owed),
         ~ d.fatal,
         NEW p \in d.pids, NEW c, NEW ff,
         ~ (c = "printed" \/ p \in d.cancelJob),
         d.jdest[d.job[p]] = d.jobdest[p],
         NEW e, e = DisposeOfJob(d, p, c, ff)
  PROVE  Keeps(d, e, p, c)
PROOF
<1> DEFINE j == d.job[p]
           f == NoteExit(d, p, c)
           new == JobStatusAfter(d, p, c)
           jst == [f.jstatus EXCEPT ![j] = new]
           g == [f EXCEPT !.jstatus = jst]
<1>1. d \in Tables /\ Exclusive(d) /\ Entries(d)
  BY DEF Sound
<1>2. p \in Printers /\ j \in Jobs
  BY <1>1, RunningJobs
<1>3. Queued(d, j)
  <2>1. d.jstatus[j] \in {p, STATUS_CANCEL, STATUS_SEIZING}
    BY <1>1 DEF Exclusive
  <2> QED
    BY <1>2, <2>1, StatusRange DEF Queued
<1>4. /\ f \in Tables /\ f.jstatus = d.jstatus
      /\ f.cancelJob = IF c = "printed" THEN d.cancelJob \ {p}
                                        ELSE d.cancelJob
      /\ Stays(d, f, p, c, d.jstatus[j])
  BY <1>1, NoteExitMore
<1>5. JobNewStatus(f, d.jobdest[p], j, new) = g
  <2>1. Queued(f, j) /\ f.jdest[j] = d.jobdest[p]
    BY <1>3, <1>4 DEF Stays, Queued
  <2> QED
    BY <2>1 DEF JobNewStatus
<1>6. e = IF g.fatal \/ new # STATUS_WAITING THEN g
          ELSE TryStartSuitable(g, j, ff)
  BY <1>5 DEF DisposeOfJob
<1>7. new \in JobStatus /\ new # STATUS_NONE
  BY DEF JobStatusAfter, JobStatus
<1> HIDE DEF f, new, j
<1>8. /\ jst \in [Jobs -> JobStatus]
      /\ \A i \in Jobs : jst[i] = IF i = j THEN new ELSE d.jstatus[i]
  BY <1>2, <1>4, <1>7 DEF Tables
<1> HIDE DEF jst
<1>9. g \in Tables
  BY <1>4, <1>8 DEF Tables
<1>10. /\ g.pids = f.pids /\ g.job = f.job /\ g.jobdest = f.jobdest
       /\ g.holdJob = f.holdJob /\ g.queue = f.queue /\ g.prio = f.prio
       /\ g.files = f.files /\ g.count = f.count /\ g.jdest = f.jdest
       /\ g.notnow = f.notnow /\ g.mounted = f.mounted
       /\ g.accepting = f.accepting /\ g.heldGroups = f.heldGroups
       /\ g.status = f.status /\ g.fatal = f.fatal /\ g.waiter = f.waiter
       /\ g.jstatus = jst /\ g.never = f.never /\ g.pass = f.pass
       /\ g.cancelJob = f.cancelJob
  BY <1>4 DEF Tables
<1> HIDE DEF g
<1>11. Stays(d, g, p, c, new)
  BY <1>2, <1>4, <1>8, <1>10 DEF Stays, j
<1>12. g.cancelJob = d.cancelJob /\ ~ g.fatal
  BY <1>4, <1>10 DEF Stays
<1>13. Entries(g)
  <2>1. g.queue = d.queue
    BY <1>4, <1>10 DEF Stays
  <2> QED
    BY <1>1, <1>3, <1>8, <1>10, <2>1 DEF Entries, Queued
<1>14. g.jstatus[j] = new
  BY <1>2, <1>8, <1>10
<1>15. CASE new # STATUS_WAITING
  <2>1. e = g
    BY <1>6, <1>15
  <2>2. Starts(g, e)
    BY <2>1, NothingStarts
  <2> QED
    BY <1>9, <1>11, <1>12, <1>13, <1>14, <1>15, <2>1, <2>2 DEF Keeps, j, new
<1>16. CASE new = STATUS_WAITING
  <2>1. e = TryStartSuitable(g, j, ff)
    BY <1>6, <1>12, <1>16
  <2>2. /\ Starts(g, e)
        /\ \/ e.jstatus[j] # STATUS_WAITING
           \/ \A q \in Printers : e.status[q] = PRNSTATUS_IDLE => ~ Fits(g, q, j)
    BY <1>2, <1>9, <1>14, <1>16, <2>1, TryFacts
  <2> QED
    BY <1>9, <1>11, <1>12, <1>13, <2>2 DEF Keeps, j, new
<1> QED
  BY <1>15, <1>16

---------------------------------------------------------------------------
(* The commands, by what they change *)

\* p has got the status s, and the jobs it could print wait for the right
\* reason.
Changed(d, e, p, s) ==
  /\ SameJobs(d, e) /\ SameHands(d, e) /\ e.fatal = d.fatal
  /\ \A q \in Printers : e.status[q] = IF q = p THEN s ELSE d.status[q]
  /\ ReasonsFollow(d, e, p)

\* A change of a printer's status by command.
LEMMA ChangeFacts ==
  ASSUME NEW d \in Tables, NEW p \in Printers, NEW s, s \in PrnStatus,
         NEW e, e = Change(d, p, s)
  PROVE  /\ e \in Tables /\ Changed(d, e, p, s)
         /\ s = PRNSTATUS_STOPT => e.waiter = d.waiter \ {p}
         /\ s # PRNSTATUS_STOPT => e.waiter = d.waiter
PROOF
<1> DEFINE f == PrinterNewStatus(d, p, s)
<1>1. f \in Tables
  BY NewStatusType
<1>2. /\ SameJobs(d, f) /\ SameHands(d, f)
      /\ f.jstatus = d.jstatus /\ f.fatal = d.fatal
      /\ s = PRNSTATUS_STOPT => f.waiter = d.waiter \ {p}
      /\ s # PRNSTATUS_STOPT => f.waiter = d.waiter
      /\ \A q \in Printers : f.status[q] = IF q = p THEN s ELSE d.status[q]
  <2> HIDE DEF f
  <2> QED
    BY NewStatusFacts DEF f
<1>3. e = UpdateWaitReason(f, p)
  BY DEF Change
<1> HIDE DEF f
<1>4. /\ e \in Tables /\ SameJobs(f, e) /\ SameHands(f, e)
      /\ e.fatal = f.fatal /\ e.waiter = f.waiter /\ e.status = f.status
      /\ ReasonsFollow(f, e, p)
  BY <1>1, <1>3, UpdateReasonFacts
<1>5. SameJobs(d, e) /\ SameHands(d, e) /\ f.jdest = d.jdest
  BY <1>2, <1>4 DEF SameJobs, SameEntries, SameHands
<1>6. Changed(d, e, p, s)
  <2>1. ReasonsFollow(d, e, p)
    BY <1>2, <1>4, <1>5 DEF ReasonsFollow
  <2> QED
    BY <1>2, <1>4, <1>5, <2>1 DEF Changed
<1> QED
  BY <1>2, <1>4, <1>6

\* Another record of who waits for a printer to stop changes nothing else.
LEMMA WaiterFacts ==
  ASSUME NEW d \in Tables, NEW w \in SUBSET Printers,
         NEW e, e = [d EXCEPT !.waiter = w]
  PROVE  /\ e \in Tables /\ SameJobs(d, e) /\ SameHands(d, e)
         /\ e.jstatus = d.jstatus /\ e.fatal = d.fatal
         /\ e.status = d.status /\ e.waiter = w
  BY DEF Tables, SameJobs, SameEntries, SameHands

\* Whether the tables are changed as by Changed does not depend on waiters
\* or signals.
LEMMA ChangedFrame ==
  ASSUME NEW d, NEW e, NEW f, NEW p, NEW s, Changed(d, e, p, s),
         SameJobs(e, f), SameHands(e, f), f.jstatus = e.jstatus,
         f.fatal = e.fatal, f.status = e.status
  PROVE  Changed(d, f, p, s)
PROOF
<1>1. SameJobs(d, f) /\ SameHands(d, f)
  BY DEF Changed, SameJobs, SameEntries, SameHands
<1>2. \A j \in Jobs : Lacking(e, j) => Lacking(f, j)
  BY DEF Lacking, SameJobs, SameEntries
<1>3. ReasonsFollow(d, f, p)
  BY <1>2 DEF Changed, ReasonsFollow
<1> QED
  BY <1>1, <1>3 DEF Changed

\* ppop stop, wstop and halt, and ipp_pause_printer()
LEMMA StopFacts ==
  ASSUME NEW d \in Tables, NEW p \in Printers, NEW halt, NEW wait,
         NEW e, e = StopPrinter(d, p, halt, wait)
  PROVE  \/ e = d
         \/ /\ Changed(d, e, p, PRNSTATUS_STOPT)
            /\ d.status[p] \notin Busy /\ e.waiter = d.waiter \ {p}
         \/ /\ d.status[p] \in Busy /\ e.waiter \subseteq d.waiter \cup {p}
            /\ \E s \in {PRNSTATUS_STOPPING, PRNSTATUS_HALTING} :
                 Changed(d, e, p, s)
PROOF
<1> DEFINE wt(z) == IF wait THEN z.waiter \cup {p} ELSE z.waiter
           delayed(z) == [z EXCEPT !.waiter = wt(z)]
           h == Change(d, p, PRNSTATUS_HALTING)
           s == Change(d, p, PRNSTATUS_STOPPING)
           k == PprdrvKill(h, p)
<1>1. ASSUME NEW t \in {PRNSTATUS_STOPPING, PRNSTATUS_HALTING},
             NEW z \in Tables, Changed(d, z, p, t), z.waiter = d.waiter
      PROVE  /\ Changed(d, delayed(z), p, t)
             /\ delayed(z).waiter \subseteq d.waiter \cup {p}
  <2>1. wt(z) \in SUBSET Printers /\ wt(z) \subseteq d.waiter \cup {p}
    BY <1>1 DEF Tables
  <2> HIDE DEF wt
  <2> DEFINE f == delayed(z)
  <2>2. /\ SameJobs(z, f) /\ SameHands(z, f) /\ f.waiter = wt(z)
        /\ f.jstatus = z.jstatus /\ f.fatal = z.fatal
        /\ f.status = z.status
    BY <2>1, WaiterFacts
  <2> HIDE DEF f
  <2>3. Changed(d, f, p, t)
    BY <1>1, <2>2, ChangedFrame
  <2> QED
    BY <2>1, <2>2, <2>3 DEF f
<1>2. /\ h \in Tables /\ Changed(d, h, p, PRNSTATUS_HALTING)
      /\ s \in Tables /\ Changed(d, s, p, PRNSTATUS_STOPPING)
      /\ h.waiter = d.waiter /\ s.waiter = d.waiter
  BY ChangeFacts
<1>3. k \in Tables /\ Changed(d, k, p, PRNSTATUS_HALTING) /\ k.waiter = d.waiter
  <2> HIDE DEF h
  <2>1. h.killed \cup {p} \in SUBSET Printers
    BY <1>2 DEF Tables
  <2>2. k \in Tables
    BY <1>2, <2>1, KilledField DEF PprdrvKill
  <2>3. /\ SameJobs(h, k) /\ SameHands(h, k) /\ k.jstatus = h.jstatus
        /\ k.fatal = h.fatal /\ k.waiter = h.waiter /\ k.status = h.status
    BY <1>2, KillFacts
  <2> QED
    BY <1>2, <2>2, <2>3, ChangedFrame
<1>4. CASE d.status[p] \in {PRNSTATUS_FAULT, PRNSTATUS_IDLE,
                            PRNSTATUS_ENGAGED, PRNSTATUS_STARVED}
  <2>1. e = Change(d, p, PRNSTATUS_STOPT)
    BY <1>4 DEF StopPrinter
  <2>2. Changed(d, e, p, PRNSTATUS_STOPT) /\ e.waiter = d.waiter \ {p}
    <3> DEFINE z == Change(d, p, PRNSTATUS_STOPT)
    <3>1. Changed(d, z, p, PRNSTATUS_STOPT) /\ z.waiter = d.waiter \ {p}
      BY ChangeFacts
    <3> QED
      BY <2>1, <3>1
  <2> QED
    BY <1>4, <2>2
<1>5. CASE d.status[p] \in {PRNSTATUS_CANCELING, PRNSTATUS_SEIZING,
                            PRNSTATUS_PRINTING, PRNSTATUS_STOPPING}
  <2>1. e \in {delayed(h), delayed(s), delayed(k), d}
    BY <1>5 DEF StopPrinter
  <2> HIDE DEF delayed, h, s, k
  <2>2. CASE e = delayed(h)
    BY <1>1, <1>2, <1>5, <2>2
  <2>3. CASE e = delayed(s)
    BY <1>1, <1>2, <1>5, <2>3
  <2>4. CASE e = delayed(k)
    BY <1>1, <1>3, <1>5, <2>4
  <2> QED
    BY <2>1, <2>2, <2>3, <2>4
<1>6. CASE d.status[p] \notin {PRNSTATUS_FAULT, PRNSTATUS_IDLE,
                               PRNSTATUS_ENGAGED, PRNSTATUS_STARVED,
                               PRNSTATUS_CANCELING, PRNSTATUS_SEIZING,
                               PRNSTATUS_PRINTING, PRNSTATUS_STOPPING}
  BY <1>6 DEF StopPrinter
<1> QED
  BY <1>4, <1>5, <1>6

\* After an attempt to start j, no idle printer is left that could print it.
Offered(g, e, j) ==
  /\ Starts(g, e)
  /\ e.jstatus[j] = STATUS_WAITING =>
       \A q \in Printers : e.status[q] = PRNSTATUS_IDLE => ~ Fits(g, q, j)

\* After p has looked for work, it is not idle unless there is none.
Looked(g, e, p) ==
  /\ Starts(g, e)
  /\ e.status[p] = PRNSTATUS_IDLE => e = g /\ \A j \in Jobs : ~ Fits(g, p, j)

\* ppop start and ipp_resume_printer()
LEMMA StartFacts ==
  ASSUME NEW d \in Tables, Entries(d), NEW p \in Printers,
         NEW release, NEW ff,
         NEW e, e = StartPrinter(d, p, release, ff)
  PROVE  \/ e = d
         \/ /\ d.status[p] \in {PRNSTATUS_FAULT, PRNSTATUS_STOPT}
            /\ \E g \in Tables :
                 /\ Changed(d, g, p, PRNSTATUS_IDLE) /\ g.waiter = d.waiter
                 /\ Looked(g, e, p)
         \/ /\ d.status[p] = PRNSTATUS_STOPPING
            /\ Changed(d, e, p, PRNSTATUS_PRINTING)
            /\ release => e.waiter = d.waiter \ {p}
            /\ ~ release => e.waiter = d.waiter
PROOF
<1>1. d \in Tables
  OBVIOUS
<1>2. CASE d.status[p] \in {PRNSTATUS_FAULT, PRNSTATUS_STOPT}
  <2> DEFINE g == Change(d, p, PRNSTATUS_IDLE)
  <2>1. e = PrinterLookForWork(g, p, ff)
    BY <1>2 DEF StartPrinter
  <2>3. g \in Tables /\ Changed(d, g, p, PRNSTATUS_IDLE) /\ g.waiter = d.waiter
    BY <1>1, ChangeFacts
  <2> HIDE DEF g
  <2>2. \A j \in Jobs : Queued(g, j) <=> Queued(d, j)
    BY <2>3 DEF Changed, ReasonsFollow, Queued
  <2>4. g.status[p] = PRNSTATUS_IDLE /\ Entries(g)
    BY <2>2, <2>3 DEF Changed, Entries, SameJobs, SameEntries
  <2>5. Looked(g, e, p)
    BY <2>1, <2>3, <2>4, LookFacts DEF Looked
  <2> QED
    BY <1>2, <2>3, <2>5
<1>3. CASE d.status[p] = PRNSTATUS_STOPPING
  <2> DEFINE w == IF release THEN d.waiter \ {p} ELSE d.waiter
             f == [d EXCEPT !.waiter = w]
  <2>1. w \in SUBSET Printers
    BY <1>1 DEF Tables
  <2>2. e = Change(f, p, PRNSTATUS_PRINTING)
    BY <1>3 DEF StartPrinter
  <2> HIDE DEF w
  <2>3. /\ f \in Tables /\ SameJobs(d, f) /\ SameHands(d, f)
        /\ f.jstatus = d.jstatus /\ f.fatal = d.fatal
        /\ f.status = d.status /\ f.waiter = w
    BY <1>1, <2>1, WaiterFacts
  <2> HIDE DEF f
  <2>4. Changed(f, e, p, PRNSTATUS_PRINTING) /\ e.waiter = f.waiter
    <3> DEFINE z == Change(f, p, PRNSTATUS_PRINTING)
    <3>1. Changed(f, z, p, PRNSTATUS_PRINTING) /\ z.waiter = f.waiter
      BY <2>3, ChangeFacts
    <3> QED
      BY <2>2, <3>1
  <2>5. SameJobs(d, e) /\ SameHands(d, e) /\ f.jdest = d.jdest
    BY <2>3, <2>4 DEF Changed, SameJobs, SameEntries, SameHands
  <2>6. Changed(d, e, p, PRNSTATUS_PRINTING)
    <3>1. ReasonsFollow(d, e, p)
      BY <2>3, <2>4, <2>5 DEF Changed, ReasonsFollow
    <3> QED
      BY <2>3, <2>4, <2>5, <3>1 DEF Changed
  <2> QED
    BY <1>3, <2>3, <2>4, <2>6 DEF w
<1>4. CASE d.status[p] \notin {PRNSTATUS_FAULT, PRNSTATUS_STOPT,
                               PRNSTATUS_STOPPING}
  BY <1>4 DEF StartPrinter
<1> QED
  BY <1>2, <1>3, <1>4

\* The tail of queue_accept_queuefile()
LEMMA StartIfFacts ==
  ASSUME NEW d \in Tables, NEW j \in Jobs, NEW ff,
         NEW e, e = StartIfWaiting(d, j, ff)
  PROVE  Offered(d, e, j)
PROOF
<1>1. CASE d.jstatus[j] = STATUS_WAITING
  <2>1. e = TryStartSuitable(d, j, ff)
    BY <1>1 DEF StartIfWaiting
  <2>2. /\ Starts(d, e)
        /\ \/ e.jstatus[j] # STATUS_WAITING
           \/ \A q \in Printers : e.status[q] = PRNSTATUS_IDLE => ~ Fits(d, q, j)
    BY <1>1, <2>1, TryFacts
  <2> QED
    BY <2>2 DEF Offered
<1>2. CASE d.jstatus[j] # STATUS_WAITING
  <2>1. e = d
    BY <1>2 DEF StartIfWaiting
  <2> QED
    BY <1>2, <2>1, NothingStarts DEF Offered
<1> QED
  BY <1>1, <1>2

\* The status of j is s, and nothing else has changed.
Becomes(d, e, j, s) ==
  /\ SameJobs(d, e)
  /\ e.pids = d.pids /\ e.job = d.job /\ e.jobdest = d.jobdest
  /\ e.waiter = d.waiter
  /\ \A i \in Jobs : e.jstatus[i] = IF i = j THEN s ELSE d.jstatus[i]

\* A job gets another status.
LEMMA BecomesFacts ==
  ASSUME NEW d \in Tables, NEW j \in Jobs, NEW s, s \in JobStatus,
         NEW e, e = [d EXCEPT !.jstatus[j] = s]
  PROVE  /\ e \in Tables /\ Becomes(d, e, j, s) /\ SameHands(d, e)
         /\ e.status = d.status /\ e.fatal = d.fatal
PROOF
<1> DEFINE t == [d.jstatus EXCEPT ![j] = s]
<1>1. /\ t \in [Jobs -> JobStatus]
      /\ \A i \in Jobs : t[i] = IF i = j THEN s ELSE d.jstatus[i]
  BY DEF Tables
<1>2. e = [d EXCEPT !.jstatus = t]
  OBVIOUS
<1> HIDE DEF t
<1> DEFINE f == [d EXCEPT !.jstatus = t]
<1>3. f \in Tables
  BY <1>1 DEF Tables
<1>4. /\ SameJobs(d, f) /\ SameHands(d, f) /\ f.jstatus = t
      /\ f.status = d.status /\ f.fatal = d.fatal /\ f.waiter = d.waiter
  BY DEF Tables, SameJobs, SameEntries, SameHands
<1> HIDE DEF f
<1>5. e = f
  BY <1>2 DEF f
<1> QED
  BY <1>1, <1>3, <1>4, <1>5 DEF Becomes, SameHands

\* ppop hold and ipp_hold_job()
LEMMA HoldFacts ==
  ASSUME NEW d \in Tables, Exclusive(d), NEW j \in Jobs,
         NEW dies \in BOOLEAN, NEW e, e = HoldJob(d, j, dies)
  PROVE  \/ e = d
         \/ /\ d.jstatus[j] \in {STATUS_WAITING, STATUS_WAITING4MEDIA}
            /\ Becomes(d, e, j, STATUS_HELD) /\ SameHands(d, e)
            /\ e.status = d.status /\ e.fatal = d.fatal
         \/ /\ d.jstatus[j] = STATUS_CANCEL
            /\ Becomes(d, e, j, STATUS_SEIZING) /\ SameHands(d, e)
            /\ e.status = d.status
         \/ /\ d.jstatus[j] \in d.pids
            /\ Becomes(d, e, j, STATUS_SEIZING)
            /\ e.cancelJob = d.cancelJob
            /\ e.holdJob = d.holdJob \cup {d.jstatus[j]}
            /\ e.fatal = d.fatal
            /\ \A q \in Printers : e.status[q] =
                 IF q = d.jstatus[j] THEN PRNSTATUS_SEIZING ELSE d.status[q]
PROOF
<1> DEFINE s == d.jstatus[j]
<1>1. d \in Tables /\ s \in Int
  BY JobStatusType
<1>2. STATUS_HELD \in JobStatus /\ STATUS_SEIZING \in JobStatus
  BY DEF JobStatus
<1>3. CASE s \in {STATUS_WAITING, STATUS_WAITING4MEDIA}
  <2>1. e = [d EXCEPT !.jstatus[j] = STATUS_HELD]
    BY <1>3 DEF HoldJob
  <2> QED
    BY <1>1, <1>2, <1>3, <2>1, BecomesFacts
<1>4. CASE s = STATUS_CANCEL
  <2> DEFINE f == [d EXCEPT !.jstatus[j] = STATUS_SEIZING]
  <2>1. e = [f EXCEPT !.fatal = dies]
    BY <1>4 DEF HoldJob
  <2>2. /\ f \in Tables /\ Becomes(d, f, j, STATUS_SEIZING)
        /\ SameHands(d, f) /\ f.status = d.status
    BY <1>1, <1>2, BecomesFacts
  <2> HIDE DEF f
  <2>3. /\ SameJobs(f, e) /\ SameHands(f, e) /\ e.status = f.status
        /\ e.jstatus = f.jstatus /\ e.waiter = f.waiter
    BY <2>1, <2>2 DEF Tables, SameJobs, SameEntries, SameHands
  <2>4. SameJobs(d, e) /\ SameHands(d, e)
    BY <2>2, <2>3 DEF Becomes, SameJobs, SameEntries, SameHands
  <2>5. Becomes(d, e, j, STATUS_SEIZING)
    BY <2>2, <2>3, <2>4 DEF Becomes, SameHands
  <2> QED
    BY <1>4, <2>2, <2>3, <2>4, <2>5
<1>5. CASE s >= 0
  <2> DEFINE u == PrinterNewStatus(d, s, PRNSTATUS_SEIZING)
             f == [u EXCEPT !.jstatus[j] = STATUS_SEIZING]
             h == u.holdJob \cup {s}
             g == [f EXCEPT !.holdJob = h]
  <2>1. s \in Printers /\ s \in d.pids
    BY <1>5 DEF Exclusive, Tables
  <2>2. e = PprdrvKill([u EXCEPT !.jstatus[j] = STATUS_SEIZING,
                                 !.holdJob = h], s)
    BY <1>5 DEF HoldJob
  <2>3. PRNSTATUS_SEIZING \in PrnStatus /\ PRNSTATUS_SEIZING # PRNSTATUS_STOPT
    OBVIOUS
  <2>4. u \in Tables
    BY <2>1, <2>3, NewStatusType
  <2>5. /\ SameJobs(d, u) /\ SameHands(d, u)
        /\ u.jstatus = d.jstatus /\ u.fatal = d.fatal /\ u.waiter = d.waiter
        /\ \A q \in Printers : u.status[q] =
             IF q = s THEN PRNSTATUS_SEIZING ELSE d.status[q]
    BY <1>1, <2>1, <2>3, NewStatusFacts
  <2> HIDE DEF u
  <2>6. /\ f \in Tables /\ Becomes(u, f, j, STATUS_SEIZING)
        /\ SameHands(u, f) /\ f.status = u.status /\ f.fatal = u.fatal
    BY <1>2, <2>4, BecomesFacts
  <2>7. h \in SUBSET Printers
    BY <2>1, <2>4 DEF Tables
  <2>8. e = PprdrvKill(g, s)
    BY <2>2, <2>4 DEF Tables
  <2> HIDE DEF h, f
  <2>9. /\ g \in Tables /\ SameJobs(f, g) /\ g.pids = f.pids
        /\ g.job = f.job /\ g.jobdest = f.jobdest /\ g.waiter = f.waiter
        /\ g.cancelJob = f.cancelJob /\ g.holdJob = h /\ g.fatal = f.fatal
        /\ g.status = f.status /\ g.jstatus = f.jstatus
    BY <2>6, <2>7 DEF Tables, SameJobs, SameEntries
  <2> HIDE DEF g
  <2>10. /\ SameJobs(g, e) /\ SameHands(g, e) /\ e.jstatus = g.jstatus
         /\ e.fatal = g.fatal /\ e.waiter = g.waiter /\ e.status = g.status
    BY <2>8, <2>9, KillFacts
  <2>11. SameJobs(d, e)
    BY <2>5, <2>6, <2>9, <2>10 DEF Becomes, SameJobs, SameEntries
  <2>12. Becomes(d, e, j, STATUS_SEIZING)
    BY <2>5, <2>6, <2>9, <2>10, <2>11 DEF Becomes, SameHands
  <2>13. /\ e.cancelJob = d.cancelJob /\ e.holdJob = d.holdJob \cup {s}
         /\ e.fatal = d.fatal
    BY <2>5, <2>6, <2>9, <2>10 DEF SameHands, h
  <2>14. \A q \in Printers : e.status[q] =
            IF q = s THEN PRNSTATUS_SEIZING ELSE d.status[q]
    BY <2>5, <2>6, <2>9, <2>10
  <2> QED
    BY <2>1, <2>12, <2>13, <2>14
<1>6. CASE ~ (s >= 0) /\ s \notin {STATUS_WAITING, STATUS_WAITING4MEDIA,
                                   STATUS_CANCEL}
  BY <1>6 DEF HoldJob
<1> QED
  BY <1>3, <1>4, <1>5, <1>6

\* Nothing but the entry of j, and perhaps its place, has changed.
OnlyEntry(d, e, j) ==
  /\ SameHands(d, e)
  /\ e.mounted = d.mounted /\ e.accepting = d.accepting
  /\ e.heldGroups = d.heldGroups /\ e.status = d.status
  /\ e.fatal = d.fatal /\ e.waiter = d.waiter
  /\ \A i \in Jobs : i # j =>
       /\ e.jstatus[i] = d.jstatus[i] /\ e.jdest[i] = d.jdest[i]
       /\ e.prio[i] = d.prio[i] /\ e.never[i] = d.never[i]
       /\ e.notnow[i] = d.notnow[i] /\ e.pass[i] = d.pass[i]

SamePlaces(d, e) ==
  e.queue = d.queue /\ e.files = d.files /\ e.count = d.count

\* The entry of j is for dest, its mask is fresh and its status is s, or the
\* right one of the two for a job that waits.
Refreshed(d, g, j, dest, s) ==
  /\ OnlyEntry(d, g, j)
  /\ g.jdest[j] = dest /\ g.notnow[j] = Mask(g, j)
  /\ \/ g.jstatus[j] = s /\ s \notin {STATUS_WAITING, STATUS_WAITING4MEDIA}
     \/ /\ s \in {STATUS_WAITING, STATUS_WAITING4MEDIA}
        /\ g.jstatus[j] \in {STATUS_WAITING, STATUS_WAITING4MEDIA}
  /\ g.jstatus[j] = STATUS_WAITING4MEDIA => Lacking(g, j)

\* media_set_notnow_for_job(), after a change of the entry.
LEMMA RefreshFacts ==
  ASSUME NEW d, NEW f \in Tables, NEW j \in Jobs, OnlyEntry(d, f, j),
         NEW g, g = SetNotNowForJob(f, j)
  PROVE  /\ g \in Tables /\ SamePlaces(f, g)
         /\ Refreshed(d, g, j, f.jdest[j], f.jstatus[j])
         /\ g.prio[j] = f.prio[j] /\ g.never[j] = f.never[j]
         /\ g.pass[j] = f.pass[j]
PROOF
<1> DEFINE waits(s) == s \in {STATUS_WAITING, STATUS_WAITING4MEDIA}
<1>1. /\ g \in Tables /\ SameEntries(f, g) /\ SameHands(f, g)
      /\ g.fatal = f.fatal /\ g.waiter = f.waiter /\ g.status = f.status
      /\ \A i \in Jobs :
           /\ g.notnow[i] = IF i = j THEN Mask(f, j) ELSE f.notnow[i]
           /\ i # j => g.jstatus[i] = f.jstatus[i]
      /\ \/ g.jstatus[j] = f.jstatus[j] /\ ~ waits(f.jstatus[j])
         \/ waits(f.jstatus[j]) /\ waits(g.jstatus[j])
      /\ g.jstatus[j] = STATUS_WAITING4MEDIA => Lacking(g, j)
  BY SetNotNowFacts
<1>2. /\ g.queue = f.queue /\ g.prio = f.prio /\ g.files = f.files
      /\ g.count = f.count /\ g.jdest = f.jdest /\ g.never = f.never
      /\ g.pass = f.pass /\ g.mounted = f.mounted
      /\ g.accepting = f.accepting /\ g.heldGroups = f.heldGroups
  BY <1>1 DEF SameEntries
<1>3. Mask(g, j) = Mask(f, j)
  BY <1>2, SameMask
<1>4. SameHands(d, g)
  BY <1>1 DEF OnlyEntry, SameHands
<1>5. OnlyEntry(d, g, j)
  BY <1>1, <1>2, <1>4 DEF OnlyEntry
<1>6. Refreshed(d, g, j, f.jdest[j], f.jstatus[j])
  BY <1>1, <1>2, <1>3, <1>5 DEF Refreshed
<1> QED
  BY <1>1, <1>2, <1>6 DEF SamePlaces

\* ppop release
LEMMA ReleaseFacts ==
  ASSUME NEW d \in Tables, NEW j \in Jobs, NEW ff,
         NEW e, e = ReleaseJob(d, j, ff)
  PROVE  \/ e = d
         \/ /\ d.jstatus[j] \in {STATUS_HELD, STATUS_ARRESTED}
            /\ \E g \in Tables :
                 /\ Refreshed(d, g, j, d.jdest[j], STATUS_WAITING)
                 /\ SamePlaces(d, g) /\ g.prio[j] = d.prio[j]
                 /\ g.never[j] = d.never[j] /\ g.pass[j] = d.pass[j]
                 /\ Offered(g, e, j)
PROOF
<1>1. CASE d.jstatus[j] \notin {STATUS_HELD, STATUS_ARRESTED}
  BY <1>1 DEF ReleaseJob
<1>2. CASE d.jstatus[j] \in {STATUS_HELD, STATUS_ARRESTED}
  <2> DEFINE f == [d EXCEPT !.jstatus[j] = STATUS_WAITING]
             g == SetNotNowForJob(f, j)
  <2>1. e = StartIfWaiting(g, j, ff)
    BY <1>2 DEF ReleaseJob
  <2>2. STATUS_WAITING \in JobStatus
    BY DEF JobStatus
  <2>3. /\ f \in Tables /\ Becomes(d, f, j, STATUS_WAITING) /\ SameHands(d, f)
        /\ f.status = d.status /\ f.fatal = d.fatal
    BY <2>2, BecomesFacts
  <2> HIDE DEF f
  <2>4. OnlyEntry(d, f, j) /\ SamePlaces(d, f)
        /\ f.prio = d.prio /\ f.never = d.never /\ f.pass = d.pass
        /\ f.jdest[j] = d.jdest[j] /\ f.jstatus[j] = STATUS_WAITING
    BY <2>3 DEF OnlyEntry, SamePlaces, Becomes, SameJobs, SameEntries
  <2>5. /\ g \in Tables /\ SamePlaces(f, g)
        /\ Refreshed(d, g, j, f.jdest[j], f.jstatus[j])
        /\ g.prio[j] = f.prio[j] /\ g.never[j] = f.never[j]
        /\ g.pass[j] = f.pass[j]
    BY <2>3, <2>4, RefreshFacts
  <2> HIDE DEF g
  <2>6. SamePlaces(d, g)
    BY <2>4, <2>5 DEF SamePlaces
  <2>7. Offered(g, e, j)
    BY <2>1, <2>5, StartIfFacts
  <2> QED
    BY <1>2, <2>4, <2>5, <2>6, <2>7
<1> QED
  BY <1>1, <1>2

\* Job j gets the destination `to', and all its printers are eligible.
MovedTo(d, g, j, to) ==
  /\ Refreshed(d, g, j, to, IF d.jstatus[j] = STATUS_STRANDED
                              THEN STATUS_WAITING ELSE d.jstatus[j])
  /\ SamePlaces(d, g) /\ g.prio[j] = d.prio[j]
  /\ g.never[j] = {} /\ g.pass[j] = FirstPass(to)

\* ppop_move()
LEMMA MoveFacts ==
  ASSUME NEW d \in Tables, NEW j \in Jobs, NEW to \in Dests, NEW ff,
         NEW e, e = MoveJob(d, j, to, ff)
  PROVE  \/ e = d /\ d.jstatus[j] >= 0
         \/ /\ d.jstatus[j] < 0
            /\ \E g \in Tables : MovedTo(d, g, j, to) /\ Offered(g, e, j)
PROOF
<1> DEFINE s   == d.jstatus[j]
           new == IF s = STATUS_STRANDED THEN STATUS_WAITING ELSE s
           jds == [d.jdest EXCEPT ![j] = to]
           jst == [d.jstatus EXCEPT ![j] = new]
           nev == [d.never EXCEPT ![j] = {}]
           pas == [d.pass EXCEPT ![j] = FirstPass(to)]
           f   == [d EXCEPT !.jdest = jds, !.jstatus = jst, !.never = nev,
                            !.pass = pas]
           g   == SetNotNowForJob(f, j)
<1>1. s \in JobStatus /\ s \in Int
  BY JobStatusType
<1>2. CASE s >= 0
  BY <1>2 DEF MoveJob
<1>3. CASE s < 0
  <2>1. new \in JobStatus /\ FirstPass(to) \in Nat
    BY <1>1 DEF JobStatus, FirstPass
  <2>2. /\ jds \in [Jobs -> Dests] /\ jst \in [Jobs -> JobStatus]
        /\ nev \in [Jobs -> SUBSET Printers] /\ pas \in [Jobs -> Nat]
    BY <2>1 DEF Tables
  <2>3. /\ jst[j] = new /\ jds[j] = to /\ nev[j] = {} /\ pas[j] = FirstPass(to)
        /\ \A i \in Jobs : i # j =>
             /\ jst[i] = d.jstatus[i] /\ jds[i] = d.jdest[i]
             /\ nev[i] = d.never[i] /\ pas[i] = d.pass[i]
    BY DEF Tables
  <2>4. e = StartIfWaiting(g, j, ff)
    BY <1>1, <1>3 DEF MoveJob
  <2> HIDE DEF jds, jst, nev, pas, new
  <2>5. f \in Tables
    BY <2>2 DEF Tables
  <2>6. /\ SameHands(d, f) /\ SamePlaces(d, f)
        /\ f.jdest = jds /\ f.jstatus = jst /\ f.never = nev /\ f.pass = pas
        /\ f.prio = d.prio /\ f.notnow = d.notnow
        /\ f.mounted = d.mounted /\ f.accepting = d.accepting
        /\ f.heldGroups = d.heldGroups /\ f.status = d.status
        /\ f.fatal = d.fatal /\ f.waiter = d.waiter
    BY DEF Tables, SameHands, SamePlaces
  <2> HIDE DEF f
  <2>7. OnlyEntry(d, f, j)
    BY <2>3, <2>6 DEF OnlyEntry
  <2>8. /\ g \in Tables /\ SamePlaces(f, g)
        /\ Refreshed(d, g, j, f.jdest[j], f.jstatus[j])
        /\ g.prio[j] = f.prio[j] /\ g.never[j] = f.never[j]
        /\ g.pass[j] = f.pass[j]
    BY <2>5, <2>7, RefreshFacts
  <2> HIDE DEF g
  <2>9. SamePlaces(d, g) /\ Refreshed(d, g, j, to, new)
    BY <2>3, <2>6, <2>8 DEF SamePlaces
  <2>10. Offered(g, e, j)
    BY <2>4, <2>8, StartIfFacts
  <2> QED
    BY <1>3, <2>3, <2>6, <2>8, <2>9, <2>10 DEF new, MovedTo
<1> QED
  BY <1>1, <1>2, <1>3

\* The entry of j holds what its queue file says, with the status st.
Filled(d, e, j, st) ==
  /\ e \in Tables /\ SamePlaces(d, e)
  /\ Refreshed(d, e, j, d.jdest[j], st)
  /\ e.prio[j] = JobPriority[j] /\ e.never[j] = {}
  /\ e.pass[j] = FirstPass(d.jdest[j])

\* queue_accept_queuefile() fills the entry of j.
LEMMA LoadRefreshes ==
  ASSUME NEW d \in Tables, NEW j \in Jobs,
         NEW st \in {STATUS_WAITING, STATUS_HELD, STATUS_RECEIVING},
         NEW e, e = LoadEntry(d, j, st)
  PROVE  Filled(d, e, j, st)
PROOF
<1> DEFINE jst == [d.jstatus EXCEPT ![j] = st]
           pri == [d.prio EXCEPT ![j] = JobPriority[j]]
           nev == [d.never EXCEPT ![j] = {}]
           pas == [d.pass EXCEPT ![j] = FirstPass(d.jdest[j])]
           f == [d EXCEPT !.jstatus = jst, !.prio = pri, !.never = nev,
                          !.pass = pas]
<1>1. st \in JobStatus /\ JobPriority[j] \in Nat /\ FirstPass(d.jdest[j]) \in Nat
  BY JobsAssumption DEF JobStatus, FirstPass
<1>2. /\ jst \in [Jobs -> JobStatus] /\ pri \in [Jobs -> Nat]
      /\ nev \in [Jobs -> SUBSET Printers] /\ pas \in [Jobs -> Nat]
  BY <1>1 DEF Tables
<1>3. /\ jst[j] = st /\ pri[j] = JobPriority[j] /\ nev[j] = {}
      /\ pas[j] = FirstPass(d.jdest[j])
      /\ \A i \in Jobs : i # j =>
           /\ jst[i] = d.jstatus[i] /\ pri[i] = d.prio[i]
           /\ nev[i] = d.never[i] /\ pas[i] = d.pass[i]
  BY DEF Tables
<1>4. e = SetNotNowForJob(f, j)
  BY DEF LoadEntry
<1> HIDE DEF jst, pri, nev, pas
<1>5. f \in Tables
  BY <1>2 DEF Tables
<1>6. /\ SameHands(d, f) /\ SamePlaces(d, f)
      /\ f.jdest = d.jdest /\ f.jstatus = jst /\ f.never = nev /\ f.pass = pas
      /\ f.prio = pri /\ f.notnow = d.notnow
      /\ f.mounted = d.mounted /\ f.accepting = d.accepting
      /\ f.heldGroups = d.heldGroups /\ f.status = d.status
      /\ f.fatal = d.fatal /\ f.waiter = d.waiter
  BY DEF Tables, SameHands, SamePlaces
<1> HIDE DEF f
<1>7. OnlyEntry(d, f, j)
  BY <1>3, <1>6 DEF OnlyEntry
<1>8. /\ e \in Tables /\ SamePlaces(f, e)
      /\ Refreshed(d, e, j, f.jdest[j], f.jstatus[j])
      /\ e.prio[j] = f.prio[j] /\ e.never[j] = f.never[j]
      /\ e.pass[j] = f.pass[j]
  BY <1>4, <1>5, <1>7, RefreshFacts
<1>9. SamePlaces(d, e)
  BY <1>6, <1>8 DEF SamePlaces
<1> QED
  BY <1>3, <1>6, <1>8, <1>9 DEF Filled

\* Only the set of spool files has changed.
OnlyFiles(d, e) ==
  /\ SameHands(d, e)
  /\ e.queue = d.queue /\ e.prio = d.prio /\ e.count = d.count
  /\ e.jdest = d.jdest /\ e.never = d.never /\ e.pass = d.pass
  /\ e.notnow = d.notnow /\ e.jstatus = d.jstatus
  /\ e.mounted = d.mounted /\ e.accepting = d.accepting
  /\ e.heldGroups = d.heldGroups /\ e.status = d.status
  /\ e.fatal = d.fatal /\ e.waiter = d.waiter

\* Files come or go.
LEMMA FilesFacts ==
  ASSUME NEW d \in Tables, NEW s, s \in SUBSET Jobs,
         NEW e, e = [d EXCEPT !.files = s]
  PROVE  e \in Tables /\ OnlyFiles(d, e) /\ e.files = s
  BY DEF Tables, OnlyFiles, SameHands

\* queue_accept_queuefile() for the command "J"
LEMMA ReloadFacts ==
  ASSUME NEW d \in Tables, NEW j \in Jobs, NEW ff,
         NEW e, e = ReloadQueueFile(d, j, STATUS_WAITING, ff)
  PROVE  \/ /\ JobDest[j] \notin d.accepting \/ ~ Queued(d, j)
                 \/ d.jdest[j] # JobDest[j]
            /\ OnlyFiles(d, e)
            /\ e.files = IF d.jdest[j] = JobDest[j] THEN d.files \ {j}
                                                    ELSE d.files
         \/ /\ Queued(d, j)
            /\ \E g \in Tables :
                 /\ Refreshed(d, g, j, d.jdest[j], STATUS_WAITING)
                 /\ SamePlaces(d, g) /\ g.prio[j] = JobPriority[j]
                 /\ g.never[j] = {} /\ g.pass[j] = FirstPass(d.jdest[j])
                 /\ Offered(g, e, j)
PROOF
<1> DEFINE away == \/ JobDest[j] \notin d.accepting
                   \/ ~ Queued(d, j) \/ d.jdest[j] # JobDest[j]
           s == IF d.jdest[j] = JobDest[j] THEN d.files \ {j} ELSE d.files
           g == LoadEntry(d, j, STATUS_WAITING)
<1>1. CASE away
  <2>1. e = [d EXCEPT !.files = s]
    BY <1>1 DEF ReloadQueueFile
  <2>2. s \in SUBSET Jobs
    BY DEF Tables
  <2> HIDE DEF s
  <2>3. OnlyFiles(d, e) /\ e.files = s
    BY <2>1, <2>2, FilesFacts
  <2> QED
    BY <1>1, <2>3 DEF s
<1>2. CASE ~ away
  <2>1. e = StartIfWaiting(g, j, ff)
    BY <1>2 DEF ReloadQueueFile
  <2>2. /\ g \in Tables /\ SamePlaces(d, g)
        /\ Refreshed(d, g, j, d.jdest[j], STATUS_WAITING)
        /\ g.prio[j] = JobPriority[j] /\ g.never[j] = {}
        /\ g.pass[j] = FirstPass(d.jdest[j])
    <3>1. Filled(d, g, j, STATUS_WAITING)
      BY LoadRefreshes
    <3> HIDE DEF g
    <3> QED
      BY <3>1 DEF Filled
  <2> HIDE DEF g
  <2>3. Offered(g, e, j)
    BY <2>1, <2>2, StartIfFacts
  <2> QED
    BY <1>2, <2>2, <2>3
<1> QED
  BY <1>1, <1>2

\* A new job j enters the queue with the status st.
Entered(d, g, j, st) ==
  /\ Refreshed(d, g, j, d.jdest[j], st)
  /\ g.queue = Insert(d.queue, InsertPosition(d, j), j)
  /\ g.files = d.files \cup {j}
  /\ \A x \in Dests : g.count[x] =
       IF x = d.jdest[j] THEN d.count[x] + 1 ELSE d.count[x]
  /\ g.prio[j] = JobPriority[j]
  /\ g.never[j] = {} /\ g.pass[j] = FirstPass(d.jdest[j])

\* queue_accept_queuefile() for the command "j"
LEMMA AcceptFacts ==
  ASSUME NEW d \in Tables, NEW j \in Jobs, NEW ff,
         NEW st \in {STATUS_WAITING, STATUS_HELD, STATUS_RECEIVING},
         NEW e, e = AcceptQueueFile(d, j, st, ff)
  PROVE  \/ /\ JobDest[j] \notin d.accepting \/ Len(d.queue) = QueueMax
            /\ OnlyFiles(d, e) /\ e.files = d.files \ {j}
         \/ /\ Len(d.queue) # QueueMax
            /\ \E g \in Tables : Entered(d, g, j, st) /\ Offered(g, e, j)
PROOF
<1> DEFINE away == JobDest[j] \notin d.accepting \/ Len(d.queue) = QueueMax
           s == d.files \ {j}
           que == Insert(d.queue, InsertPosition(d, j), j)
           fil == d.files \cup {j}
           cnt == [d.count EXCEPT ![d.jdest[j]] = @ + 1]
           h == [d EXCEPT !.queue = que, !.files = fil, !.count = cnt]
           g == LoadEntry(h, j, st)
<1>1. CASE away
  <2>1. e = [d EXCEPT !.files = s]
    BY <1>1 DEF AcceptQueueFile
  <2>2. s \in SUBSET Jobs
    BY DEF Tables
  <2> HIDE DEF s
  <2>3. OnlyFiles(d, e) /\ e.files = s
    BY <2>1, <2>2, FilesFacts
  <2> QED
    BY <1>1, <2>3 DEF s
<1>2. CASE ~ away
  <2>1. e = StartIfWaiting(g, j, ff)
    BY <1>2 DEF AcceptQueueFile
  <2>2. d.queue \in Seq(Jobs) /\ d.jdest[j] \in Dests
    BY DEF Tables
  <2>3. que \in Seq(Jobs)
    BY <2>2, PositionRange, InsertProperties
  <2>4. fil \in SUBSET Jobs
    BY DEF Tables
  <2>5. /\ cnt \in [Dests -> Int]
        /\ \A x \in Dests : cnt[x] =
             IF x = d.jdest[j] THEN d.count[x] + 1 ELSE d.count[x]
    BY <2>2 DEF Tables
  <2> HIDE DEF que, fil, cnt
  <2>6. h \in Tables
    BY <2>3, <2>4, <2>5 DEF Tables
  <2>7. /\ SameHands(d, h)
        /\ h.queue = que /\ h.files = fil /\ h.count = cnt
        /\ h.jdest = d.jdest /\ h.jstatus = d.jstatus /\ h.never = d.never
        /\ h.pass = d.pass /\ h.prio = d.prio /\ h.notnow = d.notnow
        /\ h.mounted = d.mounted /\ h.accepting = d.accepting
        /\ h.heldGroups = d.heldGroups /\ h.status = d.status
        /\ h.fatal = d.fatal /\ h.waiter = d.waiter
    BY DEF Tables, SameHands
  <2> HIDE DEF h
  <2>8. /\ g \in Tables /\ SamePlaces(h, g)
        /\ Refreshed(h, g, j, h.jdest[j], st)
        /\ g.prio[j] = JobPriority[j] /\ g.never[j] = {}
        /\ g.pass[j] = FirstPass(h.jdest[j])
    <3>1. Filled(h, g, j, st)
      BY <2>6, LoadRefreshes
    <3> HIDE DEF g
    <3> QED
      BY <3>1 DEF Filled
  <2> HIDE DEF g
  <2>9. OnlyEntry(d, g, j)
    <3>1. OnlyEntry(h, g, j)
      BY <2>8 DEF Refreshed
    <3>2. SameHands(d, g)
      BY <2>7, <3>1 DEF OnlyEntry, SameHands
    <3> QED
      BY <2>7, <3>1, <3>2 DEF OnlyEntry
  <2>10. Refreshed(d, g, j, d.jdest[j], st)
    BY <2>7, <2>8, <2>9 DEF Refreshed
  <2>11. Offered(g, e, j)
    BY <2>1, <2>8, StartIfFacts
  <2>12. g.queue = que /\ g.files = fil /\ g.count = cnt
    BY <2>7, <2>8 DEF SamePlaces
  <2>13. \A x \in Dests : g.count[x] =
            IF x = d.jdest[j] THEN d.count[x] + 1 ELSE d.count[x]
    BY <2>5, <2>12
  <2> QED
    BY <1>2, <2>7, <2>8, <2>10, <2>11, <2>12, <2>13 DEF que, fil, Entered
<1> QED
  BY <1>1, <1>2

\* Other media are mounted on p, the masks and reasons of the jobs that it
\* could print follow.
Mounts(d, g, p) ==
  /\ SameHands(d, g)
  /\ g.queue = d.queue /\ g.prio = d.prio /\ g.files = d.files
  /\ g.count = d.count /\ g.jdest = d.jdest /\ g.never = d.never
  /\ g.pass = d.pass /\ g.accepting = d.accepting
  /\ g.heldGroups = d.heldGroups /\ g.status = d.status
  /\ g.fatal = d.fatal /\ g.waiter = d.waiter
  /\ \A q \in Printers : q # p => g.mounted[q] = d.mounted[q]
  /\ MasksFollow(d, g, p) /\ ReasonsFollow(d, g, p)

\* ppop_mount()
LEMMA MountFacts ==
  ASSUME NEW d, NEW r \in SUBSET Jobs, NEW lost \in SUBSET Printers,
         NEW owed \in Int, Sound(d, r, lost, owed),
         NEW p \in Printers,
         NEW b \in Bins[p], NEW m \in MediaIds \cup {NoMedium}, NEW ff,
         NEW e, e = Mount(d, p, b, m, ff)
  PROVE  \E g \in Tables : /\ Mounts(d, g, p)
                           /\ \/ e = g /\ g.status[p] # PRNSTATUS_IDLE
                              \/ Looked(g, e, p)
PROOF
<1> DEFINE all == UNION {Bins[q] : q \in Printers}
           row == [d.mounted[p] EXCEPT ![b] = m]
           mou == [d.mounted EXCEPT ![p] = row]
           f   == [d EXCEPT !.mounted = mou]
           g   == UpdateNotNow(f, p)
<1>1. d \in Tables
  BY DEF Sound
<1>2. mou \in [Printers -> [all -> MediaIds \cup {NoMedium}]]
      /\ \A q \in Printers : q # p => mou[q] = d.mounted[q]
  <2>1. d.mounted \in [Printers -> [all -> MediaIds \cup {NoMedium}]]
    BY <1>1 DEF Tables
  <2> HIDE DEF all
  <2>2. row \in [all -> MediaIds \cup {NoMedium}]
    BY <2>1
  <2> HIDE DEF row
  <2> QED
    BY <2>1, <2>2
<1>3. e = IF g.status[p] = PRNSTATUS_IDLE THEN PrinterLookForWork(g, p, ff)
                                          ELSE g
  BY DEF Mount
<1> HIDE DEF mou
<1>4. f \in Tables /\ Quiet(d, f)
  BY <1>1, <1>2 DEF Tables, Quiet
<1>5. /\ SameHands(d, f) /\ f.mounted = mou
      /\ f.queue = d.queue /\ f.prio = d.prio /\ f.files = d.files
      /\ f.count = d.count /\ f.jdest = d.jdest /\ f.never = d.never
      /\ f.pass = d.pass /\ f.accepting = d.accepting
      /\ f.heldGroups = d.heldGroups /\ f.status = d.status
      /\ f.fatal = d.fatal /\ f.waiter = d.waiter
      /\ f.jstatus = d.jstatus /\ f.notnow = d.notnow
  BY <1>1 DEF Tables, SameHands
<1> HIDE DEF f
<1>6. Sound(f, r, lost, owed)
  BY <1>4, QuietSound
<1>7. g \in Tables /\ Entries(g)
  <2>1. Sound(g, r, lost, owed)
    BY <1>6, UpdateNotNowSound
  <2> QED
    BY <2>1 DEF Sound
<1>8. /\ SameEntries(f, g) /\ SameHands(f, g)
      /\ g.fatal = f.fatal /\ g.waiter = f.waiter /\ g.status = f.status
      /\ MasksFollow(f, g, p) /\ ReasonsFollow(f, g, p)
  BY <1>4, UpdateNotNowFacts
<1> HIDE DEF g
<1>9. /\ g.queue = f.queue /\ g.prio = f.prio /\ g.files = f.files
      /\ g.count = f.count /\ g.jdest = f.jdest /\ g.never = f.never
      /\ g.pass = f.pass /\ g.mounted = f.mounted
      /\ g.accepting = f.accepting /\ g.heldGroups = f.heldGroups
  BY <1>8 DEF SameEntries
<1>10. MasksFollow(d, g, p) /\ ReasonsFollow(d, g, p)
  BY <1>5, <1>8, FollowFrame
<1>11. SameHands(d, g)
  BY <1>5, <1>8 DEF SameHands
<1>12. Mounts(d, g, p)
  BY <1>2, <1>5, <1>8, <1>9, <1>10, <1>11 DEF Mounts
<1>13. CASE g.status[p] = PRNSTATUS_IDLE
  <2>1. Looked(g, e, p)
    BY <1>3, <1>7, <1>13, LookFacts DEF Looked
  <2> QED
    BY <1>7, <1>12, <2>1
<1>14. CASE g.status[p] # PRNSTATUS_IDLE
  BY <1>3, <1>7, <1>12, <1>14
<1> QED
  BY <1>13, <1>14

\* No routine but the timer's own sees a difference.
Alike(d, e) ==
  /\ SameJobs(d, e) /\ SameHands(d, e) /\ e.jstatus = d.jstatus
  /\ e.fatal = d.fatal /\ e.waiter = d.waiter /\ e.status = d.status

\* p is idle, and nothing else has changed.
Idled(d, e, p) ==
  /\ SameJobs(d, e) /\ SameHands(d, e) /\ e.jstatus = d.jstatus
  /\ e.fatal = d.fatal /\ e.waiter = d.waiter
  /\ \A q \in Printers :
       e.status[q] = IF q = p THEN PRNSTATUS_IDLE ELSE d.status[q]

\* The first loop of printer_tick()
LEMMA TickRetryFacts ==
  ASSUME NEW d, NEW r \in SUBSET Jobs, NEW lost \in SUBSET Printers,
         NEW owed \in Int, Sound(d, r, lost, owed),
         NEW p \in Printers,
         NEW ff, NEW e, e = TickRetry(d, p, ff)
  PROVE  \/ Alike(d, e)
         \/ /\ d.status[p] \in {PRNSTATUS_FAULT, PRNSTATUS_ENGAGED}
            /\ \E g \in Tables : Idled(d, g, p) /\ Looked(g, e, p)
PROOF
<1> DEFINE cou == [d.countdown EXCEPT ![p] = @ - TickInterval]
           f   == [d EXCEPT !.countdown = cou]
           g   == PrinterNewStatus(f, p, PRNSTATUS_IDLE)
           due == \/ d.status[p] = PRNSTATUS_FAULT /\ d.errRetry[p] # 0
                  \/ d.status[p] = PRNSTATUS_ENGAGED
<1>1. d \in Tables
  BY DEF Sound
<1>2. cou \in [Printers -> Int]
  BY <1>1, LimitsAssumption DEF Tables
<1>3. e = IF due THEN IF f.countdown[p] > 0 THEN f
                      ELSE PrinterLookForWork(g, p, ff)
          ELSE d
  BY DEF TickRetry
<1> HIDE DEF cou
<1>4. f \in Tables /\ Quiet(d, f)
  BY <1>1, <1>2 DEF Tables, Quiet
<1>5. Alike(d, f)
  BY <1>1 DEF Tables, Alike, SameJobs, SameEntries, SameHands
<1> HIDE DEF f
<1>6. Sound(f, r, lost, owed) /\ f.status = d.status
  BY <1>4, QuietSound DEF Quiet
<1>7. CASE due /\ ~ (f.countdown[p] > 0)
  <2>1. Sound(g, r, lost, owed)
    BY <1>6, <1>7, SameKindSound
  <2>2. g \in Tables /\ Entries(g)
    BY <2>1 DEF Sound
  <2>3. /\ SameJobs(f, g) /\ SameHands(f, g) /\ g.jstatus = f.jstatus
        /\ g.fatal = f.fatal /\ g.waiter = f.waiter
        /\ \A q \in Printers :
             g.status[q] = IF q = p THEN PRNSTATUS_IDLE ELSE f.status[q]
    BY <1>4, NewStatusFacts
  <2> HIDE DEF g
  <2>4. Idled(d, g, p)
    <3>1. SameJobs(d, g) /\ SameHands(d, g)
      BY <1>5, <2>3 DEF Alike, SameJobs, SameEntries, SameHands
    <3> QED
      BY <1>5, <2>3, <3>1 DEF Alike, Idled
  <2>5. Looked(g, e, p)
    <3>1. e = PrinterLookForWork(g, p, ff) /\ g.status[p] = PRNSTATUS_IDLE
      BY <1>3, <1>7, <2>3
    <3> QED
      BY <2>2, <3>1, LookFacts DEF Looked
  <2> QED
    BY <1>7, <2>2, <2>4, <2>5
<1>8. CASE ~ (due /\ ~ (f.countdown[p] > 0))
  <2>1. Alike(d, d)
    BY DEF Alike, SameJobs, SameEntries, SameHands
  <2> QED
    BY <1>3, <1>5, <1>8, <2>1
<1> QED
  BY <1>7, <1>8

\* The second loop of printer_tick()
LEMMA TickHungryFacts ==
  ASSUME NEW d, NEW r \in SUBSET Jobs, NEW lost \in SUBSET Printers,
         NEW owed \in Int, Sound(d, r, lost, owed),
         NEW ff,
         NEW e, e = TickHungry(d, ff)
  PROVE  \/ Alike(d, e)
         \/ \E p \in Printers :
              /\ d.status[p] = PRNSTATUS_STARVED
              /\ \E g \in Tables : Idled(d, g, p) /\ Looked(g, e, p)
PROOF
<1> DEFINE p == IF d.hungry >= NumPrinters THEN 0 ELSE d.hungry
           f == [d EXCEPT !.hungry = p + 1]
           h == PrinterNewStatus(f, p, PRNSTATUS_IDLE)
           g == [h EXCEPT !.starving = h.starving - 1]
<1>1. d \in Tables
  BY DEF Sound
<1>2. p \in Printers /\ p + 1 \in Nat
  <2>1. d.hungry \in Nat
    BY <1>1 DEF Tables
  <2> QED
    BY <2>1, PrintersAssumption DEF Printers
<1>3. e = IF d.starving = 0 \/ d.active >= MaxActive THEN d
          ELSE IF d.status[p] = PRNSTATUS_STARVED
                 THEN PrinterLookForWork(g, p, ff)
          ELSE f
  BY DEF TickHungry
<1> HIDE DEF p
<1>4. f \in Tables /\ Quiet(d, f)
  BY <1>1, <1>2 DEF Tables, Quiet
<1>5. Alike(d, f) /\ Alike(d, d)
  BY <1>1 DEF Tables, Alike, SameJobs, SameEntries, SameHands
<1> HIDE DEF f
<1>6. Sound(f, r, lost, owed) /\ f.status = d.status
  BY <1>4, QuietSound DEF Quiet
<1>7. CASE d.status[p] = PRNSTATUS_STARVED
  <2>1. Sound(h, r, lost, owed)
    BY <1>2, <1>6, <1>7, SameKindSound
  <2>2. h \in Tables /\ Entries(h)
    BY <2>1 DEF Sound
  <2>3. /\ SameJobs(f, h) /\ SameHands(f, h) /\ h.jstatus = f.jstatus
        /\ h.fatal = f.fatal /\ h.waiter = f.waiter
        /\ \A q \in Printers :
             h.status[q] = IF q = p THEN PRNSTATUS_IDLE ELSE f.status[q]
    BY <1>2, <1>4, NewStatusFacts
  <2> HIDE DEF h
  <2>4. h.starving - 1 \in Int
    BY <2>2 DEF Tables
  <2>5. g \in Tables
    BY <2>2, <2>4 DEF Tables
  <2>6. Alike(h, g)
    BY <2>2 DEF Tables, Alike, SameJobs, SameEntries, SameHands
  <2> HIDE DEF g
  <2>7. Entries(g)
    BY <2>2, <2>6 DEF Alike, Entries, Queued, SameJobs, SameEntries
  <2>8. Idled(d, g, p)
    <3>1. SameJobs(d, g) /\ SameHands(d, g)
      BY <1>5, <2>3, <2>6 DEF Alike, SameJobs, SameEntries, SameHands
    <3> QED
      BY <1>5, <2>3, <2>6, <3>1 DEF Alike, Idled
  <2>9. e = PrinterLookForWork(g, p, ff) => Looked(g, e, p)
    <3>1. g.status[p] = PRNSTATUS_IDLE
      BY <1>2, <2>8 DEF Idled
    <3> QED
      BY <1>2, <2>5, <2>7, <3>1, LookFacts DEF Looked
  <2> QED
    BY <1>2, <1>3, <1>5, <1>7, <2>5, <2>8, <2>9
<1>8. CASE d.status[p] # PRNSTATUS_STARVED
  BY <1>3, <1>5, <1>8
<1> QED
  BY <1>7, <1>8

\* Only the flags that say what becomes of a printer's job have changed.
Flagged(d, e, c, h) ==
  /\ SameJobs(d, e)
  /\ e.pids = d.pids /\ e.job = d.job /\ e.jobdest = d.jobdest
  /\ e.cancelJob = c /\ e.holdJob = h
  /\ e.jstatus = d.jstatus /\ e.status = d.status
  /\ e.fatal = d.fatal /\ e.waiter = d.waiter

\* The flags of the printers are set.
LEMMA FlagsFacts ==
  ASSUME NEW d \in Tables, NEW c, c \in SUBSET Printers,
         NEW h, h \in SUBSET Printers,
         NEW e, e = [d EXCEPT !.cancelJob = c, !.holdJob = h]
  PROVE  e \in Tables /\ Flagged(d, e, c, h)
PROOF
<1>1. e \in Tables
  BY DEF Tables
<1>2. Flagged(d, e, c, h)
  BY DEF Tables, Flagged, SameJobs, SameEntries
<1> QED
  BY <1>1, <1>2

\* j is being canceled on q, whose status was `from' until now.
Withdrawn(d, e, j, q, from) ==
  /\ Becomes(d, e, j, STATUS_CANCEL)
  /\ e.cancelJob = d.cancelJob \cup {q}
  /\ e.fatal = d.fatal
  /\ \A p \in Printers :
       e.status[p] = IF p = q /\ d.status[p] = from
                       THEN PRNSTATUS_CANCELING ELSE d.status[p]

\* A pprdrv is told to give up its job.
Withdraw(d, j, q, from, h) ==
  LET u == IF d.status[q] = from
             THEN PrinterNewStatus(d, q, PRNSTATUS_CANCELING) ELSE d
  IN  [u EXCEPT !.holdJob = h, !.cancelJob = @ \cup {q},
                !.jstatus[j] = STATUS_CANCEL]

\* What changes when a pprdrv is told so.
LEMMA WithdrawFacts ==
  ASSUME NEW d \in Tables, NEW j \in Jobs, NEW q \in Printers, NEW from,
         NEW h, h \in SUBSET Printers,
         NEW e, e = Withdraw(d, j, q, from, h)
  PROVE  e \in Tables /\ Withdrawn(d, e, j, q, from) /\ e.holdJob = h
PROOF
<1> DEFINE u == IF d.status[q] = from
                  THEN PrinterNewStatus(d, q, PRNSTATUS_CANCELING) ELSE d
<1>0. e = [u EXCEPT !.holdJob = h, !.cancelJob = @ \cup {q},
                    !.jstatus[j] = STATUS_CANCEL]
  BY DEF Withdraw
<1>1. STATUS_CANCEL \in JobStatus
  BY DEF JobStatus
<1>2. /\ u \in Tables /\ SameJobs(d, u) /\ SameHands(d, u)
      /\ u.jstatus = d.jstatus /\ u.fatal = d.fatal /\ u.waiter = d.waiter
      /\ \A p \in Printers :
           u.status[p] = IF p = q /\ d.status[p] = from
                           THEN PRNSTATUS_CANCELING ELSE d.status[p]
  <2>1. CASE d.status[q] = from
    <3>1. u = PrinterNewStatus(d, q, PRNSTATUS_CANCELING)
      BY <2>1
    <3> HIDE DEF u
    <3>2. PrinterNewStatus(d, q, PRNSTATUS_CANCELING) \in Tables
      BY NewStatusType
    <3>3. /\ SameJobs(d, u) /\ SameHands(d, u)
          /\ u.jstatus = d.jstatus /\ u.fatal = d.fatal /\ u.waiter = d.waiter
          /\ \A p \in Printers :
               u.status[p] = IF p = q THEN PRNSTATUS_CANCELING ELSE d.status[p]
      BY <1>1, <3>1, NewStatusFacts
    <3> QED
      BY <2>1, <3>1, <3>2, <3>3
  <2>2. CASE d.status[q] # from
    <3>1. u = d
      BY <2>2
    <3> QED
      BY <1>1, <2>2, <3>1 DEF SameJobs, SameEntries, SameHands
  <2> QED
    BY <2>1, <2>2
<1> HIDE DEF u
<1> DEFINE f == [u EXCEPT !.jstatus[j] = STATUS_CANCEL]
           c == u.cancelJob \cup {q}
           g == [f EXCEPT !.cancelJob = c, !.holdJob = h]
<1>3. e = g
  BY <1>0, <1>2 DEF Tables
<1>4. /\ f \in Tables /\ Becomes(u, f, j, STATUS_CANCEL) /\ SameHands(u, f)
      /\ f.status = u.status /\ f.fatal = u.fatal
  BY <1>1, <1>2, BecomesFacts
<1>5. c \in SUBSET Printers /\ h \in SUBSET Printers
  BY <1>1, <1>2 DEF Tables, SameHands
<1> HIDE DEF f, c
<1>6. g \in Tables /\ Flagged(f, g, c, h)
  BY <1>4, <1>5, FlagsFacts
<1> HIDE DEF g
<1>7. SameJobs(d, g)
  BY <1>2, <1>4, <1>6 DEF Becomes, Flagged, SameJobs, SameEntries
<1>8. Becomes(d, g, j, STATUS_CANCEL)
  BY <1>2, <1>4, <1>6, <1>7 DEF Becomes, Flagged, SameHands
<1>9. g.cancelJob = d.cancelJob \cup {q}
  BY <1>2, <1>6 DEF c, Flagged, SameHands
<1>10. Withdrawn(d, g, j, q, from)
  BY <1>2, <1>4, <1>6, <1>8, <1>9 DEF Withdrawn, Flagged
<1> QED
  BY <1>3, <1>6, <1>10 DEF Flagged

\* One match of ppop_cancel_purge() or ipp_cancel_job_core()
LEMMA CancelFacts ==
  ASSUME NEW d, NEW r \in SUBSET Jobs, NEW lost \in SUBSET Printers,
         NEW owed \in Int, Sound(d, r, lost, owed),
         NEW j \in Jobs,
         NEW e, e = CancelJob(d, j)
  PROVE  \/ e = d /\ (d.jstatus[j] \in {STATUS_CANCEL, STATUS_SEIZING}
                        \/ ~ Queued(d, j))
         \/ /\ d.jstatus[j] \in d.pids
            /\ Withdrawn(d, e, j, d.jstatus[j], PRNSTATUS_PRINTING)
            /\ e.holdJob = d.holdJob
         \/ /\ d.jstatus[j] = STATUS_SEIZING
            /\ \E p \in HadJob(d, j) :
                 /\ Withdrawn(d, e, j, p, PRNSTATUS_SEIZING)
                 /\ e.holdJob = d.holdJob \ {p}
         \/ /\ d.jstatus[j] < 0 /\ Queued(d, j)
            /\ d.jstatus[j] \notin {STATUS_CANCEL, STATUS_SEIZING}
            /\ Dequeued(d, e, j)
PROOF
<1> DEFINE s == d.jstatus[j]
<1>1. d \in Tables /\ Entries(d) /\ s \in Int
  BY JobStatusType DEF Sound
<1>2. CASE s >= 0
  <2> DEFINE u == IF d.status[s] = PRNSTATUS_PRINTING
                    THEN PrinterNewStatus(d, s, PRNSTATUS_CANCELING) ELSE d
             f == [u EXCEPT !.cancelJob = @ \cup {s},
                            !.jstatus[j] = STATUS_CANCEL]
             g == [u EXCEPT !.holdJob = d.holdJob, !.cancelJob = @ \cup {s},
                            !.jstatus[j] = STATUS_CANCEL]
  <2>1. s \in Printers /\ s \in d.pids
    BY <1>2, PrintsOn
  <2>2. e = PprdrvKill(f, s)
    BY <1>2 DEF CancelJob
  <2>3. u \in Tables /\ u.holdJob = d.holdJob
    <3>1. CASE d.status[s] = PRNSTATUS_PRINTING
      <4> DEFINE v == PrinterNewStatus(d, s, PRNSTATUS_CANCELING)
      <4>1. Sound(v, r, lost, owed)
        BY <2>1, <3>1, SameKindSound
      <4>2. SameHands(d, v)
        BY <1>1, <2>1, NewStatusFacts
      <4> HIDE DEF v
      <4>3. v \in Tables /\ v.holdJob = d.holdJob
        BY <4>1, <4>2 DEF Sound, SameHands
      <4> QED
        BY <3>1, <4>3 DEF v
    <3>2. CASE d.status[s] # PRNSTATUS_PRINTING
      BY <1>1, <3>2
    <3> QED
      BY <3>1, <3>2
  <2> HIDE DEF u
  <2>4. g \in Tables /\ Withdrawn(d, g, j, s, PRNSTATUS_PRINTING)
        /\ g.holdJob = d.holdJob
    <3>1. g = Withdraw(d, j, s, PRNSTATUS_PRINTING, d.holdJob)
      BY DEF Withdraw, u
    <3> HIDE DEF g
    <3>3. d.holdJob \in SUBSET Printers
      BY <1>1 DEF Tables
    <3> HIDE DEF s
    <3> QED
      BY <1>1, <2>1, <3>1, <3>3, WithdrawFacts
  <2>5. f = g
    BY <2>3 DEF Tables
  <2> HIDE DEF f, g
  <2>6. /\ SameJobs(g, e) /\ SameHands(g, e) /\ e.jstatus = g.jstatus
        /\ e.fatal = g.fatal /\ e.waiter = g.waiter /\ e.status = g.status
    BY <2>2, <2>4, <2>5, KillFacts
  <2>7. SameJobs(d, e)
    BY <2>4, <2>6 DEF Withdrawn, Becomes, SameJobs, SameEntries
  <2>8. Withdrawn(d, e, j, s, PRNSTATUS_PRINTING) /\ e.holdJob = d.holdJob
    BY <2>4, <2>6, <2>7 DEF Withdrawn, Becomes, SameHands
  <2> QED
    BY <2>1, <2>8
<1>3. CASE s = STATUS_CANCEL
  BY <1>3 DEF CancelJob
<1>4. CASE s = STATUS_SEIZING
  <2> DEFINE had == HadJob(d, j)
             p   == First(had)
             u   == IF d.status[p] = PRNSTATUS_SEIZING
                      THEN PrinterNewStatus(d, p, PRNSTATUS_CANCELING) ELSE d
  <2>1. CASE had = {}
    BY <1>4, <2>1 DEF CancelJob
  <2>2. CASE had # {}
    <3>1. had \in SUBSET Printers /\ had \in SUBSET Nat
      BY StatusRange DEF HadJob
    <3>2. e = [u EXCEPT !.holdJob = @ \ {p}, !.cancelJob = @ \cup {p},
                        !.jstatus[j] = STATUS_CANCEL]
      BY <1>4, <2>2 DEF CancelJob
    <3> HIDE DEF had
    <3>3. p \in had /\ p \in Printers
      BY <2>2, <3>1, FirstIn
    <3> HIDE DEF p
    <3>4. u.holdJob = d.holdJob
      <4> DEFINE v == PrinterNewStatus(d, p, PRNSTATUS_CANCELING)
      <4>1. SameHands(d, v)
        BY <1>1, <3>3, NewStatusFacts
      <4>2. u \in {d, v}
        OBVIOUS
      <4> HIDE DEF u, v
      <4> QED
        BY <4>1, <4>2 DEF SameHands
    <3>5. e = [u EXCEPT !.holdJob = d.holdJob \ {p}, !.cancelJob = @ \cup {p},
                        !.jstatus[j] = STATUS_CANCEL]
      <4> HIDE DEF u
      <4> QED
        BY <3>2, <3>4
    <3>6. Withdrawn(d, e, j, p, PRNSTATUS_SEIZING) /\ e.holdJob = d.holdJob \ {p}
      <4>1. e = Withdraw(d, j, p, PRNSTATUS_SEIZING, d.holdJob \ {p})
        BY <3>5 DEF Withdraw
      <4>2. d.holdJob \ {p} \in SUBSET Printers
        BY <1>1 DEF Tables
      <4> HIDE DEF u
      <4> QED
        BY <1>1, <3>3, <4>1, <4>2, WithdrawFacts
    <3> QED
      BY <1>4, <3>3, <3>6 DEF had
  <2> QED
    BY <2>1, <2>2
<1>5. CASE s < 0 /\ s \notin {STATUS_CANCEL, STATUS_SEIZING}
  <2>1. e = DequeueJob(d, d.jdest[j], j)
    BY <1>1, <1>5 DEF CancelJob
  <2>2. CASE Queued(d, j)
    BY <1>1, <1>5, <2>1, <2>2, DequeueMore
  <2>3. CASE ~ Queued(d, j)
    BY <2>1, <2>3 DEF DequeueJob
  <2> QED
    BY <2>2, <2>3
<1> QED
  BY <1>1, <1>2, <1>3, <1>4, <1>5

\* What pprdrv_exited() does with the job.
Disposed(d, f, p, c) ==
  \/ /\ c = "printed" \/ p \in d.cancelJob
     /\ d.jdest[d.job[p]] = d.jobdest[p]
     /\ Leaves(d, f, p)
  \/ /\ c = "printed" \/ p \in d.cancelJob
     /\ d.jdest[d.job[p]] # d.jobdest[p]
     /\ d.jstatus[d.job[p]] \in {STATUS_CANCEL, STATUS_SEIZING}
     /\ Stays(d, f, p, c, d.jstatus[d.job[p]])
     /\ f.cancelJob = d.cancelJob \ {p}
  \/ /\ ~ (c = "printed" \/ p \in d.cancelJob)
     /\ d.jdest[d.job[p]] = d.jobdest[p]
     /\ Keeps(d, f, p, c)

\* The printer gets the status s.
Settled(f, g, p, s) ==
  /\ SameJobs(f, g) /\ SameHands(f, g)
  /\ g.jstatus = f.jstatus /\ g.fatal = f.fatal
  /\ s = PRNSTATUS_STOPT => g.waiter = f.waiter \ {p}
  /\ s # PRNSTATUS_STOPT => g.waiter = f.waiter
  /\ \A q \in Printers : g.status[q] = IF q = p THEN s ELSE f.status[q]

\* Nothing that matters to the job has been done to a busy printer when the
\* job has been disposed of.
LEMMA DisposedStatus ==
  ASSUME NEW d, NEW f, NEW p \in Printers, NEW c, d.status[p] \in Busy,
         Disposed(d, f, p, c)
  PROVE  f.status[p] = d.status[p]
PROOF
<1>1. CASE Keeps(d, f, p, c)
  <2>1. PICK g \in Tables : Stays(d, g, p, c, JobStatusAfter(d, p, c))
                            /\ Starts(g, f)
    BY <1>1 DEF Keeps
  <2>2. g.status = d.status
    BY <2>1 DEF Stays
  <2>3. StillOrStarves(g, f, p)
    BY <2>1, <2>2 DEF Starts, Begins
  <2> QED
    BY <2>2, <2>3 DEF StillOrStarves
<1>2. CASE Leaves(d, f, p)
  BY <1>2 DEF Leaves
<1>3. CASE Stays(d, f, p, c, d.jstatus[d.job[p]])
  BY <1>3 DEF Stays
<1> QED
  BY <1>1, <1>2, <1>3 DEF Disposed

\* pprdrv_exited()
LEMMA ExitFacts ==
  ASSUME NEW d, NEW r \in SUBSET Jobs, NEW lost \in SUBSET Printers,
         NEW owed \in Int, Sound(d, r, lost, owed),
         ~ d.fatal,
         NEW p \in d.pids, NEW code, NEW ff,
         NEW c, c = EffectiveExit(d, p, code),
         NEW e, e = PprdrvExited(d, p, code, ff)
  PROVE  \/ /\ e = Die(d) /\ d.jdest[d.job[p]] # d.jobdest[p]
            /\ ~ (c = "printed" \/ p \in d.cancelJob)
         \/ \E f, g \in Tables :
              /\ Disposed(d, f, p, c)
              /\ Settled(f, g, p, PrnStatusAfter(d, p, c))
              /\ \/ e = g /\ g.status[p] # PRNSTATUS_IDLE
                 \/ Looked(g, e, p)
PROOF
<1> DEFINE f == DisposeOfJob(d, p, c, ff)
           s == PrnStatusAfter(f, p, c)
           g == PrinterNewStatus(f, p, s)
           l == IF c = "starved" THEN 1 ELSE 0
<1>1. d \in Tables /\ Exclusive(d) /\ Drivers(d, lost)
  BY DEF Sound
<1>2. p \in Printers /\ d.status[p] \in Busy
  BY <1>1, RunningJobs DEF Drivers
<1>3. e = IF f.fatal THEN Die(d)
          ELSE IF g.status[p] = PRNSTATUS_IDLE THEN PrinterLookForWork(g, p, ff)
          ELSE g
  BY DEF PprdrvExited
<1>4. s \in PrnStatus /\ s \notin Busy
  BY DEF PrnStatusAfter
<1> HIDE DEF f
<1>5. CASE d.jdest[d.job[p]] # d.jobdest[p] /\ ~ (c = "printed" \/ p \in d.cancelJob)
  <2>1. f.fatal
    BY <1>5, DisposeLost DEF f
  <2> QED
    BY <1>3, <1>5, <2>1
<1>6. CASE ~ (/\ d.jdest[d.job[p]] # d.jobdest[p]
              /\ ~ (c = "printed" \/ p \in d.cancelJob))
  <2>1. Disposed(d, f, p, c)
    <3>1. CASE /\ c = "printed" \/ p \in d.cancelJob
               /\ d.jdest[d.job[p]] = d.jobdest[p]
      BY <3>1, DisposeGone DEF f, Disposed
    <3>2. CASE /\ c = "printed" \/ p \in d.cancelJob
               /\ d.jdest[d.job[p]] # d.jobdest[p]
      BY <3>2, DisposeStuck DEF f, Disposed
    <3>3. CASE /\ ~ (c = "printed" \/ p \in d.cancelJob)
               /\ d.jdest[d.job[p]] = d.jobdest[p]
      <4>1. Keeps(d, f, p, c)
        BY <3>3, DisposeKept DEF f
      <4> QED
        BY <3>3, <4>1 DEF Disposed
    <3> QED
      BY <1>6, <3>1, <3>2, <3>3
  <2>2. ~ f.fatal
    <3>1. CASE Keeps(d, f, p, c)
      BY <3>1 DEF Keeps, Stays, Starts
    <3>2. CASE Leaves(d, f, p)
      BY <3>2 DEF Leaves
    <3>3. CASE Stays(d, f, p, c, d.jstatus[d.job[p]])
      BY <3>3 DEF Stays
    <3> QED
      BY <2>1, <3>1, <3>2, <3>3 DEF Disposed
  <2>3. Sound(f, r, lost \cup {p}, owed + l)
    <3>1. l \in Nat
      OBVIOUS
    <3> HIDE DEF l
    <3>2. l = IF c = "starved" THEN 1 ELSE 0
      BY DEF l
    <3>3. f.fatal # TRUE
      BY <2>2
    <3> QED
      BY <3>1, <3>2, <3>3, DisposeSound DEF f
  <2>4. f \in Tables /\ Entries(f)
    BY <2>3 DEF Sound
  <2>5. f.status[p] = d.status[p]
    BY <1>2, <2>1, DisposedStatus
  <2>6. s = PrnStatusAfter(d, p, c)
    BY <2>5 DEF PrnStatusAfter
  <2> HIDE DEF s
  <2>7. g \in Tables
    BY <1>2, <1>4, <2>4, NewStatusType
  <2>8. Settled(f, g, p, s)
    <3> HIDE DEF g
    <3>1. /\ SameJobs(f, g) /\ SameHands(f, g)
          /\ g.jstatus = f.jstatus /\ g.fatal = f.fatal
          /\ s = PRNSTATUS_STOPT => g.waiter = f.waiter \ {p}
          /\ s # PRNSTATUS_STOPT => g.waiter = f.waiter
          /\ \A q \in Printers : g.status[q] = IF q = p THEN s ELSE f.status[q]
      BY <1>2, <1>4, <2>4, NewStatusFacts DEF g
    <3> QED
      BY <3>1 DEF Settled
  <2> HIDE DEF g
  <2>9. Entries(g)
    BY <2>4, <2>8 DEF Settled, Entries, Queued, SameJobs, SameEntries
  <2>10. CASE g.status[p] = PRNSTATUS_IDLE
    <3>1. Looked(g, e, p)
      BY <1>2, <1>3, <2>2, <2>7, <2>9, <2>10, LookFacts DEF Looked
    <3> QED
      BY <2>1, <2>4, <2>6, <2>7, <2>8, <3>1
  <2>11. CASE g.status[p] # PRNSTATUS_IDLE
    <3>1. e = g
      BY <1>3, <2>2, <2>11
    <3> QED
      BY <2>1, <2>4, <2>6, <2>7, <2>8, <2>11, <3>1
  <2> QED
    BY <2>10, <2>11
<1> QED
  BY <1>5, <1>6

---------------------------------------------------------------------------
(* The events, by what they change.  d and e are the tables before and     *)
(* after the event.                                                        *)

\* A printer's time to be tried again has come.
Woken(d, e) ==
  \E p \in Printers, g \in Tables :
    /\ d.status[p] \in {PRNSTATUS_FAULT, PRNSTATUS_ENGAGED, PRNSTATUS_STARVED}
    /\ Idled(d, g, p) /\ Looked(g, e, p)

\* A printer is stopt, at once or when its pprdrv has ended.
Stopped(d, e) ==
  \E p \in Printers :
    \/ /\ d.status[p] \notin Busy /\ Changed(d, e, p, PRNSTATUS_STOPT)
       /\ e.waiter = d.waiter \ {p}
    \/ /\ d.status[p] \in Busy /\ e.waiter \subseteq d.waiter \cup {p}
       /\ \E s \in {PRNSTATUS_STOPPING, PRNSTATUS_HALTING} :
            Changed(d, e, p, s)

\* A printer is started again, or its stop is called off.
Started(d, e) ==
  /\ Ops \cap {"start", "resume"} # {}
  /\ \E p \in Printers :
       \/ /\ d.status[p] \in {PRNSTATUS_FAULT, PRNSTATUS_STOPT}
          /\ \E g \in Tables :
               /\ Changed(d, g, p, PRNSTATUS_IDLE) /\ g.waiter = d.waiter
               /\ Looked(g, e, p)
       \/ /\ d.status[p] = PRNSTATUS_STOPPING
          /\ Changed(d, e, p, PRNSTATUS_PRINTING)
          /\ \/ e.waiter = d.waiter \ {p}
             \/ "resume" \in Ops /\ e.waiter = d.waiter

\* A job is held.
Held(d, e) ==
  /\ "hold" \in Ops
  /\ \E j \in Jobs :
       \/ /\ d.jstatus[j] \in {STATUS_WAITING, STATUS_WAITING4MEDIA}
          /\ Becomes(d, e, j, STATUS_HELD) /\ SameHands(d, e)
          /\ e.status = d.status /\ e.fatal = d.fatal
       \/ /\ d.jstatus[j] = STATUS_CANCEL
          /\ Becomes(d, e, j, STATUS_SEIZING) /\ SameHands(d, e)
          /\ e.status = d.status
       \/ /\ d.jstatus[j] \in d.pids
          /\ Becomes(d, e, j, STATUS_SEIZING)
          /\ e.cancelJob = d.cancelJob
          /\ e.holdJob = d.holdJob \cup {d.jstatus[j]}
          /\ e.fatal = d.fatal
          /\ \A q \in Printers : e.status[q] =
               IF q = d.jstatus[j] THEN PRNSTATUS_SEIZING ELSE d.status[q]

\* A job is released.
Released(d, e) ==
  \E j \in Jobs, g \in Tables :
    /\ d.jstatus[j] \in {STATUS_HELD, STATUS_ARRESTED}
    /\ Refreshed(d, g, j, d.jdest[j], STATUS_WAITING)
    /\ SamePlaces(d, g) /\ g.prio[j] = d.prio[j]
    /\ g.never[j] = d.never[j] /\ g.pass[j] = d.pass[j]
    /\ Offered(g, e, j)

\* A job is canceled; x are the jobs that are excused afterwards.
Canceled(d, e, x) ==
  \E j \in x :
    \/ /\ d.jstatus[j] \in d.pids
       /\ Withdrawn(d, e, j, d.jstatus[j], PRNSTATUS_PRINTING)
       /\ e.holdJob = d.holdJob
    \/ /\ d.jstatus[j] = STATUS_SEIZING
       /\ \E p \in HadJob(d, j) :
            /\ Withdrawn(d, e, j, p, PRNSTATUS_SEIZING)
            /\ e.holdJob = d.holdJob \ {p}
    \/ /\ d.jstatus[j] < 0 /\ Queued(d, j)
       /\ d.jstatus[j] \notin {STATUS_CANCEL, STATUS_SEIZING}
       /\ Dequeued(d, e, j)

\* A job is moved to another destination.
Moved(d, e) ==
  /\ Ops \cap {"move", "moveall"} # {}
  /\ \E j \in Jobs, to \in Dests, g \in Tables :
       d.jstatus[j] < 0 /\ MovedTo(d, g, j, to) /\ Offered(g, e, j)

\* A job goes to the head or the tail of the queue.
Rushed(d, e) ==
  /\ Ops \cap {"rush", "last"} # {}
  /\ \E j \in Jobs, head \in BOOLEAN :
       Queued(d, j) /\ e = RushJob(d, j, head)

\* Media are mounted.
Mounted(d, e) ==
  \E p \in Printers, g \in Tables :
    /\ Mounts(d, g, p)
    /\ \/ e = g /\ g.status[p] # PRNSTATUS_IDLE
       \/ Looked(g, e, p)

\* A destination accepts jobs or does not; a group is paused, or resumed and
\* its members (among w) will look for work.
Gated(d, e, w) ==
  \/ \E a \in SUBSET Dests :
       /\ e = [d EXCEPT !.accepting = a]
       /\ "reject" \notin Ops => d.accepting \subseteq a
  \/ \E h \in SUBSET Groups :
       /\ e = [d EXCEPT !.heldGroups = h]
       /\ \A g \in Groups \ h : g \in d.heldGroups => MembersOf(g) \subseteq w

\* A new job is accepted or turned away.  r, x and s, y are the jobs that are
\* being received and those that are excused, before and after.
Submitted(d, e, r, s, x, y) ==
  \E j \in Jobs, st \in Arrivals :
    /\ ~ Queued(d, j) /\ j \notin r
    /\ s = IF st = STATUS_RECEIVING THEN r \cup {j} ELSE r
    /\ y = IF JobDest[j] \in d.accepting THEN x \ {j} ELSE x
    /\ \/ /\ JobDest[j] \notin d.accepting \/ Len(d.queue) = QueueMax
          /\ OnlyFiles(d, e) /\ e.files = d.files \ {j}
       \/ /\ Len(d.queue) # QueueMax
          /\ \E g \in Tables : Entered(d, g, j, st) /\ Offered(g, e, j)

\* ppr has received the rest of a job.
Reloaded(d, e, r, s) ==
  \E j \in r :
    /\ s = r \ {j}
    /\ \/ /\ JobDest[j] \notin d.accepting \/ ~ Queued(d, j)
               \/ d.jdest[j] # JobDest[j]
          /\ OnlyFiles(d, e)
          /\ e.files = IF d.jdest[j] = JobDest[j] THEN d.files \ {j}
                                                  ELSE d.files
       \/ /\ Queued(d, j)
          /\ \E g \in Tables :
               /\ Refreshed(d, g, j, d.jdest[j], STATUS_WAITING)
               /\ SamePlaces(d, g) /\ g.prio[j] = JobPriority[j]
               /\ g.never[j] = {} /\ g.pass[j] = FirstPass(d.jdest[j])
               /\ Offered(g, e, j)

\* A pprdrv has ended, and printed its job only if that is among y.
Exited(d, e, y) ==
  \E p \in d.pids, c \in ExitCodes :
    /\ c = "printed" => d.job[p] \in y
    /\ \/ /\ e = Die(d) /\ d.jdest[d.job[p]] # d.jobdest[p]
          /\ ~ (c = "printed" \/ p \in d.cancelJob)
       \/ \E f, g \in Tables :
            /\ Disposed(d, f, p, c)
            /\ Settled(f, g, p, PrnStatusAfter(d, p, c))
            /\ \/ e = g /\ g.status[p] # PRNSTATUS_IDLE
               \/ Looked(g, e, p)

\* The printers that are still to look for work in the running handler.
Pending(t) == {t[i].arg : i \in {i \in DOMAIN t : t[i].op = "look"}}

\* Every event but those that concern ppr or start a printer.
Attended(d, e, w, v, y) ==
  \/ /\ w \subseteq v
     /\ \/ Alike(d, e) \/ Woken(d, e) \/ Stopped(d, e)
        \/ Held(d, e) \/ Released(d, e) \/ Canceled(d, e, y) \/ Moved(d, e)
        \/ Rushed(d, e) \/ Mounted(d, e) \/ Gated(d, e, v) \/ Exited(d, e, y)
  \/ \E p \in Printers :
       /\ w \subseteq v \cup {p}
       /\ \/ e = d /\ d.status[p] # PRNSTATUS_IDLE
          \/ Looked(d, e, p)

\* Every event but those that concern ppr.
Served(d, e, w, v, y) ==
  \/ Attended(d, e, w, v, y)
  \/ w \subseteq v /\ Started(d, e)

\* What an event does, seen from the tables, the agenda and the observers.
EventDoes ==
  \/ /\ Served(pprd, pprd', Pending(todo), Pending(todo'), excused')
     /\ recv' = recv /\ excused \subseteq excused'
  \/ /\ Submitted(pprd, pprd', recv, recv', excused, excused')
     /\ Pending(todo) \subseteq Pending(todo')
  \/ /\ Reloaded(pprd, pprd', recv, recv') /\ excused' = excused
     /\ Pending(todo) \subseteq Pending(todo')

\* The same of an event that starts no printer.
OtherEventDoes ==
  \/ /\ Attended(pprd, pprd', Pending(todo), Pending(todo'), excused')
     /\ recv' = recv /\ excused \subseteq excused'
  \/ /\ Submitted(pprd, pprd', recv, recv', excused, excused')
     /\ Pending(todo) \subseteq Pending(todo')
  \/ /\ Reloaded(pprd, pprd', recv, recv') /\ excused' = excused
     /\ Pending(todo) \subseteq Pending(todo')

\* Nothing is pending while pprd waits, and an iteration of another kind of
\* loop leaves the same printers to look for work.
LEMMA PendingFacts ==
  ASSUME todo \in Seq(Task)
  PROVE  /\ todo = << >> => Pending(todo) = {}
         /\ todo # << >> =>
              /\ Head(todo).op # "look" =>
                   Pending(todo) \subseteq Pending(Tail(todo))
              /\ Pending(todo) \subseteq
                   Pending(Tail(todo)) \cup {Head(todo).arg}
PROOF
<1>1. todo = << >> => Pending(todo) = {}
  BY DEF Pending
<1>2. ASSUME todo # << >>, NEW x \in Pending(todo)
      PROVE  \/ x \in Pending(Tail(todo))
             \/ Head(todo).op = "look" /\ x = Head(todo).arg
  <2>1. PICK i \in DOMAIN todo : todo[i].op = "look" /\ x = todo[i].arg
    BY <1>2 DEF Pending
  <2>2. /\ Len(todo) \in Nat \ {0} /\ DOMAIN todo = 1 .. Len(todo)
        /\ Head(todo) = todo[1]
        /\ DOMAIN Tail(todo) = 1 .. (Len(todo) - 1)
        /\ \A k \in 1 .. (Len(todo) - 1) : Tail(todo)[k] = todo[k + 1]
    BY <1>2
  <2>3. CASE i = 1
    BY <2>1, <2>2, <2>3
  <2>4. CASE i # 1
    <3>1. i - 1 \in DOMAIN Tail(todo) /\ Tail(todo)[i - 1] = todo[i]
      BY <2>2, <2>4
    <3> QED
      BY <2>1, <3>1 DEF Pending
  <2> QED
    BY <2>3, <2>4
<1> QED
  BY <1>1, <1>2

\* A handler moves jobs one by one only if somebody asked for it.
Asked == \A i \in DOMAIN todo : todo[i].op = "move" => "moveall" \in Ops

\* No event makes a handler move jobs unasked.
LEMMA AskedStep ==
  ASSUME todo \in Seq(Task), Asked, [Next]_vars
  PROVE  Asked'
PROOF
<1>1. CASE UNCHANGED todo
  BY <1>1 DEF Asked
<1>2. CASE todo # << >> /\ todo' = Tail(todo)
  <2>1. /\ DOMAIN todo = 1 .. Len(todo) /\ Len(todo) \in Nat \ {0}
        /\ DOMAIN Tail(todo) = 1 .. (Len(todo) - 1)
        /\ \A k \in 1 .. (Len(todo) - 1) : Tail(todo)[k] = todo[k + 1]
    BY <1>2
  <2>2. \A k \in 1 .. (Len(todo) - 1) : k + 1 \in 1 .. Len(todo)
    BY <2>1
  <2> QED
    BY <1>2, <2>1, <2>2 DEF Asked
<1>3. CASE LoopStep
  BY <1>2, <1>3 DEF LoopStep, PurgeStep, MoveStep, LookStep, TickStep
<1>4. CASE Tick
  BY <1>4 DEF Tick, Asked
<1>5. ASSUME NEW dest, PpopPurge(dest)
      PROVE  Asked'
  BY <1>5 DEF PpopPurge, Asked
<1>6. ASSUME NEW from, NEW to, PpopMoveAll(from, to)
      PROVE  Asked'
  BY <1>6 DEF PpopMoveAll, Command, Asked
<1>7. ASSUME NEW g, IppResumeGroup(g)
      PROVE  Asked'
  BY <1>7 DEF IppResumeGroup, Asked
<1>8. ASSUME NEW j \in Jobs,
             \/ \E st \in Arrivals : SubmitJob(j, st)
             \/ ReloadJob(j) \/ PpopHold(j) \/ PpopRelease(j)
             \/ PpopCancel(j) \/ PpopRush(j) \/ PpopLast(j)
             \/ \E to \in Dests : PpopMove(j, to)
      PROVE  UNCHANGED todo
  BY <1>8 DEF SubmitJob, ReloadJob, PpopHold, PpopRelease, PpopCancel,
              PpopRush, PpopLast, PpopMove, Simple
<1>9. ASSUME NEW p \in Printers, ExitOf(p) \/ StartCommand(p) \/ StopCommand(p)
      PROVE  UNCHANGED todo
  BY <1>9 DEF ExitOf, Exit, StartCommand, StopCommand, PpopStart, PpopStop,
              PpopWstop, PpopHalt, IppPausePrinter, IppResumePrinter, Simple
<1>10. ASSUME NEW p \in Printers, NEW b, NEW m, PpopMount(p, b, m)
       PROVE  UNCHANGED todo
  BY <1>10 DEF PpopMount, Simple
<1>11. ASSUME NEW x, PpopAccept(x) \/ PpopReject(x) \/ IppPauseGroup(x)
       PROVE  UNCHANGED todo
  BY <1>11 DEF PpopAccept, PpopReject, IppPauseGroup, Simple
<1>12. CASE UNCHANGED vars
  BY <1>1, <1>12 DEF vars
<1> QED
  BY <1>1, <1>3, <1>4, <1>5, <1>6, <1>7, <1>8, <1>9, <1>10, <1>11, <1>12
  DEF Next, Event

\* No handler moves jobs unasked.
LEMMA AskedHolds == Spec => []Asked
PROOF
<1>1. Init => Asked
  BY DEF Init, Asked
<1>2. IndInv /\ Asked /\ [Next]_vars => Asked'
  BY AskedStep DEF IndInv
<1> QED
  BY <1>1, <1>2, Invariance, PTL DEF Spec

\* Every event that starts no printer is one of those described above.
LEMMA OtherStep ==
  ASSUME NEW lost \in SUBSET Printers, NEW owed \in Int,
         Sound(pprd, recv, lost, owed), todo \in Seq(Task),
         recv \in SUBSET Jobs, excused \in SUBSET Jobs, Asked,
         Event \/ \E p \in Printers : ExitOf(p) \/ StopCommand(p)
  PROVE  ~ pprd.fatal /\ OtherEventDoes
PROOF
<1>1. /\ Sound(pprd, recv, lost, owed) /\ todo \in Seq(Task)
      /\ recv \in SUBSET Jobs /\ excused \in SUBSET Jobs
      /\ pprd \in Tables /\ pprd.queue \in Seq(Jobs)
  BY DEF Sound, Tables
<1> DEFINE w == Pending(todo)
           v == Pending(todo')
<1>2. ASSUME NEW op, NEW d, Simple(op, d)
      PROVE  /\ op \in Ops /\ ~ pprd.fatal /\ pprd' = d /\ w \subseteq v
             /\ recv' = recv /\ excused \subseteq excused'
  BY <1>2 DEF Simple, Command, Waits
<1>3. ASSUME todo # << >>, todo' = Tail(todo)
      PROVE  /\ Head(todo).op # "look" => w \subseteq v
             /\ w \subseteq v \cup {Head(todo).arg}
  BY <1>1, <1>3, PendingFacts
<1>30. todo = << >> => w \subseteq v
  BY <1>1, PendingFacts
<1>31. Alike(pprd, pprd)
  BY DEF Alike, SameJobs, SameHands, SameEntries
<1> HIDE DEF w, v
<1>4. CASE PurgeStep
  <2> DEFINE j == Head(todo).arg
  <2>1. j \in Jobs /\ w \subseteq v /\ ~ pprd.fatal /\ recv' = recv
    BY <1>1, <1>3, <1>4, NextTask DEF PurgeStep
  <2>2. \/ pprd' = pprd /\ excused' = excused
        \/ pprd' = CancelJob(pprd, j) /\ excused' = excused \cup {j}
    BY <1>4 DEF PurgeStep
  <2>3. CASE pprd' = CancelJob(pprd, j) /\ excused' = excused \cup {j}
    <3>1. pprd' = pprd \/ Canceled(pprd, pprd', excused')
      BY <1>1, <2>1, <2>3, CancelFacts DEF Canceled
    <3> QED
      BY <1>31, <2>1, <2>3, <3>1 DEF OtherEventDoes, Attended, w, v
  <2> QED
    BY <1>31, <2>1, <2>2, <2>3 DEF OtherEventDoes, Attended, w, v
<1>5. CASE MoveStep
  <2>1. /\ Head(todo).arg \in Jobs /\ Head(todo).to \in Dests
        /\ w \subseteq v /\ ~ pprd.fatal /\ recv' = recv /\ excused' = excused
        /\ "moveall" \in Ops
    <3>1. Head(todo).op = "move" => "moveall" \in Ops
      BY <1>1, <1>5 DEF Asked, MoveStep
    <3> QED
      BY <1>1, <1>3, <1>5, <3>1, NextTask DEF MoveStep
  <2>2. PICK ff : pprd' = IF pprd.jdest[Head(todo).arg] = Head(todo).from
                  THEN MoveJob(pprd, Head(todo).arg, Head(todo).to, ff)
                  ELSE pprd
    BY <1>5 DEF MoveStep
  <2> DEFINE j  == Head(todo).arg
             to == Head(todo).to
  <2> HIDE DEF j, to
  <2>3. pprd' = pprd \/ pprd' = MoveJob(pprd, j, to, ff)
    BY <2>2 DEF j, to
  <2>4. j \in Jobs /\ to \in Dests
    BY <2>1 DEF j, to
  <2>5. pprd' = pprd \/ Moved(pprd, pprd')
    <3>1. CASE pprd' = MoveJob(pprd, j, to, ff)
      <4>1. \/ pprd' = pprd
            \/ /\ pprd.jstatus[j] < 0
               /\ \E g \in Tables :
                    MovedTo(pprd, g, j, to) /\ Offered(g, pprd', j)
        BY <1>1, <2>4, <3>1, MoveFacts
      <4>2. Ops \cap {"move", "moveall"} # {}
        BY <2>1
      <4> QED
        BY <2>4, <4>1, <4>2 DEF Moved
    <3> QED
      BY <2>3, <3>1
  <2> QED
    BY <1>31, <2>1, <2>5 DEF OtherEventDoes, Attended, w, v
<1>6. CASE LookStep
  <2> DEFINE p == Head(todo).arg
  <2>1. /\ p \in Printers /\ w \subseteq v \cup {p}
        /\ ~ pprd.fatal /\ recv' = recv /\ excused' = excused
    BY <1>1, <1>3, <1>6, NextTask DEF LookStep
  <2>2. PICK ff : pprd' = IF pprd.status[p] = PRNSTATUS_IDLE
                            THEN PrinterLookForWork(pprd, p, ff) ELSE pprd
    BY <1>6 DEF LookStep
  <2>3. \/ pprd' = pprd /\ pprd.status[p] # PRNSTATUS_IDLE
        \/ Looked(pprd, pprd', p)
    BY <1>1, <2>1, <2>2, LookFacts DEF Looked, Sound
  <2> QED
    BY <2>1, <2>3 DEF OtherEventDoes, Attended, w, v
<1>7. CASE TickStep
  <2>1. /\ Head(todo).op = "retry" => Head(todo).arg \in Printers
        /\ w \subseteq v /\ ~ pprd.fatal /\ recv' = recv /\ excused' = excused
    BY <1>1, <1>3, <1>7, NextTask DEF TickStep
  <2>2. PICK ff : pprd' = IF Head(todo).op = "retry"
                            THEN TickRetry(pprd, Head(todo).arg, ff)
                            ELSE TickHungry(pprd, ff)
    BY <1>7 DEF TickStep
  <2>3. Alike(pprd, pprd') \/ Woken(pprd, pprd')
    <3>1. CASE Head(todo).op = "retry"
      BY <1>1, <2>1, <2>2, <3>1, TickRetryFacts DEF Woken
    <3>2. CASE Head(todo).op # "retry"
      BY <1>1, <2>1, <2>2, <3>2, TickHungryFacts DEF Woken
    <3> QED
      BY <3>1, <3>2
  <2> QED
    BY <2>1, <2>3 DEF OtherEventDoes, Attended, w, v
<1>8. CASE Tick
  BY <1>8, <1>30, <1>31 DEF Tick, Waits, OtherEventDoes, Attended, w, v
<1>9. ASSUME NEW j \in Jobs, NEW st \in Arrivals, SubmitJob(j, st)
      PROVE  ~ pprd.fatal /\ OtherEventDoes
  <2>1. PICK ff \in ForkFailures : pprd' = AcceptQueueFile(pprd, j, st, ff)
    BY <1>9 DEF SubmitJob
  <2>2. /\ ~ Queued(pprd, j) /\ j \notin recv /\ ~ pprd.fatal /\ w \subseteq v
        /\ recv' = IF st = STATUS_RECEIVING THEN recv \cup {j} ELSE recv
        /\ excused' = IF JobDest[j] \in pprd.accepting THEN excused \ {j}
                                                       ELSE excused
    BY <1>9, <1>30 DEF SubmitJob, Waits
  <2>3. st \in {STATUS_WAITING, STATUS_HELD, STATUS_RECEIVING}
    BY InstanceAssumption
  <2>4. \/ /\ JobDest[j] \notin pprd.accepting \/ Len(pprd.queue) = QueueMax
           /\ OnlyFiles(pprd, pprd') /\ pprd'.files = pprd.files \ {j}
        \/ /\ Len(pprd.queue) # QueueMax
           /\ \E g \in Tables :
                Entered(pprd, g, j, st) /\ Offered(g, pprd', j)
    BY <1>1, <2>1, <2>3, AcceptFacts
  <2>5. Submitted(pprd, pprd', recv, recv', excused, excused')
    BY <2>2, <2>4 DEF Submitted
  <2> QED
    BY <2>2, <2>5 DEF OtherEventDoes, w, v
<1>10. ASSUME NEW j \in Jobs, ReloadJob(j)
       PROVE  ~ pprd.fatal /\ OtherEventDoes
  <2>1. PICK ff : pprd' = ReloadQueueFile(pprd, j, STATUS_WAITING, ff)
    BY <1>10 DEF ReloadJob
  <2>2. /\ j \in recv /\ recv' = recv \ {j} /\ ~ pprd.fatal /\ w \subseteq v
        /\ excused' = excused
    BY <1>10, <1>30 DEF ReloadJob, Waits
  <2>3. Reloaded(pprd, pprd', recv, recv')
    <3>1. \/ /\ JobDest[j] \notin pprd.accepting \/ ~ Queued(pprd, j)
                  \/ pprd.jdest[j] # JobDest[j]
             /\ OnlyFiles(pprd, pprd')
             /\ pprd'.files = IF pprd.jdest[j] = JobDest[j]
                                THEN pprd.files \ {j} ELSE pprd.files
          \/ /\ Queued(pprd, j)
             /\ \E g \in Tables :
                  /\ Refreshed(pprd, g, j, pprd.jdest[j], STATUS_WAITING)
                  /\ SamePlaces(pprd, g) /\ g.prio[j] = JobPriority[j]
                  /\ g.never[j] = {} /\ g.pass[j] = FirstPass(pprd.jdest[j])
                  /\ Offered(g, pprd', j)
      BY <1>1, <2>1, ReloadFacts
    <3> QED
      BY <2>2, <3>1 DEF Reloaded
  <2> QED
    BY <2>2, <2>3 DEF OtherEventDoes, w, v
<1>11. ASSUME NEW p \in Printers, NEW code \in ExitsSeen, Exit(p, code)
       PROVE  ~ pprd.fatal /\ OtherEventDoes
  <2> DEFINE c == EffectiveExit(pprd, p, code)
  <2>1. PICK ff : pprd' = PprdrvExited(pprd, p, code, ff)
    BY <1>11 DEF Exit
  <2>2. /\ p \in pprd.pids /\ recv' = recv /\ ~ pprd.fatal /\ w \subseteq v
        /\ excused' = IF code = "printed" THEN excused \cup {pprd.job[p]}
                                          ELSE excused
    BY <1>11, <1>30 DEF Exit, Waits
  <2>3. c \in ExitCodes /\ (c = "printed" => code = "printed")
    BY InstanceAssumption DEF EffectiveExit, ExitCodes
  <2> HIDE DEF c
  <2>4. \/ /\ pprd' = Die(pprd) /\ pprd.jdest[pprd.job[p]] # pprd.jobdest[p]
           /\ ~ (c = "printed" \/ p \in pprd.cancelJob)
        \/ \E f, g \in Tables :
             /\ Disposed(pprd, f, p, c)
             /\ Settled(f, g, p, PrnStatusAfter(pprd, p, c))
             /\ \/ pprd' = g /\ g.status[p] # PRNSTATUS_IDLE
                \/ Looked(g, pprd', p)
    BY <1>1, <2>1, <2>2, ExitFacts DEF c
  <2>5. Exited(pprd, pprd', excused')
    BY <2>2, <2>3, <2>4 DEF Exited
  <2> QED
    BY <2>2, <2>5 DEF OtherEventDoes, Attended, w, v
<1>12. ASSUME NEW p \in Printers,
              PpopStop(p) \/ PpopWstop(p) \/ PpopHalt(p)
                \/ IppPausePrinter(p)
       PROVE  ~ pprd.fatal /\ OtherEventDoes
  <2>2. ASSUME NEW halt, NEW wait, NEW e, e = StopPrinter(pprd, p, halt, wait)
        PROVE  e = pprd \/ Stopped(pprd, e)
    BY <1>1, <2>2, StopFacts DEF Stopped
  <2>3. ASSUME NEW op, NEW e, Simple(op, e),
               e = pprd \/ Stopped(pprd, e)
        PROVE  ~ pprd.fatal /\ OtherEventDoes
    <3>1. /\ ~ pprd.fatal /\ pprd' = e /\ w \subseteq v
          /\ recv' = recv /\ excused \subseteq excused'
      BY <1>2, <2>3
    <3> QED
      BY <1>31, <2>3, <3>1 DEF OtherEventDoes, Attended, w, v
  <2>6. CASE PpopStop(p) \/ PpopWstop(p) \/ PpopHalt(p)
    <3>1. PICK op, halt, wait : Simple(op, StopPrinter(pprd, p, halt, wait))
      BY <2>6 DEF PpopStop, PpopWstop, PpopHalt
    <3> QED
      BY <2>2, <2>3, <3>1
  <2>7. CASE IppPausePrinter(p)
    <3>1. \/ Simple("pause", pprd)
          \/ Simple("pause", StopPrinter(pprd, p, TRUE, FALSE))
      BY <2>7 DEF IppPausePrinter
    <3> QED
      BY <2>2, <2>3, <3>1
  <2> QED
    BY <1>12, <2>6, <2>7
<1>13. ASSUME NEW j \in Jobs,
              PpopHold(j) \/ PpopRelease(j) \/ PpopRush(j) \/ PpopLast(j)
       PROVE  ~ pprd.fatal /\ OtherEventDoes
  <2>1. CASE PpopHold(j)
    <3>1. PICK dies \in BOOLEAN : Simple("hold", HoldJob(pprd, j, dies))
      BY <2>1 DEF PpopHold
    <3>2. /\ "hold" \in Ops /\ pprd' = HoldJob(pprd, j, dies)
          /\ ~ pprd.fatal /\ w \subseteq v /\ recv' = recv
          /\ excused \subseteq excused'
      BY <1>2, <3>1
    <3>3. pprd' = pprd \/ Held(pprd, pprd')
      <4>1. pprd \in Tables /\ Exclusive(pprd)
        BY <1>1 DEF Sound
      <4>2. pprd' = HoldJob(pprd, j, dies) /\ "hold" \in Ops
        BY <3>2
      <4> QED
        BY <4>1, <4>2, HoldFacts DEF Held
    <3> QED
      BY <1>31, <3>2, <3>3 DEF OtherEventDoes, Attended, w, v
  <2>2. CASE PpopRelease(j)
    <3>1. PICK ff : Simple("release", ReleaseJob(pprd, j, ff))
      BY <2>2 DEF PpopRelease
    <3>2. /\ pprd' = ReleaseJob(pprd, j, ff)
          /\ ~ pprd.fatal /\ w \subseteq v /\ recv' = recv
          /\ excused \subseteq excused'
      BY <1>2, <3>1
    <3>3. pprd' = pprd \/ Released(pprd, pprd')
      BY <1>1, <3>2, ReleaseFacts DEF Released
    <3> QED
      BY <1>31, <3>2, <3>3 DEF OtherEventDoes, Attended, w, v
  <2>3. CASE PpopRush(j) \/ PpopLast(j)
    <3>1. /\ Rushed(pprd, pprd')
          /\ ~ pprd.fatal /\ w \subseteq v /\ recv' = recv
          /\ excused \subseteq excused'
      <4>1. CASE PpopRush(j)
        <5>1. Queued(pprd, j) /\ Simple("rush", RushJob(pprd, j, TRUE))
          BY <4>1 DEF PpopRush
        <5>2. /\ "rush" \in Ops /\ pprd' = RushJob(pprd, j, TRUE)
              /\ ~ pprd.fatal /\ w \subseteq v /\ recv' = recv
              /\ excused \subseteq excused'
          BY <1>2, <5>1
        <5> QED
          BY <5>1, <5>2 DEF Rushed
      <4>2. CASE PpopLast(j)
        <5>1. Queued(pprd, j) /\ Simple("last", RushJob(pprd, j, FALSE))
          BY <4>2 DEF PpopLast
        <5>2. /\ "last" \in Ops /\ pprd' = RushJob(pprd, j, FALSE)
              /\ ~ pprd.fatal /\ w \subseteq v /\ recv' = recv
              /\ excused \subseteq excused'
          BY <1>2, <5>1
        <5> QED
          BY <5>1, <5>2 DEF Rushed
      <4> QED
        BY <2>3, <4>1, <4>2
    <3> QED
      BY <3>1 DEF OtherEventDoes, Attended, w, v
  <2> QED
    BY <1>13, <2>1, <2>2, <2>3
<1>14. ASSUME NEW j \in Jobs, PpopCancel(j)
       PROVE  ~ pprd.fatal /\ OtherEventDoes
  <2>1. /\ pprd' = CancelJob(pprd, j) /\ excused' = excused \cup {j}
        /\ w \subseteq v /\ ~ pprd.fatal /\ recv' = recv
    BY <1>14, <1>30 DEF PpopCancel, Command, Waits
  <2>2. pprd' = pprd \/ Canceled(pprd, pprd', excused')
    BY <1>1, <2>1, CancelFacts DEF Canceled
  <2> QED
    BY <1>31, <2>1, <2>2 DEF OtherEventDoes, Attended, w, v
<1>15. ASSUME NEW j \in Jobs, NEW to \in Dests, PpopMove(j, to)
       PROVE  ~ pprd.fatal /\ OtherEventDoes
  <2>1. PICK ff : Simple("move", MoveJob(pprd, j, to, ff))
    BY <1>15 DEF PpopMove
  <2>2. /\ "move" \in Ops /\ pprd' = MoveJob(pprd, j, to, ff)
        /\ ~ pprd.fatal /\ w \subseteq v /\ recv' = recv
        /\ excused \subseteq excused'
    BY <1>2, <2>1
  <2>3. pprd' = pprd \/ Moved(pprd, pprd')
    <3>1. \/ pprd' = pprd
          \/ /\ pprd.jstatus[j] < 0
             /\ \E g \in Tables :
                  MovedTo(pprd, g, j, to) /\ Offered(g, pprd', j)
      BY <1>1, <2>2, MoveFacts
    <3>2. Ops \cap {"move", "moveall"} # {}
      BY <2>2
    <3> QED
      BY <3>1, <3>2 DEF Moved
  <2> QED
    BY <1>31, <2>2, <2>3 DEF OtherEventDoes, Attended, w, v
<1>16. ASSUME NEW p \in Printers, NEW b \in Bins[p],
              NEW m \in MediaIds \cup {NoMedium}, PpopMount(p, b, m)
       PROVE  ~ pprd.fatal /\ OtherEventDoes
  <2>1. PICK ff : Simple("mount", Mount(pprd, p, b, m, ff))
    BY <1>16 DEF PpopMount
  <2>2. /\ pprd' = Mount(pprd, p, b, m, ff)
        /\ ~ pprd.fatal /\ w \subseteq v /\ recv' = recv
        /\ excused \subseteq excused'
    BY <1>2, <2>1
  <2>3. Mounted(pprd, pprd')
    BY <1>1, <2>2, MountFacts DEF Mounted
  <2> QED
    BY <2>2, <2>3 DEF OtherEventDoes, Attended, w, v
<1>17. ASSUME NEW dest \in Dests \cup {AllDests}, PpopPurge(dest)
       PROVE  ~ pprd.fatal /\ OtherEventDoes
  BY <1>17, <1>30, <1>31
  DEF PpopPurge, Command, Waits, OtherEventDoes, Attended, w, v
<1>18. ASSUME NEW from \in Dests, NEW to \in Dests, PpopMoveAll(from, to)
       PROVE  ~ pprd.fatal /\ OtherEventDoes
  BY <1>18, <1>30, <1>31
  DEF PpopMoveAll, Command, Waits, OtherEventDoes, Attended, w, v
<1>19. ASSUME NEW dest \in Dests, PpopAccept(dest) \/ PpopReject(dest)
       PROVE  ~ pprd.fatal /\ OtherEventDoes
  <2>1. /\ pprd.accepting \cup {dest} \in SUBSET Dests
        /\ pprd.accepting \ {dest} \in SUBSET Dests
    BY <1>1 DEF Tables
  <2>2. CASE PpopAccept(dest)
    <3>1. /\ pprd' = [pprd EXCEPT !.accepting = @ \cup {dest}]
          /\ ~ pprd.fatal /\ w \subseteq v /\ recv' = recv
          /\ excused \subseteq excused'
      BY <1>2, <2>2 DEF PpopAccept
    <3>2. Gated(pprd, pprd', v)
      BY <2>1, <3>1 DEF Gated
    <3> QED
      BY <3>1, <3>2 DEF OtherEventDoes, Attended, w, v
  <2>3. CASE PpopReject(dest)
    <3>1. /\ pprd' = [pprd EXCEPT !.accepting = @ \ {dest}]
          /\ ~ pprd.fatal /\ w \subseteq v /\ recv' = recv
          /\ excused \subseteq excused' /\ "reject" \in Ops
      BY <1>2, <2>3 DEF PpopReject
    <3>2. Gated(pprd, pprd', v)
      BY <2>1, <3>1 DEF Gated
    <3> QED
      BY <3>1, <3>2 DEF OtherEventDoes, Attended, w, v
  <2> QED
    BY <1>19, <2>2, <2>3
<1>20. ASSUME NEW g \in Groups, IppPauseGroup(g) \/ IppResumeGroup(g)
       PROVE  ~ pprd.fatal /\ OtherEventDoes
  <2>1. /\ pprd.heldGroups \cup {g} \in SUBSET Groups
        /\ pprd.heldGroups \ {g} \in SUBSET Groups
    BY <1>1 DEF Tables
  <2>2. CASE IppPauseGroup(g)
    <3>1. /\ pprd' = [pprd EXCEPT !.heldGroups = @ \cup {g}]
          /\ ~ pprd.fatal /\ w \subseteq v /\ recv' = recv
          /\ excused \subseteq excused'
      BY <1>2, <2>2 DEF IppPauseGroup
    <3>2. Gated(pprd, pprd', v)
      BY <2>1, <3>1 DEF Gated
    <3> QED
      BY <3>1, <3>2 DEF OtherEventDoes, Attended, w, v
  <2>3. CASE IppResumeGroup(g)
    <3>1. /\ pprd' = [pprd EXCEPT !.heldGroups = @ \ {g}]
          /\ ~ pprd.fatal /\ w \subseteq v /\ recv' = recv
          /\ excused' = excused
          /\ todo' = [i \in 1 .. Len(Members[g]) |->
                        [op |-> "look", arg |-> Members[g][i]]]
      BY <1>30, <2>3 DEF IppResumeGroup, Command, Waits
    <3>2. MembersOf(g) \subseteq v
      <4>1. MembersOf(g) = {Members[g][i] : i \in 1 .. Len(Members[g])}
        BY GroupsAssumption DEF MembersOf, IsGroup
      <4> QED
        BY <3>1, <4>1 DEF v, Pending
    <3>3. Gated(pprd, pprd', v)
      BY <2>1, <3>1, <3>2 DEF Gated
    <3> QED
      BY <3>1, <3>3 DEF OtherEventDoes, Attended, w, v
  <2> QED
    BY <1>20, <2>2, <2>3
<1> QED
  BY <1>4, <1>5, <1>6, <1>7, <1>8, <1>9, <1>10, <1>11, <1>12, <1>13,
     <1>14, <1>15, <1>16, <1>17, <1>18, <1>19, <1>20
  DEF LoopStep, Event, ExitOf, StopCommand

\* A command that starts a printer.
LEMMA StartStep ==
  ASSUME NEW lost \in SUBSET Printers, NEW owed \in Int,
         Sound(pprd, recv, lost, owed), todo \in Seq(Task),
         NEW p \in Printers, StartCommand(p)
  PROVE  /\ ~ pprd.fatal /\ recv' = recv /\ excused \subseteq excused'
         /\ Pending(todo) \subseteq Pending(todo')
         /\ pprd' = pprd \/ Started(pprd, pprd')
         /\ \A q \in Printers \ {p} :
              \/ pprd'.status[q] = pprd.status[q]
              \/ pprd.status[q] = PRNSTATUS_IDLE
PROOF
<1>1. pprd \in Tables /\ Entries(pprd)
  BY DEF Sound
<1>2. ASSUME NEW op, NEW d, Simple(op, d)
      PROVE  /\ op \in Ops /\ ~ pprd.fatal /\ pprd' = d
             /\ Pending(todo) \subseteq Pending(todo')
             /\ recv' = recv /\ excused \subseteq excused'
  BY <1>2 DEF Simple, Command, Waits
<1> DEFINE Elsewhere ==
             \A q \in Printers \ {p} : \/ pprd'.status[q] = pprd.status[q]
                                       \/ pprd.status[q] = PRNSTATUS_IDLE
<1>3. ASSUME NEW release \in BOOLEAN, NEW ff, NEW op,
             ~ release => "resume" \in Ops,
             release => "start" \in Ops,
             Simple(op, StartPrinter(pprd, p, release, ff))
      PROVE  pprd' = pprd \/ (Started(pprd, pprd') /\ Elsewhere)
  <2>1. pprd' = StartPrinter(pprd, p, release, ff)
    BY <1>2, <1>3
  <2>2. \/ pprd' = pprd
        \/ /\ pprd.status[p] \in {PRNSTATUS_FAULT, PRNSTATUS_STOPT}
           /\ \E g \in Tables :
                /\ Changed(pprd, g, p, PRNSTATUS_IDLE)
                /\ g.waiter = pprd.waiter
                /\ Looked(g, pprd', p)
        \/ /\ pprd.status[p] = PRNSTATUS_STOPPING
           /\ Changed(pprd, pprd', p, PRNSTATUS_PRINTING)
           /\ release => pprd'.waiter = pprd.waiter \ {p}
           /\ ~ release => pprd'.waiter = pprd.waiter
    BY <1>1, <2>1, StartFacts
  <2>3. pprd' = pprd \/ Started(pprd, pprd')
    BY <1>3, <2>2 DEF Started
  <2>4. ASSUME NEW g \in Tables, Changed(pprd, g, p, PRNSTATUS_IDLE),
               Looked(g, pprd', p), NEW q \in Printers \ {p}
        PROVE  \/ pprd'.status[q] = pprd.status[q]
               \/ pprd.status[q] = PRNSTATUS_IDLE
    <3>1. g.status[q] = pprd.status[q]
      BY <2>4 DEF Changed
    <3>2. g.status[q] # PRNSTATUS_IDLE => pprd'.status[q] = g.status[q]
      BY <2>4, StartsIdle DEF Looked
    <3> QED
      BY <3>1, <3>2
  <2>5. ASSUME Changed(pprd, pprd', p, PRNSTATUS_PRINTING)
        PROVE  Elsewhere
    BY <2>5 DEF Changed
  <2> QED
    BY <2>2, <2>3, <2>4, <2>5
<1>4. CASE PpopStart(p)
  <2>1. PICK ff : Simple("start", StartPrinter(pprd, p, TRUE, ff))
    BY <1>4 DEF PpopStart
  <2>2. /\ "start" \in Ops /\ ~ pprd.fatal /\ recv' = recv
        /\ excused \subseteq excused' /\ Pending(todo) \subseteq Pending(todo')
    BY <1>2, <2>1
  <2>3. pprd' = pprd \/ (Started(pprd, pprd') /\ Elsewhere)
    BY <1>3, <2>1, <2>2
  <2> QED
    BY <2>2, <2>3
<1>5. CASE IppResumePrinter(p)
  <2>1. PICK ff : Simple("resume", StartPrinter(pprd, p, FALSE, ff))
    BY <1>5 DEF IppResumePrinter
  <2>2. /\ "resume" \in Ops /\ ~ pprd.fatal /\ recv' = recv
        /\ excused \subseteq excused' /\ Pending(todo) \subseteq Pending(todo')
    BY <1>2, <2>1
  <2>3. pprd' = pprd \/ (Started(pprd, pprd') /\ Elsewhere)
    BY <1>3, <2>1, <2>2
  <2> QED
    BY <2>2, <2>3
<1> QED
  BY <1>4, <1>5 DEF StartCommand

\* Every step of the specification is one of the events described above, or
\* changes nothing.
LEMMA AnyStep ==
  ASSUME NEW lost \in SUBSET Printers, NEW owed \in Int,
         Sound(pprd, recv, lost, owed), todo \in Seq(Task),
         recv \in SUBSET Jobs, excused \in SUBSET Jobs, Asked, [Next]_vars
  PROVE  \/ UNCHANGED vars
         \/ ~ pprd.fatal /\ EventDoes
PROOF
<1>1. OtherEventDoes => EventDoes
  BY DEF OtherEventDoes, EventDoes, Served
<1>2. CASE Event \/ \E p \in Printers : ExitOf(p) \/ StopCommand(p)
  BY <1>1, <1>2, OtherStep
<1>3. ASSUME NEW p \in Printers, StartCommand(p)
      PROVE  ~ pprd.fatal /\ EventDoes
  <2>1. /\ ~ pprd.fatal /\ recv' = recv /\ excused \subseteq excused'
        /\ Pending(todo) \subseteq Pending(todo')
        /\ pprd' = pprd \/ Started(pprd, pprd')
    BY <1>3, StartStep
  <2>2. Alike(pprd, pprd)
    BY DEF Alike, SameJobs, SameHands, SameEntries
  <2>3. Served(pprd, pprd', Pending(todo), Pending(todo'), excused')
    BY <2>1, <2>2 DEF Served, Attended
  <2> QED
    BY <2>1, <2>3 DEF EventDoes
<1> QED
  BY <1>2, <1>3 DEF Next

\* The same between two events of a pprd that has never been restarted.
LEMMA Steps ==
  ASSUME IndInv, Asked, [Next]_vars
  PROVE  \/ UNCHANGED vars
         \/ ~ pprd.fatal /\ EventDoes
  BY AnyStep DEF IndInv
===========================================================================
