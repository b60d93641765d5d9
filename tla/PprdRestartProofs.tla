------------------------- MODULE PprdRestartProofs -------------------------
(***************************************************************************)
(* Proofs about the death and the restart of the spooler daemon, and about *)
(* the configurations it reads again, for any number of printers, groups   *)
(* and jobs and any number of deaths.  The invariant has three parts: what *)
(* the files on disk say, whether pprd runs or not; what the tables are,   *)
(* while it runs; and how the two go together.                             *)
(***************************************************************************)
EXTENDS PprdRestart, PprdJobProofs

---------------------------------------------------------------------------
(* Recursive functions on numbers *)

\* What holds of 0, and of i if it holds of i - 1, holds of n.
LEMMA CountUp ==
  ASSUME NEW n \in Nat, NEW T, 0 \in T,
         \A i \in 1 .. n : i - 1 \in T => i \in T
  PROVE  n \in T
PROOF
<1> DEFINE S == {m \in 0 .. n : m \notin T}
<1>1. S \in SUBSET Nat
  OBVIOUS
<1>2. S = {}
  <2> SUFFICES ASSUME S # {}
               PROVE  FALSE
    OBVIOUS
  <2> DEFINE m == First(S)
  <2>1. m \in S /\ \A i \in S : m <= i
    BY <1>1, FirstIn
  <2> HIDE DEF m
  <2>2. m \in 0 .. n /\ m # 0 /\ m \notin T
    BY <2>1
  <2>3. m \in 1 .. n /\ m - 1 \in 0 .. n /\ ~ (m <= m - 1)
    BY <2>2
  <2>4. m - 1 \notin S
    BY <2>1, <2>3
  <2> QED
    BY <2>2, <2>3, <2>4
<1> QED
  BY <1>2

\* A function that is defined step by step, its value at i by what g[i] makes
\* of its value at i - 1.
LEMMA StepByStep ==
  ASSUME NEW V, NEW a \in V, NEW n \in Nat, NEW g \in [1 .. n -> [V -> V]]
  PROVE  \E f \in [0 .. n -> V] :
           f[0] = a /\ \A i \in 1 .. n : f[i] = g[i][f[i - 1]]
PROOF
<1> DEFINE P(m) == \E f \in [0 .. m -> V] :
                     f[0] = a /\ \A i \in 1 .. m : f[i] = g[i][f[i - 1]]
           T == {m \in 0 .. n : P(m)}
<1>1. P(0)
  <2> DEFINE f == [x \in 0 .. 0 |-> a]
  <2>1. f \in [0 .. 0 -> V]
    OBVIOUS
  <2>2. f[0] = a /\ \A i \in 1 .. 0 : f[i] = g[i][f[i - 1]]
    OBVIOUS
  <2> HIDE DEF f
  <2> QED
    BY <2>1, <2>2
<1>2. ASSUME NEW m \in Nat, m + 1 <= n, P(m)
      PROVE  P(m + 1)
  <2>1. PICK f \in [0 .. m -> V] :
          f[0] = a /\ \A i \in 1 .. m : f[i] = g[i][f[i - 1]]
    BY <1>2
  <2> DEFINE h == [x \in 0 .. m + 1 |-> IF x = m + 1 THEN g[m + 1][f[m]]
                                        ELSE f[x]]
  <2>2. g[m + 1] \in [V -> V] /\ f[m] \in V
    BY <1>2
  <2>3. h \in [0 .. m + 1 -> V]
    BY <2>2
  <2>4. h[0] = a
    BY <2>1
  <2>5. ASSUME NEW i \in 1 .. m + 1
        PROVE  h[i] = g[i][h[i - 1]]
    <3>1. CASE i = m + 1
      BY <3>1
    <3>2. CASE i # m + 1
      <4>1. i \in 1 .. m /\ i - 1 \in 0 .. m /\ i - 1 # m + 1
        BY <3>2
      <4> QED
        BY <2>1, <4>1
    <3> QED
      BY <3>1, <3>2
  <2> HIDE DEF h
  <2> QED
    BY <2>3, <2>4, <2>5
<1> HIDE DEF P
<1>3. 0 \in T
  BY <1>1
<1>4. ASSUME NEW i \in 1 .. n, i - 1 \in T
      PROVE  i \in T
  <2>1. i - 1 \in Nat /\ (i - 1) + 1 = i /\ i <= n /\ P(i - 1)
    BY <1>4
  <2> QED
    BY <1>2, <2>1
<1> HIDE DEF T
<1>5. n \in T
  BY <1>3, <1>4, CountUp
<1> QED
  BY <1>5 DEF P, T

\* The same for a series of tables.
LEMMA TablesStepByStep ==
  ASSUME NEW a \in Tables, NEW n \in Nat,
         NEW g \in [1 .. n -> [Tables -> Tables]]
  PROVE  \E f \in [0 .. n -> Tables] :
           f[0] = a /\ \A i \in 1 .. n : f[i] = g[i][f[i - 1]]
  BY StepByStep

---------------------------------------------------------------------------
(* Reading a queue file *)

USE DEF PRNSTATUS_IDLE, PRNSTATUS_PRINTING, PRNSTATUS_CANCELING,
        PRNSTATUS_SEIZING, PRNSTATUS_FAULT, PRNSTATUS_ENGAGED,
        PRNSTATUS_STARVED, PRNSTATUS_STOPT, PRNSTATUS_STOPPING,
        PRNSTATUS_HALTING, PrnStatus, Busy,
        STATUS_WAITING, STATUS_HELD, STATUS_WAITING4MEDIA, STATUS_ARRESTED,
        STATUS_CANCEL, STATUS_SEIZING, STATUS_STRANDED, STATUS_RECEIVING,
        STATUS_NONE, NoJob

\* The status with which a job is read in.
StatusRead(k, j) == IF k.jstatus[j] = 0 THEN STATUS_WAITING ELSE k.jstatus[j]

\* The file of j has been read.
ReadIn(d, e, k, j) ==
  /\ Refreshed(d, e, j, k.jdest[j], StatusRead(k, j))
  /\ e.queue = Insert(d.queue, RoomFor(d, k.prio[j], j), j)
  /\ e.files = d.files /\ e.prio[j] = k.prio[j]
  /\ e.never[j] = d.never[j] /\ e.pass[j] = FirstPass(k.jdest[j])
  /\ e.active = d.active /\ e.starving = d.starving

\* queue_accept_queuefile() for a file that was there when pprd was started.
LEMMA LoadJobFacts ==
  ASSUME NEW d \in Tables, NEW k \in Disk, NEW j \in Jobs,
         NEW e, e = LoadJob(d, k, j)
  PROVE  /\ e \in Tables
         /\ \/ /\ Len(d.queue) = QueueMax
               /\ OnlyFiles(d, e) /\ e.files = d.files \ {j}
               /\ e.active = d.active /\ e.starving = d.starving
            \/ Len(d.queue) # QueueMax /\ ReadIn(d, e, k, j)
PROOF
<1>1. CASE Len(d.queue) = QueueMax
  <2>1. e = [d EXCEPT !.files = d.files \ {j}]
    BY <1>1 DEF LoadJob
  <2>2. d.files \ {j} \in SUBSET Jobs
    BY DEF Tables
  <2>3. e.active = d.active /\ e.starving = d.starving
    BY <2>1 DEF Tables
  <2> QED
    BY <1>1, <2>1, <2>2, <2>3, FilesFacts
<1>2. CASE Len(d.queue) # QueueMax
  <2> DEFINE s   == StatusRead(k, j)
             to  == k.jdest[j]
             que == Insert(d.queue, RoomFor(d, k.prio[j], j), j)
             jds == [d.jdest EXCEPT ![j] = to]
             jst == [d.jstatus EXCEPT ![j] = s]
             pri == [d.prio EXCEPT ![j] = k.prio[j]]
             pas == [d.pass EXCEPT ![j] = FirstPass(to)]
             cnt == [d.count EXCEPT ![to] = d.count[to] + 1]
             f1  == [d EXCEPT !.queue = que, !.jdest = jds, !.jstatus = jst]
             f   == [f1 EXCEPT !.prio = pri, !.pass = pas, !.count = cnt]
             g   == SetNotNowForJob(f, j)
  <2>1. /\ k.jstatus[j] \in JobStatus /\ to \in Dests /\ k.prio[j] \in Nat
    BY DEF Disk
  <2>2. s \in JobStatus /\ FirstPass(to) \in Nat
    BY <2>1 DEF JobStatus, FirstPass, StatusRead
  <2>3. que \in Seq(Jobs)
    <3>1. d.queue \in Seq(Jobs)
      BY DEF Tables
    <3> QED
      BY <3>1, RoomFacts, InsertProperties
  <2>4. /\ jds \in [Jobs -> Dests] /\ jst \in [Jobs -> JobStatus]
        /\ pri \in [Jobs -> Nat] /\ pas \in [Jobs -> Nat]
        /\ cnt \in [Dests -> Int]
    BY <2>1, <2>2 DEF Tables
  <2>5. /\ jst[j] = s /\ jds[j] = to /\ pri[j] = k.prio[j]
        /\ pas[j] = FirstPass(to)
        /\ \A i \in Jobs : i # j =>
             /\ jst[i] = d.jstatus[i] /\ jds[i] = d.jdest[i]
             /\ pri[i] = d.prio[i] /\ pas[i] = d.pass[i]
    BY DEF Tables
  <2>6. e = SetNotNowForJob(
              [d EXCEPT !.queue      = que,
                        !.jdest[j]   = to,
                        !.jstatus[j] = s,
                        !.prio[j]    = k.prio[j],
                        !.pass[j]    = FirstPass(to),
                        !.count[to]  = @ + 1], j)
    BY <1>2 DEF LoadJob, RoomFor, Overtakes, StatusRead
  <2>7. e = g
    <3> HIDE DEF que, s, to
    <3>1. [d EXCEPT !.queue      = que,
                    !.jdest[j]   = to,
                    !.jstatus[j] = s,
                    !.prio[j]    = k.prio[j],
                    !.pass[j]    = FirstPass(to),
                    !.count[to]  = @ + 1] = f
      BY DEF Tables
    <3> QED
      BY <2>6, <3>1
  <2> HIDE DEF s, to, que, jds, jst, pri, pas, cnt
  <2>8. f1 \in Tables
    BY <2>3, <2>4 DEF Tables
  <2>9. /\ SameHands(d, f1) /\ f1.files = d.files
        /\ f1.queue = que /\ f1.jdest = jds /\ f1.jstatus = jst
        /\ f1.never = d.never /\ f1.notnow = d.notnow /\ f1.pass = d.pass
        /\ f1.mounted = d.mounted /\ f1.accepting = d.accepting
        /\ f1.heldGroups = d.heldGroups /\ f1.status = d.status
        /\ f1.fatal = d.fatal /\ f1.waiter = d.waiter
        /\ f1.active = d.active /\ f1.starving = d.starving
    BY DEF Tables, SameHands
  <2> HIDE DEF f1
  <2>10. f \in Tables
    BY <2>4, <2>8 DEF Tables
  <2>11. /\ SameHands(f1, f) /\ f.files = f1.files
         /\ f.queue = f1.queue /\ f.jdest = f1.jdest /\ f.jstatus = f1.jstatus
         /\ f.never = f1.never /\ f.notnow = f1.notnow
         /\ f.prio = pri /\ f.pass = pas
         /\ f.mounted = f1.mounted /\ f.accepting = f1.accepting
         /\ f.heldGroups = f1.heldGroups /\ f.status = f1.status
         /\ f.fatal = f1.fatal /\ f.waiter = f1.waiter
         /\ f.active = f1.active /\ f.starving = f1.starving
    BY <2>8 DEF Tables, SameHands
  <2>12. g.active = f.active /\ g.starving = f.starving
    <3> HIDE DEF f
    <3> QED
      BY <2>10 DEF SetNotNowForJob, Tables
  <2> HIDE DEF f
  <2>13. OnlyEntry(d, f, j)
    BY <2>5, <2>9, <2>11 DEF OnlyEntry, SameHands
  <2>14. /\ g \in Tables /\ SamePlaces(f, g)
         /\ Refreshed(d, g, j, f.jdest[j], f.jstatus[j])
         /\ g.prio[j] = f.prio[j] /\ g.never[j] = f.never[j]
         /\ g.pass[j] = f.pass[j]
    BY <2>10, <2>13, RefreshFacts
  <2> HIDE DEF g
  <2>15. /\ Refreshed(d, g, j, to, s) /\ g.queue = que /\ g.files = d.files
         /\ g.prio[j] = k.prio[j] /\ g.never[j] = d.never[j]
         /\ g.pass[j] = FirstPass(to)
         /\ g.active = d.active /\ g.starving = d.starving
    BY <2>5, <2>9, <2>11, <2>12, <2>14 DEF SamePlaces
  <2> QED
    BY <1>2, <2>7, <2>14, <2>15 DEF ReadIn, s, to, que
<1> QED
  BY <1>1, <1>2

---------------------------------------------------------------------------
(* Reading them all *)

\* The tables before the first queue file is read.
NoneRead(k, d) ==
  /\ d \in Tables
  /\ \A p \in Printers : d.status[p] = StatusAfterDeath(k.status[p])
  /\ d.wasStarved = {p \in k.wasStarved :
                       StatusAfterDeath(k.status[p]) = k.status[p]}
  /\ d.accepting = k.accepting /\ d.heldGroups = k.heldGroups
  /\ d.mounted = k.mounted /\ d.files = k.files
  /\ d.pids = {} /\ d.cancelJob = {} /\ d.holdJob = {}
  /\ d.waiter = {} /\ d.queue = << >>
  /\ d.active = 0 /\ d.starving = 0 /\ d.fatal = FALSE
  /\ d.jdest = JobDest /\ d.prio = JobPriority
  /\ \A j \in Jobs : /\ d.jstatus[j] = STATUS_NONE
                     /\ d.never[j] = {} /\ d.notnow[j] = {}

\* What they read of the records and of the spool directory has the types
\* of the fields it goes to.
LEMMA DiskFields ==
  ASSUME NEW d \in Tables, NEW acc \in SUBSET Dests,
         NEW hel \in SUBSET Groups,
         NEW mou \in [Printers -> [UNION {Bins[p] : p \in Printers}
                                     -> MediaIds \cup {NoMedium}]],
         NEW fil \in SUBSET Jobs
  PROVE  [d EXCEPT !.accepting = acc, !.heldGroups = hel,
                   !.mounted = mou, !.files = fil] \in Tables
  BY DEF Tables

\* load_printers() and load_groups() leave them so.
LEMMA LoadDestsFacts ==
  ASSUME NEW k \in Disk, NEW d, d = LoadDests(k)
  PROVE  NoneRead(k, d)
PROOF
<1> DEFINE sts == [p \in Printers |-> StatusAfterDeath(k.status[p])]
           wst == {p \in k.wasStarved :
                     StatusAfterDeath(k.status[p]) = k.status[p]}
           f   == [InitTables EXCEPT !.status     = sts,
                                     !.wasStarved = wst,
                                     !.errRetry   = k.errRetry,
                                     !.countdown  = k.countdown]
<1>1. InitTables \in Tables
  <2>1. 0 \in Dests /\ STATUS_NONE \in JobStatus
    BY PrintersAssumption DEF Dests, Printers, JobStatus
  <2>2. JobPriority \in [Jobs -> Nat] /\ JobDest \in [Jobs -> Dests]
    BY JobsAssumption
  <2> QED
    BY <2>1, <2>2 DEF InitTables, Tables
<1>2. /\ sts \in [Printers -> PrnStatus] /\ wst \in SUBSET Printers
      /\ k.errRetry \in [Printers -> Nat] /\ k.countdown \in [Printers -> Int]
  BY DEF Disk, StatusAfterDeath
<1>3. /\ k.accepting \in SUBSET Dests /\ k.heldGroups \in SUBSET Groups
      /\ k.mounted \in [Printers -> [UNION {Bins[p] : p \in Printers}
                                       -> MediaIds \cup {NoMedium}]]
      /\ k.files \in SUBSET Jobs
  BY DEF Disk
<1>4. d = [f EXCEPT !.accepting = k.accepting, !.heldGroups = k.heldGroups,
                    !.mounted = k.mounted, !.files = k.files]
  BY <1>1 DEF LoadDests, Tables
<1>5. \A p \in Printers : sts[p] = StatusAfterDeath(k.status[p])
  OBVIOUS
<1> HIDE DEF sts, wst
<1>6. f \in Tables
  BY <1>1, <1>2 DEF Tables
<1>7. /\ f.status = sts /\ f.wasStarved = wst
      /\ f.pids = {} /\ f.cancelJob = {} /\ f.holdJob = {}
      /\ f.waiter = {} /\ f.queue = << >>
      /\ f.active = 0 /\ f.starving = 0 /\ f.fatal = FALSE
      /\ f.jdest = JobDest /\ f.prio = JobPriority
      /\ \A j \in Jobs : /\ f.jstatus[j] = STATUS_NONE
                         /\ f.never[j] = {} /\ f.notnow[j] = {}
  BY DEF InitTables
<1> HIDE DEF f
<1>8. d \in Tables
  <2> DEFINE acc == k.accepting
             hel == k.heldGroups
             mou == k.mounted
             fil == k.files
  <2>1. /\ acc \in SUBSET Dests /\ hel \in SUBSET Groups
        /\ mou \in [Printers -> [UNION {Bins[p] : p \in Printers}
                                   -> MediaIds \cup {NoMedium}]]
        /\ fil \in SUBSET Jobs
    BY <1>3
  <2>2. d = [f EXCEPT !.accepting = acc, !.heldGroups = hel,
                      !.mounted = mou, !.files = fil]
    BY <1>4
  <2> HIDE DEF acc, hel, mou, fil
  <2> QED
    BY ONLY <1>6, <2>1, <2>2, DiskFields
<1>9. /\ d.status = f.status /\ d.wasStarved = f.wasStarved
      /\ d.accepting = k.accepting /\ d.heldGroups = k.heldGroups
      /\ d.mounted = k.mounted /\ d.files = k.files
      /\ d.pids = f.pids /\ d.cancelJob = f.cancelJob
      /\ d.holdJob = f.holdJob /\ d.waiter = f.waiter /\ d.queue = f.queue
      /\ d.active = f.active /\ d.starving = f.starving /\ d.fatal = f.fatal
      /\ d.jdest = f.jdest /\ d.prio = f.prio /\ d.jstatus = f.jstatus
      /\ d.never = f.never /\ d.notnow = f.notnow
  BY <1>4, <1>6 DEF Tables
<1> QED
  BY <1>5, <1>7, <1>8, <1>9 DEF wst, NoneRead

\* The recursion of initialize_queue().
ReadUp(d, k, dir, f) ==
  f = [n \in 0 .. Len(dir) |->
         IF n = 0 THEN d ELSE LoadJob(f[n - 1], k, dir[n])]

\* It reads one file after the other.
LEMMA LoadQueueIs ==
  ASSUME NEW d \in Tables, NEW k \in Disk, NEW dir \in Seq(Jobs)
  PROVE  \E f : /\ f[0] = d /\ LoadQueue(d, k, dir) = f[Len(dir)]
                /\ \A i \in 1 .. Len(dir) :
                     f[i] = LoadJob(f[i - 1], k, dir[i])
PROOF
<1> DEFINE n == Len(dir)
           g == [i \in 1 .. n |-> [t \in Tables |-> LoadJob(t, k, dir[i])]]
<1>1. n \in Nat /\ \A i \in 1 .. n : dir[i] \in Jobs
  OBVIOUS
<1>2. \A i \in 1 .. n : \A t \in Tables : LoadJob(t, k, dir[i]) \in Tables
  BY <1>1, LoadJobFacts
<1>3. g \in [1 .. n -> [Tables -> Tables]]
  BY <1>2
<1>4. \A i \in 1 .. n : \A t \in Tables : g[i][t] = LoadJob(t, k, dir[i])
  OBVIOUS
<1> HIDE DEF g
<1>5. \E f \in [0 .. n -> Tables] :
        f[0] = d /\ \A i \in 1 .. n : f[i] = g[i][f[i - 1]]
  <2> HIDE DEF n
  <2> QED
    BY <1>1, <1>3, TablesStepByStep
<1>5a. PICK f \in [0 .. n -> Tables] :
        f[0] = d /\ \A i \in 1 .. n : f[i] = g[i][f[i - 1]]
  BY <1>5
<1>6. ASSUME NEW i \in 1 .. n
      PROVE  f[i] = LoadJob(f[i - 1], k, dir[i])
  <2>1. i - 1 \in 0 .. n
    BY <1>1
  <2>2. f[i - 1] \in Tables
    BY <2>1
  <2> QED
    BY <1>4, <1>5a, <2>2
<1>7. ReadUp(d, k, dir, f)
  <2>1. \A i \in 0 .. n : i # 0 => i \in 1 .. n
    BY <1>1
  <2>2. \A i \in 0 .. n :
          f[i] = IF i = 0 THEN d ELSE LoadJob(f[i - 1], k, dir[i])
    BY <1>5a, <1>6, <2>1
  <2> QED
    BY <2>2 DEF ReadUp
<1> DEFINE h == CHOOSE e : ReadUp(d, k, dir, e)
<1>8. LoadQueue(d, k, dir) = h[n]
  BY DEF LoadQueue, ReadUp
<1>9. ReadUp(d, k, dir, h)
  BY <1>7
<1> HIDE DEF h
<1>10. /\ h[0] = d
       /\ \A i \in 1 .. n : h[i] = LoadJob(h[i - 1], k, dir[i])
  <2>1. \A i \in 0 .. n :
          h[i] = IF i = 0 THEN d ELSE LoadJob(h[i - 1], k, dir[i])
    BY <1>9 DEF ReadUp
  <2>2. 0 \in 0 .. n /\ \A i \in 1 .. n : i \in 0 .. n /\ i # 0
    BY <1>1
  <2> QED
    BY <2>1, <2>2
<1> QED
  BY <1>8, <1>10

\* The jobs in S have been read in, on top of what the tables a say of
\* printers and groups.
Came(a, d, k, S) ==
  /\ d \in Tables /\ Entries(d)
  /\ Listed(d) /\ Distinct(d) /\ Ordered(d)
  /\ EnoughRoom => \A j \in S : Queued(d, j)
  /\ SameHands(a, d) /\ d.mounted = a.mounted
  /\ d.accepting = a.accepting /\ d.heldGroups = a.heldGroups
  /\ d.status = a.status /\ d.fatal = a.fatal /\ d.waiter = a.waiter
  /\ d.active = a.active /\ d.starving = a.starving
  /\ \A j \in Jobs :
       /\ j \in d.files <=> j \in a.files /\ (j \in S => Queued(d, j))
       /\ d.never[j] = {}
       /\ ~ Queued(d, j) =>
            d.jdest[j] = JobDest[j] /\ d.prio[j] = JobPriority[j]
       /\ Queued(d, j) =>
            /\ j \in S /\ d.jdest[j] = k.jdest[j] /\ d.prio[j] = k.prio[j]
            /\ d.notnow[j] = Mask(d, j)
            /\ \/ /\ d.jstatus[j] = k.jstatus[j] /\ k.jstatus[j] # 0
                  /\ d.jstatus[j] \notin {STATUS_WAITING, STATUS_WAITING4MEDIA}
               \/ /\ k.jstatus[j] \in {0, STATUS_WAITING,
                                       STATUS_WAITING4MEDIA}
                  /\ d.jstatus[j] \in {STATUS_WAITING, STATUS_WAITING4MEDIA}
            /\ d.jstatus[j] = STATUS_WAITING4MEDIA => Lacking(d, j)

\* One more file.
LEMMA CameStep ==
  ASSUME NEW a, NEW d, NEW k \in Disk, NEW S \in SUBSET Jobs,
         Came(a, d, k, S), NEW j \in Jobs \ S, k.jstatus[j] # STATUS_NONE, j \in a.files,
         NEW e, e = LoadJob(d, k, j)
  PROVE  Came(a, e, k, S \cup {j})
PROOF
<1>1. d \in Tables /\ Entries(d) /\ ~ Queued(d, j)
  BY DEF Came
<1>2. e \in Tables
  BY <1>1, LoadJobFacts
<1>3. CASE /\ Len(d.queue) = QueueMax
           /\ OnlyFiles(d, e) /\ e.files = d.files \ {j}
           /\ e.active = d.active /\ e.starving = d.starving
  <2>1. /\ e.queue = d.queue /\ e.jstatus = d.jstatus /\ e.prio = d.prio
        /\ e.jdest = d.jdest /\ e.never = d.never /\ e.notnow = d.notnow
        /\ e.mounted = d.mounted /\ e.accepting = d.accepting
        /\ e.heldGroups = d.heldGroups /\ e.status = d.status
        /\ e.fatal = d.fatal /\ e.waiter = d.waiter
    BY <1>3 DEF OnlyFiles
  <2>2. SameHands(a, e)
    BY <1>3 DEF OnlyFiles, Came, SameHands
  <2>3. Entries(e)
    BY <1>1, <2>1 DEF Entries, Queued
  <2>4. ASSUME NEW i \in Jobs
        PROVE  /\ Queued(e, i) <=> Queued(d, i)
               /\ Mask(e, i) = Mask(d, i)
               /\ Lacking(e, i) <=> Lacking(d, i)
    BY <2>1, SameMask DEF Queued, Lacking
  <2>5. \A i \in Jobs : i \in e.files <=>
          i \in a.files /\ (i \in S \cup {j} => Queued(e, i))
    BY <1>1, <1>3, <2>4 DEF Came
  <2>6. Listed(e) /\ Distinct(e) /\ Ordered(e)
    <3>0. Listed(d) /\ Distinct(d) /\ Ordered(d)
      BY DEF Came
    <3>1. Listed(e)
      BY <2>1, <3>0 DEF Listed, Queued
    <3>2. Distinct(e)
      BY <2>1, <3>0 DEF Distinct
    <3>3. \A i, l : Precedes(e, i, l) <=> Precedes(d, i, l)
      BY <2>1 DEF Precedes
    <3>4. Ordered(e)
      BY <2>1, <3>0, <3>3 DEF Ordered
    <3> QED
      BY <3>1, <3>2, <3>4
  <2>7. ~ EnoughRoom
    BY <1>1, <1>3, RoomForOne DEF Came
  <2> QED
    BY <1>2, <1>3, <2>1, <2>2, <2>3, <2>4, <2>5, <2>6, <2>7 DEF Came
<1>4. CASE ReadIn(d, e, k, j)
  <2>1. /\ OnlyEntry(d, e, j) /\ e.jdest[j] = k.jdest[j]
        /\ e.notnow[j] = Mask(e, j) /\ e.prio[j] = k.prio[j]
        /\ e.never[j] = d.never[j] /\ e.files = d.files
        /\ e.active = d.active /\ e.starving = d.starving
        /\ e.queue = Insert(d.queue, RoomFor(d, k.prio[j], j), j)
        /\ e.jstatus[j] = STATUS_WAITING4MEDIA => Lacking(e, j)
        /\ \/ /\ e.jstatus[j] = StatusRead(k, j)
              /\ StatusRead(k, j) \notin {STATUS_WAITING, STATUS_WAITING4MEDIA}
           \/ /\ StatusRead(k, j) \in {STATUS_WAITING, STATUS_WAITING4MEDIA}
              /\ e.jstatus[j] \in {STATUS_WAITING, STATUS_WAITING4MEDIA}
    BY <1>4 DEF ReadIn, Refreshed
  <2>2. /\ Queued(e, j)
        /\ \/ /\ e.jstatus[j] = k.jstatus[j] /\ k.jstatus[j] # 0
              /\ e.jstatus[j] \notin {STATUS_WAITING, STATUS_WAITING4MEDIA}
           \/ /\ k.jstatus[j] \in {0, STATUS_WAITING, STATUS_WAITING4MEDIA}
              /\ e.jstatus[j] \in {STATUS_WAITING, STATUS_WAITING4MEDIA}
    BY <2>1 DEF StatusRead, Queued
  <2>3. /\ SameHands(d, e) /\ e.mounted = d.mounted
        /\ e.accepting = d.accepting /\ e.heldGroups = d.heldGroups
        /\ e.status = d.status /\ e.fatal = d.fatal /\ e.waiter = d.waiter
        /\ \A i \in Jobs : i # j =>
             /\ e.jstatus[i] = d.jstatus[i] /\ e.jdest[i] = d.jdest[i]
             /\ e.prio[i] = d.prio[i] /\ e.never[i] = d.never[i]
             /\ e.notnow[i] = d.notnow[i]
    BY <2>1 DEF OnlyEntry
  <2>4. Entries(e)
    <3>1. d.queue \in Seq(Jobs)
      BY <1>1 DEF Tables
    <3>2. /\ \E i \in DOMAIN e.queue : e.queue[i] = j
          /\ \A m \in DOMAIN d.queue :
               \E i \in DOMAIN e.queue : e.queue[i] = d.queue[m]
      BY <1>1, <2>1, <3>1, RoomFacts, InsertProperties
    <3> QED
      BY <1>1, <2>3, <3>2 DEF Entries, Queued
  <2>5. SameHands(a, e)
    BY <2>3 DEF Came, SameHands
  <2>6. ASSUME NEW i \in Jobs, i # j
        PROVE  /\ Queued(e, i) <=> Queued(d, i)
               /\ Mask(e, i) = Mask(d, i)
               /\ Lacking(e, i) <=> Lacking(d, i)
    BY <2>3, <2>6, SameMask DEF Queued, Lacking
  <2>7. \A i \in Jobs : i \in e.files <=>
          i \in a.files /\ (i \in S \cup {j} => Queued(e, i))
    BY <2>1, <2>2, <2>6 DEF Came
  <2>8. ASSUME NEW i \in Jobs
        PROVE  /\ e.never[i] = {}
               /\ ~ Queued(e, i) =>
                    e.jdest[i] = JobDest[i] /\ e.prio[i] = JobPriority[i]
               /\ Queued(e, i) =>
                    /\ i \in S \cup {j} /\ e.jdest[i] = k.jdest[i]
                    /\ e.prio[i] = k.prio[i] /\ e.notnow[i] = Mask(e, i)
                    /\ e.jstatus[i] = STATUS_WAITING4MEDIA => Lacking(e, i)
    <3>1. CASE i = j
      BY <2>1, <2>2, <3>1 DEF Came
    <3>2. CASE i # j
      BY <2>3, <2>6, <3>2 DEF Came
    <3> QED
      BY <3>1, <3>2
  <2>9. ASSUME NEW i \in Jobs, Queued(e, i)
        PROVE  \/ /\ e.jstatus[i] = k.jstatus[i] /\ k.jstatus[i] # 0
                  /\ e.jstatus[i] \notin {STATUS_WAITING, STATUS_WAITING4MEDIA}
               \/ /\ k.jstatus[i] \in {0, STATUS_WAITING,
                                       STATUS_WAITING4MEDIA}
                  /\ e.jstatus[i] \in {STATUS_WAITING, STATUS_WAITING4MEDIA}
    <3>1. CASE i = j
      BY <2>2, <3>1
    <3>2. CASE i # j
      BY <2>3, <2>6, <2>9, <3>2 DEF Came
    <3> QED
      BY <3>1, <3>2
  <2>10. /\ e.mounted = a.mounted /\ e.accepting = a.accepting
         /\ e.heldGroups = a.heldGroups /\ e.status = a.status
         /\ e.fatal = a.fatal /\ e.waiter = a.waiter
         /\ e.active = a.active /\ e.starving = a.starving
    BY <2>1, <2>3 DEF Came
  <2>11. Listed(e) /\ Distinct(e) /\ Ordered(e)
    <3>1. k.prio[j] \in Nat /\ e.jstatus[j] # STATUS_NONE
      BY <2>2 DEF Disk, Queued
    <3>2. Listed(d) /\ Distinct(d) /\ Ordered(d)
      BY DEF Came
    <3>3. \A i \in Jobs : i # j =>
            e.jstatus[i] = d.jstatus[i] /\ e.prio[i] = d.prio[i]
      BY <2>3
    <3> QED
      BY <1>1, <2>1, <3>1, <3>2, <3>3, InLine
  <2>12. EnoughRoom => \A i \in S \cup {j} : Queued(e, i)
    <3>1. \A i \in S : Queued(d, i) => Queued(e, i)
      <4>1. \A i \in S : i \in Jobs => (Queued(d, i) => Queued(e, i))
        BY <2>6
      <4> QED
        BY <4>1
    <3> QED
      BY <2>2, <3>1 DEF Came
  <2> QED
    BY <1>2, <2>4, <2>5, <2>7, <2>8, <2>9, <2>10, <2>11, <2>12 DEF Came
<1> QED
  BY <1>1, <1>3, <1>4, LoadJobFacts

\* The order of a directory names every file once.
LEMMA ListingFacts ==
  ASSUME NEW S \in SUBSET Jobs, IsFiniteSet(S), NEW dir \in Listings(S)
  PROVE  /\ dir \in Seq(Jobs) /\ Len(dir) \in Nat
         /\ \A i, m \in 1 .. Len(dir) : dir[i] = dir[m] => i = m
         /\ \A j : j \in S <=> \E i \in 1 .. Len(dir) : dir[i] = j
PROOF
<1> DEFINE n == Cardinality(S)
<1>1. n \in Nat
  BY FS_CardinalityType
<1>2. /\ dir \in [1 .. n -> S]
      /\ \A i, m \in 1 .. n : dir[i] = dir[m] => i = m
  BY DEF Listings
<1> HIDE DEF n
<1>3. dir \in Seq(Jobs) /\ Len(dir) = n
  BY <1>1, <1>2
<1>4. IsFiniteSet(1 .. n) /\ Cardinality(1 .. n) = n
  <2>1. Cardinality(1 .. n) = IF 1 > n THEN 0 ELSE n - 1 + 1
    BY <1>1, FS_Interval
  <2> QED
    BY <1>1, <2>1, FS_Interval
<1>5. dir \in Injection(1 .. n, S)
  BY <1>2 DEF Injection, IsInjective
<1>6. dir \in Surjection(1 .. n, S)
  BY <1>4, <1>5, FS_Injection DEF n
<1> QED
  BY <1>1, <1>2, <1>3, <1>6 DEF Surjection

\* initialize_queue() reads every file, each once.
LEMMA LoadFacts ==
  ASSUME NEW k \in Disk, IsFiniteSet(k.files),
         \A j \in k.files : k.jstatus[j] # STATUS_NONE,
         NEW dir \in Listings(k.files),
         NEW d, d = LoadQueue(LoadDests(k), k, dir)
  PROVE  Came(LoadDests(k), d, k, k.files)
PROOF
<1> DEFINE n == Len(dir)
<1>0. PICK a : a = LoadDests(k)
  OBVIOUS
<1>1. /\ a \in Tables /\ a.files = k.files /\ a.queue = << >>
      /\ a.jdest = JobDest /\ a.prio = JobPriority
      /\ \A j \in Jobs : a.jstatus[j] = STATUS_NONE /\ a.never[j] = {}
  <2>1. NoneRead(k, a)
    BY <1>0, LoadDestsFacts
  <2> QED
    BY <2>1 DEF NoneRead
<1>2. k.files \in SUBSET Jobs
  BY DEF Disk
<1>3. /\ dir \in Seq(Jobs) /\ n \in Nat
      /\ \A i, m \in 1 .. n : dir[i] = dir[m] => i = m
      /\ \A j : j \in k.files <=> \E i \in 1 .. n : dir[i] = j
  BY <1>2, ListingFacts
<1>4. PICK f : /\ f[0] = a /\ d = f[n]
               /\ \A i \in 1 .. n : f[i] = LoadJob(f[i - 1], k, dir[i])
  BY <1>0, <1>1, <1>3, LoadQueueIs
<1> DEFINE S(m) == {dir[i] : i \in 1 .. m}
           T == {m \in 0 .. n : Came(a, f[m], k, S(m))}
<1>5. 0 \in T
  <2>1. S(0) = {}
    OBVIOUS
  <2>2. Came(a, a, k, {})
    BY <1>1 DEF Came, Entries, Queued, SameHands, Listed, Distinct, Ordered
  <2> HIDE DEF S
  <2>3. Came(a, f[0], k, S(0))
    BY <1>4, <2>1, <2>2
  <2>4. 0 \in 0 .. n
    BY <1>3
  <2> QED
    BY <2>3, <2>4
<1>6. ASSUME NEW i \in 1 .. n, i - 1 \in T
      PROVE  i \in T
  <2>1. Came(a, f[i - 1], k, S(i - 1)) /\ f[i] = LoadJob(f[i - 1], k, dir[i])
    BY <1>4, <1>6
  <2>2. dir[i] \in k.files /\ dir[i] \in Jobs
    BY <1>2, <1>3
  <2>3. dir[i] \notin S(i - 1)
    BY <1>3
  <2>4. S(i) = S(i - 1) \cup {dir[i]}
    BY <1>3
  <2>4a. S(i - 1) \in SUBSET Jobs
    BY <1>3
  <2> HIDE DEF S
  <2>5. Came(a, f[i], k, S(i - 1) \cup {dir[i]})
    BY <1>1, <2>1, <2>2, <2>3, <2>4a, CameStep
  <2>6. Came(a, f[i], k, S(i)) /\ i \in 0 .. n
    BY <1>3, <2>4, <2>5
  <2> QED
    BY <2>6
<1>7. n \in T
  <2> HIDE DEF T, n
  <2> QED
    BY <1>3, <1>5, <1>6, CountUp
<1>8. S(n) = k.files
  BY <1>3
<1> HIDE DEF S
<1> QED
  BY <1>0, <1>4, <1>7, <1>8

\* A job's status as read back: none but the number of a printer has changed,
\* and none is a number.
LEMMA CameStatus ==
  ASSUME NEW a, NEW k \in Disk, NEW S, NEW d, Came(a, d, k, S), NEW j \in Jobs
  PROVE  /\ d.jstatus[j] < 0
         /\ \A s \in {STATUS_HELD, STATUS_ARRESTED, STATUS_CANCEL,
                      STATUS_SEIZING, STATUS_STRANDED, STATUS_RECEIVING} :
              d.jstatus[j] = s => j \in S /\ k.jstatus[j] = s
PROOF
<1>1. k.jstatus[j] <= 0 /\ k.jstatus[j] \in JobStatus
  BY DEF Disk
<1>2. k.jstatus[j] \in Int
  BY <1>1, StatusRange
<1> QED
  BY <1>1, <1>2 DEF Came, Queued

\* A pprd that has just been started is sound, but for the printers that it
\* has loaded as stopping and the starved ones that it has not counted.
LEMMA LoadSound ==
  ASSUME NEW k \in Disk, NEW S, NEW d, Came(LoadDests(k), d, k, S),
         NEW r \in SUBSET Jobs,
         \A j \in r \cap S : k.jstatus[j] = STATUS_RECEIVING,
         NEW x, x = {p \in Printers : d.status[p] = PRNSTATUS_STOPPING}
  PROVE  Sound(d, r, x, -Cardinality(Starved(d)))
PROOF
<1>0. PICK a : a = LoadDests(k)
  OBVIOUS
<1>1. /\ a.pids = {} /\ a.active = 0 /\ a.starving = 0
      /\ \A p \in Printers : a.status[p] = StatusAfterDeath(k.status[p])
  <2>1. NoneRead(k, a)
    BY <1>0, LoadDestsFacts
  <2> QED
    BY <2>1 DEF NoneRead
<1>2. d \in Tables /\ Entries(d) /\ d.pids = {} /\ d.active = 0
      /\ d.starving = 0 /\ d.status = a.status
  BY <1>0, <1>1 DEF Came, SameHands
<1>3. Drivers(d, x)
  <2>1. ASSUME NEW p \in Printers
        PROVE  d.status[p] \in Busy => d.status[p] = PRNSTATUS_STOPPING
    BY <1>1, <1>2 DEF StatusAfterDeath
  <2> QED
    BY <1>2, <2>1 DEF Drivers
<1>4. Actives(d)
  <2>1. Cardinality({}) = 0
    BY FS_EmptySet
  <2> QED
    BY <1>2, <2>1, LimitsAssumption DEF Actives
<1>5. \A j \in Jobs : d.jstatus[j] < 0
  BY CameStatus
<1>6. Exclusive(d)
  BY <1>2, <1>5, JobStatusType DEF Exclusive
<1>7. Starvers(d, -Cardinality(Starved(d)))
  <2>1. Starved(d) \in SUBSET Printers
    BY DEF Starved
  <2>2. Cardinality(Starved(d)) \in Nat
    BY <2>1, PrintersFinite
  <2> QED
    BY <1>2, <2>2 DEF Starvers
<1>8. Receiving(d, r)
  <2>1. ASSUME NEW j \in r, Queued(d, j)
        PROVE  d.jstatus[j] = STATUS_RECEIVING
    <3>1. j \in S /\ j \in Jobs
      BY <2>1 DEF Came
    <3>2. k.jstatus[j] = STATUS_RECEIVING
      BY <3>1
    <3> QED
      BY <2>1, <3>1, <3>2 DEF Came
  <2> QED
    BY <2>1 DEF Receiving, Queued
<1> QED
  BY <1>2, <1>3, <1>4, <1>6, <1>7, <1>8 DEF Sound

---------------------------------------------------------------------------
(* The files *)

\* The files of the jobs in W have been written.
JobsWritten(k, n, d, e, W) ==
  \A j \in Jobs :
    LET line == j \in W /\ d.jstatus[j] # e.jstatus[j]
    IN  /\ j \in n.files <=> (IF j \in W THEN j \in e.files
                                        ELSE j \in k.files)
        /\ n.jstatus[j] = IF line THEN WrittenStatus(e.jstatus[j])
                                  ELSE k.jstatus[j]
        /\ n.prio[j] = IF line THEN e.prio[j] ELSE k.prio[j]

\* Nothing has been done to the spool state files.
SameStates(k, n) ==
  n.status = k.status /\ n.accepting = k.accepting /\ n.mounted = k.mounted

\* What is written for the status of a job is one.
LEMMA WrittenFacts ==
  ASSUME NEW d \in Tables, NEW j \in Jobs
  PROVE  /\ WrittenStatus(d.jstatus[j]) \in {s \in JobStatus : s <= 0}
         /\ d.jstatus[j] < 0 => WrittenStatus(d.jstatus[j]) = d.jstatus[j]
         /\ d.jstatus[j] # STATUS_NONE =>
              WrittenStatus(d.jstatus[j]) # STATUS_NONE
PROOF
<1>1. d.jstatus[j] \in JobStatus /\ d.jstatus[j] \in Int
  BY JobStatusType
<1>2. 0 \in JobStatus
  BY PrintersAssumption DEF JobStatus, Printers
<1> QED
  BY <1>1, <1>2 DEF WrittenStatus

\* queue_write_status_and_flags(), delete_job_files() and the renames.
LEMMA SaveJobsFacts ==
  ASSUME NEW k \in Disk, NEW d \in Tables, NEW e \in Tables,
         NEW W, W \in SUBSET Jobs, NEW n, n = SaveJobs(k, d, e, W)
  PROVE  n \in Disk /\ SameStates(k, n) /\ JobsWritten(k, n, d, e, W)
PROOF
<1> DEFINE line == {j \in W : d.jstatus[j] # e.jstatus[j]}
           fls  == PickSet(Jobs, W, e.files, k.files)
           jds  == [j \in Jobs |-> Pick(j, W, e.jdest[j], k.jdest[j])]
           jst  == [j \in Jobs |-> Pick(j, line, WrittenStatus(e.jstatus[j]),
                                        k.jstatus[j])]
           pri  == [j \in Jobs |-> Pick(j, line, e.prio[j], k.prio[j])]
<1>1. n = [k EXCEPT !.files = fls, !.jdest = jds, !.jstatus = jst,
                    !.prio = pri]
  BY DEF SaveJobs, Disk
<1>2. fls \in SUBSET Jobs
  BY DEF PickSet
<1>3. jds \in [Jobs -> Dests] /\ pri \in [Jobs -> Nat]
  BY DEF Pick, Tables, Disk
<1>4. jst \in [Jobs -> {s \in JobStatus : s <= 0}]
  <2>1. \A j \in Jobs : k.jstatus[j] \in {s \in JobStatus : s <= 0}
    BY DEF Disk
  <2>2. \A j \in Jobs :
          WrittenStatus(e.jstatus[j]) \in {s \in JobStatus : s <= 0}
    BY WrittenFacts
  <2> QED
    BY <2>1, <2>2 DEF Pick
<1>5. \A j \in Jobs :
        /\ j \in fls <=> (IF j \in W THEN j \in e.files ELSE j \in k.files)
        /\ jst[j] = IF j \in W /\ d.jstatus[j] # e.jstatus[j]
                      THEN WrittenStatus(e.jstatus[j]) ELSE k.jstatus[j]
        /\ pri[j] = IF j \in W /\ d.jstatus[j] # e.jstatus[j]
                      THEN e.prio[j] ELSE k.prio[j]
  BY DEF PickSet, Pick
<1> HIDE DEF fls, jds, jst, pri
<1>6. n \in Disk
  BY <1>1, <1>2, <1>3, <1>4 DEF Disk
<1>7. /\ n.status = k.status /\ n.accepting = k.accepting
      /\ n.mounted = k.mounted /\ n.files = fls /\ n.jstatus = jst
      /\ n.prio = pri
  BY <1>1 DEF Disk
<1> QED
  BY <1>5, <1>6, <1>7 DEF SameStates, JobsWritten

\* Nothing has been done to the queue files.
SameQueue(k, n) ==
  n.files = k.files /\ n.jstatus = k.jstatus /\ n.prio = k.prio
    /\ n.jdest = k.jdest

\* The files of the printers and groups in W have been written.
StatesSaved(k, n, e, W) ==
  /\ SameQueue(k, n) /\ n.mounted = k.mounted
  /\ \A p \in Printers :
       n.status[p] = IF p \in W THEN e.status[p] ELSE k.status[p]
  /\ \A x \in Dests : x \in n.accepting <=>
       (IF x \in W THEN x \in e.accepting ELSE x \in k.accepting)

\* printer_spool_state_save() and group_spool_state_save()
LEMMA SaveStatesFacts ==
  ASSUME NEW k \in Disk, NEW e \in Tables, NEW W, NEW n,
         n = SaveStates(k, e, W)
  PROVE  n \in Disk /\ StatesSaved(k, n, e, W)
PROOF
<1> DEFINE sts == [p \in Printers |-> Pick(p, W, e.status[p], k.status[p])]
           wst == PickSet(Printers, W, e.wasStarved, k.wasStarved)
           ers == [p \in Printers |-> Pick(p, W, e.errRetry[p], k.errRetry[p])]
           cds == [p \in Printers |->
                     Pick(p, W, e.countdown[p], k.countdown[p])]
           acc == PickSet(Dests, W, e.accepting, k.accepting)
           hld == PickSet(Groups, W, e.heldGroups, k.heldGroups)
           m   == [k EXCEPT !.status = sts, !.wasStarved = wst,
                            !.errRetry = ers]
<1>1. n = [m EXCEPT !.countdown = cds, !.accepting = acc, !.heldGroups = hld]
  BY DEF SaveStates, Disk
<1>2. sts \in [Printers -> PrnStatus] /\ wst \in SUBSET Printers
  BY DEF Pick, PickSet, Tables, Disk
<1>3. ers \in [Printers -> Nat] /\ cds \in [Printers -> Int]
  BY DEF Pick, Tables, Disk
<1>4. acc \in SUBSET Dests /\ hld \in SUBSET Groups
  BY DEF PickSet
<1>5. /\ \A p \in Printers :
           sts[p] = IF p \in W THEN e.status[p] ELSE k.status[p]
      /\ \A x \in Dests : x \in acc <=>
           (IF x \in W THEN x \in e.accepting ELSE x \in k.accepting)
  BY DEF Pick, PickSet
<1> HIDE DEF sts, wst, ers, cds, acc, hld
<1>6. m \in Disk /\ SameQueue(k, m) /\ m.status = sts
      /\ m.mounted = k.mounted
  BY <1>2, <1>3 DEF Disk, SameQueue
<1> HIDE DEF m
<1>7. n \in Disk
  BY <1>1, <1>3, <1>4, <1>6 DEF Disk
<1>8. SameQueue(m, n) /\ n.status = m.status /\ n.accepting = acc
      /\ n.mounted = m.mounted
  BY <1>1, <1>6 DEF Disk, SameQueue
<1> QED
  BY <1>5, <1>6, <1>7, <1>8 DEF StatesSaved, SameQueue

\* The files of `torn' are empty.
Truncated(k, n, torn) ==
  /\ SameQueue(k, n) /\ n.mounted = k.mounted
  /\ n.accepting = k.accepting \cup torn
  /\ \A p \in Printers :
       n.status[p] = IF p \in torn THEN PRNSTATUS_IDLE ELSE k.status[p]

\* pprd dies between the truncation of a file and the write.
LEMMA TruncateFacts ==
  ASSUME NEW k \in Disk, NEW torn, torn \in SUBSET Dests,
         NEW n, n = Truncate(k, torn)
  PROVE  n \in Disk /\ Truncated(k, n, torn)
PROOF
<1> DEFINE sts == [p \in Printers |-> IF p \in torn THEN PRNSTATUS_IDLE
                                                    ELSE k.status[p]]
           ers == [p \in Printers |-> IF p \in torn THEN 0
                                                    ELSE k.errRetry[p]]
           cds == [p \in Printers |-> IF p \in torn THEN 0
                                                    ELSE k.countdown[p]]
           m   == [k EXCEPT !.status = sts, !.wasStarved = k.wasStarved \ torn,
                            !.errRetry = ers]
<1>1. n = [m EXCEPT !.countdown = cds, !.accepting = k.accepting \cup torn,
                    !.heldGroups = k.heldGroups \ torn]
  BY DEF Truncate, Disk
<1>2. sts \in [Printers -> PrnStatus] /\ k.wasStarved \ torn \in SUBSET Printers
  BY DEF Disk
<1>3. ers \in [Printers -> Nat] /\ cds \in [Printers -> Int]
  BY DEF Disk
<1>4. /\ k.accepting \cup torn \in SUBSET Dests
      /\ k.heldGroups \ torn \in SUBSET Groups
  BY DEF Disk
<1>5. \A p \in Printers :
        sts[p] = IF p \in torn THEN PRNSTATUS_IDLE ELSE k.status[p]
  OBVIOUS
<1> HIDE DEF sts, ers, cds
<1>6. m \in Disk /\ SameQueue(k, m) /\ m.status = sts
      /\ m.mounted = k.mounted
  BY <1>2, <1>3 DEF Disk, SameQueue
<1> HIDE DEF m
<1>7. n \in Disk
  BY <1>1, <1>3, <1>4, <1>6 DEF Disk
<1>8. SameQueue(m, n) /\ n.status = m.status /\ n.mounted = m.mounted
      /\ n.accepting = k.accepting \cup torn
  BY <1>1, <1>6 DEF Disk, SameQueue
<1> QED
  BY <1>5, <1>6, <1>7, <1>8 DEF Truncated, SameQueue

\* What the files say is fit for the next pprd: a job that is still being
\* received is marked as such.
Filing(k, r) ==
  /\ k \in Disk /\ IsFiniteSet(k.files)
  /\ \A j \in Jobs : /\ k.prio[j] \in 1 .. 101
                     /\ NeverRushed => k.prio[j] = JobPriority[j]
  /\ AlwaysOpen => k.accepting = Dests
  /\ \A j \in k.files : /\ k.jstatus[j] # STATUS_NONE
                        /\ j \in r => k.jstatus[j] = STATUS_RECEIVING

\* Only a job that is not queued gets new files, and only with its files does
\* a job enter the queue.
Grows(d, e, r, s) ==
  \A j \in Jobs :
    /\ j \in e.files /\ j \notin d.files => ~ Queued(d, j)
    /\ Queued(e, j) /\ ~ Queued(d, j) => j \in e.files
    /\ j \in s /\ j \notin r => ~ Queued(d, j)

\* Sets of queued jobs are finite.
LEMMA QueuedSetFinite ==
  ASSUME NEW d \in Tables, Entries(d), NEW S \in SUBSET Jobs,
         \A j \in S : Queued(d, j)
  PROVE  IsFiniteSet(S)
PROOF
<1>1. d.queue \in Seq(Jobs)
  BY DEF Tables
<1>2. Len(d.queue) \in Nat /\ DOMAIN d.queue = 1 .. Len(d.queue)
  BY <1>1, LenProperties
<1> DEFINE I == 1 .. Len(d.queue)
           T == {d.queue[i] : i \in I}
<1>3. IsFiniteSet(I)
  BY <1>2, FS_Interval
<1>4. IsFiniteSet(T)
  <2> DEFINE f == [i \in I |-> d.queue[i]]
  <2>1. f \in Surjection(I, T)
    BY DEF Surjection
  <2> QED
    BY <1>3, <2>1, FS_Surjection
<1>5. S \subseteq T
  BY <1>2 DEF Entries
<1> QED
  BY <1>4, <1>5, FS_Subset

\* Whatever a handler has written of what it changes, the files are fit.
LEMMA FilingStep ==
  ASSUME NEW d \in Tables, NEW e \in Tables, Entries(d), Entries(e),
         Tidy(d, {}), Tidy(e, {}), NEW r, NEW s, Grows(d, e, r, s),
         Receiving(e, s), NEW k, Filing(k, r), k.files = d.files,
         NEW W, W \in SUBSET Jobs, e.files \ d.files \subseteq W,
         NEW n \in Disk, JobsWritten(k, n, d, e, W),
         AlwaysOpen => n.accepting = Dests
  PROVE  Filing(n, s)
PROOF
<1>1. /\ \A j \in d.files : j \in Jobs /\ Queued(d, j)
      /\ \A j \in e.files : j \in Jobs /\ Queued(e, j)
      /\ n.files \in SUBSET Jobs
  BY DEF Tidy, Filed, Tables, Disk
<1>2. IsFiniteSet(n.files)
  <2>1. IsFiniteSet(d.files) /\ IsFiniteSet(e.files)
    BY <1>1, QueuedSetFinite DEF Tables
  <2>2. n.files \subseteq d.files \cup e.files
    BY <1>1 DEF JobsWritten
  <2>3. IsFiniteSet(d.files \cup e.files)
    BY <2>1, FS_Union
  <2> QED
    BY <2>2, <2>3, FS_Subset
<1>3. ASSUME NEW j \in Jobs
      PROVE  /\ n.prio[j] \in 1 .. 101
             /\ NeverRushed => n.prio[j] = JobPriority[j]
  BY DEF JobsWritten, Filing, Tidy, Priorities
<1>4. ASSUME NEW j \in n.files
      PROVE  /\ n.jstatus[j] # STATUS_NONE
             /\ j \in s => n.jstatus[j] = STATUS_RECEIVING
  <2>0. j \in Jobs
    BY <1>1
  <2>1. CASE j \in W /\ d.jstatus[j] # e.jstatus[j]
    <3>1. /\ j \in e.files /\ Queued(e, j)
          /\ n.jstatus[j] = WrittenStatus(e.jstatus[j])
      BY <1>1, <2>0, <2>1 DEF JobsWritten
    <3>2. n.jstatus[j] # STATUS_NONE
      BY <2>0, <3>1, WrittenFacts DEF Queued
    <3>3. j \in s => e.jstatus[j] = STATUS_RECEIVING
      BY <3>1 DEF Receiving, Queued
    <3>4. e.jstatus[j] < 0 => n.jstatus[j] = e.jstatus[j]
      BY <2>0, <3>1, WrittenFacts
    <3> QED
      BY <3>2, <3>3, <3>4
  <2>2. CASE ~ (j \in W /\ d.jstatus[j] # e.jstatus[j])
    <3>1. n.jstatus[j] = k.jstatus[j]
      BY <2>0, <2>2 DEF JobsWritten
    <3>2. j \in d.files
      <4>1. CASE j \in W
        <5>1. j \in e.files /\ d.jstatus[j] = e.jstatus[j]
          BY <2>0, <2>2, <4>1 DEF JobsWritten
        <5>2. Queued(d, j)
          BY <1>1, <5>1 DEF Queued
        <5> QED
          BY <2>0, <5>1, <5>2 DEF Grows
      <4>2. CASE j \notin W
        BY <2>0, <4>2 DEF JobsWritten
      <4> QED
        BY <4>1, <4>2
    <3>3. j \in s => j \in r
      BY <1>1, <2>0, <3>2 DEF Grows
    <3> QED
      BY <3>1, <3>2, <3>3 DEF Filing
  <2> QED
    BY <2>1, <2>2
<1> QED
  BY <1>2, <1>3, <1>4 DEF Filing

\* If all has been written the tables and the files agree on what files
\* there are.
LEMMA AllWritten ==
  ASSUME NEW d \in Tables, NEW e \in Tables, NEW k \in Disk, NEW n \in Disk,
         k.files = d.files, JobsWritten(k, n, d, e, SavedJobs(d, e))
  PROVE  n.files = e.files
PROOF
<1>1. /\ e.files \in SUBSET Jobs /\ n.files \in SUBSET Jobs
  BY DEF Tables, Disk
<1>2. \A j \in Jobs : j \notin SavedJobs(d, e) =>
        (j \in d.files <=> j \in e.files)
  BY DEF SavedJobs
<1>3. \A j \in Jobs : j \in n.files <=> j \in e.files
  BY <1>2 DEF JobsWritten
<1> QED
  BY <1>1, <1>3

---------------------------------------------------------------------------
(* The events, by the jobs and files that are new *)

\* No job has entered the queue, and no file is new.
NoNew(d, e) ==
  e.files \subseteq d.files /\ \A j \in Jobs : Queued(e, j) => Queued(d, j)

\* Changes that leave the queue as it is bring nothing new.
LEMMA KeptNoNew ==
  ASSUME NEW d, NEW e, Kept(d, e)
  PROVE  NoNew(d, e)
  BY DEF Kept, NoNew

\* Nor do two changes that do not.
LEMMA NoNewTwice ==
  ASSUME NEW d, NEW g, NEW e, NoNew(d, g), NoNew(g, e)
  PROVE  NoNew(d, e)
  BY DEF NoNew

\* Nor does bringing the entry of a queued job up to date.
LEMMA RefreshedNoNew ==
  ASSUME NEW d, NEW g, NEW j \in Jobs, NEW dest, NEW s,
         Refreshed(d, g, j, dest, s), SamePlaces(d, g),
         Queued(g, j) => Queued(d, j)
  PROVE  NoNew(d, g)
  BY DEF Refreshed, OnlyEntry, SamePlaces, NoNew, Queued

\* The end of a pprdrv brings nothing new.
LEMMA ExitedNoNew ==
  ASSUME NEW d, NEW r \in SUBSET Jobs, NEW lost, NEW owed,
         Sound(d, r, lost, owed), NEW e, NEW y, Exited(d, e, y)
  PROVE  NoNew(d, e)
PROOF
<1>1. d \in Tables /\ Entries(d)
  BY DEF Sound
<1>2. PICK p \in d.pids, c \in ExitCodes :
        \/ e = Die(d)
        \/ \E f, g \in Tables :
             /\ Disposed(d, f, p, c)
             /\ Settled(f, g, p, PrnStatusAfter(d, p, c))
             /\ \/ e = g /\ g.status[p] # PRNSTATUS_IDLE
                \/ Looked(g, e, p)
  BY DEF Exited
<1> DEFINE j == d.job[p]
<1>3. j \in Jobs /\ Queued(d, j)
  BY HeldJobQueued
<1>4. CASE e = Die(d)
  <2>1. Kept(d, e)
    BY <1>1, <1>4 DEF Die, Tables, Kept, Queued
  <2> QED
    BY <2>1, KeptNoNew
<1>5. ASSUME NEW f \in Tables, NEW g \in Tables, Disposed(d, f, p, c),
             Settled(f, g, p, PrnStatusAfter(d, p, c)),
             e = g \/ Looked(g, e, p)
      PROVE  NoNew(d, e)
  <2>1. NoNew(d, f)
    <3>1. CASE Leaves(d, f, p)
      BY <1>3, <3>1 DEF Leaves, NoNew, Queued
    <3>2. CASE Stays(d, f, p, c, d.jstatus[j])
      BY <1>3, <3>2, StaysKept, KeptNoNew DEF Queued
    <3>3. CASE Keeps(d, f, p, c)
      <4>1. PICK h \in Tables : /\ Stays(d, h, p, c, JobStatusAfter(d, p, c))
                                /\ Starts(h, f)
        BY <3>3 DEF Keeps
      <4>2. JobStatusAfter(d, p, c) # STATUS_NONE
        BY DEF JobStatusAfter
      <4>3. Kept(d, h) /\ Kept(h, f)
        BY <1>3, <4>1, <4>2, StaysKept, StartsKept
      <4> QED
        BY <4>3, KeptTwice, KeptNoNew
    <3> QED
      BY <1>5, <3>1, <3>2, <3>3 DEF Disposed
  <2>2. Kept(f, g) /\ (e = g \/ Kept(g, e))
    BY <1>5, ChangedKept, LookedKept
  <2>3. NoNew(f, g) /\ (e = g \/ NoNew(g, e))
    BY <2>2, KeptNoNew
  <2>4. NoNew(d, g)
    BY <2>1, <2>3, NoNewTwice
  <2> QED
    BY <2>3, <2>4, NoNewTwice
<1> QED
  BY <1>2, <1>4, <1>5

\* Nor does any other event that is not about ppr.
LEMMA ServedNoNew ==
  ASSUME NEW d, NEW r \in SUBSET Jobs, NEW lost, NEW owed,
         Sound(d, r, lost, owed),
         NEW e, NEW w, NEW v, NEW y \in SUBSET Jobs, Served(d, e, w, v, y)
  PROVE  NoNew(d, e)
PROOF
<1>1. d \in Tables /\ Entries(d)
  BY DEF Sound
<1>2. ASSUME NEW g, Kept(d, g), g = e \/ Kept(g, e)
      PROVE  NoNew(d, e)
  BY <1>2, KeptNoNew, KeptTwice
<1>2a. ASSUME NEW g, NoNew(d, g), g = e \/ Kept(g, e)
       PROVE  NoNew(d, e)
  BY <1>2a, KeptNoNew, NoNewTwice
<1>3. CASE Alike(d, e)
  BY <1>3, ChangedKept, KeptNoNew
<1>4. CASE Woken(d, e)
  BY <1>2, <1>4, ChangedKept, LookedKept DEF Woken
<1>5. CASE Stopped(d, e)
  BY <1>2, <1>5, ChangedKept DEF Stopped
<1>6. CASE Started(d, e)
  BY <1>2, <1>6, ChangedKept, LookedKept DEF Started
<1>7. CASE Held(d, e)
  <2>1. PICK j \in Jobs :
          /\ \/ d.jstatus[j] \in {STATUS_WAITING, STATUS_WAITING4MEDIA,
                                  STATUS_CANCEL}
             \/ d.jstatus[j] \in d.pids
          /\ Becomes(d, e, j, STATUS_HELD) \/ Becomes(d, e, j, STATUS_SEIZING)
    BY <1>7 DEF Held
  <2>2. Queued(d, j)
    BY <1>1, <2>1, PrintsQueued DEF Queued
  <2> QED
    BY <2>1, <2>2, BecomesKept, KeptNoNew
<1>8. CASE Released(d, e)
  <2>1. PICK j \in Jobs, g \in Tables :
          /\ d.jstatus[j] \in {STATUS_HELD, STATUS_ARRESTED}
          /\ Refreshed(d, g, j, d.jdest[j], STATUS_WAITING)
          /\ SamePlaces(d, g) /\ Offered(g, e, j)
    BY <1>8 DEF Released
  <2>2. Queued(d, j)
    BY <2>1 DEF Queued
  <2>3. NoNew(d, g)
    BY <2>1, <2>2, RefreshedNoNew
  <2> QED
    BY <1>2a, <2>1, <2>3, LookedKept
<1>9. CASE Canceled(d, e, y)
  <2>1. PICK j \in y :
          \/ d.jstatus[j] \in d.pids /\ Becomes(d, e, j, STATUS_CANCEL)
          \/ d.jstatus[j] = STATUS_SEIZING /\ Becomes(d, e, j, STATUS_CANCEL)
          \/ Queued(d, j) /\ Dequeued(d, e, j)
    BY <1>9 DEF Canceled, Withdrawn
  <2>2. CASE Queued(d, j) /\ Dequeued(d, e, j)
    BY <2>2 DEF Dequeued, NoNew, Queued
  <2>3. CASE ~ (Queued(d, j) /\ Dequeued(d, e, j))
    <3>1. Becomes(d, e, j, STATUS_CANCEL) /\ Queued(d, j)
      BY <1>1, <2>1, <2>3, PrintsQueued DEF Queued
    <3> QED
      BY <3>1, BecomesKept, KeptNoNew
  <2> QED
    BY <2>2, <2>3
<1>10. CASE Moved(d, e)
  <2>2. PICK j \in Jobs, to \in Dests, g \in Tables :
          MovedTo(d, g, j, to) /\ Offered(g, e, j)
    BY <1>10 DEF Moved
  <2> DEFINE s == IF d.jstatus[j] = STATUS_STRANDED
                    THEN STATUS_WAITING ELSE d.jstatus[j]
  <2>3. Refreshed(d, g, j, to, s) /\ SamePlaces(d, g)
    BY <2>2 DEF MovedTo
  <2>4. Queued(g, j) => Queued(d, j)
    BY <2>3 DEF Queued, Refreshed
  <2> HIDE DEF s
  <2>5. NoNew(d, g)
    BY <2>3, <2>4, RefreshedNoNew
  <2> QED
    BY <1>2a, <2>2, <2>5, LookedKept
<1>11. CASE Rushed(d, e)
  <2>1. e.files = d.files /\ e.jstatus = d.jstatus
    BY <1>1, <1>11 DEF Rushed, RushJob, Tables
  <2> QED
    BY <2>1 DEF NoNew, Queued
<1>12. CASE Mounted(d, e)
  <2>1. PICK p \in Printers, g \in Tables :
          Mounts(d, g, p) /\ (e = g \/ Looked(g, e, p))
    BY <1>12 DEF Mounted
  <2>2. NoNew(d, g)
    BY <2>1 DEF Mounts, ReasonsFollow, NoNew, Queued
  <2> QED
    BY <1>2a, <2>1, <2>2, LookedKept
<1>13. CASE Gated(d, e, v)
  <2>1. e.files = d.files /\ e.jstatus = d.jstatus
    BY <1>1, <1>13 DEF Gated, Tables
  <2> QED
    BY <2>1 DEF NoNew, Queued
<1>14. CASE Exited(d, e, y)
  BY <1>14, ExitedNoNew
<1>15. CASE e = d
  BY <1>15 DEF NoNew
<1>16. CASE \E p : Looked(d, e, p)
  BY <1>16, LookedKept, KeptNoNew
<1> QED
  BY <1>3, <1>4, <1>5, <1>6, <1>7, <1>8, <1>9, <1>10, <1>11, <1>12, <1>13,
     <1>14, <1>15, <1>16 DEF Served, Attended

\* ppr announces a job, or has sent the rest of it.
LEMMA SubmittedGrows ==
  ASSUME NEW d, NEW r \in SUBSET Jobs, NEW lost, NEW owed,
         Sound(d, r, lost, owed), NEW e, NEW s, NEW x, NEW y,
         Submitted(d, e, r, s, x, y) \/ Reloaded(d, e, r, s)
  PROVE  Grows(d, e, r, s)
PROOF
<1>1. d \in Tables /\ Entries(d)
  BY DEF Sound
<1>2. CASE Submitted(d, e, r, s, x, y)
  <2>1. PICK j \in Jobs, st \in Arrivals :
          /\ ~ Queued(d, j)
          /\ s = IF st = STATUS_RECEIVING THEN r \cup {j} ELSE r
          /\ \/ OnlyFiles(d, e) /\ e.files = d.files \ {j}
             \/ \E g \in Tables : Entered(d, g, j, st) /\ Offered(g, e, j)
    BY <1>2 DEF Submitted
  <2>2. CASE OnlyFiles(d, e) /\ e.files = d.files \ {j}
    BY <2>1, <2>2 DEF OnlyFiles, Grows, Queued
  <2>3. ASSUME NEW g \in Tables, Entered(d, g, j, st), Offered(g, e, j)
        PROVE  Grows(d, e, r, s)
    <3>1. /\ g.files = d.files \cup {j}
          /\ \A i \in Jobs : i # j => g.jstatus[i] = d.jstatus[i]
      BY <2>3 DEF Entered, Refreshed, OnlyEntry
    <3>2. NoNew(g, e) /\ e.files = g.files
      BY <2>3, LookedKept, KeptNoNew DEF Kept
    <3> QED
      BY <2>1, <3>1, <3>2 DEF NoNew, Grows, Queued
  <2> QED
    BY <2>1, <2>2, <2>3
<1>3. CASE Reloaded(d, e, r, s)
  <2>1. PICK j \in r :
          /\ s = r \ {j}
          /\ \/ /\ OnlyFiles(d, e)
                /\ e.files = IF d.jdest[j] = JobDest[j] THEN d.files \ {j}
                                                        ELSE d.files
             \/ /\ Queued(d, j)
                /\ \E g \in Tables :
                     /\ Refreshed(d, g, j, d.jdest[j], STATUS_WAITING)
                     /\ SamePlaces(d, g) /\ Offered(g, e, j)
    BY <1>3 DEF Reloaded
  <2>2. NoNew(d, e)
    <3>1. CASE /\ OnlyFiles(d, e)
               /\ e.files = IF d.jdest[j] = JobDest[j] THEN d.files \ {j}
                                                       ELSE d.files
      BY <3>1 DEF OnlyFiles, NoNew, Queued
    <3>2. ASSUME Queued(d, j), NEW g \in Tables,
                 Refreshed(d, g, j, d.jdest[j], STATUS_WAITING),
                 SamePlaces(d, g), Offered(g, e, j)
          PROVE  NoNew(d, e)
      <4>1. NoNew(d, g)
        BY <3>2, RefreshedNoNew
      <4>2. NoNew(g, e)
        BY <3>2, LookedKept, KeptNoNew
      <4> QED
        BY <4>1, <4>2, NoNewTwice
    <3> QED
      BY <2>1, <3>1, <3>2
  <2> QED
    BY <2>1, <2>2 DEF NoNew, Grows
<1> QED
  BY <1>2, <1>3

\* No event brings files of a job that was queued, or a job without files.
LEMMA EventGrows ==
  ASSUME NEW lost \in SUBSET Printers, NEW owed \in Int,
         Sound(pprd, recv, lost, owed), todo \in Seq(Task),
         recv \in SUBSET Jobs, excused \in SUBSET Jobs, Asked, [Next]_vars
  PROVE  Grows(pprd, pprd', recv, recv')
PROOF
<1>1. UNCHANGED vars \/ EventDoes
  BY AnyStep
<1>2. excused' \in SUBSET Jobs
  BY EventSound
<1>3. CASE UNCHANGED vars
  BY <1>3 DEF vars, Grows
<1>4. CASE /\ Served(pprd, pprd', Pending(todo), Pending(todo'), excused')
           /\ recv' = recv
  <2>1. NoNew(pprd, pprd')
    BY <1>2, <1>4, ServedNoNew
  <2> QED
    BY <1>4, <2>1 DEF NoNew, Grows
<1>5. CASE \/ Submitted(pprd, pprd', recv, recv', excused, excused')
           \/ Reloaded(pprd, pprd', recv, recv')
  BY <1>5, SubmittedGrows
<1> QED
  BY <1>1, <1>3, <1>4, <1>5 DEF EventDoes

---------------------------------------------------------------------------
(* The queue over restarts and events *)

\* The queue that has been read back is in order.  The counts of the
\* destinations are not kept track of: a reload sets them to zero.
LEMMA LoadTidy ==
  ASSUME NEW k, NEW r, Filing(k, r), NEW d, Came(LoadDests(k), d, k, k.files)
  PROVE  Tidy(d, {})
<1>1. k \in Disk
  BY DEF Filing
<1>2. PICK a : a = LoadDests(k)
  OBVIOUS
<1>3. NoneRead(k, a)
  BY <1>1, <1>2, LoadDestsFacts
<1>4. Came(a, d, k, k.files)
  BY <1>2
<1>5. a.files = k.files /\ a.accepting = k.accepting
  BY <1>3 DEF NoneRead
<1>6. Priorities(d)
  <2>1. \A j \in Jobs : \/ d.prio[j] = JobPriority[j]
                        \/ d.prio[j] = k.prio[j]
    BY <1>4 DEF Came
  <2>2. \A j \in Jobs : JobPriority[j] \in 1 .. 101
    BY JobsAssumption
  <2>3. \A j \in Jobs : /\ k.prio[j] \in 1 .. 101
                        /\ NeverRushed => k.prio[j] = JobPriority[j]
    BY DEF Filing
  <2>. QED  BY <2>1, <2>2, <2>3 DEF Priorities
<1>7. Fresh(d)
  BY <1>4 DEF Came, Fresh
<1>8. Filed(d)
  <2>1. d \in Tables /\ d.files \subseteq Jobs
    BY <1>4 DEF Came, Tables
  <2>2. \A j \in Jobs : j \in d.files <=> Queued(d, j)
    BY <1>4, <1>5 DEF Came
  <2>. QED  BY <2>1, <2>2 DEF Filed
<1>9. AlwaysOpen => d.accepting = Dests
  BY <1>4, <1>5 DEF Came, Filing
<1>10. Listed(d) /\ Distinct(d) /\ Ordered(d)
  BY <1>4 DEF Came
<1>. QED  BY <1>6, <1>7, <1>8, <1>9, <1>10 DEF Tidy, Counted
 
\* Every event keeps the queue in order.
LEMMA EventTidy ==
  ASSUME NEW lost \in SUBSET Printers, NEW owed \in Int,
         Sound(pprd, recv, lost, owed), todo \in Seq(Task),
         recv \in SUBSET Jobs, excused \in SUBSET Jobs, Asked, [Next]_vars,
         NEW sure, sure \subseteq Dests, Tidy(pprd, sure),
         NeverLate => recv = {}
  PROVE  Tidy(pprd', sure) /\ (NeverLate => recv' = {})
<1>1. CASE UNCHANGED vars
  BY <1>1 DEF vars
<1>2. CASE /\ Served(pprd, pprd', Pending(todo), Pending(todo'), excused')
           /\ recv' = recv
  <2>1. excused' \in SUBSET Jobs
    BY EventSound
  <2>. QED  BY <1>2, <2>1, ServedTidy
<1>3. CASE Submitted(pprd, pprd', recv, recv', excused, excused')
  BY <1>3, SubmittedTidy
<1>4. CASE Reloaded(pprd, pprd', recv, recv')
  BY <1>4, ReloadedTidy
<1>. QED  BY <1>1, <1>2, <1>3, <1>4, AnyStep DEF EventDoes

---------------------------------------------------------------------------
(* Reading a printer's configuration again *)

\* What load_printer() has changed in the tables when p was there before.
Recorded(d, e, k, p) ==
  /\ e.status = d.status /\ e.pids = d.pids /\ e.job = d.job
  /\ e.jobdest = d.jobdest /\ e.waiter = d.waiter /\ e.fatal = d.fatal
  /\ e.active = d.active /\ e.starving = d.starving
  /\ e.heldGroups = d.heldGroups
  /\ e.queue = d.queue /\ e.jstatus = d.jstatus /\ e.jdest = d.jdest
  /\ e.prio = d.prio /\ e.never = d.never /\ e.notnow = d.notnow
  /\ e.pass = d.pass /\ e.files = d.files
  /\ e.cancelJob = d.cancelJob \ {p} /\ e.holdJob = d.holdJob \ {p}
  /\ e.accepting = IF p \in k.accepting THEN d.accepting \cup {p}
                                        ELSE d.accepting \ {p}
  /\ \A q \in Printers : q # p => e.mounted[q] = d.mounted[q]

\* load_printer() leaves the rest alone.
LEMMA RecordFacts ==
  ASSUME NEW d \in Tables, NEW k \in Disk, NEW p \in Printers,
         NEW e, e = ReloadRecord(d, k, p)
  PROVE  e \in Tables /\ Recorded(d, e, k, p)
<1> DEFINE can == d.cancelJob \ {p}
           hol == d.holdJob \ {p}
           cnt == [d.count EXCEPT ![p] = 0]
           err == [d.errRetry EXCEPT ![p] = k.errRetry[p]]
           cou == [d.countdown EXCEPT ![p] = k.countdown[p]]
           was == IF /\ p \in k.wasStarved
                     /\ StatusAfterDeath(k.status[p]) = k.status[p]
                    THEN d.wasStarved \cup {p} ELSE d.wasStarved \ {p}
           acc == IF p \in k.accepting THEN d.accepting \cup {p}
                                       ELSE d.accepting \ {p}
           mou == [d.mounted EXCEPT ![p] = k.mounted[p]]
           f1  == [d EXCEPT !.cancelJob = can, !.holdJob = hol, !.count = cnt]
           f2  == [f1 EXCEPT !.errRetry = err, !.countdown = cou]
           f   == [f2 EXCEPT !.wasStarved = was, !.accepting = acc,
                             !.mounted = mou]
<1>1. /\ can \in SUBSET Printers /\ hol \in SUBSET Printers
      /\ was \in SUBSET Printers
  BY DEF Tables
<1>2. acc \in SUBSET Dests
  <2>1. p \in Dests /\ d.accepting \in SUBSET Dests
    BY DEF Tables, Dests
  <2> QED
    BY <2>1
<1>3. /\ cnt \in [Dests -> Int] /\ err \in [Printers -> Nat]
      /\ cou \in [Printers -> Int]
  BY DEF Tables, Disk, Dests
<1>4. /\ mou \in [Printers -> [UNION {Bins[q] : q \in Printers}
                                 -> MediaIds \cup {NoMedium}]]
      /\ \A q \in Printers : q # p => mou[q] = d.mounted[q]
  BY DEF Tables, Disk
<1>5. e = [d EXCEPT !.cancelJob    = can,
                    !.holdJob      = hol,
                    !.count[p]     = 0,
                    !.errRetry[p]  = k.errRetry[p],
                    !.countdown[p] = k.countdown[p],
                    !.wasStarved   = was,
                    !.accepting    = acc,
                    !.mounted[p]   = k.mounted[p]]
  BY DEF ReloadRecord
<1>6. e = f
  <2> HIDE DEF can, hol, was, acc
  <2> QED
    BY <1>5 DEF Tables
<1> HIDE DEF can, hol, cnt, err, cou, was, acc, mou
<1>7. f1 \in Tables
  BY <1>1, <1>3 DEF Tables
<1>8. /\ f1.status = d.status /\ f1.pids = d.pids /\ f1.job = d.job
      /\ f1.jobdest = d.jobdest /\ f1.waiter = d.waiter /\ f1.fatal = d.fatal
      /\ f1.active = d.active /\ f1.starving = d.starving
      /\ f1.heldGroups = d.heldGroups
      /\ f1.queue = d.queue /\ f1.jstatus = d.jstatus /\ f1.jdest = d.jdest
      /\ f1.prio = d.prio /\ f1.never = d.never /\ f1.notnow = d.notnow
      /\ f1.pass = d.pass /\ f1.files = d.files
      /\ f1.cancelJob = can /\ f1.holdJob = hol
  BY DEF Tables
<1> HIDE DEF f1
<1>9. f2 \in Tables
  BY <1>3, <1>7 DEF Tables
<1>10. /\ f2.status = f1.status /\ f2.pids = f1.pids /\ f2.job = f1.job
       /\ f2.jobdest = f1.jobdest /\ f2.waiter = f1.waiter
       /\ f2.fatal = f1.fatal
       /\ f2.active = f1.active /\ f2.starving = f1.starving
       /\ f2.heldGroups = f1.heldGroups
       /\ f2.queue = f1.queue /\ f2.jstatus = f1.jstatus
       /\ f2.jdest = f1.jdest
       /\ f2.prio = f1.prio /\ f2.never = f1.never /\ f2.notnow = f1.notnow
       /\ f2.pass = f1.pass /\ f2.files = f1.files
       /\ f2.cancelJob = f1.cancelJob /\ f2.holdJob = f1.holdJob
  BY <1>7 DEF Tables
<1> HIDE DEF f2
<1>11. f \in Tables
  BY <1>1, <1>2, <1>4, <1>9 DEF Tables
<1>12. /\ f.status = f2.status /\ f.pids = f2.pids /\ f.job = f2.job
       /\ f.jobdest = f2.jobdest /\ f.waiter = f2.waiter
       /\ f.fatal = f2.fatal
       /\ f.active = f2.active /\ f.starving = f2.starving
       /\ f.heldGroups = f2.heldGroups
       /\ f.queue = f2.queue /\ f.jstatus = f2.jstatus
       /\ f.jdest = f2.jdest
       /\ f.prio = f2.prio /\ f.never = f2.never /\ f.notnow = f2.notnow
       /\ f.pass = f2.pass /\ f.files = f2.files
       /\ f.cancelJob = f2.cancelJob /\ f.holdJob = f2.holdJob
       /\ f.accepting = acc /\ f.mounted = mou
  BY <1>9 DEF Tables
<1> HIDE DEF f
<1>13. Recorded(d, f, k, p)
  BY <1>4, <1>8, <1>10, <1>12 DEF Recorded, can, hol, acc
<1> QED
  BY <1>6, <1>11, <1>13

\* All that reading the configuration of p again has changed but for its
\* media: no job is ruled out on p any more, and none that it could print is
\* stranded.
Reread(d, h, k, p) ==
  /\ h.status = d.status /\ h.pids = d.pids /\ h.job = d.job
  /\ h.jobdest = d.jobdest /\ h.waiter = d.waiter /\ h.fatal = d.fatal
  /\ h.active = d.active /\ h.starving = d.starving
  /\ h.heldGroups = d.heldGroups /\ h.mounted = d.mounted
  /\ h.queue = d.queue /\ h.jdest = d.jdest /\ h.prio = d.prio
  /\ h.notnow = d.notnow /\ h.pass = d.pass /\ h.files = d.files
  /\ h.cancelJob = d.cancelJob \ {p} /\ h.holdJob = d.holdJob \ {p}
  /\ h.accepting = IF p \in k.accepting THEN d.accepting \cup {p}
                                        ELSE d.accepting \ {p}
  /\ \A j \in Jobs :
       /\ h.never[j] = IF Queued(d, j) /\ Covers(d.jdest[j], p)
                         THEN d.never[j] \ {p} ELSE d.never[j]
       /\ h.jstatus[j] =
            IF Covers(d.jdest[j], p) /\ d.jstatus[j] = STATUS_STRANDED
              THEN STATUS_WAITING ELSE d.jstatus[j]

\* Other media have been mounted on p, which has looked for work if it could.
MountedOn(d, e, p) ==
  \E g \in Tables :
    /\ Mounts(d, g, p)
    /\ \/ e = g /\ g.status[p] # PRNSTATUS_IDLE
       \/ Looked(g, e, p)

\* It changes two fields of the jobs.
LEMMA StrandedFields ==
  ASSUME NEW d \in Tables, NEW nev \in [Jobs -> SUBSET Printers],
         NEW jst \in [Jobs -> JobStatus]
  PROVE  [d EXCEPT !.never = nev, !.jstatus = jst] \in Tables
  BY DEF Tables

\* The command "NP" is such a change, then a mount.
LEMMA ReloadPrinterFacts ==
  ASSUME NEW d, NEW r \in SUBSET Jobs, NEW lost \in SUBSET Printers,
         NEW owed \in Int, Sound(d, r, lost, owed),
         NEW k \in Disk, NEW p \in Printers, NEW ff,
         NEW a, a = ReloadRecord(d, k, p),
         NEW e, e = ReloadPrinter(a, p, ff)
  PROVE  /\ Sound(e, r, lost, owed) /\ a \in Tables /\ Recorded(d, a, k, p)
         /\ \E h : /\ Sound(h, r, lost, owed) /\ Reread(d, h, k, p)
                   /\ Mounted(h, e) /\ MountedOn(h, e, p)
<1>0. a \in Tables /\ Recorded(d, a, k, p)
  <2>1. d \in Tables
    BY DEF Sound
  <2> QED
    BY <2>1, RecordFacts
<1> DEFINE mine(j) == Queued(a, j) /\ Covers(a.jdest[j], p)
           nev == [j \in Jobs |->
                     IF mine(j) THEN a.never[j] \ {p} ELSE a.never[j]]
           jst == [j \in Jobs |->
                     IF mine(j) /\ a.jstatus[j] = STATUS_STRANDED
                       THEN STATUS_WAITING ELSE a.jstatus[j]]
           f   == [a EXCEPT !.never = nev, !.jstatus = jst]
           h   == [f EXCEPT !.mounted = d.mounted]
           g   == UpdateNotNow(f, p)
<1>1. e = IF g.status[p] = PRNSTATUS_IDLE THEN PrinterLookForWork(g, p, ff)
                                          ELSE g
  BY DEF ReloadPrinter
<1>2. nev \in [Jobs -> SUBSET Printers] /\ jst \in [Jobs -> JobStatus]
  <2>1. /\ a.never \in [Jobs -> SUBSET Printers]
        /\ a.jstatus \in [Jobs -> JobStatus]
    BY <1>0 DEF Tables
  <2>2. \A j \in Jobs : nev[j] \in SUBSET Printers
    BY <2>1
  <2>3. \A j \in Jobs : jst[j] \in JobStatus
    BY <2>1 DEF JobStatus
  <2> QED
    BY <2>2, <2>3
<1>3. \A j \in Jobs :
        /\ nev[j] = IF Queued(a, j) /\ Covers(a.jdest[j], p)
                      THEN a.never[j] \ {p} ELSE a.never[j]
        /\ jst[j] = IF Covers(a.jdest[j], p)
                         /\ a.jstatus[j] = STATUS_STRANDED
                      THEN STATUS_WAITING ELSE a.jstatus[j]
  BY DEF Queued
<1> HIDE DEF nev, jst
<1>4. f \in Tables
  BY <1>0, <1>2, StrandedFields
<1>5. /\ f.status = a.status /\ f.pids = a.pids /\ f.job = a.job
      /\ f.jobdest = a.jobdest /\ f.waiter = a.waiter /\ f.fatal = a.fatal
      /\ f.active = a.active /\ f.starving = a.starving
      /\ f.heldGroups = a.heldGroups /\ f.mounted = a.mounted
      /\ f.queue = a.queue /\ f.jdest = a.jdest /\ f.prio = a.prio
      /\ f.notnow = a.notnow /\ f.pass = a.pass /\ f.files = a.files
      /\ f.cancelJob = a.cancelJob /\ f.holdJob = a.holdJob
      /\ f.accepting = a.accepting /\ f.count = a.count
      /\ f.never = nev /\ f.jstatus = jst
  BY <1>0 DEF Tables
<1> HIDE DEF f
<1>6. h \in Tables
  <2>1. d \in Tables
    BY DEF Sound
  <2> QED
    BY <1>4, <2>1 DEF Tables
<1>7. /\ h.status = f.status /\ h.pids = f.pids /\ h.job = f.job
      /\ h.jobdest = f.jobdest /\ h.waiter = f.waiter /\ h.fatal = f.fatal
      /\ h.active = f.active /\ h.starving = f.starving
      /\ h.heldGroups = f.heldGroups /\ h.mounted = d.mounted
      /\ h.queue = f.queue /\ h.jdest = f.jdest /\ h.prio = f.prio
      /\ h.notnow = f.notnow /\ h.pass = f.pass /\ h.files = f.files
      /\ h.cancelJob = f.cancelJob /\ h.holdJob = f.holdJob
      /\ h.accepting = f.accepting /\ h.count = f.count
      /\ h.never = f.never /\ h.jstatus = f.jstatus
  BY <1>4 DEF Tables
<1> HIDE DEF h
<1>8. Reread(d, h, k, p)
  <2>1. \A j \in Jobs : Queued(a, j) <=> Queued(d, j)
    BY <1>0 DEF Recorded, Queued
  <2> QED
    BY <1>0, <1>3, <1>5, <1>7, <2>1 DEF Recorded, Reread
<1>9. /\ h.status = d.status /\ h.pids = d.pids /\ h.job = d.job
      /\ h.jobdest = d.jobdest /\ h.active = d.active
      /\ h.starving = d.starving /\ h.queue = d.queue /\ h.jdest = d.jdest
      /\ \A j \in Jobs : \/ h.jstatus[j] = d.jstatus[j]
                         \/ /\ h.jstatus[j] = STATUS_WAITING
                            /\ d.jstatus[j] = STATUS_STRANDED
  BY <1>8 DEF Reread
<1>10. Sound(h, r, lost, owed)
  <2>1. Entries(d) /\ Receiving(d, r)
    BY DEF Sound
  <2>2. Entries(h)
    BY <1>9, <2>1 DEF Entries, Queued
  <2>3. Receiving(h, r)
    BY <1>9, <2>1 DEF Receiving
  <2> QED
    BY <1>6, <1>9, <2>2, <2>3, IdleJobsSound
<1>11. Sound(f, r, lost, owed)
  <2>1. Quiet(h, f)
    BY <1>7 DEF Quiet
  <2> QED
    BY <1>4, <1>10, <2>1, QuietSound
<1>12. Sound(g, r, lost, owed)
  BY <1>11, UpdateNotNowSound
<1>13. g \in Tables /\ Entries(g)
  BY <1>12 DEF Sound
<1>14. /\ SameEntries(f, g) /\ SameHands(f, g)
       /\ g.fatal = f.fatal /\ g.waiter = f.waiter /\ g.status = f.status
       /\ MasksFollow(f, g, p) /\ ReasonsFollow(f, g, p)
  BY <1>4, UpdateNotNowFacts
<1> HIDE DEF g
<1>15. /\ g.queue = f.queue /\ g.prio = f.prio /\ g.files = f.files
       /\ g.count = f.count /\ g.jdest = f.jdest /\ g.never = f.never
       /\ g.pass = f.pass /\ g.mounted = f.mounted
       /\ g.accepting = f.accepting /\ g.heldGroups = f.heldGroups
  BY <1>14 DEF SameEntries
<1>16. MasksFollow(h, g, p) /\ ReasonsFollow(h, g, p)
  BY <1>7, <1>14, FollowFrame
<1>17. SameHands(h, g)
  BY <1>7, <1>14 DEF SameHands
<1>18. \A q \in Printers : q # p => g.mounted[q] = h.mounted[q]
  BY <1>0, <1>5, <1>7, <1>15 DEF Recorded
<1>19. Mounts(h, g, p)
  BY <1>7, <1>14, <1>15, <1>16, <1>17, <1>18 DEF Mounts
<1>20. CASE g.status[p] = PRNSTATUS_IDLE
  <2>1. e = PrinterLookForWork(g, p, ff)
    BY <1>1, <1>20
  <2>2. Looked(g, e, p)
    BY <1>13, <1>20, <2>1, LookFacts DEF Looked
  <2>3. Sound(e, r, lost, owed)
    BY <1>12, <2>1, LookSound
  <2>4. Mounted(h, e) /\ MountedOn(h, e, p)
    BY <1>13, <1>19, <2>2 DEF Mounted, MountedOn
  <2> QED
    BY <1>0, <1>8, <1>10, <2>3, <2>4
<1>21. CASE g.status[p] # PRNSTATUS_IDLE
  <2>1. e = g
    BY <1>1, <1>21
  <2>2. Mounted(h, e) /\ MountedOn(h, e, p)
    BY <1>13, <1>19, <1>21, <2>1 DEF Mounted, MountedOn
  <2> QED
    BY <1>0, <1>8, <1>10, <1>12, <2>1, <2>2
<1> QED
  BY <1>20, <1>21

\* No job has got another status but those that were stranded.
LEMMA RereadStatus ==
  ASSUME NEW d, NEW h, NEW k, NEW p, Reread(d, h, k, p), NEW j \in Jobs
  PROVE  \/ h.jstatus[j] = d.jstatus[j]
         \/ h.jstatus[j] = STATUS_WAITING /\ d.jstatus[j] = STATUS_STRANDED
  BY DEF Reread

\* What load_printer() does to a record keeps the queue in order.
LEMMA RereadTidy ==
  ASSUME NEW d \in Tables, Tidy(d, {}), NEW h, NEW k, NEW p \in Printers,
         AlwaysOpen => k.accepting = Dests, Reread(d, h, k, p)
  PROVE  Tidy(h, {})
<1>1. /\ h.queue = d.queue /\ h.jdest = d.jdest /\ h.prio = d.prio
      /\ h.notnow = d.notnow /\ h.files = d.files /\ h.mounted = d.mounted
      /\ h.accepting = IF p \in k.accepting THEN d.accepting \cup {p}
                                            ELSE d.accepting \ {p}
  BY DEF Reread
<1>2. \A j \in Jobs : Queued(h, j) <=> Queued(d, j)
  BY RereadStatus DEF Queued
<1>3. AlwaysOpen => h.accepting = Dests
  <2>1. AlwaysOpen => d.accepting = Dests
    BY DEF Tidy
  <2>2. p \in Dests
    BY DEF Dests
  <2> QED
    BY <1>1, <2>1, <2>2
<1>4. /\ d.queue \in Seq(Jobs) /\ d.files \subseteq Jobs
      /\ \A i \in DOMAIN d.queue : d.queue[i] \in Jobs
  BY DEF Tables
<1>5. /\ Listed(d) => Listed(h)
      /\ Distinct(d) => Distinct(h)
      /\ Ordered(d) => Ordered(h)
  BY <1>1, <1>2, <1>4 DEF Listed, Distinct, Ordered, Precedes
<1>6. Priorities(d) => Priorities(h)
  BY <1>1 DEF Priorities
<1>7. Fresh(d) => Fresh(h)
  <2>1. \A j \in Jobs : Mask(h, j) = Mask(d, j)
    BY <1>1, SameMask
  <2> QED
    BY <1>1, <1>2, <2>1 DEF Fresh
<1>8. Filed(d) => Filed(h)
  BY <1>1, <1>2, <1>4 DEF Filed
<1> QED
  BY <1>3, <1>5, <1>6, <1>7, <1>8 DEF Tidy, Counted

\* Reading a printer's configuration again keeps the queue in order, and
\* brings no job or file.
LEMMA ReloadPrinterTidy ==
  ASSUME NEW d, NEW r \in SUBSET Jobs, NEW lost, NEW owed,
         Sound(d, r, lost, owed), Tidy(d, {}), NEW h,
         Sound(h, r, lost, owed), NEW k, NEW p \in Printers,
         AlwaysOpen => k.accepting = Dests, Reread(d, h, k, p),
         NEW e, Mounted(h, e)
  PROVE  Tidy(e, {}) /\ NoNew(d, e)
<1>1. d \in Tables
  BY DEF Sound
<1>2. Tidy(h, {})
  BY <1>1, RereadTidy
<1>3. Served(h, e, {}, {}, {})
  BY DEF Served, Attended
<1>4. Tidy(e, {})
  BY <1>2, <1>3, ServedTidy
<1>5. NoNew(h, e)
  BY <1>3, ServedNoNew
<1>6. NoNew(d, h)
  <2>1. h.files = d.files
    BY DEF Reread
  <2> QED
    BY <2>1, RereadStatus DEF NoNew, Queued
<1> QED
  BY <1>4, <1>5, <1>6, NoNewTwice

---------------------------------------------------------------------------
(* Reading a group's configuration again *)

\* What the command "NG" has changed: the jobs of the group g are ruled out
\* on no printer, and wait for the right reason.
Regrouped(d, e, k, g) ==
  /\ SameHands(d, e) /\ e.status = d.status
  /\ e.waiter = d.waiter /\ e.fatal = d.fatal
  /\ e.active = d.active /\ e.starving = d.starving
  /\ e.mounted = d.mounted /\ e.queue = d.queue /\ e.jdest = d.jdest
  /\ e.prio = d.prio /\ e.pass = d.pass /\ e.files = d.files
  /\ e.accepting = IF g \in k.accepting THEN d.accepting \cup {g}
                                        ELSE d.accepting \ {g}
  /\ e.heldGroups = IF g \in k.heldGroups THEN d.heldGroups \cup {g}
                                          ELSE d.heldGroups \ {g}
  /\ \A j \in Jobs :
       /\ j \notin QueuedFor(d, g) =>
            /\ e.jstatus[j] = d.jstatus[j]
            /\ e.never[j] = d.never[j] /\ e.notnow[j] = d.notnow[j]
       /\ j \in QueuedFor(d, g) =>
            /\ e.never[j] = {} /\ e.notnow[j] = Mask(d, j)
            /\ \/ /\ e.jstatus[j] = d.jstatus[j]
                  /\ d.jstatus[j] \notin {STATUS_WAITING, STATUS_WAITING4MEDIA}
               \/ /\ d.jstatus[j] \in {STATUS_WAITING, STATUS_WAITING4MEDIA}
                  /\ e.jstatus[j] \in {STATUS_WAITING, STATUS_WAITING4MEDIA}
            /\ e.jstatus[j] = STATUS_WAITING4MEDIA => Lacking(e, j)

\* new_group_config() changes no more.
LEMMA ReloadGroupFacts ==
  ASSUME NEW d \in Tables, NEW k \in Disk, NEW g \in Groups,
         NEW e, e = ReloadGroup(d, k, g)
  PROVE  e \in Tables /\ Regrouped(d, e, k, g)
<1> DEFINE mine(j) == Queued(d, j) /\ d.jdest[j] = g
           las == [d.last EXCEPT ![g] = -1]
           cnt == [d.count EXCEPT ![g] = 0]
           acc == IF g \in k.accepting THEN d.accepting \cup {g}
                                       ELSE d.accepting \ {g}
           hel == IF g \in k.heldGroups THEN d.heldGroups \cup {g}
                                        ELSE d.heldGroups \ {g}
           nev == [j \in Jobs |-> IF mine(j) THEN {} ELSE d.never[j]]
           non == [j \in Jobs |->
                     IF ~ mine(j) THEN d.notnow[j]
                     ELSE {p \in MembersOf(g) : ~ HasMedia(d, p, j)}]
           f1  == [d EXCEPT !.last = las, !.count = cnt, !.accepting = acc]
           f   == [f1 EXCEPT !.heldGroups = hel, !.never = nev,
                             !.notnow = non]
           jst == [j \in Jobs |-> IF mine(j) THEN JobWaitReason(f, j)
                                             ELSE f.jstatus[j]]
           h   == [f EXCEPT !.jstatus = jst]
<1>0. g \in Dests /\ MembersOf(g) \subseteq Printers
  BY MembersArePrinters DEF Dests
<1>1. las \in [Groups -> Int] /\ cnt \in [Dests -> Int]
  BY <1>0 DEF Tables
<1>2. acc \in SUBSET Dests /\ hel \in SUBSET Groups
  <2>1. d.accepting \in SUBSET Dests /\ d.heldGroups \in SUBSET Groups
    BY DEF Tables
  <2> QED
    BY <1>0, <2>1
<1>3. nev \in [Jobs -> SUBSET Printers] /\ non \in [Jobs -> SUBSET Printers]
  <2>1. /\ d.never \in [Jobs -> SUBSET Printers]
        /\ d.notnow \in [Jobs -> SUBSET Printers]
    BY DEF Tables
  <2>2. \A j \in Jobs : nev[j] \in SUBSET Printers
    BY <2>1
  <2>3. \A j \in Jobs : non[j] \in SUBSET Printers
    BY <1>0, <2>1
  <2> QED
    BY <2>2, <2>3
<1>4. \A j \in Jobs :
        /\ ~ mine(j) => nev[j] = d.never[j] /\ non[j] = d.notnow[j]
        /\ mine(j) => nev[j] = {} /\ non[j] = Mask(d, j)
  BY DEF Mask
<1>5. e = h
  <2>1. PICK x : x = [d EXCEPT !.last[g]    = -1,
                               !.count[g]   = 0,
                               !.accepting  = acc,
                               !.heldGroups = hel,
                               !.never      = nev,
                               !.notnow     = non]
    OBVIOUS
  <2>2. x = f
    <3> HIDE DEF acc, hel, nev, non
    <3> QED
      BY <2>1 DEF Tables
  <2>3. e = [x EXCEPT !.jstatus =
               [j \in Jobs |-> IF mine(j) THEN JobWaitReason(x, j)
                                          ELSE x.jstatus[j]]]
    BY <2>1 DEF ReloadGroup
  <2> HIDE DEF f
  <2> QED
    BY <2>2, <2>3
<1> HIDE DEF las, cnt, acc, hel, nev, non
<1>6. f1 \in Tables
  BY <1>1, <1>2 DEF Tables
<1>7. /\ SameHands(d, f1) /\ f1.status = d.status
      /\ f1.waiter = d.waiter /\ f1.fatal = d.fatal
      /\ f1.active = d.active /\ f1.starving = d.starving
      /\ f1.mounted = d.mounted /\ f1.queue = d.queue /\ f1.jdest = d.jdest
      /\ f1.prio = d.prio /\ f1.pass = d.pass /\ f1.files = d.files
      /\ f1.accepting = acc /\ f1.jstatus = d.jstatus
  BY DEF Tables, SameHands
<1> HIDE DEF f1
<1>8. f \in Tables
  BY <1>2, <1>3, <1>6 DEF Tables
<1>9. /\ SameHands(f1, f) /\ f.status = f1.status
      /\ f.waiter = f1.waiter /\ f.fatal = f1.fatal
      /\ f.active = f1.active /\ f.starving = f1.starving
      /\ f.mounted = f1.mounted /\ f.queue = f1.queue /\ f.jdest = f1.jdest
      /\ f.prio = f1.prio /\ f.pass = f1.pass /\ f.files = f1.files
      /\ f.accepting = f1.accepting /\ f.jstatus = f1.jstatus
      /\ f.heldGroups = hel /\ f.never = nev /\ f.notnow = non
  BY <1>6 DEF Tables, SameHands
<1> HIDE DEF f
<1>10. /\ jst \in [Jobs -> JobStatus]
       /\ \A j \in Jobs :
            /\ ~ mine(j) => jst[j] = f.jstatus[j]
            /\ mine(j) => jst[j] = JobWaitReason(f, j)
  <2>1. f.jstatus \in [Jobs -> JobStatus]
    BY <1>8 DEF Tables
  <2>2. \A j \in Jobs : jst[j] \in JobStatus
    BY <1>8, <2>1, WaitReasons
  <2> QED
    BY <2>2
<1> HIDE DEF jst
<1>11. h \in Tables
  BY <1>8, <1>10 DEF Tables
<1>12. /\ SameHands(f, h) /\ h.status = f.status
       /\ h.waiter = f.waiter /\ h.fatal = f.fatal
       /\ h.active = f.active /\ h.starving = f.starving
       /\ h.mounted = f.mounted /\ h.queue = f.queue /\ h.jdest = f.jdest
       /\ h.prio = f.prio /\ h.pass = f.pass /\ h.files = f.files
       /\ h.accepting = f.accepting /\ h.jstatus = jst
       /\ h.heldGroups = f.heldGroups /\ h.never = f.never
       /\ h.notnow = f.notnow
  BY <1>8 DEF Tables, SameHands
<1> HIDE DEF h
<1>13. SameHands(d, h)
  BY <1>7, <1>9, <1>12 DEF SameHands
<1>14. ASSUME NEW j \in Jobs
       PROVE  /\ j \notin QueuedFor(d, g) =>
                 /\ h.jstatus[j] = d.jstatus[j]
                 /\ h.never[j] = d.never[j] /\ h.notnow[j] = d.notnow[j]
              /\ j \in QueuedFor(d, g) =>
                 /\ h.never[j] = {} /\ h.notnow[j] = Mask(d, j)
                 /\ \/ /\ h.jstatus[j] = d.jstatus[j]
                       /\ d.jstatus[j] \notin {STATUS_WAITING,
                                               STATUS_WAITING4MEDIA}
                    \/ /\ d.jstatus[j] \in {STATUS_WAITING,
                                            STATUS_WAITING4MEDIA}
                       /\ h.jstatus[j] \in {STATUS_WAITING,
                                            STATUS_WAITING4MEDIA}
                 /\ h.jstatus[j] = STATUS_WAITING4MEDIA => Lacking(h, j)
  <2>1. j \in QueuedFor(d, g) <=> mine(j)
    BY DEF QueuedFor
  <2>2. CASE ~ mine(j)
    BY <1>4, <1>7, <1>9, <1>10, <1>12, <2>1, <2>2
  <2>3. CASE mine(j)
    <3>1. h.jstatus[j] = JobWaitReason(f, j) /\ f.jstatus[j] = d.jstatus[j]
      BY <1>7, <1>9, <1>10, <1>12, <2>3
    <3>2. h.never[j] = {} /\ h.notnow[j] = Mask(d, j)
      BY <1>4, <1>9, <1>12, <2>3
    <3>3. Lacking(f, j) <=> Lacking(h, j)
      BY <1>12 DEF Lacking
    <3> QED
      BY <1>8, <2>1, <2>3, <3>1, <3>2, <3>3, ReasonFacts
  <2> QED
    BY <2>2, <2>3
<1>15. /\ h.status = d.status
       /\ h.waiter = d.waiter /\ h.fatal = d.fatal
       /\ h.active = d.active /\ h.starving = d.starving
       /\ h.mounted = d.mounted /\ h.queue = d.queue /\ h.jdest = d.jdest
       /\ h.prio = d.prio /\ h.pass = d.pass /\ h.files = d.files
       /\ h.accepting = acc /\ h.heldGroups = hel
  BY <1>7, <1>9, <1>12
<1>16. Regrouped(d, h, k, g)
  BY <1>13, <1>14, <1>15 DEF Regrouped, acc, hel
<1> QED
  BY <1>5, <1>11, <1>16

\* No job has got another status but those that wait.
LEMMA RegroupedStatus ==
  ASSUME NEW d, NEW e, NEW k, NEW g, Regrouped(d, e, k, g), NEW j \in Jobs
  PROVE  \/ e.jstatus[j] = d.jstatus[j]
         \/ /\ d.jstatus[j] \in {STATUS_WAITING, STATUS_WAITING4MEDIA}
            /\ e.jstatus[j] \in {STATUS_WAITING, STATUS_WAITING4MEDIA}
  BY DEF Regrouped

\* new_group_config() leaves the tables as sound as they were.
LEMMA RegroupedSound ==
  ASSUME NEW d, NEW r \in SUBSET Jobs, NEW lost \in SUBSET Printers,
         NEW owed \in Int, Sound(d, r, lost, owed), NEW e \in Tables,
         NEW k, NEW g, Regrouped(d, e, k, g)
  PROVE  Sound(e, r, lost, owed)
<1>1. /\ e.status = d.status /\ e.pids = d.pids /\ e.job = d.job
      /\ e.jobdest = d.jobdest /\ e.active = d.active
      /\ e.starving = d.starving /\ e.queue = d.queue /\ e.jdest = d.jdest
  BY DEF Regrouped, SameHands
<1>2. Entries(d) /\ Receiving(d, r)
  BY DEF Sound
<1>3. \A j \in Jobs :
        \/ e.jstatus[j] = d.jstatus[j]
        \/ /\ d.jstatus[j] \in {STATUS_WAITING, STATUS_WAITING4MEDIA}
           /\ e.jstatus[j] \in {STATUS_WAITING, STATUS_WAITING4MEDIA}
  BY RegroupedStatus
<1>4. Entries(e)
  BY <1>1, <1>2, <1>3 DEF Entries, Queued
<1>5. Receiving(e, r)
  BY <1>2, <1>3 DEF Receiving
<1> QED
  BY <1>1, <1>3, <1>4, <1>5, IdleJobsSound

\* new_group_config() keeps the queue in order, and brings no job or file.
LEMMA RegroupedTidy ==
  ASSUME NEW d \in Tables, Tidy(d, {}), NEW e, NEW k, NEW g \in Groups,
         AlwaysOpen => k.accepting = Dests, Regrouped(d, e, k, g)
  PROVE  Tidy(e, {}) /\ NoNew(d, e)
<1>1. /\ e.queue = d.queue /\ e.jdest = d.jdest /\ e.prio = d.prio
      /\ e.files = d.files /\ e.mounted = d.mounted
      /\ e.accepting = IF g \in k.accepting THEN d.accepting \cup {g}
                                            ELSE d.accepting \ {g}
  BY DEF Regrouped
<1>2. \A j \in Jobs : Queued(e, j) <=> Queued(d, j)
  BY RegroupedStatus DEF Queued
<1>3. AlwaysOpen => e.accepting = Dests
  <2>1. AlwaysOpen => d.accepting = Dests
    BY DEF Tidy
  <2>2. g \in Dests
    BY DEF Dests
  <2> QED
    BY <1>1, <2>1, <2>2
<1>4. /\ d.queue \in Seq(Jobs) /\ d.files \subseteq Jobs
      /\ \A i \in DOMAIN d.queue : d.queue[i] \in Jobs
  BY DEF Tables
<1>5. /\ Listed(d) => Listed(e)
      /\ Distinct(d) => Distinct(e)
      /\ Ordered(d) => Ordered(e)
  BY <1>1, <1>2, <1>4 DEF Listed, Distinct, Ordered, Precedes
<1>6. Priorities(d) => Priorities(e)
  BY <1>1 DEF Priorities
<1>7. Fresh(d) => Fresh(e)
  <2>1. \A j \in Jobs : Mask(e, j) = Mask(d, j)
    BY <1>1, SameMask
  <2>2. \A j \in Jobs : e.notnow[j] \in {d.notnow[j], Mask(d, j)}
    BY DEF Regrouped
  <2> QED
    BY <1>2, <2>1, <2>2 DEF Fresh
<1>8. Filed(d) => Filed(e)
  BY <1>1, <1>2, <1>4 DEF Filed
<1>9. NoNew(d, e)
  BY <1>1, <1>2 DEF NoNew
<1> QED
  BY <1>3, <1>5, <1>6, <1>7, <1>8, <1>9 DEF Tidy, Counted

---------------------------------------------------------------------------
(* What a handler leaves on disk *)

\* The files of the printers and groups in D and of the jobs in W have been
\* written, those of `torn' have been emptied.
Written(k, n, d, e, D, W, torn) ==
  /\ n \in Disk
  /\ JobsWritten(k, n, d, e, W)
  /\ \A p \in Printers :
       n.status[p] = IF p \in torn THEN PRNSTATUS_IDLE
                     ELSE IF p \in D THEN e.status[p] ELSE k.status[p]
  /\ k.accepting = Dests /\ e.accepting = Dests => n.accepting = Dests

\* The saves of one handler, as far as they got.
LEMMA PartWritten ==
  ASSUME NEW k \in Disk, NEW d \in Tables, NEW e \in Tables,
         NEW m, m \in {k.mounted, e.mounted},
         NEW D, NEW W, W \in SUBSET Jobs,
         NEW n, n = SaveJobs(SaveStates([k EXCEPT !.mounted = m], e, D),
                             d, e, W)
  PROVE  Written(k, n, d, e, D, W, {})
<1>1. PICK a : a = [k EXCEPT !.mounted = m]
  OBVIOUS
<1>2. PICK b : b = SaveStates(a, e, D)
  OBVIOUS
<1>3. n = SaveJobs(b, d, e, W)
  BY <1>1, <1>2
<1>4. m \in [Printers -> [UNION {Bins[p] : p \in Printers}
                            -> MediaIds \cup {NoMedium}]]
  BY DEF Disk, Tables
<1>5. /\ a \in Disk /\ SameQueue(k, a)
      /\ a.status = k.status /\ a.accepting = k.accepting
  BY <1>1, <1>4 DEF Disk, SameQueue
<1>6. b \in Disk /\ StatesSaved(a, b, e, D)
  BY <1>2, <1>5, SaveStatesFacts
<1>7. n \in Disk /\ SameStates(b, n) /\ JobsWritten(b, n, d, e, W)
  BY <1>3, <1>6, SaveJobsFacts
<1>8. b.files = k.files /\ b.jstatus = k.jstatus /\ b.prio = k.prio
  BY <1>5, <1>6 DEF StatesSaved, SameQueue
<1>9. JobsWritten(k, n, d, e, W)
  BY <1>7, <1>8 DEF JobsWritten
<1>10. \A p \in Printers :
         n.status[p] = IF p \in D THEN e.status[p] ELSE k.status[p]
  BY <1>5, <1>6, <1>7 DEF StatesSaved, SameStates
<1>11. k.accepting = Dests /\ e.accepting = Dests => n.accepting = Dests
  <2>1. n.accepting \subseteq Dests
    BY <1>7 DEF Disk
  <2>2. \A x \in Dests : x \in n.accepting <=>
          (IF x \in D THEN x \in e.accepting ELSE x \in k.accepting)
    BY <1>5, <1>6, <1>7 DEF StatesSaved, SameStates
  <2> QED
    BY <2>1, <2>2
<1> QED
  BY <1>7, <1>9, <1>10, <1>11 DEF Written

\* A handler that comes to its end has written all that it has changed.
LEMMA SaveAllFacts ==
  ASSUME NEW k \in Disk, NEW d \in Tables, NEW e \in Tables,
         NEW n, n = SaveAll(k, d, e)
  PROVE  Written(k, n, d, e, SavedDests(d, e), SavedJobs(d, e), {})
<1>1. SavedJobs(d, e) \in SUBSET Jobs
  BY DEF SavedJobs
<1>2. n = SaveJobs(SaveStates([k EXCEPT !.mounted = e.mounted], e,
                              SavedDests(d, e)), d, e, SavedJobs(d, e))
  BY DEF SaveAll
<1> QED
  BY <1>1, <1>2, PartWritten

\* One that does not may also have emptied a file.
LEMMA TornFacts ==
  ASSUME NEW k \in Disk, NEW d \in Tables, NEW e \in Tables,
         NEW D, NEW W, W \in SUBSET Jobs, NEW torn, torn \in SUBSET Dests,
         NEW n, n = Truncate(SaveJobs(SaveStates(k, e, D), d, e, W), torn)
  PROVE  Written(k, n, d, e, D, W, torn)
<1>1. PICK b : b = SaveJobs(SaveStates(k, e, D), d, e, W)
  OBVIOUS
<1>2. [k EXCEPT !.mounted = k.mounted] = k
  BY DEF Disk
<1>3. Written(k, b, d, e, D, W, {})
  <2>1. b = SaveJobs(SaveStates([k EXCEPT !.mounted = k.mounted], e, D),
                     d, e, W)
    BY <1>1, <1>2
  <2> QED
    BY <2>1, PartWritten
<1>4. b \in Disk
  BY <1>3 DEF Written
<1>5. n \in Disk /\ Truncated(b, n, torn)
  BY <1>1, <1>4, TruncateFacts
<1>6. n.files = b.files /\ n.jstatus = b.jstatus /\ n.prio = b.prio
  BY <1>5 DEF Truncated, SameQueue
<1>7. JobsWritten(k, n, d, e, W)
  <2>1. JobsWritten(k, b, d, e, W)
    BY <1>3 DEF Written
  <2> QED
    BY <1>6, <2>1 DEF JobsWritten
<1>8. \A p \in Printers :
        n.status[p] = IF p \in torn THEN PRNSTATUS_IDLE
                      ELSE IF p \in D THEN e.status[p] ELSE k.status[p]
  BY <1>3, <1>5 DEF Truncated, Written
<1>9. k.accepting = Dests /\ e.accepting = Dests => n.accepting = Dests
  BY <1>3, <1>5 DEF Truncated, Written
<1> QED
  BY <1>5, <1>7, <1>8, <1>9 DEF Written

\* A mount or a new configuration brings no new files.
LEMMA NoNewGrows ==
  ASSUME NEW d, NEW e, NEW r, NoNew(d, e)
  PROVE  Grows(d, e, r, r)
  BY DEF NoNew, Grows

---------------------------------------------------------------------------
(* The iterations that follow a start and a reload *)

\* The first loop of a pprd that has just been started.
LEMMA FirstLooksFacts ==
  /\ FirstLooks \in Seq(Task)
  /\ \A i \in DOMAIN FirstLooks : FirstLooks[i].op = "look"
  /\ Pending(FirstLooks) = Printers
<1>1. NumPrinters \in Nat /\ NumPrinters > 0
  BY PrintersAssumption
<1>2. \A i \in 1 .. NumPrinters : i - 1 \in Printers
  BY <1>1 DEF Printers
<1>3. \A i \in 1 .. NumPrinters : [op |-> "look", arg |-> i - 1] \in Task
  BY <1>2 DEF Task
<1>4. FirstLooks \in [1 .. NumPrinters -> Task]
  BY <1>3 DEF FirstLooks
<1>5. FirstLooks \in Seq(Task)
  BY <1>1, <1>4
<1>6. DOMAIN FirstLooks = 1 .. NumPrinters
  BY DEF FirstLooks
<1>7. \A i \in 1 .. NumPrinters :
        FirstLooks[i].op = "look" /\ FirstLooks[i].arg = i - 1
  BY DEF FirstLooks
<1>8. \A p \in Printers : p + 1 \in 1 .. NumPrinters /\ (p + 1) - 1 = p
  BY <1>1 DEF Printers
<1>9. Pending(FirstLooks) = Printers
  <2>1. Pending(FirstLooks) \subseteq Printers
    BY <1>2, <1>6, <1>7 DEF Pending
  <2>2. ASSUME NEW p \in Printers
        PROVE  p \in Pending(FirstLooks)
    <3>1. p + 1 \in {i \in DOMAIN FirstLooks : FirstLooks[i].op = "look"}
      BY <1>6, <1>7, <1>8
    <3>2. FirstLooks[p + 1].arg = p
      BY <1>7, <1>8
    <3> QED
      BY <3>1, <3>2 DEF Pending
  <2> QED
    BY <2>1, <2>2
<1> QED
  BY <1>5, <1>6, <1>7, <1>9

\* The loop of group_look_for_work() after a reload.
LEMMA LooksAfterFacts ==
  ASSUME NEW d, NEW t, t = LooksAfterReload(d)
  PROVE  /\ t \in Seq(Task)
         /\ \A i \in DOMAIN t : t[i].op = "look"
<1> DEFINE at == {g \in Groups :
                    Cardinality({h \in Groups : h < g}) = Len(d.queue)}
<1>1. CASE at = {}
  <2>1. t = << >>
    BY <1>1 DEF LooksAfterReload
  <2> QED
    BY <2>1
<1>2. CASE at # {}
  <2>1. PICK m : m = Members[CHOOSE g \in at : TRUE]
    OBVIOUS
  <2>2. (CHOOSE g \in at : TRUE) \in Groups
    BY <1>2
  <2>3. m \in Seq(Printers)
    BY <2>1, <2>2, GroupsAssumption
  <2>4. t = [i \in DOMAIN m |-> [op |-> "look", arg |-> m[i]]]
    BY <1>2, <2>1 DEF LooksAfterReload
  <2>5. \A i \in DOMAIN m : [op |-> "look", arg |-> m[i]] \in Task
    BY <2>3 DEF Task
  <2>6. DOMAIN m = 1 .. Len(m) /\ Len(m) \in Nat
    BY <2>3
  <2>7. t \in [1 .. Len(m) -> Task]
    BY <2>4, <2>5, <2>6
  <2>8. t \in Seq(Task)
    BY <2>6, <2>7
  <2>9. \A i \in DOMAIN t : t[i].op = "look"
    BY <2>4
  <2> QED
    BY <2>8, <2>9
<1> QED
  BY <1>1, <1>2

---------------------------------------------------------------------------
(* The invariant of the specification *)

\* What is so while pprd runs, with the exceptions that it has loaded.
Running ==
  /\ Sound(pprd, recv, loaded.stopping, -loaded.uncounted)
  /\ Tidy(pprd, {})
  /\ todo \in Seq(Task) /\ Asked
  /\ disk.files = pprd.files

\* What is so whether it runs or not.
Base ==
  /\ Filing(disk, recv)
  /\ recv \in SUBSET Jobs /\ excused \in SUBSET Jobs
  /\ NeverLate => recv = {}
  /\ up \in BOOLEAN /\ crashes \in 0 .. MaxCrashes
  /\ reloads \in 0 .. MaxReloads
  /\ fate \in [Jobs -> {"none", "spooled", "printed"}]
  /\ ordered \subseteq Printers
  /\ loaded \in Loaded
  /\ up => Running

\* The files of a fresh installation.
LEMMA NoDiskFiling == Filing(NoDisk, {})
<1>1. /\ NoDisk.files = {} /\ NoDisk.prio = JobPriority
      /\ NoDisk.accepting = Dests
  BY DEF NoDisk
<1>2. NoDisk \in Disk
  <2>1. [p \in Printers |-> PRNSTATUS_IDLE] \in [Printers -> PrnStatus]
    OBVIOUS
  <2>2. /\ [p \in Printers |-> 0] \in [Printers -> Nat]
        /\ [p \in Printers |-> 0] \in [Printers -> Int]
    OBVIOUS
  <2>3. [j \in Jobs |-> STATUS_NONE] \in [Jobs -> {s \in JobStatus : s <= 0}]
    BY DEF JobStatus
  <2>4. JobPriority \in [Jobs -> Nat] /\ JobDest \in [Jobs -> Dests]
    BY JobsAssumption
  <2>5. InitTables.mounted \in
          [Printers -> [UNION {Bins[p] : p \in Printers}
                          -> MediaIds \cup {NoMedium}]]
    BY DEF InitTables
  <2> QED
    BY <2>1, <2>2, <2>3, <2>4, <2>5 DEF NoDisk, Disk
<1>3. IsFiniteSet({})
  BY FS_EmptySet
<1>4. \A j \in Jobs : JobPriority[j] \in 1 .. 101
  BY JobsAssumption
<1> QED
  BY <1>1, <1>2, <1>3, <1>4 DEF Filing

\* A fresh installation has the invariant.
LEMMA InitBase == RInit => Base
<1> SUFFICES ASSUME RInit
             PROVE  Base
  OBVIOUS
<1>1. Init
  BY DEF RInit
<1>2. /\ Sound(pprd, recv, {}, 0) /\ todo \in Seq(Task)
      /\ recv \in SUBSET Jobs /\ excused \in SUBSET Jobs
  BY <1>1, InitInductive DEF IndInv
<1>3. /\ loaded.stopping = {} /\ loaded.uncounted = 0 /\ loaded \in Loaded
  BY DEF RInit, Loaded
<1>4. -loaded.uncounted = 0
  <2>1. \A n \in Int : n <= 0 /\ n >= 0 => -n = 0
    OBVIOUS
  <2>2. /\ loaded.uncounted \in Int
        /\ loaded.uncounted <= 0 /\ loaded.uncounted >= 0
    BY <1>3
  <2> QED
    BY <2>1, <2>2
<1>5. Tidy(pprd, {})
  <2>1. Tidy(pprd, Dests)
    BY <1>1, InitTidy
  <2> QED
    BY <2>1 DEF Tidy, Counted
<1>6. Asked /\ recv = {}
  BY <1>1 DEF Init, Asked
<1>7. disk.files = pprd.files
  BY <1>1 DEF RInit, Init, NoDisk, InitTables
<1>8. Running
  BY <1>2, <1>3, <1>4, <1>5, <1>6, <1>7 DEF Running
<1>9. Filing(disk, recv)
  BY <1>6, NoDiskFiling DEF RInit
<1>10. /\ up \in BOOLEAN /\ crashes \in 0 .. MaxCrashes
       /\ reloads \in 0 .. MaxReloads
       /\ fate \in [Jobs -> {"none", "spooled", "printed"}]
       /\ ordered \subseteq Printers
  BY CrashesAssumption DEF RInit
<1> QED
  BY <1>2, <1>3, <1>6, <1>8, <1>9, <1>10 DEF Base

\* What the observer `loaded' stands for in Sound.
LEMMA LoadedTypes ==
  ASSUME loaded \in Loaded
  PROVE  /\ loaded.stopping \in SUBSET Printers /\ -loaded.uncounted \in Int
         /\ loaded.stuck \in SUBSET Jobs /\ loaded.aside \in SUBSET Jobs
         /\ loaded.uncounted \in Nat
  BY DEF Loaded

\* A handler is an event of the daemon.
LEMMA HandlerIsNext ==
  ASSUME NEW whole, NEW done, NEW torn, Handler(whole, done, torn)
  PROVE  up /\ Next
<1>1. \/ Event
      \/ \E p \in Printers, code \in ExitsSeen : Exit(p, code)
      \/ \E p \in Printers : StartCommand(p) \/ StopCommand(p)
  BY DEF Handler
<1> QED
  BY <1>1 DEF Next, ExitOf, Handler

\* It leaves the tables as the invariant says, if nothing is loaded anew.
LEMMA HandlerKeeps ==
  ASSUME Base, NEW whole, NEW done, NEW torn, Handler(whole, done, torn)
  PROVE  /\ up /\ Running
         /\ Sound(pprd', recv', loaded.stopping, -loaded.uncounted)
         /\ Tidy(pprd', {}) /\ todo' \in Seq(Task) /\ Asked'
         /\ recv' \in SUBSET Jobs /\ excused' \in SUBSET Jobs
         /\ NeverLate => recv' = {}
         /\ Grows(pprd, pprd', recv, recv')
<1>1. up /\ [Next]_vars
  BY HandlerIsNext
<1>2. /\ Sound(pprd, recv, loaded.stopping, -loaded.uncounted)
      /\ Tidy(pprd, {}) /\ todo \in Seq(Task) /\ Asked
      /\ recv \in SUBSET Jobs /\ excused \in SUBSET Jobs
      /\ NeverLate => recv = {}
  BY <1>1 DEF Base, Running
<1>3. loaded.stopping \in SUBSET Printers /\ -loaded.uncounted \in Int
  BY LoadedTypes DEF Base
<1>4. /\ Sound(pprd', recv', loaded.stopping, -loaded.uncounted)
      /\ todo' \in Seq(Task)
      /\ recv' \in SUBSET Jobs /\ excused' \in SUBSET Jobs
  BY <1>1, <1>2, <1>3, EventSound
<1>5. Asked'
  BY <1>1, <1>2, AskedStep
<1>6. Tidy(pprd', {}) /\ (NeverLate => recv' = {})
  BY <1>1, <1>2, <1>3, EventTidy
<1>7. Grows(pprd, pprd', recv, recv')
  BY <1>1, <1>2, <1>3, EventGrows
<1> QED
  BY <1>1, <1>4, <1>5, <1>6, <1>7 DEF Base

\* The files are fit for the next pprd, whichever of its changes a handler
\* has written.
LEMMA WrittenFiling ==
  ASSUME NEW d, NEW e, NEW lost, NEW owed, NEW r, NEW s,
         Sound(d, r, lost, owed), Sound(e, s, lost, owed),
         Tidy(d, {}), Tidy(e, {}), Grows(d, e, r, s),
         NEW k, Filing(k, r), k.files = d.files,
         NEW D, NEW W, W \in SUBSET Jobs, e.files \ d.files \subseteq W,
         NEW torn, NEW n, Written(k, n, d, e, D, W, torn)
  PROVE  Filing(n, s)
<1>1. /\ d \in Tables /\ e \in Tables /\ Entries(d) /\ Entries(e)
      /\ Receiving(e, s)
  BY DEF Sound
<1>2. n \in Disk /\ JobsWritten(k, n, d, e, W)
  BY DEF Written
<1>3. AlwaysOpen => n.accepting = Dests
  <2>1. AlwaysOpen => k.accepting = Dests /\ e.accepting = Dests
    BY DEF Filing, Tidy
  <2> QED
    BY <2>1 DEF Written
<1> QED
  BY <1>1, <1>2, <1>3, FilingStep

\* The observers keep their types.
LEMMA HandlerObserves ==
  ASSUME Base, NEW whole, NEW done, NEW torn, Handler(whole, done, torn)
  PROVE  ordered' \subseteq Printers
<1>1. ordered \subseteq Printers
  BY DEF Base
<1>2. \/ ordered' = ordered \ torn
      \/ \E p \in Printers : \/ ordered' = ordered \ (torn \cup {p})
                             \/ ordered' = ordered \cup {p}
  BY DEF Handler
<1> QED
  BY <1>1, <1>2

\* What is known of a job is one of three things.
LEMMA KnownType ==
  ASSUME fate \in [Jobs -> {"none", "spooled", "printed"}], NEW done
  PROVE  Known(done) \in [Jobs -> {"none", "spooled", "printed"}]
  BY DEF Known

\* An event that pprd serves to its end.
LEMMA HandleBase ==
  ASSUME Base, Handle
  PROVE  Base'
<1>1. PICK done : Handler(TRUE, done, {}) /\ fate' = Known(done)
  BY DEF Handle
<1>2. /\ up /\ Running
      /\ Sound(pprd', recv', loaded.stopping, -loaded.uncounted)
      /\ Tidy(pprd', {}) /\ todo' \in Seq(Task) /\ Asked'
      /\ recv' \in SUBSET Jobs /\ excused' \in SUBSET Jobs
      /\ NeverLate => recv' = {}
      /\ Grows(pprd, pprd', recv, recv')
  BY <1>1, HandlerKeeps
<1>3. /\ Sound(pprd, recv, loaded.stopping, -loaded.uncounted)
      /\ Tidy(pprd, {}) /\ disk.files = pprd.files
  BY <1>2 DEF Running
<1>4. pprd \in Tables /\ pprd' \in Tables
  BY <1>2, <1>3 DEF Sound
<1>5. Filing(disk, recv) /\ disk \in Disk
  BY DEF Base, Filing
<1>6. disk' = SaveAll(disk, pprd, pprd') /\ up' = up /\ crashes' = crashes
      /\ reloads' = reloads /\ loaded' = loaded
  BY DEF Handle
<1>7. Written(disk, disk', pprd, pprd', SavedDests(pprd, pprd'),
              SavedJobs(pprd, pprd'), {})
  BY <1>4, <1>5, <1>6, SaveAllFacts
<1>8. SavedJobs(pprd, pprd') \in SUBSET Jobs
  BY DEF SavedJobs
<1>9. pprd'.files \ pprd.files \subseteq SavedJobs(pprd, pprd')
  <2>1. pprd'.files \subseteq Jobs
    BY <1>4 DEF Tables
  <2> QED
    BY <2>1 DEF SavedJobs
<1>10. Filing(disk', recv')
  BY <1>2, <1>3, <1>5, <1>7, <1>8, <1>9, WrittenFiling
<1>11. disk'.files = pprd'.files
  <2>1. /\ disk' \in Disk
        /\ JobsWritten(disk, disk', pprd, pprd', SavedJobs(pprd, pprd'))
    BY <1>7 DEF Written
  <2> QED
    BY <1>3, <1>4, <1>5, <2>1, AllWritten
<1>12. Running'
  BY <1>2, <1>6, <1>11 DEF Running
<1>13. ordered' \subseteq Printers
  BY <1>1, HandlerObserves
<1>14. fate' \in [Jobs -> {"none", "spooled", "printed"}]
  BY <1>1, KnownType DEF Base
<1>15. /\ up' \in BOOLEAN /\ crashes' \in 0 .. MaxCrashes
       /\ reloads' \in 0 .. MaxReloads /\ loaded' \in Loaded
  BY <1>6 DEF Base
<1> QED
  BY <1>2, <1>10, <1>12, <1>13, <1>14, <1>15 DEF Base

\* An event in which pprd dies.
LEMMA DieInHandlerBase ==
  ASSUME Base, DieInHandler
  PROVE  Base'
<1>1. PICK torn \in {{}} \cup {{x} : x \in Dests} :
        /\ \E done \in {{}} \cup {{j} : j \in Jobs} :
             Handler(FALSE, done, torn)
        /\ \E dests \in SUBSET SavedDests(pprd, pprd'),
              jobs \in SUBSET SavedJobs(pprd, pprd') :
             /\ torn \subseteq SavedDests(pprd, pprd') \ dests
             /\ pprd'.files \ pprd.files \subseteq jobs
             /\ disk' = Truncate(SaveJobs(SaveStates(disk, pprd', dests),
                                          pprd, pprd', jobs), torn)
  BY DEF DieInHandler
<1>2. PICK done : Handler(FALSE, done, torn)
  BY <1>1
<1>3. PICK dests, jobs :
        /\ jobs \in SUBSET SavedJobs(pprd, pprd')
        /\ pprd'.files \ pprd.files \subseteq jobs
        /\ disk' = Truncate(SaveJobs(SaveStates(disk, pprd', dests),
                                     pprd, pprd', jobs), torn)
  BY <1>1
<1>4. /\ up /\ Running
      /\ Sound(pprd', recv', loaded.stopping, -loaded.uncounted)
      /\ Tidy(pprd', {})
      /\ recv' \in SUBSET Jobs /\ excused' \in SUBSET Jobs
      /\ NeverLate => recv' = {}
      /\ Grows(pprd, pprd', recv, recv')
  BY <1>2, HandlerKeeps
<1>5. /\ Sound(pprd, recv, loaded.stopping, -loaded.uncounted)
      /\ Tidy(pprd, {}) /\ disk.files = pprd.files
  BY <1>4 DEF Running
<1>6. pprd \in Tables /\ pprd' \in Tables
  BY <1>4, <1>5 DEF Sound
<1>7. Filing(disk, recv) /\ disk \in Disk
  BY DEF Base, Filing
<1>8. jobs \in SUBSET Jobs /\ torn \in SUBSET Dests
  BY <1>3 DEF SavedJobs
<1>9. Written(disk, disk', pprd, pprd', dests, jobs, torn)
  BY <1>3, <1>6, <1>7, <1>8, TornFacts
<1>10. Filing(disk', recv')
  BY <1>3, <1>4, <1>5, <1>7, <1>8, <1>9, WrittenFiling
<1>11. /\ crashes < MaxCrashes /\ up' = FALSE /\ crashes' = crashes + 1
       /\ fate' = Known({}) /\ reloads' = reloads /\ loaded' = loaded
  BY DEF DieInHandler, Dies
<1>12. ordered' \subseteq Printers
  BY <1>2, HandlerObserves
<1>13. fate' \in [Jobs -> {"none", "spooled", "printed"}]
  BY <1>11, KnownType DEF Base
<1>14. /\ up' \in BOOLEAN /\ crashes' \in 0 .. MaxCrashes
       /\ reloads' \in 0 .. MaxReloads /\ loaded' \in Loaded
  <2>1. crashes \in 0 .. MaxCrashes /\ reloads \in 0 .. MaxReloads
        /\ loaded \in Loaded
    BY DEF Base
  <2>2. crashes' \in 0 .. MaxCrashes
    BY <1>11, <2>1, CrashesAssumption
  <2> QED
    BY <1>11, <2>1, <2>2
<1> QED
  BY <1>4, <1>10, <1>11, <1>12, <1>13, <1>14 DEF Base

\* pprd is shut down between two events.
LEMMA ShutdownBase ==
  ASSUME Base, Shutdown
  PROVE  Base'
<1>1. /\ crashes < MaxCrashes /\ up' = FALSE /\ crashes' = crashes + 1
      /\ fate' = Known({}) /\ reloads' = reloads /\ loaded' = loaded
      /\ disk' = disk /\ ordered' = ordered /\ recv' = recv
      /\ excused' = excused
  BY DEF Shutdown, Dies, vars
<1>2. fate' \in [Jobs -> {"none", "spooled", "printed"}]
  BY <1>1, KnownType DEF Base
<1>3. crashes' \in 0 .. MaxCrashes
  BY <1>1, CrashesAssumption DEF Base
<1> QED
  BY <1>1, <1>2, <1>3 DEF Base

\* The command "NP"
LEMMA NewPrinterBase ==
  ASSUME Base, NEW p \in Printers, NewPrinterConfig(p)
  PROVE  Base'
<1> DEFINE lost == loaded.stopping
           owed == -loaded.uncounted
           k1 == [disk EXCEPT
                    !.status[p]  = StatusAfterDeath(@),
                    !.wasStarved = IF StatusAfterDeath(disk.status[p])
                                        = disk.status[p] THEN @ ELSE @ \ {p}]
<1>1. up /\ Running /\ disk \in Disk /\ Filing(disk, recv)
      /\ recv \in SUBSET Jobs
  BY DEF Base, NewPrinterConfig, Filing
<1>2. PICK ff, a, k :
        /\ a = ReloadRecord(pprd, disk, p) /\ k = k1
        /\ pprd' = ReloadPrinter(a, p, ff)
        /\ disk' = SaveAll(k, a, pprd')
  BY DEF NewPrinterConfig
<1>3. /\ recv' = recv /\ excused' = excused /\ up' = up
      /\ crashes' = crashes /\ fate' = fate /\ ordered' = ordered
      /\ todo' = todo
      /\ reloads < MaxReloads /\ reloads' = reloads + 1
  BY DEF NewPrinterConfig
<1>4. /\ loaded' \in Loaded /\ loaded'.stopping = loaded.stopping
      /\ loaded'.uncounted = loaded.uncounted
  <2>1. PICK S : /\ S = {j \in Jobs : Covers(pprd.jdest[j], p)
                                        /\ pprd.jstatus[j] = STATUS_STRANDED}
                 /\ loaded' = [loaded EXCEPT !.aside = @ \cup S]
    BY DEF NewPrinterConfig
  <2>2. S \subseteq Jobs /\ loaded \in Loaded
    BY <2>1 DEF Base
  <2> QED
    BY <2>1, <2>2 DEF Loaded
<1>5. /\ Sound(pprd, recv, lost, owed) /\ Tidy(pprd, {})
      /\ disk.files = pprd.files /\ todo \in Seq(Task) /\ Asked
  BY <1>1 DEF Running
<1>6. lost \in SUBSET Printers /\ owed \in Int
  BY LoadedTypes DEF Base
<1> HIDE DEF lost, owed
<1>7. /\ k \in Disk /\ k.files = disk.files /\ k.jstatus = disk.jstatus
      /\ k.prio = disk.prio /\ k.accepting = disk.accepting
  <2>1. PICK w : /\ w \in SUBSET Printers
                 /\ k = [disk EXCEPT !.status[p] = StatusAfterDeath(@),
                                     !.wasStarved = w]
    <3>1. disk.wasStarved \in SUBSET Printers
      BY <1>1 DEF Disk
    <3>2. CASE StatusAfterDeath(disk.status[p]) = disk.status[p]
      BY <1>2, <3>1, <3>2
    <3>3. CASE StatusAfterDeath(disk.status[p]) # disk.status[p]
      BY <1>2, <3>1, <3>3
    <3> QED
      BY <3>2, <3>3
  <2>2. StatusAfterDeath(disk.status[p]) \in PrnStatus
    <3>1. disk.status[p] \in PrnStatus
      BY <1>1 DEF Disk
    <3> QED
      BY <3>1 DEF StatusAfterDeath
  <2> QED
    BY <1>1, <2>1, <2>2 DEF Disk
<1>8. /\ Sound(pprd', recv, lost, owed) /\ a \in Tables
      /\ Recorded(pprd, a, disk, p)
      /\ \E h : /\ Sound(h, recv, lost, owed) /\ Reread(pprd, h, disk, p)
                /\ Mounted(h, pprd')
  BY <1>1, <1>2, <1>5, <1>6, ReloadPrinterFacts
<1>9. PICK h : /\ Sound(h, recv, lost, owed) /\ Reread(pprd, h, disk, p)
               /\ Mounted(h, pprd')
  BY <1>8
<1>10. Tidy(pprd', {}) /\ NoNew(pprd, pprd')
  <2>1. AlwaysOpen => disk.accepting = Dests
    BY <1>1 DEF Filing
  <2> QED
    BY <1>1, <1>5, <1>9, <2>1, ReloadPrinterTidy
<1>11. /\ a.files = pprd.files /\ a.jstatus = pprd.jstatus
       /\ a.queue = pprd.queue /\ a.prio = pprd.prio
       /\ a.status = pprd.status /\ a.pids = pprd.pids /\ a.job = pprd.job
       /\ a.jobdest = pprd.jobdest /\ a.active = pprd.active
       /\ a.starving = pprd.starving /\ a.jdest = pprd.jdest
  BY <1>8 DEF Recorded
<1>12. pprd' \in Tables
  BY <1>8 DEF Sound
<1>13. Written(k, disk', a, pprd', SavedDests(a, pprd'),
               SavedJobs(a, pprd'), {})
  BY <1>2, <1>7, <1>8, <1>12, SaveAllFacts
<1>14. /\ SavedJobs(pprd, pprd') \in SUBSET Jobs
       /\ JobsWritten(k, disk', pprd, pprd', SavedJobs(pprd, pprd'))
       /\ disk' \in Disk
  <2>1. SavedJobs(a, pprd') = SavedJobs(pprd, pprd')
    BY <1>11 DEF SavedJobs
  <2>2. JobsWritten(k, disk', a, pprd', SavedJobs(pprd, pprd'))
        /\ disk' \in Disk
    BY <1>13, <2>1 DEF Written
  <2>3. SavedJobs(pprd, pprd') \in SUBSET Jobs
    BY DEF SavedJobs
  <2> QED
    BY <1>11, <2>2, <2>3 DEF JobsWritten
<1>15. /\ pprd \in Tables /\ Entries(pprd) /\ Entries(pprd')
       /\ Receiving(pprd', recv)
  BY <1>5, <1>8 DEF Sound
<1>16. Filing(disk', recv')
  <2>1. Filing(k, recv) /\ k.files = pprd.files
    BY <1>1, <1>5, <1>7 DEF Filing
  <2>2. pprd'.files \ pprd.files \subseteq SavedJobs(pprd, pprd')
    BY <1>10 DEF NoNew
  <2>3. Grows(pprd, pprd', recv, recv)
    BY <1>10, NoNewGrows
  <2>4. AlwaysOpen => disk'.accepting = Dests
    <3>1. AlwaysOpen => k.accepting = Dests /\ pprd'.accepting = Dests
      BY <1>10, <2>1 DEF Filing, Tidy
    <3> QED
      BY <1>13, <3>1 DEF Written
  <2>5. Filing(disk', recv)
    BY <1>5, <1>10, <1>12, <1>14, <1>15, <2>1, <2>2, <2>3, <2>4, FilingStep
  <2> QED
    BY <1>3, <2>5
<1>17. disk'.files = pprd'.files
  BY <1>5, <1>7, <1>12, <1>14, <1>15, AllWritten
<1>18. Running'
  <2>1. Sound(pprd', recv', loaded'.stopping, -loaded'.uncounted)
    BY <1>3, <1>4, <1>8 DEF lost, owed
  <2>2. todo' \in Seq(Task) /\ Asked'
    BY <1>3, <1>5 DEF Asked
  <2> QED
    BY <1>10, <1>17, <2>1, <2>2 DEF Running
<1>19. reloads' \in 0 .. MaxReloads
  <2>1. reloads \in 0 .. MaxReloads
    BY DEF Base
  <2> QED
    BY <1>3, <2>1, CrashesAssumption
<1> QED
  BY <1>3, <1>4, <1>16, <1>18, <1>19 DEF Base

\* The command "NG"
LEMMA NewGroupBase ==
  ASSUME Base, NEW g \in Groups, NewGroupConfig(g)
  PROVE  Base'
<1> DEFINE lost == loaded.stopping
           owed == -loaded.uncounted
<1>1. up /\ Running /\ disk \in Disk /\ Filing(disk, recv)
      /\ recv \in SUBSET Jobs
  BY DEF Base, NewGroupConfig, Filing
<1>2. /\ pprd' = ReloadGroup(pprd, disk, g)
      /\ disk' = SaveJobs(disk, pprd, pprd', SavedJobs(pprd, pprd'))
      /\ todo' = LooksAfterReload(pprd)
      /\ recv' = recv /\ excused' = excused /\ up' = up
      /\ crashes' = crashes /\ fate' = fate /\ ordered' = ordered
      /\ reloads < MaxReloads /\ reloads' = reloads + 1
  BY DEF NewGroupConfig
<1>3. /\ loaded' \in Loaded /\ loaded'.stopping = loaded.stopping
      /\ loaded'.uncounted = loaded.uncounted
  <2>1. QueuedFor(pprd, g) \subseteq Jobs /\ loaded \in Loaded
    BY DEF Base, QueuedFor
  <2>2. loaded' = [loaded EXCEPT !.aside = @ \cup QueuedFor(pprd, g)]
    BY DEF NewGroupConfig
  <2> QED
    BY <2>1, <2>2 DEF Loaded
<1>4. /\ Sound(pprd, recv, lost, owed) /\ Tidy(pprd, {})
      /\ disk.files = pprd.files
  BY <1>1 DEF Running
<1>5. lost \in SUBSET Printers /\ owed \in Int
  BY LoadedTypes DEF Base
<1> HIDE DEF lost, owed
<1>6. pprd \in Tables
  BY <1>4 DEF Sound
<1>7. pprd' \in Tables /\ Regrouped(pprd, pprd', disk, g)
  BY <1>1, <1>2, <1>6, ReloadGroupFacts
<1>8. Sound(pprd', recv, lost, owed)
  BY <1>1, <1>4, <1>5, <1>7, RegroupedSound
<1>9. Tidy(pprd', {}) /\ NoNew(pprd, pprd')
  <2>1. AlwaysOpen => disk.accepting = Dests
    BY <1>1 DEF Filing
  <2> QED
    BY <1>4, <1>6, <1>7, <2>1, RegroupedTidy
<1>10. SavedJobs(pprd, pprd') \in SUBSET Jobs
  BY DEF SavedJobs
<1>11. /\ disk' \in Disk /\ SameStates(disk, disk')
       /\ JobsWritten(disk, disk', pprd, pprd', SavedJobs(pprd, pprd'))
  BY <1>1, <1>2, <1>6, <1>7, <1>10, SaveJobsFacts
<1>12. Entries(pprd) /\ Entries(pprd') /\ Receiving(pprd', recv)
  BY <1>4, <1>8 DEF Sound
<1>13. Filing(disk', recv')
  <2>1. pprd'.files \ pprd.files \subseteq SavedJobs(pprd, pprd')
    BY <1>9 DEF NoNew
  <2>2. Grows(pprd, pprd', recv, recv)
    BY <1>9, NoNewGrows
  <2>3. AlwaysOpen => disk'.accepting = Dests
    BY <1>1, <1>11 DEF Filing, SameStates
  <2>4. Filing(disk', recv)
    BY <1>1, <1>4, <1>6, <1>7, <1>9, <1>10, <1>11, <1>12, <2>1, <2>2, <2>3,
       FilingStep
  <2> QED
    BY <1>2, <2>4
<1>14. disk'.files = pprd'.files
  BY <1>1, <1>4, <1>6, <1>7, <1>11, AllWritten
<1>15. Running'
  <2>1. Sound(pprd', recv', loaded'.stopping, -loaded'.uncounted)
    BY <1>2, <1>3, <1>8 DEF lost, owed
  <2>2. todo' \in Seq(Task) /\ \A i \in DOMAIN todo' : todo'[i].op = "look"
    BY <1>2, LooksAfterFacts
  <2>3. Asked'
    BY <2>2 DEF Asked
  <2> QED
    BY <1>9, <1>14, <2>1, <2>2, <2>3 DEF Running
<1>16. reloads' \in 0 .. MaxReloads
  <2>1. reloads \in 0 .. MaxReloads
    BY DEF Base
  <2> QED
    BY <1>2, <2>1, CrashesAssumption
<1> QED
  BY <1>2, <1>3, <1>13, <1>15, <1>16 DEF Base

\* pprd is started again.
LEMMA RestartBase ==
  ASSUME Base, Restart
  PROVE  Base'
<1>1. Filing(disk, recv) /\ disk \in Disk /\ recv \in SUBSET Jobs
  BY DEF Base, Filing
<1>2. PICK dir \in Listings(disk.files) :
        /\ pprd' = LoadQueue(LoadDests(disk), disk, dir)
        /\ disk' = SaveStates([disk EXCEPT !.files = pprd'.files], pprd',
                              Dests)
        /\ loaded' =
             [stopping  |-> {p \in Printers :
                               pprd'.status[p] = PRNSTATUS_STOPPING},
              stuck     |-> {j \in Jobs :
                               pprd'.jstatus[j] \in {STATUS_CANCEL,
                                                     STATUS_SEIZING}},
              uncounted |-> Cardinality(Starved(pprd')),
              aside     |-> {}]
  BY DEF Restart
<1>3. /\ todo' = FirstLooks /\ up' = TRUE /\ recv' = recv
      /\ excused' = excused /\ crashes' = crashes /\ reloads' = reloads
      /\ fate' = fate /\ ordered' = ordered
  BY DEF Restart
<1>4. Came(LoadDests(disk), pprd', disk, disk.files)
  <2>1. /\ IsFiniteSet(disk.files)
        /\ \A j \in disk.files : disk.jstatus[j] # STATUS_NONE
    BY <1>1 DEF Filing
  <2> QED
    BY <1>1, <1>2, <2>1, LoadFacts
<1>5. pprd' \in Tables
  BY <1>4 DEF Came
<1>6. /\ loaded' \in Loaded
      /\ loaded'.stopping = {p \in Printers :
                               pprd'.status[p] = PRNSTATUS_STOPPING}
      /\ loaded'.uncounted = Cardinality(Starved(pprd'))
  <2>1. Cardinality(Starved(pprd')) \in Nat
    <3>1. Starved(pprd') \in SUBSET Printers
      BY DEF Starved
    <3> QED
      BY <3>1, PrintersFinite
  <2> QED
    BY <1>2, <2>1 DEF Loaded
<1>7. Sound(pprd', recv', loaded'.stopping, -loaded'.uncounted)
  <2>1. \A j \in recv \cap disk.files : disk.jstatus[j] = STATUS_RECEIVING
    BY <1>1 DEF Filing
  <2>2. Sound(pprd', recv, loaded'.stopping, -Cardinality(Starved(pprd')))
    BY <1>1, <1>4, <1>6, <2>1, LoadSound
  <2> QED
    BY <1>3, <1>6, <2>2
<1>8. Tidy(pprd', {})
  BY <1>1, <1>4, LoadTidy
<1>9. todo' \in Seq(Task) /\ Asked'
  BY <1>3, FirstLooksFacts DEF Asked
<1>10. PICK m : m = [disk EXCEPT !.files = pprd'.files]
  OBVIOUS
<1>11. pprd'.files = disk.files \cap {j \in Jobs : Queued(pprd', j)}
  <2>1. PICK a : a = LoadDests(disk)
    OBVIOUS
  <2>2. NoneRead(disk, a)
    BY <1>1, <2>1, LoadDestsFacts
  <2>3. a.files = disk.files
    BY <2>2 DEF NoneRead
  <2>4. \A j \in Jobs : j \in pprd'.files <=>
          j \in a.files /\ (j \in disk.files => Queued(pprd', j))
    BY <1>4, <2>1 DEF Came
  <2>5. pprd'.files \subseteq Jobs /\ disk.files \subseteq Jobs
    BY <1>1, <1>5 DEF Tables, Disk
  <2> QED
    BY <2>3, <2>4, <2>5
<1>12. /\ m \in Disk /\ m.files = pprd'.files /\ m.prio = disk.prio
       /\ m.jstatus = disk.jstatus /\ m.accepting = disk.accepting
  BY <1>1, <1>5, <1>10 DEF Disk, Tables
<1>13. disk' \in Disk /\ StatesSaved(m, disk', pprd', Dests)
  BY <1>2, <1>5, <1>10, <1>12, SaveStatesFacts
<1>14. /\ disk'.files = pprd'.files /\ disk'.prio = disk.prio
       /\ disk'.jstatus = disk.jstatus
  BY <1>12, <1>13 DEF StatesSaved, SameQueue
<1>15. Filing(disk', recv')
  <2>1. IsFiniteSet(disk'.files)
    <3>1. IsFiniteSet(disk.files)
      BY <1>1 DEF Filing
    <3> QED
      BY <1>11, <1>14, <3>1, FS_Subset
  <2>2. AlwaysOpen => disk'.accepting = Dests
    <3>1. AlwaysOpen => pprd'.accepting = Dests
      BY <1>8 DEF Tidy
    <3>2. disk'.accepting \subseteq Dests
      BY <1>13 DEF Disk
    <3>3. \A x \in Dests : x \in disk'.accepting <=> x \in pprd'.accepting
      BY <1>13 DEF StatesSaved
    <3> QED
      BY <3>1, <3>2, <3>3
  <2> QED
    BY <1>1, <1>3, <1>11, <1>13, <1>14, <2>1, <2>2 DEF Filing
<1>16. Running'
  BY <1>7, <1>8, <1>9, <1>14 DEF Running
<1> QED
  BY <1>3, <1>6, <1>15, <1>16 DEF Base

\* Every step keeps the invariant.
LEMMA BaseStep ==
  ASSUME Base, [RNext]_rvars
  PROVE  Base'
<1>1. CASE UNCHANGED rvars
  <2>1. /\ pprd' = pprd /\ todo' = todo /\ recv' = recv
        /\ excused' = excused /\ disk' = disk /\ up' = up
        /\ crashes' = crashes /\ reloads' = reloads
        /\ fate' = fate /\ ordered' = ordered /\ loaded' = loaded
    BY <1>1 DEF rvars, vars, observers
  <2> QED
    BY <2>1 DEF Base, Running, Asked
<1>2. CASE Handle
  BY <1>2, HandleBase
<1>3. ASSUME NEW p \in Printers, NewPrinterConfig(p)
      PROVE  Base'
  BY <1>3, NewPrinterBase
<1>4. ASSUME NEW g \in Groups, NewGroupConfig(g)
      PROVE  Base'
  BY <1>4, NewGroupBase
<1>5. CASE Shutdown
  BY <1>5, ShutdownBase
<1>6. CASE DieInHandler
  BY <1>6, DieInHandlerBase
<1>7. CASE Restart
  BY <1>7, RestartBase
<1> QED
  BY <1>1, <1>2, <1>3, <1>4, <1>5, <1>6, <1>7 DEF RNext

\* The invariant holds over any number of deaths, starts and reloads.
LEMMA BaseInvariance == RSpec => []Base
<1>1. Base /\ [RNext]_rvars => Base'
  BY BaseStep
<1> QED
  BY <1>1, InitBase, PTL DEF RSpec

---------------------------------------------------------------------------
(* Whose hands a job is in *)

\* Every pprdrv prints for the destination of its job, and a job that waits
\* for the end of a pprdrv has one, unless it is one of `stuck'.
InHand(d, stuck) ==
  /\ \A p \in d.pids : /\ d.job[p] \in Jobs
                       /\ d.jdest[d.job[p]] = d.jobdest[p]
                       /\ d.status[p] # PRNSTATUS_IDLE
  /\ \A j \in Jobs \ stuck :
       d.jstatus[j] \in {STATUS_CANCEL, STATUS_SEIZING} =>
         \E p \in d.pids : d.job[p] = j

\* No pprdrv starts or ends, and no job comes to wait for the end of one
\* without having it.
HandsStay(d, e) ==
  /\ e.pids = d.pids /\ e.job = d.job /\ e.jobdest = d.jobdest
  /\ \A p \in d.pids : /\ e.status[p] # PRNSTATUS_IDLE
                       /\ d.job[p] \in Jobs =>
                            e.jdest[d.job[p]] = d.jdest[d.job[p]]
  /\ \A j \in Jobs : e.jstatus[j] \in {STATUS_CANCEL, STATUS_SEIZING} =>
       \/ d.jstatus[j] \in {STATUS_CANCEL, STATUS_SEIZING}
       \/ \E p \in d.pids : d.job[p] = j

\* Such a step keeps jobs in hand.
LEMMA StayInHand ==
  ASSUME NEW d, NEW e, NEW stuck, InHand(d, stuck), HandsStay(d, e)
  PROVE  InHand(e, stuck)
  BY DEF InHand, HandsStay

\* Wait reasons are not about pprdrv's.
LEMMA ReasonsStay ==
  ASSUME NEW d, NEW e, NEW p, SameHands(d, e), e.jdest = d.jdest,
         \A q \in d.pids : e.status[q] # PRNSTATUS_IDLE,
         ReasonsFollow(d, e, p)
  PROVE  HandsStay(d, e)
<1>1. \A j \in Jobs : e.jstatus[j] \in {STATUS_CANCEL, STATUS_SEIZING} =>
                        d.jstatus[j] = e.jstatus[j]
  BY DEF ReasonsFollow
<1> QED
  BY <1>1 DEF HandsStay, SameHands

\* A job is started on a printer that no pprdrv runs for.
LEMMA StartsInHand ==
  ASSUME NEW d \in Tables, NEW stuck, InHand(d, stuck), NEW e, Starts(d, e)
  PROVE  InHand(e, stuck)
<1>1. e.jdest = d.jdest /\ d.pids \subseteq Printers
  BY DEF Starts, SameJobs, SameEntries, Tables
<1>4. \A p \in d.pids : e.status[p] # PRNSTATUS_IDLE
  BY <1>1, StartsIdle DEF InHand
<1>2. CASE SameHands(d, e) /\ e.jstatus = d.jstatus
  <2>1. HandsStay(d, e)
    BY <1>1, <1>2, <1>4 DEF HandsStay, SameHands
  <2> QED
    BY <2>1, StayInHand
<1>3. ASSUME NEW p \in Printers, NEW j \in Jobs, Begins(d, e, p, j)
      PROVE  InHand(e, stuck)
  <2>1. /\ d.status[p] = PRNSTATUS_IDLE
        /\ e.pids = d.pids \cup {p}
        /\ \A i \in Jobs : e.jstatus[i] = IF i = j THEN p ELSE d.jstatus[i]
        /\ e.job[p] = j /\ e.jobdest[p] = d.jdest[j]
        /\ e.status[p] = PRNSTATUS_PRINTING
        /\ \A q \in Printers \ {p} :
             e.job[q] = d.job[q] /\ e.jobdest[q] = d.jobdest[q]
    BY <1>3 DEF Begins
  <2>2. p \notin {STATUS_CANCEL, STATUS_SEIZING}
    BY StatusRange
  <2>3. p \notin d.pids
    BY <2>1 DEF InHand
  <2>4. \A q \in d.pids : e.job[q] = d.job[q] /\ e.jobdest[q] = d.jobdest[q]
    BY <1>1, <2>1, <2>3
  <2>5. \A q \in e.pids : /\ e.job[q] \in Jobs
                          /\ e.jdest[e.job[q]] = e.jobdest[q]
                          /\ e.status[q] # PRNSTATUS_IDLE
    BY <1>1, <1>4, <2>1, <2>4 DEF InHand
  <2>6. ASSUME NEW i \in Jobs \ stuck,
               e.jstatus[i] \in {STATUS_CANCEL, STATUS_SEIZING}
        PROVE  \E q \in e.pids : e.job[q] = i
    <3>1. d.jstatus[i] \in {STATUS_CANCEL, STATUS_SEIZING}
      BY <2>1, <2>2, <2>6
    <3>2. PICK q \in d.pids : d.job[q] = i
      BY <3>1 DEF InHand
    <3> QED
      BY <2>1, <2>4, <3>2
  <2> QED
    BY <2>5, <2>6 DEF InHand
<1> QED
  BY <1>2, <1>3 DEF Starts

\* So does a printer that looks for work, and starts a job or fails to.
LEMMA LookedInHand ==
  ASSUME NEW d \in Tables, NEW stuck, InHand(d, stuck), NEW e
  PROVE  /\ \A p : Looked(d, e, p) => InHand(e, stuck)
         /\ \A j : Offered(d, e, j) => InHand(e, stuck)
  BY StartsInHand DEF Looked, Offered

\* The pprdrv of a job has ended, and what the job becomes is not a state in
\* which it waits for one.
LEMMA EndsInHand ==
  ASSUME NEW d, NEW e, NEW stuck, InHand(d, stuck), NEW j \in Jobs,
         e.pids \subseteq d.pids, e.job = d.job, e.jobdest = d.jobdest,
         \A p \in d.pids : p \in e.pids <=> d.job[p] # j,
         e.status = d.status,
         \A i \in Jobs : i # j =>
           e.jstatus[i] = d.jstatus[i] /\ e.jdest[i] = d.jdest[i],
         e.jstatus[j] \notin {STATUS_CANCEL, STATUS_SEIZING}
  PROVE  InHand(e, stuck)
<1>1. \A p \in e.pids : /\ p \in d.pids /\ d.job[p] # j /\ d.job[p] \in Jobs
                        /\ d.jdest[d.job[p]] = d.jobdest[p]
                        /\ d.status[p] # PRNSTATUS_IDLE
  BY DEF InHand
<1>2. ASSUME NEW i \in Jobs \ stuck,
             e.jstatus[i] \in {STATUS_CANCEL, STATUS_SEIZING}
      PROVE  \E p \in e.pids : e.job[p] = i
  <2>1. i # j /\ d.jstatus[i] \in {STATUS_CANCEL, STATUS_SEIZING}
    BY <1>2
  <2> QED
    BY <2>1 DEF InHand
<1> QED
  BY <1>1, <1>2 DEF InHand

\* The end of a pprdrv: its job is printed or canceled, or gets a status in
\* which it can be started again.
LEMMA ExitedInHand ==
  ASSUME NEW d, NEW r, NEW lost, NEW owed, Sound(d, r, lost, owed),
         NEW stuck, InHand(d, stuck), NEW e, NEW y, Exited(d, e, y)
  PROVE  InHand(e, stuck)
<1>1. d \in Tables /\ Exclusive(d)
  BY DEF Sound
<1>2. PICK p \in d.pids, c \in ExitCodes :
        \/ d.jdest[d.job[p]] # d.jobdest[p]
        \/ \E f, g \in Tables :
             /\ Disposed(d, f, p, c)
             /\ Settled(f, g, p, PrnStatusAfter(d, p, c))
             /\ \/ e = g
                \/ Looked(g, e, p)
  BY DEF Exited
<1> DEFINE j == d.job[p]
<1>3. /\ j \in Jobs /\ d.jdest[j] = d.jobdest[p] /\ p \in Printers
      /\ \A q \in d.pids : q \in d.pids \ {p} <=> d.job[q] # j
  BY <1>1, RunningJobs DEF Exclusive, InHand
<1>4. PICK f \in Tables, g \in Tables :
        /\ Disposed(d, f, p, c)
        /\ Settled(f, g, p, PrnStatusAfter(d, p, c))
        /\ e = g \/ Looked(g, e, p)
  BY <1>2, <1>3
<1>5. InHand(f, stuck) /\ p \notin f.pids
  <2>1. CASE Leaves(d, f, p)
    <3>1. /\ f.pids = d.pids \ {p} /\ f.job = d.job /\ f.jobdest = d.jobdest
          /\ f.status = d.status /\ f.jstatus[j] = STATUS_NONE
          /\ \A i \in Jobs : i # j =>
               f.jstatus[i] = d.jstatus[i] /\ f.jdest[i] = d.jdest[i]
      BY <2>1 DEF Leaves
    <3>2. /\ \A q \in d.pids : q \in f.pids <=> d.job[q] # j
          /\ f.pids \subseteq d.pids
          /\ f.jstatus[j] \notin {STATUS_CANCEL, STATUS_SEIZING}
      BY <1>3, <3>1
    <3> HIDE DEF j
    <3> QED
      BY <1>3, <3>1, <3>2, EndsInHand
  <2>2. CASE Keeps(d, f, p, c)
    <3> DEFINE s == JobStatusAfter(d, p, c)
    <3>1. PICK h \in Tables : Stays(d, h, p, c, s) /\ Starts(h, f)
      BY <2>2 DEF Keeps
    <3>2. /\ h.pids = d.pids \ {p} /\ h.job = d.job /\ h.jobdest = d.jobdest
          /\ h.jdest = d.jdest /\ h.status = d.status /\ h.jstatus[j] = s
          /\ \A i \in Jobs : i # j => h.jstatus[i] = d.jstatus[i]
      BY <3>1 DEF Stays
    <3>3. /\ \A q \in d.pids : q \in h.pids <=> d.job[q] # j
          /\ h.pids \subseteq d.pids
          /\ h.jstatus[j] \notin {STATUS_CANCEL, STATUS_SEIZING}
      BY <1>3, <3>2 DEF JobStatusAfter
    <3> HIDE DEF j, s
    <3>4. InHand(h, stuck)
      BY <1>3, <3>2, <3>3, EndsInHand
    <3>5. InHand(f, stuck)
      BY <3>1, <3>4, StartsInHand
    <3>6. p \notin f.pids
      <4>1. h.status[p] # PRNSTATUS_IDLE /\ p \notin h.pids
        BY <3>2 DEF InHand
      <4> QED
        BY <3>1, <4>1 DEF Starts, SameHands, Begins
    <3> QED
      BY <3>5, <3>6
  <2> QED
    BY <1>3, <1>4, <2>1, <2>2 DEF Disposed
<1>6. InHand(g, stuck)
  <2>1. /\ SameHands(f, g) /\ g.jstatus = f.jstatus /\ g.jdest = f.jdest
        /\ \A q \in Printers \ {p} : g.status[q] = f.status[q]
    BY <1>4 DEF Settled, SameJobs, SameEntries
  <2>2. f.pids \subseteq Printers \ {p}
    BY <1>5 DEF Tables
  <2>3. \A q \in f.pids : g.status[q] # PRNSTATUS_IDLE
    BY <1>5, <2>1, <2>2 DEF InHand
  <2>4. HandsStay(f, g)
    BY <2>1, <2>3 DEF HandsStay, SameHands
  <2> QED
    BY <1>5, <2>4, StayInHand
<1> QED
  BY <1>4, <1>6, LookedInHand

\* Only an entry is brought up to date, and stays with its destination.
LEMMA RefreshedStay ==
  ASSUME NEW d, NEW g, NEW stuck, InHand(d, stuck), NEW j \in Jobs, NEW s,
         Refreshed(d, g, j, d.jdest[j], s),
         s \notin {STATUS_CANCEL, STATUS_SEIZING}
  PROVE  InHand(g, stuck)
<1>1. /\ SameHands(d, g) /\ g.status = d.status
      /\ \A i \in Jobs : g.jdest[i] = d.jdest[i]
      /\ \A i \in Jobs : i # j => g.jstatus[i] = d.jstatus[i]
      /\ g.jstatus[j] \notin {STATUS_CANCEL, STATUS_SEIZING}
  BY DEF Refreshed, OnlyEntry
<1>2. HandsStay(d, g)
  BY <1>1 DEF HandsStay, SameHands, InHand
<1> QED
  BY <1>2, StayInHand

\* A job that is printing, being canceled or being seized is told of a
\* request; its pprdrv goes on.
LEMMA BecomesStay ==
  ASSUME NEW d \in Tables, Exclusive(d), NEW stuck, InHand(d, stuck), NEW e,
         NEW j \in Jobs, NEW s, Becomes(d, e, j, s),
         \/ s \notin {STATUS_CANCEL, STATUS_SEIZING}
         \/ d.jstatus[j] \in {STATUS_CANCEL, STATUS_SEIZING}
         \/ d.jstatus[j] \in d.pids,
         \A p \in d.pids : e.status[p] # PRNSTATUS_IDLE
  PROVE  InHand(e, stuck)
<1>1. /\ e.pids = d.pids /\ e.job = d.job /\ e.jobdest = d.jobdest
      /\ e.jdest = d.jdest
      /\ \A i \in Jobs : e.jstatus[i] = IF i = j THEN s ELSE d.jstatus[i]
  BY DEF Becomes, SameJobs, SameEntries
<1>2. d.jstatus[j] \in d.pids => \E p \in d.pids : d.job[p] = j
  <2>1. d.pids \subseteq Printers
    BY DEF Tables
  <2>2. d.jstatus[j] \in d.pids => d.jstatus[j] >= 0
    BY <2>1, StatusRange
  <2> QED
    BY <2>2 DEF Exclusive
<1>3. HandsStay(d, e)
  BY <1>1, <1>2 DEF HandsStay
<1> QED
  BY <1>3, StayInHand

\* Every event that is not about ppr, if jobs are not moved.
LEMMA ServedInHand ==
  ASSUME NeverMoved, NEW d, NEW r, NEW lost, NEW owed,
         Sound(d, r, lost, owed), NEW stuck, InHand(d, stuck),
         NEW e, NEW w, NEW v, NEW y \in SUBSET Jobs, Served(d, e, w, v, y)
  PROVE  InHand(e, stuck)
<1>1. /\ d \in Tables /\ Exclusive(d) /\ Drivers(d, lost)
      /\ d.pids \subseteq Printers
      /\ \A p \in d.pids : d.status[p] # PRNSTATUS_IDLE
  BY DEF Sound, Tables, InHand
<1>2. ASSUME NEW g, SameHands(d, g), g.jstatus = d.jstatus,
             g.jdest = d.jdest, \A p \in d.pids : g.status[p] = d.status[p]
      PROVE  InHand(g, stuck)
  <2>1. HandsStay(d, g)
    BY <1>1, <1>2 DEF HandsStay, SameHands
  <2> QED
    BY <2>1, StayInHand
<1>3. ASSUME NEW g, NEW p, NEW s, Changed(d, g, p, s),
             s = PRNSTATUS_IDLE => p \notin d.pids
      PROVE  InHand(g, stuck)
  <2>1. /\ SameHands(d, g) /\ g.jdest = d.jdest /\ ReasonsFollow(d, g, p)
        /\ \A q \in Printers : g.status[q] = IF q = p THEN s ELSE d.status[q]
    BY <1>3 DEF Changed, SameJobs, SameEntries
  <2>2. \A q \in d.pids : g.status[q] # PRNSTATUS_IDLE
    BY <1>1, <1>3, <2>1
  <2> QED
    BY <2>1, <2>2, ReasonsStay, StayInHand
<1>4. CASE Alike(d, e)
  BY <1>2, <1>4 DEF Alike, SameJobs, SameEntries
<1>5. CASE Woken(d, e)
  <2>1. PICK p \in Printers, g \in Tables :
          /\ d.status[p] \in {PRNSTATUS_FAULT, PRNSTATUS_ENGAGED,
                              PRNSTATUS_STARVED}
          /\ Idled(d, g, p) /\ Looked(g, e, p)
    BY <1>5 DEF Woken
  <2>2. p \notin d.pids
    BY <1>1, <2>1 DEF Drivers
  <2>3. InHand(g, stuck)
    BY <1>1, <1>2, <2>1, <2>2 DEF Idled, SameJobs, SameEntries
  <2> QED
    BY <2>1, <2>3, LookedInHand
<1>6. CASE Stopped(d, e)
  <2>1. PICK p \in Printers, s \in {PRNSTATUS_STOPT, PRNSTATUS_STOPPING,
                                    PRNSTATUS_HALTING} : Changed(d, e, p, s)
    BY <1>6 DEF Stopped
  <2>2. s # PRNSTATUS_IDLE
    OBVIOUS
  <2> QED
    BY <1>3, <2>1, <2>2
<1>7. CASE Started(d, e)
  <2>1. PICK p \in Printers :
          \/ /\ d.status[p] \in {PRNSTATUS_FAULT, PRNSTATUS_STOPT}
             /\ \E g \in Tables : /\ Changed(d, g, p, PRNSTATUS_IDLE)
                                  /\ Looked(g, e, p)
          \/ \E s \in {PRNSTATUS_PRINTING} : Changed(d, e, p, s)
    BY <1>7 DEF Started
  <2>2. ASSUME d.status[p] \in {PRNSTATUS_FAULT, PRNSTATUS_STOPT},
               NEW g \in Tables, Changed(d, g, p, PRNSTATUS_IDLE),
               Looked(g, e, p)
        PROVE  InHand(e, stuck)
    <3>1. p \notin d.pids
      BY <1>1, <2>2 DEF Drivers
    <3>2. InHand(g, stuck)
      BY <1>3, <2>2, <3>1
    <3> QED
      BY <2>2, <3>2, LookedInHand
  <2>3. ASSUME NEW s \in {PRNSTATUS_PRINTING}, Changed(d, e, p, s)
        PROVE  InHand(e, stuck)
    <3>1. s # PRNSTATUS_IDLE
      OBVIOUS
    <3> QED
      BY <1>3, <2>3, <3>1
  <2> QED
    BY <2>1, <2>2, <2>3
<1>8. CASE Held(d, e)
  <2>1. PICK j \in Jobs, s \in {STATUS_HELD, STATUS_SEIZING} :
          /\ Becomes(d, e, j, s)
          /\ \/ s \notin {STATUS_CANCEL, STATUS_SEIZING}
             \/ d.jstatus[j] \in {STATUS_CANCEL, STATUS_SEIZING}
             \/ d.jstatus[j] \in d.pids
          /\ \A p \in Printers :
               e.status[p] \in {d.status[p], PRNSTATUS_SEIZING}
    <3>1. PICK j \in Jobs :
            \/ Becomes(d, e, j, STATUS_HELD) /\ e.status = d.status
            \/ /\ d.jstatus[j] = STATUS_CANCEL
               /\ Becomes(d, e, j, STATUS_SEIZING) /\ e.status = d.status
            \/ /\ d.jstatus[j] \in d.pids
               /\ Becomes(d, e, j, STATUS_SEIZING)
               /\ \A p \in Printers :
                    e.status[p] \in {d.status[p], PRNSTATUS_SEIZING}
      BY <1>8 DEF Held
    <3>2. STATUS_HELD \notin {STATUS_CANCEL, STATUS_SEIZING}
      OBVIOUS
    <3> QED
      BY <3>1, <3>2
  <2>2. \A p \in d.pids : e.status[p] # PRNSTATUS_IDLE
    BY <1>1, <2>1
  <2> QED
    BY <1>1, <2>1, <2>2, BecomesStay
<1>9. CASE Released(d, e)
  <2>1. PICK j \in Jobs, g \in Tables :
          /\ Refreshed(d, g, j, d.jdest[j], STATUS_WAITING)
          /\ Offered(g, e, j)
    BY <1>9 DEF Released
  <2>2. STATUS_WAITING \notin {STATUS_CANCEL, STATUS_SEIZING}
    OBVIOUS
  <2>3. InHand(g, stuck)
    BY <2>1, <2>2, RefreshedStay
  <2> QED
    BY <2>1, <2>3, LookedInHand
<1>10. CASE Canceled(d, e, y)
  <2>1. PICK j \in y :
          \/ \E q, from : /\ Withdrawn(d, e, j, q, from)
                          /\ \/ d.jstatus[j] \in d.pids
                             \/ d.jstatus[j] = STATUS_SEIZING
          \/ /\ d.jstatus[j] < 0
             /\ d.jstatus[j] \notin {STATUS_CANCEL, STATUS_SEIZING}
             /\ Dequeued(d, e, j)
    BY <1>10 DEF Canceled
  <2>2. ASSUME NEW q, NEW from, Withdrawn(d, e, j, q, from),
               d.jstatus[j] \in d.pids \/ d.jstatus[j] = STATUS_SEIZING
        PROVE  InHand(e, stuck)
    <3>1. /\ Becomes(d, e, j, STATUS_CANCEL)
          /\ \A p \in Printers :
               e.status[p] \in {d.status[p], PRNSTATUS_CANCELING}
      BY <2>2 DEF Withdrawn
    <3>2. \A p \in d.pids : e.status[p] # PRNSTATUS_IDLE
      BY <1>1, <3>1
    <3> QED
      BY <1>1, <2>2, <3>1, <3>2, BecomesStay
  <2>3. CASE /\ d.jstatus[j] < 0
             /\ d.jstatus[j] \notin {STATUS_CANCEL, STATUS_SEIZING}
             /\ Dequeued(d, e, j)
    <3>1. ASSUME NEW p \in d.pids, d.job[p] = j
          PROVE  FALSE
      <4>1. d.jstatus[j] = p
        BY <1>1, <2>3, <3>1 DEF Exclusive
      <4>2. p \in Printers
        BY <1>1
      <4> QED
        BY <2>3, <4>1, <4>2, StatusRange
    <3>2. /\ e.pids = d.pids /\ e.job = d.job /\ e.jobdest = d.jobdest
          /\ e.jstatus[j] = STATUS_NONE /\ e.status = d.status
          /\ \A i \in Jobs : i # j =>
               e.jstatus[i] = d.jstatus[i] /\ e.jdest[i] = d.jdest[i]
      BY <2>3 DEF Dequeued, SameHands
    <3>3. /\ \A p \in d.pids : p \in e.pids <=> d.job[p] # j
          /\ e.pids \subseteq d.pids
          /\ e.jstatus[j] \notin {STATUS_CANCEL, STATUS_SEIZING}
      BY <3>1, <3>2
    <3> QED
      BY <3>2, <3>3, EndsInHand
  <2> QED
    BY <2>1, <2>2, <2>3
<1>11. ~ Moved(d, e)
  BY DEF Moved, NeverMoved
<1>12. CASE Rushed(d, e)
  <2>1. /\ SameHands(d, e) /\ e.jstatus = d.jstatus
        /\ e.jdest = d.jdest /\ e.status = d.status
    BY <1>1, <1>12 DEF Rushed, RushJob, Tables, SameHands
  <2> QED
    BY <1>2, <2>1
<1>13. CASE Mounted(d, e)
  <2>1. PICK p \in Printers, g \in Tables :
          Mounts(d, g, p) /\ (e = g \/ Looked(g, e, p))
    BY <1>13 DEF Mounted
  <2>2. /\ SameHands(d, g) /\ g.jdest = d.jdest /\ ReasonsFollow(d, g, p)
        /\ g.status = d.status
    BY <2>1 DEF Mounts
  <2>3. InHand(g, stuck)
    BY <1>1, <2>2, ReasonsStay, StayInHand
  <2> QED
    BY <2>1, <2>3, LookedInHand
<1>14. CASE Gated(d, e, v)
  <2>1. /\ SameHands(d, e) /\ e.jstatus = d.jstatus
        /\ e.jdest = d.jdest /\ e.status = d.status
    BY <1>1, <1>14 DEF Gated, Tables, SameHands
  <2> QED
    BY <1>2, <2>1
<1>15. CASE Exited(d, e, y)
  BY <1>15, ExitedInHand
<1>16. CASE e = d
  BY <1>16
<1>17. CASE \E p : Looked(d, e, p)
  BY <1>1, <1>17, LookedInHand
<1> QED
  BY <1>4, <1>5, <1>6, <1>7, <1>8, <1>9, <1>10, <1>11, <1>12, <1>13, <1>14,
     <1>15, <1>16, <1>17 DEF Served, Attended

\* ppr announces a job, or has sent the rest of it.
LEMMA SubmittedInHand ==
  ASSUME NEW d, NEW r \in SUBSET Jobs, NEW stuck, InHand(d, stuck), NEW e,
         NEW s, NEW x, NEW y,
         Submitted(d, e, r, s, x, y) \/ Reloaded(d, e, r, s)
  PROVE  InHand(e, stuck)
<1>1. CASE OnlyFiles(d, e)
  <2>1. HandsStay(d, e)
    BY <1>1 DEF OnlyFiles, HandsStay, SameHands, InHand
  <2> QED
    BY <2>1, StayInHand
<1>2. ASSUME NEW g \in Tables, NEW j \in Jobs,
             NEW t \in Arrivals \cup {STATUS_WAITING},
             Refreshed(d, g, j, d.jdest[j], t), Offered(g, e, j)
      PROVE  InHand(e, stuck)
  <2>1. t \notin {STATUS_CANCEL, STATUS_SEIZING}
    BY InstanceAssumption
  <2>2. InHand(g, stuck)
    BY <1>2, <2>1, RefreshedStay
  <2> QED
    BY <1>2, <2>2, LookedInHand
<1>3. CASE Submitted(d, e, r, s, x, y)
  BY <1>1, <1>2, <1>3 DEF Submitted, Entered
<1>4. CASE Reloaded(d, e, r, s)
  BY <1>1, <1>2, <1>4 DEF Reloaded
<1> QED
  BY <1>3, <1>4

\* Every event of a running pprd.
LEMMA HandlerInHand ==
  ASSUME NeverMoved, Base, NEW whole, NEW done, NEW torn,
         Handler(whole, done, torn), NEW stuck, InHand(pprd, stuck)
  PROVE  InHand(pprd', stuck)
<1> DEFINE lost == loaded.stopping
           owed == -loaded.uncounted
<1>1. /\ up /\ [Next]_vars
      /\ recv \in SUBSET Jobs /\ excused \in SUBSET Jobs
  BY HandlerIsNext DEF Base
<1>2. /\ Sound(pprd, recv, lost, owed) /\ todo \in Seq(Task) /\ Asked
  BY <1>1 DEF Base, Running
<1>3. lost \in SUBSET Printers /\ owed \in Int
  BY LoadedTypes DEF Base
<1>4. excused' \in SUBSET Jobs
  BY HandlerKeeps
<1> HIDE DEF lost, owed
<1>5. UNCHANGED vars \/ EventDoes
  BY <1>1, <1>2, <1>3, AnyStep
<1>6. CASE UNCHANGED vars
  BY <1>6 DEF vars
<1>7. CASE Served(pprd, pprd', Pending(todo), Pending(todo'), excused')
  BY <1>2, <1>4, <1>7, ServedInHand
<1>8. CASE \/ Submitted(pprd, pprd', recv, recv', excused, excused')
           \/ Reloaded(pprd, pprd', recv, recv')
  BY <1>1, <1>8, SubmittedInHand
<1> QED
  BY <1>5, <1>6, <1>7, <1>8 DEF EventDoes

\* A reload of a printer starts and ends no pprdrv but those it finds work
\* for.
LEMMA RereadInHand ==
  ASSUME NeverMoved, NEW d, NEW stuck, InHand(d, stuck),
         NEW h, NEW k, NEW p, Reread(d, h, k, p),
         NEW r, NEW lost, NEW owed, Sound(h, r, lost, owed),
         NEW e, Mounted(h, e)
  PROVE  InHand(e, stuck)
<1>1. InHand(h, stuck)
  <2>1. \A j \in Jobs : h.jstatus[j] \in {STATUS_CANCEL, STATUS_SEIZING} =>
                          d.jstatus[j] \in {STATUS_CANCEL, STATUS_SEIZING}
    <3>1. \A j \in Jobs : h.jstatus[j] \in {d.jstatus[j], STATUS_WAITING}
      BY DEF Reread
    <3> QED
      BY <3>1
  <2>2. /\ h.pids = d.pids /\ h.job = d.job /\ h.jobdest = d.jobdest
        /\ h.jdest = d.jdest /\ h.status = d.status
    BY DEF Reread
  <2>3. HandsStay(d, h)
    BY <2>1, <2>2 DEF HandsStay, InHand
  <2> QED
    BY <2>3, StayInHand
<1>2. PICK y : y = {}
  OBVIOUS
<1>3. Served(h, e, y, y, y)
  BY DEF Served, Attended
<1> QED
  BY <1>1, <1>2, <1>3, ServedInHand

\* A reload of a group starts and ends none.
LEMMA RegroupedInHand ==
  ASSUME NEW d, NEW stuck, InHand(d, stuck),
         NEW e, NEW k, NEW g, Regrouped(d, e, k, g)
  PROVE  InHand(e, stuck)
<1>1. \A j \in Jobs : e.jstatus[j] \in {STATUS_CANCEL, STATUS_SEIZING} =>
                        d.jstatus[j] \in {STATUS_CANCEL, STATUS_SEIZING}
  BY DEF Regrouped
<1>2. /\ e.pids = d.pids /\ e.job = d.job /\ e.jobdest = d.jobdest
      /\ e.jdest = d.jdest /\ e.status = d.status
  BY DEF Regrouped, SameHands
<1>3. HandsStay(d, e)
  BY <1>1, <1>2 DEF HandsStay, InHand
<1> QED
  BY <1>3, StayInHand

\* What a new pprd has read from the files.
LEMMA RestartCame ==
  ASSUME Base, Restart
  PROVE  /\ Came(LoadDests(disk), pprd', disk, disk.files)
         /\ NoneRead(disk, LoadDests(disk))
         /\ disk'.files \subseteq disk.files
         /\ disk'.jstatus = disk.jstatus
         /\ \A p \in Printers : disk'.status[p] = pprd'.status[p]
<1>1. /\ Filing(disk, recv) /\ disk \in Disk /\ IsFiniteSet(disk.files)
      /\ \A j \in disk.files : disk.jstatus[j] # STATUS_NONE
  BY DEF Base, Filing
<1>2. PICK dir \in Listings(disk.files) :
        /\ pprd' = LoadQueue(LoadDests(disk), disk, dir)
        /\ disk' = SaveStates([disk EXCEPT !.files = pprd'.files], pprd',
                              Dests)
  BY DEF Restart
<1>3. Came(LoadDests(disk), pprd', disk, disk.files)
  BY <1>1, <1>2, LoadFacts
<1>4. NoneRead(disk, LoadDests(disk))
  <2>1. PICK a : a = LoadDests(disk)
    OBVIOUS
  <2> QED
    BY <1>1, <2>1, LoadDestsFacts
<1>5. pprd' \in Tables /\ LoadDests(disk).files = disk.files
  BY <1>3, <1>4 DEF Came, NoneRead
<1>6. PICK m : m = [disk EXCEPT !.files = pprd'.files]
  OBVIOUS
<1>7. /\ m \in Disk /\ m.files = pprd'.files
      /\ m.jstatus = disk.jstatus
  BY <1>1, <1>5, <1>6 DEF Disk, Tables
<1>8. disk' \in Disk /\ StatesSaved(m, disk', pprd', Dests)
  BY <1>2, <1>5, <1>6, <1>7, SaveStatesFacts
<1>9. disk'.files = pprd'.files /\ disk'.jstatus = disk.jstatus
  BY <1>7, <1>8 DEF StatesSaved, SameQueue
<1>10. \A p \in Printers : disk'.status[p] = pprd'.status[p]
  BY <1>8 DEF StatesSaved, Dests
<1>11. \A j \in Jobs : j \in pprd'.files => j \in disk.files
  BY <1>3, <1>5 DEF Came
<1>12. pprd'.files \subseteq Jobs
  BY <1>5 DEF Tables
<1> QED
  BY <1>3, <1>4, <1>9, <1>10, <1>11, <1>12

\* What the commands of ppad do to the tables.
LEMMA ReloadFinds ==
  ASSUME Base
  PROVE  /\ \A p \in Printers : NewPrinterConfig(p) =>
              \E h : /\ Sound(h, recv, loaded.stopping, -loaded.uncounted)
                     /\ Reread(pprd, h, disk, p) /\ Mounted(h, pprd')
                     /\ MountedOn(h, pprd', p) /\ NoNew(pprd, pprd')
         /\ \A g \in Groups : NewGroupConfig(g) =>
              /\ Regrouped(pprd, pprd', disk, g)
              /\ NoNew(pprd, pprd')
<1> DEFINE lost == loaded.stopping
           owed == -loaded.uncounted
<1>1. up => /\ Sound(pprd, recv, lost, owed) /\ pprd \in Tables
            /\ Tidy(pprd, {})
  BY DEF Base, Running, Sound
<1>2. /\ disk \in Disk /\ recv \in SUBSET Jobs
      /\ AlwaysOpen => disk.accepting = Dests
  BY DEF Base, Filing
<1>3. lost \in SUBSET Printers /\ owed \in Int
  BY LoadedTypes DEF Base
<1> HIDE DEF lost, owed
<1>4. ASSUME NEW p \in Printers, NewPrinterConfig(p)
      PROVE  \E h : /\ Sound(h, recv, lost, owed)
                    /\ Reread(pprd, h, disk, p) /\ Mounted(h, pprd')
                    /\ MountedOn(h, pprd', p) /\ NoNew(pprd, pprd')
  <2>1. up
    BY <1>4 DEF NewPrinterConfig
  <2>2. PICK ff, a : /\ a = ReloadRecord(pprd, disk, p)
                     /\ pprd' = ReloadPrinter(a, p, ff)
    BY <1>4 DEF NewPrinterConfig
  <2>3. PICK h : /\ Sound(h, recv, lost, owed) /\ Reread(pprd, h, disk, p)
                 /\ Mounted(h, pprd') /\ MountedOn(h, pprd', p)
    BY <1>1, <1>2, <1>3, <2>1, <2>2, ReloadPrinterFacts
  <2>4. NoNew(pprd, pprd')
    BY <1>1, <1>2, <2>1, <2>3, ReloadPrinterTidy
  <2> QED
    BY <2>3, <2>4
<1>5. ASSUME NEW g \in Groups, NewGroupConfig(g)
      PROVE  Regrouped(pprd, pprd', disk, g) /\ NoNew(pprd, pprd')
  <2>1. up /\ pprd' = ReloadGroup(pprd, disk, g)
    BY <1>5 DEF NewGroupConfig
  <2>2. Regrouped(pprd, pprd', disk, g) /\ pprd' \in Tables
    BY <1>1, <1>2, <2>1, ReloadGroupFacts
  <2>3. NoNew(pprd, pprd')
    BY <1>1, <1>2, <2>1, <2>2, RegroupedTidy
  <2> QED
    BY <2>2, <2>3
<1> QED
  BY <1>4, <1>5 DEF lost, owed

\* The inductive invariant of the hands.
HandsInv == up => InHand(pprd, loaded.stuck)

\* Every step keeps it.
LEMMA HandsStep ==
  ASSUME NeverMoved, Base, HandsInv, [RNext]_rvars
  PROVE  HandsInv'
<1>1. CASE UNCHANGED rvars
  BY <1>1 DEF rvars, vars, observers, HandsInv
<1>2. CASE Handle
  <2>1. PICK done : Handler(TRUE, done, {})
    BY <1>2 DEF Handle
  <2>2. up /\ loaded' = loaded
    BY <1>2, <2>1 DEF Handle, Handler
  <2>3. InHand(pprd, loaded.stuck)
    BY <2>2 DEF HandsInv
  <2>4. PICK stuck : stuck = loaded.stuck
    OBVIOUS
  <2>5. InHand(pprd', stuck)
    BY <2>1, <2>3, <2>4, HandlerInHand
  <2> QED
    BY <2>2, <2>4, <2>5 DEF HandsInv
<1>3. ASSUME NEW p \in Printers, NewPrinterConfig(p)
      PROVE  HandsInv'
  <2>1. up /\ loaded'.stuck = loaded.stuck
    <3>1. loaded \in Loaded
      BY DEF Base
    <3> QED
      BY <1>3, <3>1 DEF NewPrinterConfig, Loaded
  <2>2. PICK h, lost, owed :
          /\ Sound(h, recv, lost, owed)
          /\ Reread(pprd, h, disk, p) /\ Mounted(h, pprd')
    BY <1>3, ReloadFinds
  <2>3. InHand(pprd, loaded.stuck)
    BY <2>1 DEF HandsInv
  <2>4. InHand(pprd', loaded.stuck)
    BY <2>2, <2>3, RereadInHand
  <2> QED
    BY <2>1, <2>4 DEF HandsInv
<1>4. ASSUME NEW g \in Groups, NewGroupConfig(g)
      PROVE  HandsInv'
  <2>1. up /\ loaded'.stuck = loaded.stuck
    <3>1. loaded \in Loaded
      BY DEF Base
    <3> QED
      BY <1>4, <3>1 DEF NewGroupConfig, Loaded
  <2>2. Regrouped(pprd, pprd', disk, g)
    BY <1>4, ReloadFinds
  <2>3. InHand(pprd, loaded.stuck)
    BY <2>1 DEF HandsInv
  <2>4. InHand(pprd', loaded.stuck)
    BY <2>2, <2>3, RegroupedInHand
  <2> QED
    BY <2>1, <2>4 DEF HandsInv
<1>5. CASE Shutdown \/ DieInHandler
  BY <1>5 DEF Shutdown, DieInHandler, Dies, HandsInv
<1>6. CASE Restart
  <2>1. SameHands(LoadDests(disk), pprd') /\ LoadDests(disk).pids = {}
    BY <1>6, RestartCame DEF Came, NoneRead
  <2>2. pprd'.pids = {}
    BY <2>1 DEF SameHands
  <2>3. loaded'.stuck = {j \in Jobs : pprd'.jstatus[j] \in
                                        {STATUS_CANCEL, STATUS_SEIZING}}
    BY <1>6 DEF Restart
  <2>4. PICK stuck : stuck = loaded'.stuck
    OBVIOUS
  <2>5. InHand(pprd', stuck)
    BY <2>2, <2>3, <2>4 DEF InHand
  <2> QED
    BY <2>4, <2>5 DEF HandsInv
<1> QED
  BY <1>1, <1>2, <1>3, <1>4, <1>5, <1>6 DEF RNext

\* It holds at all times.
LEMMA HandsInvariance ==
  ASSUME NeverMoved
  PROVE  RSpec => []HandsInv
<1>1. RInit => HandsInv
  <2>1. RInit => /\ pprd.pids = {}
                 /\ \A j \in Jobs : pprd.jstatus[j] = STATUS_NONE
    BY DEF RInit, Init, InitTables
  <2> QED
    BY <2>1 DEF HandsInv, InHand
<1>2. Base /\ HandsInv /\ [RNext]_rvars => HandsInv'
  BY HandsStep
<1> QED
  BY <1>1, <1>2, BaseInvariance, PTL DEF RSpec

---------------------------------------------------------------------------
(* A job that has been printed stays so *)

\* A job whose pprdrv says that it has printed it leaves the queue.
LEMMA PrintedLeaves ==
  ASSUME Base, up, NEW stuck, InHand(pprd, stuck),
         NEW p \in Printers, Exit(p, "printed")
  PROVE  pprd.job[p] \in Jobs /\ ~ Queued(pprd', pprd.job[p])
<1> DEFINE lost == loaded.stopping
           owed == -loaded.uncounted
           j == pprd.job[p]
<1>1. /\ Sound(pprd, recv, lost, owed) /\ pprd \in Tables /\ Exclusive(pprd)
      /\ recv \in SUBSET Jobs
  BY DEF Base, Running, Sound
<1>2. lost \in SUBSET Printers /\ owed \in Int
  BY LoadedTypes DEF Base
<1> HIDE DEF lost, owed
<1>3. p \in pprd.pids /\ ~ pprd.fatal
  BY DEF Exit, Waits
<1>4. PICK ff : pprd' = PprdrvExited(pprd, p, "printed", ff)
  BY DEF Exit
<1>5. EffectiveExit(pprd, p, "printed") = "printed"
  BY DEF EffectiveExit
<1>6. j \in Jobs /\ pprd.jdest[j] = pprd.jobdest[p]
  BY <1>3 DEF InHand
<1>7. PICK e : e = pprd'
  OBVIOUS
<1>8. PICK f \in Tables, g \in Tables :
        /\ Disposed(pprd, f, p, "printed")
        /\ Settled(f, g, p, PrnStatusAfter(pprd, p, "printed"))
        /\ e = g \/ Looked(g, e, p)
  <2>1. e = PprdrvExited(pprd, p, "printed", ff)
    BY <1>4, <1>7
  <2>2. PICK c : c = "printed"
    OBVIOUS
  <2>3. c = EffectiveExit(pprd, p, c) /\ e = PprdrvExited(pprd, p, c, ff)
    BY <1>5, <2>1, <2>2
  <2>4. \/ ~ (c = "printed" \/ p \in pprd.cancelJob)
        \/ \E f, g \in Tables :
             /\ Disposed(pprd, f, p, c)
             /\ Settled(f, g, p, PrnStatusAfter(pprd, p, c))
             /\ e = g \/ Looked(g, e, p)
    BY <1>1, <1>2, <1>3, <2>3, ExitFacts
  <2> QED
    BY <2>2, <2>4
<1>9. f.jstatus[j] = STATUS_NONE
  BY <1>6, <1>8 DEF Disposed, Leaves
<1>10. g.jstatus[j] = STATUS_NONE
  BY <1>8, <1>9 DEF Settled
<1>11. e.jstatus[j] = STATUS_NONE
  <2>1. CASE e = g
    BY <1>10, <2>1
  <2>2. CASE Starts(g, e)
    <3> HIDE DEF j
    <3> QED
      BY <1>6, <1>10, <2>2 DEF Starts, Begins, Fits
  <2> QED
    BY <1>8, <2>1, <2>2 DEF Looked
<1> QED
  BY <1>6, <1>7, <1>11 DEF Queued

\* A handler neither brings back the files or the entry of a job that is
\* known to be printed nor leaves those of a job that it finds printed.
LEMMA HandlerPrinted ==
  ASSUME Base, HandsInv, PrintedOnce, NEW whole, NEW done, NEW torn,
         Handler(whole, done, torn), NEW j \in Jobs
  PROVE  /\ fate[j] = "printed" =>
              j \notin pprd'.files /\ ~ Queued(pprd', j)
         /\ j \in done => ~ Queued(pprd', j)
<1>1. /\ up /\ Running /\ Grows(pprd, pprd', recv, recv')
      /\ Tidy(pprd', {})
  BY HandlerKeeps
<1>2. Filed(pprd) /\ Filed(pprd') /\ disk.files = pprd.files
  BY <1>1 DEF Running, Tidy
<1>3. \A i \in pprd'.files \ pprd.files : fate[i] = "none"
  BY DEF Handler
<1>4. ASSUME fate[j] = "printed"
      PROVE  j \notin pprd'.files /\ ~ Queued(pprd', j)
  <2>1. j \notin pprd.files /\ ~ Queued(pprd, j)
    BY <1>1, <1>2, <1>4 DEF PrintedOnce
  <2>2. j \notin pprd'.files
    BY <1>3, <1>4, <2>1
  <2> QED
    BY <1>1, <2>1, <2>2 DEF Grows
<1>5. ASSUME j \in done
      PROVE  ~ Queued(pprd', j)
  <2>1. PICK p \in Printers, code \in ExitsSeen :
          /\ Exit(p, code)
          /\ done = IF code = "printed" THEN {pprd.job[p]} ELSE {}
    BY <1>5 DEF Handler
  <2>2. code = "printed" /\ j = pprd.job[p]
    BY <1>5, <2>1
  <2>3. InHand(pprd, loaded.stuck)
    BY <1>1 DEF HandsInv
  <2> QED
    BY <1>1, <2>1, <2>2, <2>3, PrintedLeaves
<1> QED
  BY <1>4, <1>5

\* Every step keeps it so.
LEMMA PrintedStep ==
  ASSUME Base, Base', HandsInv, PrintedOnce, [RNext]_rvars
  PROVE  PrintedOnce'
<1>0. fate \in [Jobs -> {"none", "spooled", "printed"}]
  BY DEF Base
<1>1. CASE UNCHANGED rvars
  BY <1>1 DEF rvars, vars, observers, PrintedOnce
<1>2. CASE Handle
  <2>1. PICK done : Handler(TRUE, done, {}) /\ fate' = Known(done)
    BY <1>2 DEF Handle
  <2>2. up' /\ Filed(pprd') /\ disk'.files = pprd'.files
    <3>1. up' = up /\ up
      BY <1>2, <2>1 DEF Handle, Handler
    <3>2. Running'
      BY <3>1 DEF Base
    <3> QED
      BY <3>1, <3>2 DEF Running, Tidy
  <2>3. ASSUME NEW j \in Jobs, fate'[j] = "printed"
        PROVE  j \notin disk'.files /\ ~ Queued(pprd', j)
    <3>1. j \in done \/ fate[j] = "printed"
      BY <2>1, <2>3 DEF Known
    <3>2. ~ Queued(pprd', j)
      BY <2>1, <3>1, HandlerPrinted
    <3> QED
      BY <2>2, <3>2 DEF Filed
  <2> QED
    BY <2>3 DEF PrintedOnce
<1>3. ASSUME NEW p \in Printers, NewPrinterConfig(p)
      PROVE  PrintedOnce'
  <2>1. up /\ up' = up /\ fate' = fate /\ NoNew(pprd, pprd')
    BY <1>3, ReloadFinds DEF NewPrinterConfig
  <2>2. disk.files = pprd.files /\ disk'.files = pprd'.files
    BY <2>1 DEF Base, Running
  <2> QED
    BY <2>1, <2>2 DEF PrintedOnce, NoNew
<1>4. ASSUME NEW g \in Groups, NewGroupConfig(g)
      PROVE  PrintedOnce'
  <2>1. up /\ up' = up /\ fate' = fate /\ NoNew(pprd, pprd')
    BY <1>4, ReloadFinds DEF NewGroupConfig
  <2>2. disk.files = pprd.files /\ disk'.files = pprd'.files
    BY <2>1 DEF Base, Running
  <2> QED
    BY <2>1, <2>2 DEF PrintedOnce, NoNew
<1>5. CASE Shutdown
  <2>1. /\ pprd' = pprd /\ disk' = disk /\ ~ up' /\ fate' = Known({})
    BY <1>5 DEF Shutdown, Dies, vars
  <2>2. \A j \in Jobs : fate'[j] = fate[j]
    BY <2>1 DEF Known
  <2> QED
    BY <2>1, <2>2 DEF PrintedOnce
<1>6. CASE DieInHandler
  <2>1. PICK torn, done, dests, jobs :
          /\ Handler(FALSE, done, torn)
          /\ jobs \in SUBSET SavedJobs(pprd, pprd')
          /\ torn \in SUBSET Dests
          /\ disk' = Truncate(SaveJobs(SaveStates(disk, pprd', dests),
                                       pprd, pprd', jobs), torn)
    BY <1>6 DEF DieInHandler
  <2>2. ~ up' /\ fate' = Known({})
    BY <1>6 DEF DieInHandler, Dies
  <2>3. /\ pprd \in Tables /\ pprd' \in Tables /\ disk \in Disk /\ up
        /\ disk.files = pprd.files
    <3>1. /\ up /\ Running
          /\ Sound(pprd', recv', loaded.stopping, -loaded.uncounted)
      BY <2>1, HandlerKeeps
    <3> QED
      BY <3>1 DEF Running, Sound, Base, Filing
  <2>4. JobsWritten(disk, disk', pprd, pprd', jobs)
    <3>1. jobs \in SUBSET Jobs
      BY <2>1 DEF SavedJobs
    <3>2. Written(disk, disk', pprd, pprd', dests, jobs, torn)
      BY <2>1, <2>3, <3>1, TornFacts
    <3> QED
      BY <3>2 DEF Written
  <2>5. ASSUME NEW j \in Jobs, fate'[j] = "printed"
        PROVE  j \notin disk'.files
    <3>1. fate[j] = "printed"
      BY <2>2, <2>5 DEF Known
    <3>2. j \notin pprd'.files
      BY <2>1, <3>1, HandlerPrinted
    <3>3. j \notin disk.files
      BY <3>1 DEF PrintedOnce
    <3> QED
      BY <2>4, <3>2, <3>3 DEF JobsWritten
  <2> QED
    BY <2>2, <2>5 DEF PrintedOnce
<1>7. CASE Restart
  <2>1. fate' = fate
    BY <1>7 DEF Restart
  <2>2. /\ disk'.files \subseteq disk.files
        /\ \A j \in Jobs : Queued(pprd', j) => j \in disk.files
    BY <1>7, RestartCame DEF Came
  <2> QED
    BY <2>1, <2>2 DEF PrintedOnce
<1> QED
  BY <1>1, <1>2, <1>3, <1>4, <1>5, <1>6, <1>7 DEF RNext

---------------------------------------------------------------------------
(* A printer that has been stopped stays so *)

\* Whoever tells a printer to stop finds it stopping or stopt afterwards.
LEMMA StopDown ==
  ASSUME NEW d \in Tables, NEW p \in Printers, NEW halt, NEW wait,
         NEW e, e = StopPrinter(d, p, halt, wait)
  PROVE  e.status[p] \in Down
<1>1. d.status[p] \in PrnStatus
  BY DEF Tables
<1>2. ASSUME NEW s \in Down
      PROVE  /\ Change(d, p, s) \in Tables
             /\ Change(d, p, s).status[p] = s
  <2>1. s \in PrnStatus
    BY <1>2 DEF Down, Stopping, PrnStatus
  <2> QED
    BY <2>1, ChangeFacts DEF Changed
<1>3. ASSUME NEW z \in Tables, NEW w, z.status[p] \in Down,
             e = [z EXCEPT !.waiter = w]
      PROVE  e.status[p] \in Down
  BY <1>3 DEF Tables
<1>4. CASE d.status[p] \in {PRNSTATUS_FAULT, PRNSTATUS_IDLE,
                            PRNSTATUS_ENGAGED, PRNSTATUS_STARVED}
  <2>1. PRNSTATUS_STOPT \in Down
    BY DEF Down
  <2>2. e = Change(d, p, PRNSTATUS_STOPT)
    BY <1>4 DEF StopPrinter
  <2> QED
    BY <1>2, <2>1, <2>2
<1>5. PICK h : h = Change(d, p, PRNSTATUS_HALTING)
  OBVIOUS
<1>6. h \in Tables /\ h.status[p] \in Down
  <2>1. PRNSTATUS_HALTING \in Down
    BY DEF Down, Stopping
  <2> QED
    BY <1>2, <1>5, <2>1
<1>7. CASE d.status[p] \in {PRNSTATUS_CANCELING, PRNSTATUS_SEIZING}
  <2>1. e = [h EXCEPT !.waiter = IF wait THEN @ \cup {p} ELSE @]
    BY <1>5, <1>7 DEF StopPrinter
  <2>2. PICK w : w = IF wait THEN h.waiter \cup {p} ELSE h.waiter
    OBVIOUS
  <2>3. e = [h EXCEPT !.waiter = w]
    BY <2>1, <2>2
  <2> QED
    BY <1>3, <1>6, <2>3
<1>8. CASE d.status[p] \in {PRNSTATUS_PRINTING, PRNSTATUS_STOPPING} /\ halt
  <2>1. PICK k : k = PprdrvKill(h, p)
    OBVIOUS
  <2>2. e = [k EXCEPT !.waiter = IF wait THEN @ \cup {p} ELSE @]
    BY <1>5, <1>8, <2>1 DEF StopPrinter
  <2>3. PICK w : w = IF wait THEN k.waiter \cup {p} ELSE k.waiter
    OBVIOUS
  <2>4. e = [k EXCEPT !.waiter = w]
    BY <2>2, <2>3
  <2>5. k \in Tables /\ k.status = h.status
    <3>1. h.killed \cup {p} \in SUBSET Printers
      BY <1>6 DEF Tables
    <3>2. k \in Tables
      BY <1>6, <2>1, <3>1, KilledField DEF PprdrvKill
    <3>3. k.status = h.status
      BY <1>6, <2>1 DEF PprdrvKill, Tables
    <3> QED
      BY <3>2, <3>3
  <2> QED
    BY <1>3, <1>6, <2>4, <2>5
<1>9. CASE d.status[p] = PRNSTATUS_PRINTING /\ ~ halt
  <2>1. PICK s : s = Change(d, p, PRNSTATUS_STOPPING)
    OBVIOUS
  <2>2. s \in Tables /\ s.status[p] \in Down
    <3>1. PRNSTATUS_STOPPING \in Down
      BY DEF Down, Stopping
    <3> QED
      BY <1>2, <2>1, <3>1
  <2>3. e = [s EXCEPT !.waiter = IF wait THEN @ \cup {p} ELSE @]
    BY <1>9, <2>1 DEF StopPrinter
  <2>4. PICK w : w = IF wait THEN s.waiter \cup {p} ELSE s.waiter
    OBVIOUS
  <2>5. e = [s EXCEPT !.waiter = w]
    BY <2>3, <2>4
  <2> QED
    BY <1>3, <2>2, <2>5
<1>10. CASE \/ d.status[p] \in {PRNSTATUS_STOPT, PRNSTATUS_HALTING}
            \/ d.status[p] = PRNSTATUS_STOPPING /\ ~ halt
  <2>1. e = d
    BY <1>10 DEF StopPrinter
  <2> QED
    BY <1>10, <2>1 DEF Down, Stopping
<1> QED
  BY <1>1, <1>4, <1>7, <1>8, <1>9, <1>10 DEF PrnStatus

\* What a handler does to the printers that have been stopped, and whom it
\* leaves to be called so.
LEMMA HandlerShut ==
  ASSUME NeverHeld, Base, NEW whole \in BOOLEAN, NEW done, NEW torn,
         Handler(whole, done, torn), NEW p \in Printers, p \in ordered'
  PROVE  /\ p \in ordered /\ pprd.status[p] \in Down =>
              pprd'.status[p] \in Down
         /\ p \in ordered \/ (whole /\ pprd'.status[p] \in Down)
         /\ ~ whole => p \in ordered /\ p \notin torn
<1> DEFINE lost == loaded.stopping
           owed == -loaded.uncounted
<1>1. up /\ recv \in SUBSET Jobs /\ excused \in SUBSET Jobs
  BY DEF Base, Handler
<1>2. /\ Sound(pprd, recv, lost, owed) /\ todo \in Seq(Task) /\ Asked
  BY <1>1 DEF Base, Running
<1>3. lost \in SUBSET Printers /\ owed \in Int
  BY LoadedTypes DEF Base
<1>4. excused' \in SUBSET Jobs
  BY HandlerKeeps
<1> HIDE DEF lost, owed
<1>5. pprd \in Tables
  BY <1>2 DEF Sound
<1>6. ASSUME Event \/ \E q \in Printers : ExitOf(q) \/ StopCommand(q)
      PROVE  pprd.status[p] \in Down => pprd'.status[p] \in Down
  <2>1. OtherEventDoes
    BY <1>1, <1>2, <1>3, <1>6, OtherStep
  <2>2. OnlyStops(pprd, pprd')
    BY <1>2, <1>4, <2>1, AttendedStops, SubmittedStops DEF OtherEventDoes
  <2> QED
    BY <2>2 DEF OnlyStops
<1>7. CASE (Event \/ \E q \in Printers : ExitOf(q))
             /\ ordered' = ordered \ torn
  BY <1>6, <1>7
<1>8. ASSUME NEW q \in Printers, StartCommand(q),
             ordered' = ordered \ (torn \cup {q})
      PROVE  /\ pprd.status[p] \in Down => pprd'.status[p] \in Down
             /\ p \in ordered /\ p \notin torn
  <2>1. p # q /\ p \in ordered /\ p \notin torn
    BY <1>8
  <2>2. \/ pprd'.status[p] = pprd.status[p]
        \/ pprd.status[p] = PRNSTATUS_IDLE
    BY <1>2, <1>3, <1>8, <2>1, StartStep
  <2> QED
    BY <2>1, <2>2 DEF Down, Stopping
<1>9. ASSUME NEW q \in Printers, StopCommand(q),
             ordered' = IF whole THEN ordered \cup {q}
                                 ELSE ordered \ (torn \cup {q})
      PROVE  /\ pprd.status[p] \in Down => pprd'.status[p] \in Down
             /\ p \in ordered \/ (whole /\ pprd'.status[p] \in Down)
             /\ ~ whole => p \in ordered /\ p \notin torn
  <2>1. pprd'.status[q] \in Down
    <3>1. ASSUME NEW op, NEW e, Simple(op, e)
          PROVE  pprd' = e
      BY <3>1 DEF Simple, Command
    <3>2. \/ pprd' = pprd /\ pprd.status[q] = PRNSTATUS_STOPPING
          \/ \E halt, wait : pprd' = StopPrinter(pprd, q, halt, wait)
      BY <1>9, <3>1
      DEF StopCommand, PpopStop, PpopWstop, PpopHalt, IppPausePrinter
    <3>3. CASE pprd' = pprd /\ pprd.status[q] = PRNSTATUS_STOPPING
      BY <3>3 DEF Down, Stopping
    <3>4. ASSUME NEW halt, NEW wait, pprd' = StopPrinter(pprd, q, halt, wait)
          PROVE  pprd'.status[q] \in Down
      BY <1>5, <3>4, StopDown
    <3> QED
      BY <3>2, <3>3, <3>4
  <2>2. pprd.status[p] \in Down => pprd'.status[p] \in Down
    BY <1>6, <1>9
  <2>3. CASE whole
    BY <1>9, <2>1, <2>2, <2>3
  <2>4. CASE ~ whole
    BY <1>9, <2>2, <2>4
  <2> QED
    BY <2>3, <2>4
<1> QED
  BY <1>7, <1>8, <1>9 DEF Handler, ExitOf

\* The inductive invariant: a printer that has been told to stop is down,
\* and its file says so; and the file of every printer that is down says so.
ShutInv ==
  /\ \A p \in ordered : disk.status[p] \in Down
  /\ up => /\ \A p \in ordered : pprd.status[p] \in Down
           /\ \A p \in Printers :
                pprd.status[p] \in Down => disk.status[p] \in Down

\* A printer whose status changes has its file written.
LEMMA ChangesAreSaved ==
  ASSUME NEW d, NEW e, NEW p \in Printers, p \notin SavedDests(d, e)
  PROVE  e.status[p] = d.status[p]
  BY DEF SavedDests, Dests

\* What a printer's status becomes after a death is down if it was before.
LEMMA DownAfterDeath ==
  ASSUME NEW s, s \in Down
  PROVE  StatusAfterDeath(s) \in Down
  BY DEF StatusAfterDeath, Down, Stopping

\* The status in the files after a printer's configuration is read again.
LEMMA NewPrinterFiles ==
  ASSUME Base, NEW p \in Printers, NewPrinterConfig(p)
  PROVE  /\ \A q \in Printers :
              \/ disk'.status[q] = pprd'.status[q]
              \/ /\ pprd'.status[q] = pprd.status[q]
                 /\ disk'.status[q] \in {disk.status[q],
                                         StatusAfterDeath(disk.status[q])}
         /\ \A j \in Jobs :
              \/ disk'.jstatus[j] = disk.jstatus[j]
              \/ disk'.jstatus[j] = WrittenStatus(pprd'.jstatus[j])
<1> DEFINE lost == loaded.stopping
           owed == -loaded.uncounted
           k1 == [disk EXCEPT
                    !.status[p]  = StatusAfterDeath(@),
                    !.wasStarved = IF StatusAfterDeath(disk.status[p])
                                        = disk.status[p] THEN @ ELSE @ \ {p}]
<1>1. up /\ Running /\ disk \in Disk /\ recv \in SUBSET Jobs
  BY DEF Base, NewPrinterConfig, Filing
<1>2. PICK ff, a, k :
        /\ a = ReloadRecord(pprd, disk, p) /\ k = k1
        /\ pprd' = ReloadPrinter(a, p, ff)
        /\ disk' = SaveAll(k, a, pprd')
  BY DEF NewPrinterConfig
<1>3. Sound(pprd, recv, lost, owed)
  BY <1>1 DEF Running
<1>4. lost \in SUBSET Printers /\ owed \in Int
  BY LoadedTypes DEF Base
<1> HIDE DEF lost, owed
<1>5. /\ k \in Disk /\ k.jstatus = disk.jstatus
      /\ \A q \in Printers : k.status[q] = IF q = p
            THEN StatusAfterDeath(disk.status[p]) ELSE disk.status[q]
  <2>1. PICK w : /\ w \in SUBSET Printers
                 /\ k = [disk EXCEPT !.status[p] = StatusAfterDeath(@),
                                     !.wasStarved = w]
    <3>1. disk.wasStarved \in SUBSET Printers
      BY <1>1 DEF Disk
    <3>2. CASE StatusAfterDeath(disk.status[p]) = disk.status[p]
      BY <1>2, <3>1, <3>2
    <3>3. CASE StatusAfterDeath(disk.status[p]) # disk.status[p]
      BY <1>2, <3>1, <3>3
    <3> QED
      BY <3>2, <3>3
  <2>2. StatusAfterDeath(disk.status[p]) \in PrnStatus
    <3>1. disk.status[p] \in PrnStatus
      BY <1>1 DEF Disk
    <3> QED
      BY <3>1 DEF StatusAfterDeath
  <2> QED
    BY <1>1, <2>1, <2>2 DEF Disk
<1>6. /\ Sound(pprd', recv, lost, owed) /\ a \in Tables
      /\ Recorded(pprd, a, disk, p)
  BY <1>1, <1>2, <1>3, <1>4, ReloadPrinterFacts
<1>7. a.status = pprd.status /\ pprd' \in Tables
  BY <1>6 DEF Recorded, Sound
<1>8. Written(k, disk', a, pprd', SavedDests(a, pprd'), SavedJobs(a, pprd'),
              {})
  BY <1>2, <1>5, <1>6, <1>7, SaveAllFacts
<1>9. ASSUME NEW q \in Printers
      PROVE  \/ disk'.status[q] = pprd'.status[q]
             \/ /\ pprd'.status[q] = pprd.status[q]
                /\ disk'.status[q] \in {disk.status[q],
                                        StatusAfterDeath(disk.status[q])}
  <2>1. CASE q \in SavedDests(a, pprd')
    BY <1>8, <2>1 DEF Written
  <2>2. CASE q \notin SavedDests(a, pprd')
    <3>1. pprd'.status[q] = pprd.status[q]
      BY <1>7, <2>2, ChangesAreSaved
    <3>2. disk'.status[q] = k.status[q]
      BY <1>8, <2>2 DEF Written
    <3>3. k.status[q] \in {disk.status[q], StatusAfterDeath(disk.status[q])}
      BY <1>5
    <3> QED
      BY <3>1, <3>2, <3>3
  <2> QED
    BY <2>1, <2>2
<1>10. \A j \in Jobs : \/ disk'.jstatus[j] = k.jstatus[j]
                       \/ disk'.jstatus[j] = WrittenStatus(pprd'.jstatus[j])
  BY <1>8 DEF Written, JobsWritten
<1> QED
  BY <1>5, <1>9, <1>10

\* Every step keeps it.
LEMMA ShutStep ==
  ASSUME NeverHeld, Base, ShutInv, [RNext]_rvars
  PROVE  ShutInv'
<1>0. ordered \subseteq Printers
  BY DEF Base
<1>1. CASE UNCHANGED rvars
  BY <1>1 DEF rvars, vars, observers, ShutInv
<1>2. CASE Handle
  <2>1. PICK done : Handler(TRUE, done, {})
    BY <1>2 DEF Handle
  <2>2. /\ up /\ Running
        /\ Sound(pprd', recv', loaded.stopping, -loaded.uncounted)
    BY <2>1, HandlerKeeps
  <2>3. pprd \in Tables /\ pprd' \in Tables /\ disk \in Disk
    BY <2>2 DEF Running, Sound, Base, Filing
  <2>4. disk' = SaveAll(disk, pprd, pprd') /\ up' = up
    BY <1>2 DEF Handle
  <2>5. Written(disk, disk', pprd, pprd', SavedDests(pprd, pprd'),
                SavedJobs(pprd, pprd'), {})
    BY <2>3, <2>4, SaveAllFacts
  <2>6. ASSUME NEW p \in Printers, pprd'.status[p] \in Down
        PROVE  disk'.status[p] \in Down
    <3>1. CASE p \in SavedDests(pprd, pprd')
      BY <2>5, <2>6, <3>1 DEF Written
    <3>2. CASE p \notin SavedDests(pprd, pprd')
      <4>1. disk'.status[p] = disk.status[p]
        BY <2>5, <3>2 DEF Written
      <4>2. pprd.status[p] \in Down
        BY <2>6, <3>2, ChangesAreSaved
      <4> QED
        BY <2>2, <4>1, <4>2 DEF ShutInv
    <3> QED
      BY <3>1, <3>2
  <2>7. ordered' \subseteq Printers
    BY <2>1, HandlerObserves
  <2>8. ASSUME NEW p \in ordered'
        PROVE  pprd'.status[p] \in Down
    <3>1. /\ p \in ordered /\ pprd.status[p] \in Down =>
               pprd'.status[p] \in Down
          /\ p \in ordered \/ pprd'.status[p] \in Down
      BY <2>1, <2>7, HandlerShut
    <3> QED
      BY <2>2, <3>1 DEF ShutInv
  <2> QED
    BY <2>6, <2>7, <2>8 DEF ShutInv
<1>3. ASSUME NEW p \in Printers, NewPrinterConfig(p)
      PROVE  ShutInv'
  <2>1. up /\ ordered' = ordered
    BY <1>3 DEF NewPrinterConfig
  <2>2. PICK h, lost, owed :
          /\ Sound(h, recv, lost, owed)
          /\ Reread(pprd, h, disk, p) /\ Mounted(h, pprd')
    BY <1>3, ReloadFinds
  <2>3. OnlyStops(pprd, pprd')
    <3>1. PICK y : y = {}
      OBVIOUS
    <3>2. Attended(h, pprd', y, y, y)
      BY <2>2 DEF Attended
    <3>3. OnlyStops(h, pprd')
      BY <2>2, <3>1, <3>2, AttendedStops
    <3> QED
      BY <2>2, <3>3 DEF Reread, OnlyStops
  <2>4. ASSUME NEW q \in Printers, pprd'.status[q] \in Down
        PROVE  disk'.status[q] \in Down
    <3>1. CASE disk'.status[q] = pprd'.status[q]
      BY <2>4, <3>1
    <3>2. CASE /\ pprd'.status[q] = pprd.status[q]
               /\ disk'.status[q] \in {disk.status[q],
                                       StatusAfterDeath(disk.status[q])}
      <4>1. disk.status[q] \in Down
        BY <2>1, <2>4, <3>2 DEF ShutInv
      <4> QED
        BY <3>2, <4>1, DownAfterDeath
    <3> QED
      BY <1>3, <3>1, <3>2, NewPrinterFiles
  <2>5. \A q \in ordered : pprd'.status[q] \in Down
    BY <1>0, <2>1, <2>3 DEF OnlyStops, ShutInv
  <2> QED
    BY <1>0, <2>1, <2>4, <2>5 DEF ShutInv
<1>4. ASSUME NEW g \in Groups, NewGroupConfig(g)
      PROVE  ShutInv'
  <2>1. /\ up /\ ordered' = ordered
        /\ disk' = SaveJobs(disk, pprd, pprd', SavedJobs(pprd, pprd'))
    BY <1>4 DEF NewGroupConfig
  <2>2. pprd'.status = pprd.status
    BY <1>4, ReloadFinds DEF Regrouped
  <2>3. disk'.status = disk.status
    <3>1. pprd \in Tables /\ disk \in Disk
      BY <2>1 DEF Base, Running, Sound, Filing
    <3>2. pprd' \in Tables
      <4>1. pprd' = ReloadGroup(pprd, disk, g)
        BY <1>4 DEF NewGroupConfig
      <4> QED
        BY <3>1, <4>1, ReloadGroupFacts
    <3>3. SavedJobs(pprd, pprd') \in SUBSET Jobs
      BY DEF SavedJobs
    <3> QED
      BY <2>1, <3>1, <3>2, <3>3, SaveJobsFacts DEF SameStates
  <2> QED
    BY <2>1, <2>2, <2>3 DEF ShutInv
<1>5. CASE Shutdown
  BY <1>5 DEF Shutdown, Dies, vars, ShutInv
<1>6. CASE DieInHandler
  <2>1. PICK torn, done, dests, jobs :
          /\ Handler(FALSE, done, torn)
          /\ jobs \in SUBSET SavedJobs(pprd, pprd')
          /\ torn \in SUBSET Dests
          /\ disk' = Truncate(SaveJobs(SaveStates(disk, pprd', dests),
                                       pprd, pprd', jobs), torn)
    BY <1>6 DEF DieInHandler
  <2>2. ~ up'
    BY <1>6 DEF DieInHandler, Dies
  <2>3. pprd \in Tables /\ pprd' \in Tables /\ disk \in Disk /\ up
    <3>1. /\ up /\ Running
          /\ Sound(pprd', recv', loaded.stopping, -loaded.uncounted)
      BY <2>1, HandlerKeeps
    <3> QED
      BY <3>1 DEF Running, Sound, Base, Filing
  <2>4. Written(disk, disk', pprd, pprd', dests, jobs, torn)
    <3>1. jobs \in SUBSET Jobs
      BY <2>1 DEF SavedJobs
    <3> QED
      BY <2>1, <2>3, <3>1, TornFacts
  <2>5. ordered' \subseteq Printers
    BY <2>1, HandlerObserves
  <2>6. ASSUME NEW p \in ordered'
        PROVE  disk'.status[p] \in Down
    <3>1. p \in ordered /\ p \notin torn
      BY <2>1, <2>5, HandlerShut
    <3>2. pprd'.status[p] \in Down
      BY <2>1, <2>3, <2>5, <3>1, HandlerShut DEF ShutInv
    <3>3. disk'.status[p] \in {pprd'.status[p], disk.status[p]}
      BY <2>4, <2>5, <3>1 DEF Written
    <3> QED
      BY <3>1, <3>2, <3>3 DEF ShutInv
  <2> QED
    BY <2>2, <2>6 DEF ShutInv
<1>7. CASE Restart
  <2>1. ordered' = ordered
    BY <1>7 DEF Restart
  <2>2. \A p \in Printers : /\ disk'.status[p] = pprd'.status[p]
                            /\ pprd'.status[p]
                                 = StatusAfterDeath(disk.status[p])
    BY <1>7, RestartCame DEF Came, NoneRead
  <2>3. \A p \in ordered : pprd'.status[p] \in Down
    BY <1>0, <2>2, DownAfterDeath DEF ShutInv
  <2> QED
    BY <1>0, <2>1, <2>2, <2>3 DEF ShutInv
<1> QED
  BY <1>1, <1>2, <1>3, <1>4, <1>5, <1>6, <1>7 DEF RNext

---------------------------------------------------------------------------
(* No printer idle beside a job it could print, over restarts *)

\* The inductive invariant: that of PrintersFindWork, but for the jobs that
\* a reload has put aside.
BusyInv == up => /\ Reasons(pprd)
                 /\ Work(pprd, Pending(todo), loaded.aside)

\* Every event of a running pprd.
LEMMA HandlerWork ==
  ASSUME NeverHeld, Base, NEW whole, NEW done, NEW torn,
         Handler(whole, done, torn), NEW aside,
         Reasons(pprd), Work(pprd, Pending(todo), aside)
  PROVE  Reasons(pprd') /\ Work(pprd', Pending(todo'), aside)
<1> DEFINE lost == loaded.stopping
           owed == -loaded.uncounted
<1>1. /\ up /\ [Next]_vars
      /\ recv \in SUBSET Jobs /\ excused \in SUBSET Jobs
  BY HandlerIsNext DEF Base
<1>2. /\ Sound(pprd, recv, lost, owed) /\ todo \in Seq(Task) /\ Asked
  BY <1>1 DEF Base, Running
<1>3. lost \in SUBSET Printers /\ owed \in Int
  BY LoadedTypes DEF Base
<1>4. excused' \in SUBSET Jobs
  BY HandlerKeeps
<1> HIDE DEF lost, owed
<1>5. UNCHANGED vars \/ EventDoes
  BY <1>1, <1>2, <1>3, AnyStep
<1>6. CASE UNCHANGED vars
  BY <1>6 DEF vars, Pending
<1>7. CASE Served(pprd, pprd', Pending(todo), Pending(todo'), excused')
  BY <1>2, <1>4, <1>7, ServedWork
<1>8. CASE /\ Pending(todo) \subseteq Pending(todo')
           /\ \/ Submitted(pprd, pprd', recv, recv', excused, excused')
              \/ Reloaded(pprd, pprd', recv, recv')
  <2>1. Reasons(pprd') /\ Work(pprd', Pending(todo), aside)
    BY <1>1, <1>2, <1>8, SubmittedWork
  <2> QED
    BY <1>8, <2>1, MoreToLook
<1> QED
  BY <1>5, <1>6, <1>7, <1>8 DEF EventDoes

\* A printer whose configuration has been read again looks for work; the
\* other printers are not told of the jobs that are no longer stranded.
LEMMA RereadWork ==
  ASSUME NEW d \in Tables, NEW w, NEW aside, Reasons(d), Work(d, w, aside),
         NEW p \in Printers, NEW h \in Tables, NEW k, Reread(d, h, k, p),
         NEW e, MountedOn(h, e, p), NEW more,
         more = {j \in Jobs : /\ Covers(d.jdest[j], p)
                              /\ d.jstatus[j] = STATUS_STRANDED}
  PROVE  Reasons(e) /\ Work(e, w, aside \cup more)
<1>1. /\ h.status = d.status /\ h.jdest = d.jdest /\ h.notnow = d.notnow
      /\ h.heldGroups = d.heldGroups
      /\ \A j \in Jobs :
           /\ h.never[j] = IF Queued(d, j) /\ Covers(d.jdest[j], p)
                             THEN d.never[j] \ {p} ELSE d.never[j]
           /\ h.jstatus[j] =
                IF Covers(d.jdest[j], p) /\ d.jstatus[j] = STATUS_STRANDED
                  THEN STATUS_WAITING ELSE d.jstatus[j]
  BY DEF Reread
<1>2. Reasons(h)
  <2> SUFFICES ASSUME NEW j \in Jobs, h.jstatus[j] = STATUS_WAITING4MEDIA
               PROVE  Lacking(h, j)
    BY DEF Reasons
  <2>1. d.jstatus[j] = STATUS_WAITING4MEDIA
    <3>1. h.jstatus[j] \in {d.jstatus[j], STATUS_WAITING}
      BY <1>1
    <3> QED
      BY <3>1
  <2> QED
    BY <1>1, <2>1 DEF Reasons, Lacking
<1>3. Work(h, w \cup {p}, aside \cup more)
  <2> SUFFICES ASSUME NEW q \in Printers \ (w \cup {p}),
                      NEW j \in Jobs \ (aside \cup more),
                      h.status[q] = PRNSTATUS_IDLE, Fits(h, q, j)
               PROVE  FALSE
    BY DEF Work
  <2>1. h.jstatus[j] = d.jstatus[j]
    BY <1>1
  <2>2. q \in h.never[j] <=> q \in d.never[j]
    BY <1>1
  <2>3. Fits(d, q, j)
    BY <1>1, <2>1, <2>2 DEF Fits, Suitable
  <2> QED
    BY <1>1, <2>3 DEF Work
<1>4. PICK g \in Tables :
        /\ Mounts(h, g, p)
        /\ \/ e = g /\ g.status[p] # PRNSTATUS_IDLE
           \/ Looked(g, e, p)
  BY DEF MountedOn
<1>5. Reasons(g) /\ Work(g, w \cup {p}, aside \cup more)
  <2>1. Reasons(g) /\ Work(g, (w \cup {p}) \cup {p}, aside \cup more)
    BY <1>2, <1>3, <1>4, MountsWork
  <2>2. (w \cup {p}) \cup {p} = w \cup {p}
    OBVIOUS
  <2> QED
    BY <2>1, <2>2
<1> QED
  BY <1>4, <1>5, NotIdleWork, LookedWork

\* The jobs of a group that has been read again are put aside.
LEMMA RegroupedWork ==
  ASSUME NEW d \in Tables, NEW aside, Reasons(d), NEW w, Work(d, w, aside),
         NEW g \in Groups, NEW k, NEW e, Regrouped(d, e, k, g)
  PROVE  Reasons(e) /\ Work(e, w, aside \cup QueuedFor(d, g))
<1>1. /\ e.status = d.status /\ e.jdest = d.jdest
      /\ e.heldGroups = IF g \in k.heldGroups THEN d.heldGroups \cup {g}
                                              ELSE d.heldGroups \ {g}
      /\ \A j \in Jobs :
           /\ j \notin QueuedFor(d, g) =>
                /\ e.jstatus[j] = d.jstatus[j]
                /\ e.never[j] = d.never[j] /\ e.notnow[j] = d.notnow[j]
           /\ j \in QueuedFor(d, g) =>
                (e.jstatus[j] = STATUS_WAITING4MEDIA => Lacking(e, j))
  BY DEF Regrouped
<1>2. Reasons(e)
  <2> SUFFICES ASSUME NEW j \in Jobs, e.jstatus[j] = STATUS_WAITING4MEDIA
               PROVE  Lacking(e, j)
    BY DEF Reasons
  <2>1. CASE j \in QueuedFor(d, g)
    BY <1>1, <2>1
  <2>2. CASE j \notin QueuedFor(d, g)
    <3>1. e.jstatus[j] = d.jstatus[j] /\ e.notnow[j] = d.notnow[j]
      BY <1>1, <2>2
    <3>2. Lacking(d, j)
      BY <3>1 DEF Reasons
    <3> QED
      BY <1>1, <3>1, <3>2 DEF Lacking
  <2> QED
    BY <2>1, <2>2
<1>3. Work(e, w, aside \cup QueuedFor(d, g))
  <2> SUFFICES ASSUME NEW q \in Printers \ w,
                      NEW j \in Jobs \ (aside \cup QueuedFor(d, g)),
                      e.status[q] = PRNSTATUS_IDLE, Fits(e, q, j)
               PROVE  FALSE
    BY DEF Work
  <2>1. /\ e.jstatus[j] = d.jstatus[j] /\ e.never[j] = d.never[j]
        /\ e.notnow[j] = d.notnow[j]
    BY <1>1
  <2>2. d.jdest[j] # g
    BY <2>1 DEF Fits, QueuedFor, Queued
  <2>3. d.jdest[j] \in e.heldGroups <=> d.jdest[j] \in d.heldGroups
    BY <1>1, <2>2
  <2>4. Fits(d, q, j)
    BY <1>1, <2>1, <2>3 DEF Fits, Suitable
  <2> QED
    BY <1>1, <2>4 DEF Work
<1> QED
  BY <1>2, <1>3

\* Every step keeps it.
LEMMA BusyStep ==
  ASSUME NeverHeld, Base, BusyInv, [RNext]_rvars
  PROVE  BusyInv'
<1>1. CASE UNCHANGED rvars
  BY <1>1 DEF rvars, vars, observers, BusyInv, Pending
<1>2. CASE Handle
  <2>1. PICK done : Handler(TRUE, done, {})
    BY <1>2 DEF Handle
  <2>2. up /\ loaded' = loaded
    BY <1>2, <2>1 DEF Handle, Handler
  <2>3. PICK aside : aside = loaded.aside
    OBVIOUS
  <2>4. Reasons(pprd) /\ Work(pprd, Pending(todo), aside)
    BY <2>2, <2>3 DEF BusyInv
  <2>5. Reasons(pprd') /\ Work(pprd', Pending(todo'), aside)
    BY <2>1, <2>4, HandlerWork
  <2> QED
    BY <2>2, <2>3, <2>5 DEF BusyInv
<1>3. ASSUME NEW p \in Printers, NewPrinterConfig(p)
      PROVE  BusyInv'
  <2>1. up /\ todo' = todo /\ loaded \in Loaded /\ pprd \in Tables
    BY <1>3 DEF NewPrinterConfig, Base, Running, Sound
  <2>2. PICK h, lost, owed :
          /\ Sound(h, recv, lost, owed)
          /\ Reread(pprd, h, disk, p) /\ MountedOn(h, pprd', p)
    BY <1>3, ReloadFinds
  <2>3. PICK more : more = {j \in Jobs : /\ Covers(pprd.jdest[j], p)
                                         /\ pprd.jstatus[j] = STATUS_STRANDED}
    OBVIOUS
  <2>4. loaded' = [loaded EXCEPT !.aside = @ \cup more]
    BY <1>3, <2>3 DEF NewPrinterConfig
  <2>5. loaded'.aside = loaded.aside \cup more
    BY <2>1, <2>4 DEF Loaded
  <2>6. h \in Tables
    BY <2>2 DEF Sound
  <2>7. PICK w, aside : w = Pending(todo) /\ aside = loaded.aside
    OBVIOUS
  <2>8. Reasons(pprd) /\ Work(pprd, w, aside)
    BY <2>1, <2>7 DEF BusyInv
  <2>9. Reasons(pprd') /\ Work(pprd', w, aside \cup more)
    BY <2>1, <2>2, <2>3, <2>6, <2>8, RereadWork
  <2>10. Pending(todo') = w
    BY <2>1, <2>7
  <2> QED
    BY <2>5, <2>7, <2>9, <2>10 DEF BusyInv
<1>4. ASSUME NEW g \in Groups, NewGroupConfig(g)
      PROVE  BusyInv'
  <2>1. /\ up /\ todo = << >> /\ loaded \in Loaded /\ pprd \in Tables
        /\ loaded' = [loaded EXCEPT !.aside = @ \cup QueuedFor(pprd, g)]
    BY <1>4 DEF NewGroupConfig, Waits, Base, Running, Sound
  <2>2. loaded'.aside = loaded.aside \cup QueuedFor(pprd, g)
    BY <2>1 DEF Loaded
  <2>3. Regrouped(pprd, pprd', disk, g)
    BY <1>4, ReloadFinds
  <2>4. PICK w, aside : w = Pending(todo) /\ aside = loaded.aside
    OBVIOUS
  <2>5. Reasons(pprd) /\ Work(pprd, w, aside) /\ w = {}
    BY <2>1, <2>4 DEF BusyInv, Pending
  <2>6. Reasons(pprd') /\ Work(pprd', w, aside \cup QueuedFor(pprd, g))
    BY <2>1, <2>3, <2>5, RegroupedWork
  <2>7. Work(pprd', Pending(todo'), aside \cup QueuedFor(pprd, g))
    BY <2>5, <2>6, MoreToLook
  <2> QED
    BY <2>2, <2>4, <2>6, <2>7 DEF BusyInv
<1>5. CASE Shutdown \/ DieInHandler
  BY <1>5 DEF Shutdown, DieInHandler, Dies, BusyInv
<1>6. CASE Restart
  <2>1. \A j \in Jobs : pprd'.jstatus[j] = STATUS_WAITING4MEDIA =>
                          Lacking(pprd', j)
    BY <1>6, RestartCame DEF Came, Queued
  <2>2. Pending(todo') = Printers
    BY <1>6, FirstLooksFacts DEF Restart
  <2>3. Reasons(pprd')
    BY <2>1 DEF Reasons
  <2>4. Work(pprd', Printers, loaded'.aside)
    BY DEF Work
  <2> QED
    BY <2>2, <2>3, <2>4 DEF BusyInv
<1> QED
  BY <1>1, <1>2, <1>3, <1>4, <1>5, <1>6 DEF RNext

---------------------------------------------------------------------------
(* A job that has been accepted outlives pprd *)

\* Every event of a running pprd.
LEMMA HandlerSpared ==
  ASSUME NeverHeld, EnoughRoom, Base, NEW whole, NEW done, NEW torn,
         Handler(whole, done, torn), Spared(pprd, excused)
  PROVE  Spared(pprd', excused')
<1> DEFINE lost == loaded.stopping
           owed == -loaded.uncounted
<1>1. /\ up /\ [Next]_vars
      /\ recv \in SUBSET Jobs /\ excused \in SUBSET Jobs
  BY HandlerIsNext DEF Base
<1>2. /\ Sound(pprd, recv, lost, owed) /\ todo \in Seq(Task) /\ Asked
      /\ Listed(pprd) /\ Distinct(pprd)
  BY <1>1 DEF Base, Running, Tidy
<1>3. lost \in SUBSET Printers /\ owed \in Int
  BY LoadedTypes DEF Base
<1>4. excused' \in SUBSET Jobs
  BY HandlerKeeps
<1> HIDE DEF lost, owed
<1>5. UNCHANGED vars \/ EventDoes
  BY <1>1, <1>2, <1>3, AnyStep
<1>6. CASE UNCHANGED vars
  BY <1>6 DEF vars
<1>7. CASE /\ Served(pprd, pprd', Pending(todo), Pending(todo'), excused')
           /\ excused \subseteq excused'
  <2>1. Spared(pprd, excused')
    BY <1>7 DEF Spared
  <2> QED
    BY <1>2, <1>4, <1>7, <2>1, ServedSpared
<1>8. CASE Submitted(pprd, pprd', recv, recv', excused, excused')
  BY <1>2, <1>8, SubmittedSpared
<1>9. CASE Reloaded(pprd, pprd', recv, recv') /\ excused' = excused
  BY <1>1, <1>9, ReloadedSpared
<1> QED
  BY <1>5, <1>6, <1>7, <1>8, <1>9 DEF EventDoes

\* A reload of a printer takes back what it has been told, and no job.
LEMMA RereadSpared ==
  ASSUME NeverHeld, NEW d, NEW y \in SUBSET Jobs, Spared(d, y),
         NEW h, NEW k, NEW p, Reread(d, h, k, p),
         NEW r, NEW lost, NEW owed, Sound(h, r, lost, owed),
         NEW e, Mounted(h, e)
  PROVE  Spared(e, y)
<1>1. /\ h.pids = d.pids /\ h.job = d.job /\ h.status = d.status
      /\ h.cancelJob \subseteq d.cancelJob
      /\ \A j \in Jobs : h.jstatus[j] = d.jstatus[j]
           \/ (d.jstatus[j] = STATUS_STRANDED /\ h.jstatus[j] = STATUS_WAITING)
  BY DEF Reread
<1>2. NoneGoes(d, h)
  BY <1>1 DEF NoneGoes, Queued
<1>3. \A q \in d.cancelJob : h.status[q] # PRNSTATUS_IDLE
  BY <1>1 DEF Spared
<1>4. Spared(h, y)
  BY <1>1, <1>2, <1>3, FrameSpared
<1>5. PICK w : w = {}
  OBVIOUS
<1>6. Served(h, e, w, w, y)
  BY DEF Served, Attended
<1> QED
  BY <1>4, <1>6, ServedSpared

\* A reload of a group tells no printer anything, and takes no job.
LEMMA RegroupedSpared ==
  ASSUME NEW d, NEW y, Spared(d, y),
         NEW e, NEW k, NEW g, Regrouped(d, e, k, g)
  PROVE  Spared(e, y)
<1>1. /\ e.pids = d.pids /\ e.job = d.job /\ e.status = d.status
      /\ e.cancelJob = d.cancelJob
  BY DEF Regrouped, SameHands
<1>2. NoneGoes(d, e)
  BY DEF Regrouped, NoneGoes, Queued
<1>3. \A q \in d.cancelJob : e.status[q] # PRNSTATUS_IDLE
  BY <1>1 DEF Spared
<1> QED
  BY <1>1, <1>2, <1>3, FrameSpared

\* The inductive invariant: no file says that a job is being seized, every
\* job that must not be gone has its file, and a running pprd spares it.
SafeInv ==
  /\ \A j \in Jobs : disk.jstatus[j] # STATUS_SEIZING
  /\ \A j \in Jobs : j \notin excused => j \in disk.files
  /\ up => Spared(pprd, excused)

\* What is written for a job is never that it is being seized.
LEMMA WrittenSpared ==
  ASSUME NEW k, NEW n, NEW d \in Tables, NEW e \in Tables, NEW W,
         JobsWritten(k, n, d, e, W),
         \A j \in Jobs : k.jstatus[j] # STATUS_SEIZING,
         \A j \in Jobs : e.jstatus[j] # STATUS_SEIZING
  PROVE  \A j \in Jobs : n.jstatus[j] # STATUS_SEIZING
<1> SUFFICES ASSUME NEW j \in Jobs PROVE n.jstatus[j] # STATUS_SEIZING
  OBVIOUS
<1>1. n.jstatus[j] = WrittenStatus(e.jstatus[j])
      \/ n.jstatus[j] = k.jstatus[j]
  BY DEF JobsWritten
<1>2. WrittenStatus(e.jstatus[j]) # STATUS_SEIZING
  BY DEF WrittenStatus
<1> QED
  BY <1>1, <1>2

\* Between two events every job that must not be gone is spared and filed.
LEMMA SparedFiles ==
  ASSUME NeverLate \/ AlwaysOpen, NEW d, NEW y, Tidy(d, {}), Spared(d, y),
         NEW j \in Jobs, j \notin y
  PROVE  Queued(d, j) /\ j \in d.files
<1>1. Queued(d, j)
  BY DEF Spared
<1> QED
  BY <1>1 DEF Tidy, Filed

\* Every step keeps the invariant.
LEMMA SafeStep ==
  ASSUME NeverHeld, EnoughRoom, NeverLate \/ AlwaysOpen,
         Base, Base', SafeInv, [RNext]_rvars
  PROVE  SafeInv'
<1>0. /\ excused \in SUBSET Jobs /\ disk \in Disk
      /\ up' => Tidy(pprd', {}) /\ disk'.files = pprd'.files
  BY DEF Base, Running, Filing
<1>1. ASSUME up', Spared(pprd', excused'),
             \A j \in Jobs : disk'.jstatus[j] # STATUS_SEIZING
      PROVE  SafeInv'
  <2>1. \A j \in Jobs : j \notin excused' => j \in pprd'.files
    BY <1>0, <1>1, SparedFiles
  <2> QED
    BY <1>0, <1>1, <2>1 DEF SafeInv
<1>2. CASE UNCHANGED rvars
  BY <1>2 DEF rvars, vars, observers, SafeInv
<1>3. CASE Handle
  <2>1. PICK done : Handler(TRUE, done, {})
    BY <1>3 DEF Handle
  <2>2. up /\ up' = up /\ disk' = SaveAll(disk, pprd, pprd')
    BY <1>3, <2>1 DEF Handle, Handler
  <2>3. Spared(pprd', excused')
    BY <2>1, <2>2, HandlerSpared DEF SafeInv
  <2>4. pprd \in Tables /\ pprd' \in Tables
    BY <2>2 DEF Base, Running, Sound
  <2>5. JobsWritten(disk, disk', pprd, pprd', SavedJobs(pprd, pprd'))
    BY <1>0, <2>2, <2>4, SaveAllFacts DEF Written
  <2>6. \A j \in Jobs : pprd'.jstatus[j] # STATUS_SEIZING
    BY <2>3 DEF Spared
  <2>7. \A j \in Jobs : disk'.jstatus[j] # STATUS_SEIZING
    BY <2>4, <2>5, <2>6, WrittenSpared DEF SafeInv
  <2> QED
    BY <1>1, <2>2, <2>3, <2>7
<1>4. ASSUME NEW p \in Printers, NewPrinterConfig(p)
      PROVE  SafeInv'
  <2>1. up /\ up' = up /\ excused' = excused
    BY <1>4 DEF NewPrinterConfig
  <2>2. PICK h, lost, owed :
          /\ Sound(h, recv, lost, owed)
          /\ Reread(pprd, h, disk, p) /\ Mounted(h, pprd')
    BY <1>4, ReloadFinds
  <2>3. Spared(pprd, excused)
    BY <2>1 DEF SafeInv
  <2>4. Spared(pprd', excused)
    BY <1>0, <2>2, <2>3, RereadSpared
  <2>5. \A j \in Jobs : disk'.jstatus[j] # STATUS_SEIZING
    <3> SUFFICES ASSUME NEW j \in Jobs
                 PROVE  disk'.jstatus[j] # STATUS_SEIZING
      OBVIOUS
    <3>1. \/ disk'.jstatus[j] = disk.jstatus[j]
          \/ disk'.jstatus[j] = WrittenStatus(pprd'.jstatus[j])
      BY <1>4, NewPrinterFiles
    <3>2. pprd'.jstatus[j] # STATUS_SEIZING
      BY <2>4 DEF Spared
    <3>3. WrittenStatus(pprd'.jstatus[j]) # STATUS_SEIZING
      BY <3>2 DEF WrittenStatus
    <3> QED
      BY <3>1, <3>3 DEF SafeInv
  <2> QED
    BY <1>1, <2>1, <2>4, <2>5
<1>5. ASSUME NEW g \in Groups, NewGroupConfig(g)
      PROVE  SafeInv'
  <2>1. /\ up /\ up' = up /\ excused' = excused
        /\ disk' = SaveJobs(disk, pprd, pprd', SavedJobs(pprd, pprd'))
    BY <1>5 DEF NewGroupConfig
  <2>2. Regrouped(pprd, pprd', disk, g)
    BY <1>5, ReloadFinds
  <2>3. Spared(pprd, excused)
    BY <2>1 DEF SafeInv
  <2>4. Spared(pprd', excused)
    BY <2>2, <2>3, RegroupedSpared
  <2>5. pprd \in Tables /\ pprd' \in Tables
    BY <2>1 DEF Base, Running, Sound
  <2>6. JobsWritten(disk, disk', pprd, pprd', SavedJobs(pprd, pprd'))
    <3>1. SavedJobs(pprd, pprd') \in SUBSET Jobs
      BY DEF SavedJobs
    <3> QED
      BY <1>0, <2>1, <2>5, <3>1, SaveJobsFacts
  <2>7. \A j \in Jobs : pprd'.jstatus[j] # STATUS_SEIZING
    BY <2>4 DEF Spared
  <2>8. \A j \in Jobs : disk'.jstatus[j] # STATUS_SEIZING
    BY <2>5, <2>6, <2>7, WrittenSpared DEF SafeInv
  <2> QED
    BY <1>1, <2>1, <2>4, <2>8
<1>6. CASE Shutdown
  BY <1>6 DEF Shutdown, Dies, vars, SafeInv
<1>7. CASE DieInHandler
  <2>1. PICK torn, done, dests, jobs :
          /\ Handler(FALSE, done, torn)
          /\ jobs \in SUBSET SavedJobs(pprd, pprd')
          /\ torn \in SUBSET Dests
          /\ pprd'.files \ pprd.files \subseteq jobs
          /\ disk' = Truncate(SaveJobs(SaveStates(disk, pprd', dests),
                                       pprd, pprd', jobs), torn)
    BY <1>7 DEF DieInHandler
  <2>2. ~ up'
    BY <1>7 DEF DieInHandler, Dies
  <2>3. /\ pprd \in Tables /\ pprd' \in Tables /\ up
        /\ disk.files = pprd.files /\ Tidy(pprd', {})
    <3>1. /\ up /\ Running /\ Tidy(pprd', {})
          /\ Sound(pprd', recv', loaded.stopping, -loaded.uncounted)
      BY <2>1, HandlerKeeps
    <3> QED
      BY <3>1 DEF Running, Sound
  <2>4. JobsWritten(disk, disk', pprd, pprd', jobs)
    <3>1. jobs \in SUBSET Jobs
      BY <2>1 DEF SavedJobs
    <3>2. Written(disk, disk', pprd, pprd', dests, jobs, torn)
      BY <1>0, <2>1, <2>3, <3>1, TornFacts
    <3> QED
      BY <3>2 DEF Written
  <2>5. Spared(pprd', excused')
    BY <2>1, <2>3, HandlerSpared DEF SafeInv
  <2>6. \A j \in Jobs : pprd'.jstatus[j] # STATUS_SEIZING
    BY <2>5 DEF Spared
  <2>7. \A j \in Jobs : disk'.jstatus[j] # STATUS_SEIZING
    BY <2>3, <2>4, <2>6, WrittenSpared DEF SafeInv
  <2>8. ASSUME NEW j \in Jobs, j \notin excused'
        PROVE  j \in disk'.files
    <3>1. j \in pprd'.files
      BY <2>3, <2>5, <2>8, SparedFiles
    <3>2. j \in jobs \/ j \in disk.files
      BY <2>1, <2>3, <3>1
    <3> QED
      BY <2>4, <3>1, <3>2 DEF JobsWritten
  <2> QED
    BY <2>2, <2>7, <2>8 DEF SafeInv
<1>8. CASE Restart
  <2>1. up' /\ excused' = excused
    BY <1>8 DEF Restart
  <2>2. /\ Came(LoadDests(disk), pprd', disk, disk.files)
        /\ NoneRead(disk, LoadDests(disk)) /\ disk'.jstatus = disk.jstatus
    BY <1>8, RestartCame
  <2>3. pprd'.cancelJob = {}
    BY <2>2 DEF Came, NoneRead, SameHands
  <2>4. \A j \in Jobs : pprd'.jstatus[j] # STATUS_SEIZING
    BY <1>0, <2>2, CameStatus DEF SafeInv
  <2>5. \A j \in Jobs : ~ Queued(pprd', j) => j \in excused
    BY <2>2 DEF Came, SafeInv
  <2>6. Spared(pprd', excused)
    BY <2>3, <2>4, <2>5 DEF Spared
  <2> QED
    BY <1>1, <2>1, <2>2, <2>6 DEF SafeInv
<1> QED
  BY <1>2, <1>3, <1>4, <1>5, <1>6, <1>7, <1>8 DEF RNext

---------------------------------------------------------------------------
(* The theorems *)

\* Whenever pprd dies, also within a handler and with a file half written,
\* what is on disk has the form that load_printer(), load_group() and
\* initialize_queue() expect, and the tables they make of it are of the
\* right types.
THEOREM RestartTypesHold == RSpec => []RTypeOK
<1>1. Base => RTypeOK
  <2> SUFFICES ASSUME Base
               PROVE  RTypeOK
    OBVIOUS
  <2>1. up => TypeOK
    BY DEF Base, Running, Sound, Entries, TypeOK
  <2>2. disk \in Disk
    BY DEF Base, Filing
  <2> QED
    BY <2>1, <2>2 DEF Base, RTypeOK
<1> QED
  BY <1>1, BaseInvariance, PTL

\* A pprd that has loaded printers with the status STARVED counts too few of
\* them, but never more than those too few: the error does not grow.
THEOREM ShortfallDoesNotGrow == RSpec => []ShortfallBounded
<1>1. Base => ShortfallBounded
  <2> SUFFICES ASSUME Base, up
               PROVE  Cardinality(Starved(pprd))
                        <= pprd.starving + loaded.uncounted
    BY DEF ShortfallBounded
  <2>1. pprd \in Tables /\ Starvers(pprd, -loaded.uncounted)
    BY DEF Base, Running, Sound
  <2>2. loaded.uncounted \in Nat
    BY LoadedTypes DEF Base
  <2>3. pprd.starving \in Int
    BY <2>1 DEF Tables
  <2>4. Cardinality(Starved(pprd)) \in Nat
    <3>1. Starved(pprd) \in SUBSET Printers
      BY DEF Starved
    <3> QED
      BY <3>1, PrintersFinite
  <2> QED
    BY <2>1, <2>2, <2>3, <2>4 DEF Starvers
<1> QED
  BY <1>1, BaseInvariance, PTL

\* The queue that a restart builds from the directory is in the order in
\* which it was, whatever the order of the directory and whatever priority
\* the files say, and it stays so; and the masks of all queued jobs agree
\* with what is mounted, also after a reload.
THEOREM QueueOrderSurvives ==
  ASSUME NeverLate \/ NeverRushed
  PROVE  RSpec => [](up => QueueOrder /\ NotNowFresh)
<1>1. Base => (up => QueueOrder /\ NotNowFresh)
  <2> SUFFICES ASSUME Base, up
               PROVE  QueueOrder /\ NotNowFresh
    OBVIOUS
  <2>1. Listed(pprd) /\ Distinct(pprd) /\ Ordered(pprd) /\ Fresh(pprd)
    BY DEF Base, Running, Tidy
  <2>2. NotNowFresh
    BY <2>1 DEF Fresh, Mask, NotNowFresh
  <2>3. QueueOrder
    BY <2>1 DEF QueueOrder, Listed, Distinct, Ordered, Precedes
  <2> QED
    BY <2>2, <2>3
<1> QED
  BY <1>1, BaseInvariance, PTL

\* After any number of deaths and starts, a printer is busy exactly while this
\* pprd has a pprdrv for it, and a job that prints or waits for a pprdrv to
\* end is in the hands of one, save those that load_printer() and
\* initialize_queue() have found in such a state.  Moving a job takes it out
\* of the hands of its pprdrv, which looks for it at its old destination.
THEOREM HandsMatchAlways ==
  ASSUME NeverMoved
  PROVE  RSpec => []HandsMatch
<1>1. Base /\ HandsInv => HandsMatch
  <2> SUFFICES ASSUME Base, HandsInv, up
               PROVE  /\ \A p \in Printers :
                           p \in pprd.pids <=>
                             pprd.status[p] \in Busy /\ p \notin loaded.stopping
                      /\ \A j \in Jobs \ loaded.stuck :
                           \/ pprd.jstatus[j] \in {STATUS_CANCEL,
                                                  STATUS_SEIZING}
                           \/ pprd.jstatus[j] >= 0
                           => \E p \in pprd.pids : pprd.job[p] = j
    BY DEF HandsMatch
  <2>1. Drivers(pprd, loaded.stopping) /\ Exclusive(pprd)
    BY DEF Base, Running, Sound
  <2>2. InHand(pprd, loaded.stuck)
    BY DEF HandsInv
  <2>3. \A p \in Printers :
          p \in pprd.pids <=>
            pprd.status[p] \in Busy /\ p \notin loaded.stopping
    BY <2>1 DEF Drivers
  <2>4. \A j \in Jobs : pprd.jstatus[j] >= 0 =>
                           \E p \in pprd.pids : pprd.job[p] = j
    BY <2>1 DEF Exclusive
  <2> QED
    BY <2>2, <2>3, <2>4 DEF InHand
<1> QED
  BY <1>1, BaseInvariance, HandsInvariance, PTL

\* A job that pprd knows to be printed has neither a file nor an entry, and
\* gets none again: whatever of its files a death leaves behind, no later
\* pprd prints it a second time.
THEOREM PrintedIsForgotten ==
  ASSUME NeverMoved
  PROVE  RSpec => []PrintedOnce
<1>1. RInit => PrintedOnce
  <2>1. RInit => \A j \in Jobs : fate[j] = "none"
    BY DEF RInit
  <2> QED
    BY <2>1 DEF PrintedOnce
<1>2. Base /\ Base' /\ HandsInv /\ PrintedOnce /\ [RNext]_rvars => PrintedOnce'
  BY PrintedStep
<1> QED
  BY <1>1, <1>2, BaseInvariance, HandsInvariance, PTL DEF RSpec

\* A printer that somebody has told to stop stays down over any number of
\* deaths and starts of pprd, until somebody starts it again or its spool
\* state file is lost, if nobody holds jobs (see StopsAreFinal).
THEOREM StoppedStayStopped ==
  ASSUME NeverHeld
  PROVE  RSpec => []StopSurvives
<1>1. RInit => ShutInv
  <2>1. RInit => /\ ordered = {}
                 /\ \A p \in Printers : pprd.status[p] = PRNSTATUS_IDLE
    BY DEF RInit, Init, InitTables
  <2> QED
    BY <2>1 DEF ShutInv, Down, Stopping
<1>2. Base /\ ShutInv /\ [RNext]_rvars => ShutInv'
  BY ShutStep
<1>3. ShutInv => StopSurvives
  BY DEF ShutInv, StopSurvives, Down, Stopping
<1> QED
  BY <1>1, <1>2, <1>3, BaseInvariance, PTL DEF RSpec

\* A pprd that has been started again finds all the work that its files
\* leave: whenever it waits, no printer is idle beside a job it could print,
\* if nobody holds jobs.  A reload may leave jobs to wait for no reason:
\* new_printer_config() tells one printer only of the jobs that are no longer
\* stranded, and new_group_config() lets the members of another group, or of
\* none, look for work.
THEOREM RestartsFindWork ==
  ASSUME NeverHeld
  PROVE  RSpec => []RestartsWork
<1>1. RInit => BusyInv
  <2>1. RInit => \A j \in Jobs : pprd.jstatus[j] = STATUS_NONE
    BY DEF RInit, Init, InitTables
  <2> QED
    BY <2>1 DEF BusyInv, Reasons, Work, Fits
<1>2. Base /\ BusyInv /\ [RNext]_rvars => BusyInv'
  BY BusyStep
<1>3. Base /\ BusyInv => RestartsWork
  <2> SUFFICES ASSUME Base, BusyInv, up, Waits,
                      NEW p \in Printers, NEW j \in Jobs \ loaded.aside,
                      pprd.status[p] = PRNSTATUS_IDLE, CanPrint(pprd, p, j)
               PROVE  FALSE
    BY DEF RestartsWork
  <2>1. Pending(todo) = {}
    BY DEF Waits, Pending
  <2>2. Queued(pprd, j) /\ Fresh(pprd)
    BY DEF CanPrint, Queued, Base, Running, Tidy
  <2>3. p \notin pprd.notnow[j]
    BY <2>2 DEF Fresh, Mask, CanPrint
  <2>4. Reasons(pprd) /\ Work(pprd, Pending(todo), loaded.aside)
    BY DEF BusyInv
  <2>5. pprd.jstatus[j] # STATUS_WAITING4MEDIA
    <3> SUFFICES ASSUME Lacking(pprd, j) PROVE FALSE
      BY <2>4 DEF Reasons
    <3> QED
      BY <2>3 DEF Lacking, CanPrint, Covers, PRNSTATUS_DELIBERATELY_DOWN
  <2>6. Fits(pprd, p, j)
    BY <2>3, <2>5 DEF Fits, Suitable, CanPrint
  <2> QED
    BY <2>1, <2>4, <2>6 DEF Work
<1> QED
  BY <1>1, <1>2, <1>3, BaseInvariance, PTL DEF RSpec

\* A job once accepted is on disk whenever pprd dies, between two events or
\* inside a handler and whichever files that handler has written, and is
\* queued whenever pprd runs, until it has been printed or somebody asks to
\* cancel it.  As for NoJobIsLost the queue array must have room for all jobs
\* and a destination must not begin to reject jobs while they are received,
\* and nobody may hold jobs (a request to cancel a job that is being seized
\* can stay with a printer and hit its next one); but jobs may be moved.
THEOREM JobsOutliveDeaths ==
  ASSUME NeverHeld, EnoughRoom, NeverLate \/ AlwaysOpen
  PROVE  RSpec => []JobsSurvive
<1>1. RInit => SafeInv
  <2> SUFFICES ASSUME RInit PROVE SafeInv
    OBVIOUS
  <2>1. /\ pprd.cancelJob = {} /\ excused = Jobs
        /\ \A j \in Jobs : pprd.jstatus[j] = STATUS_NONE
        /\ \A j \in Jobs : disk.jstatus[j] = STATUS_NONE
    BY DEF RInit, Init, InitTables, NoDisk
  <2> QED
    BY <2>1 DEF SafeInv, Spared
<1>2. Base /\ Base' /\ SafeInv /\ [RNext]_rvars => SafeInv'
  BY SafeStep
<1>3. SafeInv => JobsSurvive
  BY DEF SafeInv, JobsSurvive, Spared
<1> QED
  BY <1>1, <1>2, <1>3, BaseInvariance, PTL DEF RSpec
===========================================================================
