--------------------------- MODULE PprdJobProofs ---------------------------
(***************************************************************************)
(* Proofs that the requests of users are honoured by the spooler daemon,   *)
(* for any number of printers, groups and jobs: a request to cancel        *)
(* reaches the job it was meant for, a job is lost in no other way, no     *)
(* assertion of the code fails, and whoever waits for a printer to stop    *)
(* is told.  The hypotheses of the theorems name the commands that would   *)
(* break them.                                                             *)
(***************************************************************************)
EXTENDS PprdQueueProofs

USE DEF PRNSTATUS_IDLE, PRNSTATUS_PRINTING, PRNSTATUS_CANCELING,
        PRNSTATUS_SEIZING, PRNSTATUS_FAULT, PRNSTATUS_ENGAGED,
        PRNSTATUS_STARVED, PRNSTATUS_STOPT, PRNSTATUS_STOPPING,
        PRNSTATUS_HALTING, PrnStatus, Busy,
        STATUS_WAITING, STATUS_HELD, STATUS_WAITING4MEDIA, STATUS_ARRESTED,
        STATUS_CANCEL, STATUS_SEIZING, STATUS_STRANDED, STATUS_RECEIVING,
        STATUS_NONE, NoJob

---------------------------------------------------------------------------
(* Requests to cancel *)

\* The requests and the jobs they are about go together: every pprdrv prints
\* for the destination of its job, the printers that are to cancel are those
\* whose job is being canceled, and nobody seizes or holds anything.
Belongs(d) ==
  /\ \A p \in d.cancelJob :
       p \in d.pids /\ d.jstatus[d.job[p]] = STATUS_CANCEL
  /\ \A j \in Jobs : d.jstatus[j] = STATUS_CANCEL =>
       \E p \in d.pids \cap d.cancelJob : d.job[p] = j

Straight(d) ==
  /\ Belongs(d)
  /\ \A p \in d.pids : /\ d.job[p] \in Jobs
                       /\ d.jdest[d.job[p]] = d.jobdest[p]
                       /\ d.status[p] # PRNSTATUS_IDLE
  /\ \A j \in Jobs : d.jstatus[j] # STATUS_SEIZING
  /\ d.holdJob = {}
  /\ ~ d.fatal

\* A request to cancel is as it was.
SameCancel(d, e) ==
  \A j \in Jobs :
    /\ d.jstatus[j] = STATUS_CANCEL <=> e.jstatus[j] = STATUS_CANCEL
    /\ d.jstatus[j] # STATUS_SEIZING => e.jstatus[j] # STATUS_SEIZING

\* Neither the requests to cancel nor the hands of the printers change.
LEMMA FrameStraight ==
  ASSUME NEW d, NEW e, Straight(d), SameHands(d, e), e.fatal = d.fatal,
         \A j \in Jobs : e.jdest[j] = d.jdest[j],
         SameCancel(d, e),
         \A p \in d.pids : e.status[p] # PRNSTATUS_IDLE
  PROVE  Straight(e)
PROOF
<1>1. /\ e.pids = d.pids /\ e.job = d.job /\ e.jobdest = d.jobdest
      /\ e.cancelJob = d.cancelJob /\ e.holdJob = d.holdJob
  BY DEF SameHands
<1>2. Belongs(e)
  BY <1>1 DEF Straight, Belongs, SameCancel
<1> QED
  BY <1>1, <1>2 DEF Straight, SameCancel

\* Starting a job on an idle printer, which no pprdrv runs for.
LEMMA StartsStraight ==
  ASSUME NEW d \in Tables, NEW e, Straight(d), Starts(d, e)
  PROVE  Straight(e)
PROOF
<1>1. /\ e.jdest = d.jdest /\ e.cancelJob = d.cancelJob
      /\ e.holdJob = d.holdJob /\ e.fatal = d.fatal
  BY DEF Starts, SameJobs, SameEntries
<1>2. d.pids \subseteq Printers
  BY DEF Tables
<1>3. \A p \in d.pids : e.status[p] # PRNSTATUS_IDLE
  BY <1>2, StartsIdle DEF Straight
<1>4. CASE SameHands(d, e) /\ e.jstatus = d.jstatus
  BY <1>1, <1>3, <1>4, FrameStraight DEF SameCancel
<1>5. ASSUME NEW p \in Printers, NEW j \in Jobs, Begins(d, e, p, j)
      PROVE  Straight(e)
  <2>1. /\ d.status[p] = PRNSTATUS_IDLE /\ d.jstatus[j] = STATUS_WAITING
        /\ e.pids = d.pids \cup {p}
        /\ \A i \in Jobs : e.jstatus[i] = IF i = j THEN p ELSE d.jstatus[i]
        /\ e.status[p] = PRNSTATUS_PRINTING /\ e.job[p] = j
        /\ e.jobdest[p] = d.jdest[j]
        /\ \A q \in Printers \ {p} :
             e.job[q] = d.job[q] /\ e.jobdest[q] = d.jobdest[q]
    BY <1>5 DEF Begins, Fits
  <2>2. p \notin {STATUS_CANCEL, STATUS_SEIZING, STATUS_NONE}
    BY StatusRange
  <2>3. p \notin d.pids
    BY <2>1 DEF Straight
  <2>4. \A q \in d.pids : e.job[q] = d.job[q] /\ e.jobdest[q] = d.jobdest[q]
    BY <1>2, <2>1, <2>3
  <2>5. \A i \in Jobs : e.jstatus[i] \in {STATUS_CANCEL, STATUS_SEIZING,
                                          STATUS_NONE} =>
                          i # j /\ e.jstatus[i] = d.jstatus[i]
    BY <2>1, <2>2
  <2>6. Belongs(e)
    <3>1. ASSUME NEW q \in e.cancelJob
          PROVE  q \in e.pids /\ e.jstatus[e.job[q]] = STATUS_CANCEL
      <4>1. q \in d.pids /\ d.jstatus[d.job[q]] = STATUS_CANCEL
            /\ d.job[q] \in Jobs
        BY <1>1 DEF Straight, Belongs
      <4> QED
        BY <2>1, <2>4, <4>1
    <3>2. ASSUME NEW i \in Jobs, e.jstatus[i] = STATUS_CANCEL
          PROVE  \E q \in e.pids \cap e.cancelJob : e.job[q] = i
      <4>1. PICK q \in d.pids \cap d.cancelJob : d.job[q] = i
        BY <2>5, <3>2 DEF Straight, Belongs
      <4> QED
        BY <1>1, <2>1, <2>4, <4>1
    <3> QED
      BY <3>1, <3>2 DEF Belongs
  <2>7. \A q \in e.pids : /\ e.job[q] \in Jobs
                          /\ e.jdest[e.job[q]] = e.jobdest[q]
                          /\ e.status[q] # PRNSTATUS_IDLE
    BY <1>1, <1>3, <2>1, <2>4 DEF Straight
  <2>8. \A i \in Jobs : e.jstatus[i] # STATUS_SEIZING
    BY <2>5 DEF Straight
  <2> QED
    BY <1>1, <2>6, <2>7, <2>8 DEF Straight
<1> QED
  BY <1>4, <1>5 DEF Starts

\* A printer looks for work, or a job is offered.
LEMMA LookedStraight ==
  ASSUME NEW d \in Tables, NEW e, Straight(d)
  PROVE  /\ \A p : Looked(d, e, p) =>
                     Straight(e)
         /\ \A j : Offered(d, e, j) =>
                     Straight(e)
PROOF
  BY StartsStraight DEF Looked, Offered

\* Changes of wait reasons.
LEMMA ReasonsStraight ==
  ASSUME NEW d, NEW e, NEW p, ReasonsFollow(d, e, p)
  PROVE  SameCancel(d, e)
PROOF
<1>1. ASSUME NEW j \in Jobs
      PROVE  /\ d.jstatus[j] = STATUS_CANCEL <=> e.jstatus[j] = STATUS_CANCEL
             /\ d.jstatus[j] = STATUS_NONE <=> e.jstatus[j] = STATUS_NONE
             /\ d.jstatus[j] # STATUS_SEIZING => e.jstatus[j] # STATUS_SEIZING
  BY DEF ReasonsFollow
<1> QED
  BY <1>1 DEF SameCancel

\* A command changes the status of a printer; only one without a pprdrv is
\* made idle.
LEMMA ChangedStraight ==
  ASSUME NEW d, NEW e, Straight(d), NEW p, NEW s, Changed(d, e, p, s),
         d.pids \subseteq Printers, s = PRNSTATUS_IDLE => p \notin d.pids
  PROVE  Straight(e)
PROOF
<1>1. /\ SameHands(d, e) /\ e.fatal = d.fatal /\ e.jdest = d.jdest
      /\ ReasonsFollow(d, e, p)
      /\ \A q \in Printers : e.status[q] = IF q = p THEN s ELSE d.status[q]
  BY DEF Changed, SameJobs, SameEntries
<1>2. \A q \in d.pids : e.status[q] # PRNSTATUS_IDLE
  BY <1>1 DEF Straight
<1> QED
  BY <1>1, <1>2, ReasonsStraight, FrameStraight

\* The status of a printer without a pprdrv, or nothing, changes.
LEMMA SettledStraight ==
  ASSUME NEW d, NEW e, Straight(d), SameHands(d, e), e.jstatus = d.jstatus,
         e.fatal = d.fatal, e.jdest = d.jdest,
         \A p \in d.pids : e.status[p] = d.status[p]
  PROVE  Straight(e)
PROOF
<1>1. SameCancel(d, e)
  BY DEF SameCancel
<1>2. \A q \in d.pids : e.status[q] # PRNSTATUS_IDLE
  BY DEF Straight
<1> QED
  BY <1>1, <1>2, FrameStraight

\* Media are mounted.
LEMMA MountsStraight ==
  ASSUME NEW d, NEW e, Straight(d), NEW p, Mounts(d, e, p)
  PROVE  Straight(e)
PROOF
<1>1. /\ SameHands(d, e) /\ e.fatal = d.fatal /\ e.jdest = d.jdest
      /\ ReasonsFollow(d, e, p) /\ e.status = d.status
  BY DEF Mounts
<1>2. \A q \in d.pids : e.status[q] # PRNSTATUS_IDLE
  BY <1>1 DEF Straight
<1> QED
  BY <1>1, <1>2, ReasonsStraight, FrameStraight

\* The entry of a job that is not being canceled is brought up to date.
LEMMA RefreshedStraight ==
  ASSUME NEW d, NEW g, Straight(d), NEW j \in Jobs, NEW s,
         Refreshed(d, g, j, d.jdest[j], s), d.jstatus[j] # STATUS_CANCEL,
         s \notin {STATUS_CANCEL, STATUS_SEIZING, STATUS_NONE}
  PROVE  Straight(g)
PROOF
<1>1. /\ SameHands(d, g) /\ g.status = d.status /\ g.fatal = d.fatal
      /\ \A i \in Jobs : g.jdest[i] = d.jdest[i]
      /\ \A i \in Jobs : i # j => g.jstatus[i] = d.jstatus[i]
      /\ g.jstatus[j] \notin {STATUS_CANCEL, STATUS_SEIZING, STATUS_NONE}
  BY DEF Refreshed, OnlyEntry
<1>2. SameCancel(d, g)
  BY <1>1 DEF SameCancel
<1>3. \A q \in d.pids : g.status[q] # PRNSTATUS_IDLE
  BY <1>1 DEF Straight
<1> QED
  BY <1>1, <1>2, <1>3, FrameStraight

\* A request to cancel a job that prints: its printer is told.
LEMMA WithdrawnStraight ==
  ASSUME NEW d \in Tables, Exclusive(d), NEW e, Straight(d), NEW j \in Jobs,
         d.jstatus[j] \in d.pids, e.holdJob = d.holdJob,
         Withdrawn(d, e, j, d.jstatus[j], PRNSTATUS_PRINTING)
  PROVE  Straight(e)
PROOF
<1> DEFINE q == d.jstatus[j]
<1>1. /\ e.jdest = d.jdest
      /\ e.pids = d.pids /\ e.job = d.job /\ e.jobdest = d.jobdest
      /\ \A i \in Jobs : e.jstatus[i] = IF i = j THEN STATUS_CANCEL
                                                 ELSE d.jstatus[i]
      /\ e.cancelJob = d.cancelJob \cup {q} /\ e.fatal = d.fatal
      /\ \A p \in Printers :
           e.status[p] = IF p = q /\ d.status[p] = PRNSTATUS_PRINTING
                           THEN PRNSTATUS_CANCELING ELSE d.status[p]
  BY DEF Withdrawn, Becomes, SameJobs, SameEntries
<1>2. q \in d.pids /\ d.job[q] = j /\ d.pids \subseteq Printers
  <2>1. d.pids \subseteq Printers
    BY DEF Tables
  <2>2. d.jstatus[j] >= 0
    BY <2>1, StatusRange
  <2> QED
    BY <2>1, <2>2 DEF Exclusive
<1> HIDE DEF q
<1>3. Belongs(e)
  <2>1. ASSUME NEW p \in e.cancelJob
        PROVE  p \in e.pids /\ e.jstatus[e.job[p]] = STATUS_CANCEL
    <3>1. CASE p = q
      BY <1>1, <1>2, <3>1
    <3>2. CASE p # q
      <4>1. /\ p \in d.pids /\ d.jstatus[d.job[p]] = STATUS_CANCEL
            /\ d.job[p] \in Jobs
        BY <1>1, <3>2 DEF Straight, Belongs
      <4> QED
        BY <1>1, <4>1
    <3> QED
      BY <3>1, <3>2
  <2>2. ASSUME NEW i \in Jobs, e.jstatus[i] = STATUS_CANCEL
        PROVE  \E p \in e.pids \cap e.cancelJob : e.job[p] = i
    BY <1>1, <1>2, <2>2 DEF Straight, Belongs
  <2> QED
    BY <2>1, <2>2 DEF Belongs
<1>4. \A p \in e.pids : e.status[p] # PRNSTATUS_IDLE
  BY <1>1, <1>2 DEF Straight
<1>5. \A p \in e.pids : e.job[p] \in Jobs /\ e.jdest[e.job[p]] = e.jobdest[p]
  BY <1>1 DEF Straight
<1>6. \A i \in Jobs : e.jstatus[i] # STATUS_SEIZING
  BY <1>1 DEF Straight
<1>7. e.holdJob = {} /\ ~ e.fatal
  BY <1>1 DEF Straight
<1> QED
  BY <1>3, <1>4, <1>5, <1>6, <1>7 DEF Straight

\* A job that is in nobody's hands, any longer, gets a new status or goes; if
\* printer p had it, p is not asked to cancel any more.
LEMMA AsideStraight ==
  ASSUME NEW d, NEW e, Straight(d), NEW j \in Jobs,
         e.pids \subseteq d.pids, e.job = d.job, e.jobdest = d.jobdest,
         \A p \in d.pids : p \in e.pids <=> d.job[p] # j,
         e.cancelJob = d.cancelJob \cap e.pids, e.holdJob = {},
         e.status = d.status, e.fatal = d.fatal,
         \A i \in Jobs : i # j =>
           e.jstatus[i] = d.jstatus[i] /\ e.jdest[i] = d.jdest[i],
         e.jstatus[j] \notin {STATUS_CANCEL, STATUS_SEIZING}
  PROVE  Straight(e)
PROOF
<1>1. \A p \in e.pids : /\ p \in d.pids /\ d.job[p] # j /\ d.job[p] \in Jobs
                        /\ d.jdest[d.job[p]] = d.jobdest[p]
                        /\ d.status[p] # PRNSTATUS_IDLE
  BY DEF Straight
<1>2. Belongs(e)
  <2>1. ASSUME NEW p \in e.cancelJob
        PROVE  p \in e.pids /\ e.jstatus[e.job[p]] = STATUS_CANCEL
    <3>1. p \in d.cancelJob /\ p \in e.pids
      OBVIOUS
    <3>2. d.jstatus[d.job[p]] = STATUS_CANCEL
      BY <3>1 DEF Straight, Belongs
    <3> QED
      BY <1>1, <3>1, <3>2
  <2>2. ASSUME NEW i \in Jobs, e.jstatus[i] = STATUS_CANCEL
        PROVE  \E p \in e.pids \cap e.cancelJob : e.job[p] = i
    <3>1. i # j /\ d.jstatus[i] = STATUS_CANCEL
      BY <2>2
    <3>2. PICK p \in d.pids \cap d.cancelJob : d.job[p] = i
      BY <3>1 DEF Straight, Belongs
    <3> QED
      BY <3>1, <3>2
  <2> QED
    BY <2>1, <2>2 DEF Belongs
<1>3. \A i \in Jobs : e.jstatus[i] # STATUS_SEIZING
  BY DEF Straight
<1> QED
  BY <1>1, <1>2, <1>3 DEF Straight

\* The end of a pprdrv: no assertion fails, the job goes if it was printed or
\* was to be canceled, and no request to cancel is left for the next job.
LEMMA ExitedStraight ==
  ASSUME NEW d, NEW r, Sound(d, r, {}, 0), Straight(d),
         NEW e, NEW y, Exited(d, e, y)
  PROVE  Straight(e)
PROOF
<1>1. d \in Tables /\ Exclusive(d)
  BY DEF Sound
<1>2. PICK p \in d.pids, c \in ExitCodes :
        /\ c = "printed" => d.job[p] \in y
        /\ \/ d.jdest[d.job[p]] # d.jobdest[p]
           \/ \E f, g \in Tables :
                /\ Disposed(d, f, p, c)
                /\ Settled(f, g, p, PrnStatusAfter(d, p, c))
                /\ \/ e = g
                   \/ Looked(g, e, p)
  BY DEF Exited
<1> DEFINE j == d.job[p]
<1>3. /\ j \in Jobs /\ d.jdest[j] = d.jobdest[p] /\ p \in Printers
      /\ \A q \in d.pids : q \in d.pids \ {p} <=> d.job[q] # j
  BY <1>1, RunningJobs DEF Exclusive, Straight
<1>4. PICK f \in Tables, g \in Tables :
        /\ Disposed(d, f, p, c)
        /\ Settled(f, g, p, PrnStatusAfter(d, p, c))
        /\ e = g \/ Looked(g, e, p)
  BY <1>2, <1>3
<1>5. d.holdJob = {} /\ d.cancelJob \subseteq d.pids
  BY DEF Straight, Belongs
<1>6. Straight(f) /\ p \notin f.pids
  <2>1. CASE (c = "printed" \/ p \in d.cancelJob) /\ Leaves(d, f, p)
    <3>1. /\ f.pids = d.pids \ {p} /\ f.job = d.job /\ f.jobdest = d.jobdest
          /\ f.cancelJob = d.cancelJob \ {p} /\ f.holdJob = d.holdJob \ {p}
          /\ f.status = d.status /\ f.fatal = d.fatal
          /\ f.jstatus[j] = STATUS_NONE
          /\ \A i \in Jobs : i # j =>
               f.jstatus[i] = d.jstatus[i] /\ f.jdest[i] = d.jdest[i]
      BY <2>1 DEF Leaves
    <3>2. f.cancelJob = d.cancelJob \cap f.pids /\ f.holdJob = {}
      BY <1>5, <3>1
    <3>4. /\ \A q \in d.pids : q \in f.pids <=> d.job[q] # j
          /\ f.pids \subseteq d.pids
      BY <1>3, <3>1
    <3>5. f.jstatus[j] \notin {STATUS_CANCEL, STATUS_SEIZING}
      BY <3>1
    <3> HIDE DEF j
    <3>6. Straight(f)
      BY <1>3, <3>1, <3>2, <3>4, <3>5, AsideStraight
    <3> QED
      BY <3>1, <3>6
  <2>2. CASE ~ (c = "printed" \/ p \in d.cancelJob) /\ Keeps(d, f, p, c)
    <3> DEFINE s == JobStatusAfter(d, p, c)
    <3>1. PICK h \in Tables :
            Stays(d, h, p, c, s) /\ h.cancelJob = d.cancelJob /\ Starts(h, f)
      BY <2>2 DEF Keeps
    <3>2. /\ h.pids = d.pids \ {p} /\ h.job = d.job /\ h.jobdest = d.jobdest
          /\ h.holdJob = d.holdJob \ {p} /\ h.jdest = d.jdest
          /\ h.status = d.status /\ h.fatal = d.fatal
          /\ h.jstatus[j] = s
          /\ \A i \in Jobs : i # j => h.jstatus[i] = d.jstatus[i]
      BY <3>1 DEF Stays
    <3>3. h.cancelJob = d.cancelJob \cap h.pids /\ h.holdJob = {}
      BY <1>5, <2>2, <3>1, <3>2
    <3>4. h.jstatus[j] \notin {STATUS_CANCEL, STATUS_SEIZING, STATUS_NONE}
      BY <3>2 DEF JobStatusAfter
    <3>5. /\ \A q \in d.pids : q \in h.pids <=> d.job[q] # j
          /\ h.pids \subseteq d.pids
      BY <1>3, <3>2
    <3> HIDE DEF j, s
    <3>6. Straight(h)
      BY <1>3, <3>2, <3>3, <3>4, <3>5, AsideStraight
    <3>7. Straight(f)
      BY <3>1, <3>6, StartsStraight
    <3>8. p \notin f.pids
      <4>1. h.status[p] # PRNSTATUS_IDLE /\ p \notin h.pids
        BY <3>2 DEF Straight
      <4> QED
        BY <3>1, <4>1 DEF Starts, SameHands, Begins
    <3> QED
      BY <3>6, <3>7, <3>8
  <2> QED
    BY <1>3, <1>4, <2>1, <2>2 DEF Disposed
<1>7. Straight(g)
  <2>1. /\ SameHands(f, g) /\ g.jstatus = f.jstatus /\ g.fatal = f.fatal
        /\ g.jdest = f.jdest
        /\ \A q \in Printers \ {p} : g.status[q] = f.status[q]
    BY <1>4 DEF Settled, SameJobs, SameEntries
  <2>2. f.pids \subseteq Printers \ {p}
    BY <1>6 DEF Tables
  <2> QED
    BY <1>6, <2>1, <2>2, SettledStraight
<1> QED
  BY <1>4, <1>6, <1>7, LookedStraight

\* Every event that is not about ppr.
LEMMA ServedStraight ==
  ASSUME NeverHeld, NeverMoved, NEW d, NEW r, Sound(d, r, {}, 0), Straight(d),
         NEW e, NEW w, NEW v, NEW y \in SUBSET Jobs, Served(d, e, w, v, y)
  PROVE  Straight(e)
PROOF
<1>1. /\ d \in Tables /\ Exclusive(d) /\ Drivers(d, {})
      /\ d.pids \subseteq Printers
  BY DEF Sound, Tables
<1>2. CASE Alike(d, e)
  BY <1>2, SettledStraight DEF Alike, SameJobs, SameEntries
<1>3. CASE Woken(d, e)
  <2>1. PICK p \in Printers, g \in Tables :
          /\ d.status[p] \in {PRNSTATUS_FAULT, PRNSTATUS_ENGAGED,
                              PRNSTATUS_STARVED}
          /\ Idled(d, g, p) /\ Looked(g, e, p)
    BY <1>3 DEF Woken
  <2>2. p \notin d.pids
    BY <1>1, <2>1 DEF Drivers
  <2>3. Straight(g)
    BY <1>1, <2>1, <2>2, SettledStraight DEF Idled, SameJobs, SameEntries
  <2> QED
    BY <2>1, <2>3, LookedStraight
<1>4. CASE Stopped(d, e)
  <2>1. PICK p \in Printers, s \in {PRNSTATUS_STOPT, PRNSTATUS_STOPPING,
                                    PRNSTATUS_HALTING} : Changed(d, e, p, s)
    BY <1>4 DEF Stopped
  <2>2. s # PRNSTATUS_IDLE
    OBVIOUS
  <2> QED
    BY <1>1, <2>1, <2>2, ChangedStraight
<1>5. CASE Started(d, e)
  <2>1. PICK p \in Printers :
          \/ /\ d.status[p] \in {PRNSTATUS_FAULT, PRNSTATUS_STOPT}
             /\ \E g \in Tables : /\ Changed(d, g, p, PRNSTATUS_IDLE)
                                  /\ Looked(g, e, p)
          \/ \E s \in {PRNSTATUS_PRINTING} : Changed(d, e, p, s)
    BY <1>5 DEF Started
  <2>2. ASSUME d.status[p] \in {PRNSTATUS_FAULT, PRNSTATUS_STOPT},
               NEW g \in Tables, Changed(d, g, p, PRNSTATUS_IDLE),
               Looked(g, e, p)
        PROVE  Straight(e)
    <3>1. p \notin d.pids
      BY <1>1, <2>2 DEF Drivers
    <3>2. Straight(g)
      BY <1>1, <2>2, <3>1, ChangedStraight
    <3> QED
      BY <2>2, <3>2, LookedStraight
  <2>3. ASSUME NEW s \in {PRNSTATUS_PRINTING}, Changed(d, e, p, s)
        PROVE  Straight(e)
    <3>1. s # PRNSTATUS_IDLE
      OBVIOUS
    <3> QED
      BY <1>1, <2>3, <3>1, ChangedStraight
  <2> QED
    BY <2>1, <2>2, <2>3
<1>6. ~ Held(d, e) /\ ~ Moved(d, e)
  BY DEF Held, NeverHeld, Moved, NeverMoved
<1>7. CASE Released(d, e)
  <2>1. PICK j \in Jobs, g \in Tables :
          /\ d.jstatus[j] \in {STATUS_HELD, STATUS_ARRESTED}
          /\ Refreshed(d, g, j, d.jdest[j], STATUS_WAITING)
          /\ Offered(g, e, j)
    BY <1>7 DEF Released
  <2>2. /\ d.jstatus[j] # STATUS_CANCEL
        /\ STATUS_WAITING \notin {STATUS_CANCEL, STATUS_SEIZING, STATUS_NONE}
    BY <2>1
  <2>3. Straight(g)
    BY <2>1, <2>2, RefreshedStraight
  <2> QED
    BY <2>1, <2>3, LookedStraight
<1>8. CASE Canceled(d, e, y)
  <2>1. PICK j \in y :
          \/ /\ d.jstatus[j] \in d.pids
             /\ Withdrawn(d, e, j, d.jstatus[j], PRNSTATUS_PRINTING)
             /\ e.holdJob = d.holdJob
          \/ d.jstatus[j] = STATUS_SEIZING
          \/ /\ d.jstatus[j] < 0
             /\ d.jstatus[j] \notin {STATUS_CANCEL, STATUS_SEIZING}
             /\ Dequeued(d, e, j)
    BY <1>8 DEF Canceled
  <2>2. CASE /\ d.jstatus[j] \in d.pids
             /\ Withdrawn(d, e, j, d.jstatus[j], PRNSTATUS_PRINTING)
             /\ e.holdJob = d.holdJob
    BY <1>1, <2>2, WithdrawnStraight
  <2>3. d.jstatus[j] # STATUS_SEIZING
    BY DEF Straight
  <2>4. CASE /\ d.jstatus[j] < 0
             /\ d.jstatus[j] \notin {STATUS_CANCEL, STATUS_SEIZING}
             /\ Dequeued(d, e, j)
    <3>1. ASSUME NEW p \in d.pids, d.job[p] = j
          PROVE  FALSE
      <4>1. d.jstatus[j] = p
        BY <1>1, <2>4, <3>1 DEF Exclusive
      <4>2. p \in Printers
        BY <1>1
      <4> QED
        BY <2>4, <4>1, <4>2, StatusRange
    <3>2. /\ e.pids = d.pids /\ e.job = d.job /\ e.jobdest = d.jobdest
          /\ e.cancelJob = d.cancelJob /\ e.holdJob = d.holdJob
          /\ e.jstatus[j] = STATUS_NONE
          /\ e.status = d.status /\ e.fatal = d.fatal
          /\ \A i \in Jobs : i # j =>
               e.jstatus[i] = d.jstatus[i] /\ e.jdest[i] = d.jdest[i]
      BY <2>4 DEF Dequeued, SameHands
    <3>3. d.holdJob = {} /\ d.cancelJob \subseteq d.pids
      BY DEF Straight, Belongs
    <3>4. /\ e.cancelJob = d.cancelJob \cap e.pids /\ e.holdJob = {}
          /\ e.jstatus[j] \notin {STATUS_CANCEL, STATUS_SEIZING}
      BY <3>2, <3>3
    <3>5. /\ \A p \in d.pids : p \in e.pids <=> d.job[p] # j
          /\ e.pids \subseteq d.pids
      BY <3>1, <3>2
    <3>6. Straight(e)
      BY <3>2, <3>4, <3>5, AsideStraight
    <3> QED
      BY <3>6
  <2> QED
    BY <2>1, <2>2, <2>3, <2>4
<1>9. CASE Rushed(d, e)
  <2>1. /\ SameHands(d, e) /\ e.jstatus = d.jstatus /\ e.fatal = d.fatal
        /\ e.jdest = d.jdest /\ e.status = d.status
    BY <1>1, <1>9 DEF Rushed, RushJob, Tables, SameHands
  <2> QED
    BY <2>1, SettledStraight
<1>10. CASE Mounted(d, e)
  <2>1. PICK p \in Printers, g \in Tables :
          Mounts(d, g, p) /\ (e = g \/ Looked(g, e, p))
    BY <1>10 DEF Mounted
  <2>2. Straight(g)
    BY <2>1, MountsStraight
  <2> QED
    BY <2>1, <2>2, LookedStraight
<1>11. CASE Gated(d, e, v)
  <2>1. /\ SameHands(d, e) /\ e.jstatus = d.jstatus /\ e.fatal = d.fatal
        /\ e.jdest = d.jdest /\ e.status = d.status
    BY <1>1, <1>11 DEF Gated, Tables, SameHands
  <2> QED
    BY <2>1, SettledStraight
<1>12. CASE Exited(d, e, y)
  BY <1>12, ExitedStraight
<1>13. CASE e = d
  BY <1>13
<1>14. CASE \E p : Looked(d, e, p)
  BY <1>1, <1>14, LookedStraight
<1> QED
  BY <1>2, <1>3, <1>4, <1>5, <1>6, <1>7, <1>8, <1>9, <1>10, <1>11, <1>12,
     <1>13, <1>14 DEF Served, Attended

\* ppr announces a job: it is queued if its destination accepts it.
LEMMA SubmittedStraight ==
  ASSUME NEW d, NEW r \in SUBSET Jobs, Sound(d, r, {}, 0), Straight(d),
         NEW e, NEW s, NEW x, NEW y, Submitted(d, e, r, s, x, y)
  PROVE  Straight(e)
PROOF
<1>1. d \in Tables
  BY DEF Sound
<1>2. PICK j \in Jobs, st \in Arrivals :
        /\ ~ Queued(d, j)
        /\ y = IF JobDest[j] \in d.accepting THEN x \ {j} ELSE x
        /\ \/ /\ JobDest[j] \notin d.accepting \/ Len(d.queue) = QueueMax
              /\ OnlyFiles(d, e)
           \/ \E g \in Tables : Entered(d, g, j, st) /\ Offered(g, e, j)
  BY DEF Submitted
<1>3. CASE /\ JobDest[j] \notin d.accepting \/ Len(d.queue) = QueueMax
           /\ OnlyFiles(d, e)
  <2>1. Straight(e)
    BY <1>3, SettledStraight DEF OnlyFiles
  <2> QED
    BY <2>1
<1>4. ASSUME NEW g \in Tables, Entered(d, g, j, st), Offered(g, e, j)
      PROVE  Straight(e)
  <2>1. Refreshed(d, g, j, d.jdest[j], st)
    BY <1>4 DEF Entered
  <2>2. /\ st \notin {STATUS_CANCEL, STATUS_SEIZING, STATUS_NONE}
        /\ d.jstatus[j] # STATUS_CANCEL
    BY <1>2, InstanceAssumption DEF Queued
  <2>3. Straight(g)
    BY <2>1, <2>2, RefreshedStraight
  <2> QED
    BY <1>4, <2>3, LookedStraight
<1> QED
  BY <1>2, <1>3, <1>4

\* ppr has sent the rest of a job.
LEMMA ReloadedStraight ==
  ASSUME NEW d, NEW r \in SUBSET Jobs, Sound(d, r, {}, 0), Straight(d),
         NEW e, NEW s, Reloaded(d, e, r, s)
  PROVE  Straight(e)
PROOF
<1>1. d \in Tables /\ Receiving(d, r)
  BY DEF Sound
<1>2. PICK j \in r :
        \/ OnlyFiles(d, e)
        \/ \E g \in Tables :
             /\ Refreshed(d, g, j, d.jdest[j], STATUS_WAITING)
             /\ Offered(g, e, j)
  BY DEF Reloaded
<1>3. CASE OnlyFiles(d, e)
  BY <1>3, SettledStraight DEF OnlyFiles
<1>4. ASSUME NEW g \in Tables,
             Refreshed(d, g, j, d.jdest[j], STATUS_WAITING), Offered(g, e, j)
      PROVE  Straight(e)
  <2>1. /\ STATUS_WAITING \notin {STATUS_CANCEL, STATUS_SEIZING, STATUS_NONE}
        /\ d.jstatus[j] # STATUS_CANCEL
    BY <1>1 DEF Receiving
  <2>2. Straight(g)
    BY <1>4, <2>1, RefreshedStraight
  <2> QED
    BY <1>4, <2>2, LookedStraight
<1> QED
  BY <1>2, <1>3, <1>4

\* The inductive invariant of the requests to cancel.
CancelInv == Straight(pprd)

\* Every event honours the requests to cancel.
LEMMA CancelInvariance ==
  ASSUME NeverHeld, NeverMoved
  PROVE  Spec => []CancelInv
PROOF
<1>1. Init => CancelInv
  <2> SUFFICES ASSUME Init PROVE CancelInv
    OBVIOUS
  <2>1. /\ pprd.pids = {} /\ pprd.cancelJob = {} /\ pprd.holdJob = {}
        /\ pprd.fatal = FALSE
        /\ \A j \in Jobs : pprd.jstatus[j] = STATUS_NONE
    BY DEF Init, InitTables
  <2> QED
    BY <2>1 DEF CancelInv, Straight, Belongs
<1>2. ASSUME IndInv, IndInv', Asked, [Next]_vars, CancelInv
      PROVE  CancelInv'
  <2>1. /\ Sound(pprd, recv, {}, 0) /\ recv \in SUBSET Jobs
        /\ excused' \in SUBSET Jobs /\ Straight(pprd)
    BY <1>2 DEF IndInv, CancelInv
  <2>2. CASE UNCHANGED vars
    BY <1>2, <2>2 DEF vars, CancelInv
  <2>3. CASE EventDoes
    <3>1. Straight(pprd')
      <4>1. CASE Served(pprd, pprd', Pending(todo), Pending(todo'), excused')
        BY <2>1, <4>1, ServedStraight
      <4>2. CASE Submitted(pprd, pprd', recv, recv', excused, excused')
        BY <2>1, <4>2, SubmittedStraight
      <4>3. CASE Reloaded(pprd, pprd', recv, recv')
        BY <2>1, <4>3, ReloadedStraight
      <4> QED
        BY <2>3, <4>1, <4>2, <4>3 DEF EventDoes
    <3> QED
      BY <3>1 DEF CancelInv
  <2> QED
    BY <1>2, <2>2, <2>3, Steps
<1>3. CancelInv /\ IndInv /\ IndInv' /\ Asked /\ [Next]_vars => CancelInv'
  BY <1>2
<1> QED
  BY <1>1, <1>3, Invariance, AskedHolds, PTL DEF Spec

\* A request to cancel is always for the job that prints now: the flag of the
\* printer and the status of its job stay in step until pprdrv exits, if
\* nobody holds or moves jobs.  (A job that is being canceled can be held or
\* moved away from under its pprdrv.)
THEOREM CancelsReachTheirJob ==
  ASSUME NeverHeld, NeverMoved
  PROVE  Spec => []CancelFlagBelongs
PROOF
<1>1. CancelInv => CancelFlagBelongs
  BY DEF CancelInv, Straight, Belongs, CancelFlagBelongs
<1> QED
  BY <1>1, CancelInvariance, PTL

\* No assertion of the code fails, under the same hypotheses: the job of a
\* pprdrv that ends is always found where it was.
THEOREM NoAssertionFails ==
  ASSUME NeverHeld, NeverMoved
  PROVE  Spec => []NoFatal
PROOF
<1>1. CancelInv => NoFatal
  BY DEF CancelInv, Straight, NoFatal
<1> QED
  BY <1>1, CancelInvariance, PTL

---------------------------------------------------------------------------
(* Jobs that must not be gone *)

\* The queue array has room for all jobs at once.
EnoughRoom == IsFiniteSet(Jobs) /\ Cardinality(Jobs) <= QueueMax

\* While a job is not queued there is room for it.
LEMMA RoomForOne ==
  ASSUME EnoughRoom, NEW d \in Tables, Listed(d), Distinct(d),
         NEW j \in Jobs, ~ Queued(d, j)
  PROVE  Len(d.queue) # QueueMax
PROOF
<1> DEFINE n == Len(d.queue)
           T == Jobs \ {j}
<1> SUFFICES ASSUME n = QueueMax PROVE FALSE
  OBVIOUS
<1>1. d.queue \in Seq(Jobs) /\ n \in Nat /\ DOMAIN d.queue = 1 .. n
  BY DEF Tables
<1>2. d.queue \in [1 .. n -> T]
  BY <1>1 DEF Listed
<1>3. IsFiniteSet(T) /\ Cardinality(T) = Cardinality(Jobs) - 1
  BY FS_RemoveElement DEF EnoughRoom
<1>4. IsFiniteSet(1 .. n) /\ Cardinality(1 .. n) = n
  <2>1. n >= 1
    BY LimitsAssumption
  <2> QED
    BY <1>1, <2>1, FS_Interval
<1>5. Cardinality(T) < Cardinality(1 .. n)
  <2>1. Cardinality(Jobs) \in Nat
    BY FS_CardinalityType DEF EnoughRoom
  <2> QED
    BY <1>1, <1>3, <1>4, <2>1 DEF EnoughRoom
<1>6. \E a, b \in 1 .. n : a # b /\ d.queue[a] = d.queue[b]
  <2> DEFINE S == 1 .. n
             f == d.queue
  <2>1. /\ IsFiniteSet(S) /\ IsFiniteSet(T) /\ f \in [S -> T]
        /\ Cardinality(T) < Cardinality(S)
    BY <1>2, <1>3, <1>4, <1>5
  <2> HIDE DEF S, f, T, n
  <2>2. \E a, b \in S : a # b /\ f[a] = f[b]
    BY <2>1, FS_PigeonHole
  <2> QED
    BY <2>2 DEF S, f
<1> HIDE DEF n, T
<1>7. PICK a \in 1 .. n, b \in 1 .. n : a < b /\ d.queue[a] = d.queue[b]
  BY <1>1, <1>6
<1> QED
  BY <1>1, <1>7 DEF Distinct

\* No pprdrv is told to cancel a job that is not among y, the jobs that may be
\* gone; every other job is queued, and none is being seized.
Spared(d, y) ==
  /\ \A p \in d.cancelJob : /\ p \in d.pids /\ d.job[p] \in y
                            /\ d.status[p] # PRNSTATUS_IDLE
  /\ \A j \in Jobs : d.jstatus[j] # STATUS_SEIZING
  /\ \A j \in Jobs : ~ Queued(d, j) => j \in y

\* No job leaves the queue or comes to be seized.
NoneGoes(d, e) ==
  \A j \in Jobs :
    /\ d.jstatus[j] # STATUS_SEIZING => e.jstatus[j] # STATUS_SEIZING
    /\ Queued(d, j) => Queued(e, j)

\* No pprdrv is told anything.
LEMMA FrameSpared ==
  ASSUME NEW d, NEW e, NEW y, Spared(d, y), NoneGoes(d, e),
         e.pids = d.pids, e.job = d.job, e.cancelJob \subseteq d.cancelJob,
         \A p \in d.cancelJob : e.status[p] # PRNSTATUS_IDLE
  PROVE  Spared(e, y)
<1>1. \A p \in e.cancelJob : /\ p \in e.pids /\ e.job[p] \in y
                             /\ e.status[p] # PRNSTATUS_IDLE
  BY DEF Spared
<1>2. \A j \in Jobs : e.jstatus[j] # STATUS_SEIZING
  BY DEF Spared, NoneGoes
<1>3. \A j \in Jobs : ~ Queued(e, j) => j \in y
  BY DEF Spared, NoneGoes
<1> QED
  BY <1>1, <1>2, <1>3 DEF Spared

\* A job is started on a printer that has been told nothing.
LEMMA StartsSpared ==
  ASSUME NEW d \in Tables, NEW y, Spared(d, y), NEW e, Starts(d, e)
  PROVE  Spared(e, y)
<1>1. e.cancelJob = d.cancelJob /\ d.cancelJob \subseteq Printers
  BY DEF Starts, Tables
<1>2. \A p \in d.cancelJob : e.status[p] # PRNSTATUS_IDLE
  BY <1>1, StartsIdle DEF Spared
<1>3. CASE SameHands(d, e) /\ e.jstatus = d.jstatus
  <2>1. NoneGoes(d, e)
    BY <1>3 DEF NoneGoes, Queued
  <2> QED
    BY <1>1, <1>2, <1>3, <2>1, FrameSpared DEF SameHands
<1>4. ASSUME NEW p \in Printers, NEW j \in Jobs, Begins(d, e, p, j)
      PROVE  Spared(e, y)
  <2>1. /\ d.status[p] = PRNSTATUS_IDLE
        /\ e.pids = d.pids \cup {p}
        /\ \A i \in Jobs : e.jstatus[i] = IF i = j THEN p ELSE d.jstatus[i]
        /\ \A q \in Printers \ {p} : e.job[q] = d.job[q]
    BY <1>4 DEF Begins
  <2>2. p \notin {STATUS_NONE, STATUS_SEIZING}
    BY StatusRange
  <2>3. p \notin d.cancelJob
    BY <2>1 DEF Spared
  <2>4. \A q \in e.cancelJob : /\ q \in e.pids /\ e.job[q] \in y
                               /\ e.status[q] # PRNSTATUS_IDLE
    BY <1>1, <1>2, <2>1, <2>3 DEF Spared
  <2>5. \A i \in Jobs : e.jstatus[i] # STATUS_SEIZING
    BY <2>1, <2>2 DEF Spared
  <2>6. \A i \in Jobs : ~ Queued(e, i) => ~ Queued(d, i)
    BY <2>1, <2>2 DEF Queued
  <2>7. \A i \in Jobs : ~ Queued(e, i) => i \in y
    BY <2>6 DEF Spared
  <2> QED
    BY <2>4, <2>5, <2>7 DEF Spared
<1> QED
  BY <1>3, <1>4 DEF Starts

\* A printer looks for work, or a job is offered.
LEMMA LookedSpared ==
  ASSUME NEW d \in Tables, NEW y, Spared(d, y), NEW e
  PROVE  /\ \A p : Looked(d, e, p) => Spared(e, y)
         /\ \A j : Offered(d, e, j) => Spared(e, y)
  BY StartsSpared DEF Looked, Offered

\* Wait reasons are not about jobs that go.
LEMMA ReasonsSpared ==
  ASSUME NEW d, NEW y, Spared(d, y), NEW e, NEW p, SameHands(d, e),
         ReasonsFollow(d, e, p),
         \A q \in d.cancelJob : e.status[q] # PRNSTATUS_IDLE
  PROVE  Spared(e, y)
<1>1. NoneGoes(d, e)
  BY DEF ReasonsFollow, NoneGoes, Queued
<1> QED
  BY <1>1, FrameSpared DEF SameHands

\* Nor is an entry that is brought up to date.
LEMMA RefreshedSpared ==
  ASSUME NEW d, NEW g, NEW y, Spared(d, y), NEW j \in Jobs, NEW dest, NEW s,
         Refreshed(d, g, j, dest, s), s \notin {STATUS_NONE, STATUS_SEIZING}
  PROVE  Spared(g, y) /\ Queued(g, j)
<1>1. /\ SameHands(d, g) /\ g.status = d.status
      /\ \A i \in Jobs : i # j => g.jstatus[i] = d.jstatus[i]
      /\ g.jstatus[j] \notin {STATUS_NONE, STATUS_SEIZING}
  BY DEF Refreshed, OnlyEntry
<1>2. NoneGoes(d, g) /\ Queued(g, j)
  BY <1>1 DEF NoneGoes, Queued
<1>3. \A q \in d.cancelJob : g.status[q] # PRNSTATUS_IDLE
  BY <1>1 DEF Spared
<1> QED
  BY <1>1, <1>2, <1>3, FrameSpared DEF SameHands

\* The end of a pprdrv: its job goes only if it may.
LEMMA ExitedSpared ==
  ASSUME NEW d, NEW r, NEW lost, NEW owed, Sound(d, r, lost, owed),
         NEW y, Spared(d, y), NEW e, Exited(d, e, y)
  PROVE  Spared(e, y)
<1>1. d \in Tables /\ Exclusive(d)
  BY DEF Sound
<1>2. PICK p \in d.pids, c \in ExitCodes :
        /\ c = "printed" => d.job[p] \in y
        /\ \/ e = Die(d)
           \/ \E f, g \in Tables :
                /\ Disposed(d, f, p, c)
                /\ Settled(f, g, p, PrnStatusAfter(d, p, c))
                /\ \/ e = g
                   \/ Looked(g, e, p)
  BY DEF Exited
<1>3. p \in Printers /\ d.job[p] \in Jobs
  BY <1>1, RunningJobs
<1>4. CASE e = Die(d)
  <2>1. /\ e.pids = d.pids /\ e.job = d.job /\ e.cancelJob = d.cancelJob
        /\ e.status = d.status /\ e.jstatus = d.jstatus
    BY <1>1, <1>4 DEF Die, Tables
  <2>2. NoneGoes(d, e)
    BY <2>1 DEF NoneGoes, Queued
  <2>3. \A q \in d.cancelJob : e.status[q] # PRNSTATUS_IDLE
    BY <2>1 DEF Spared
  <2> QED
    BY <2>1, <2>2, <2>3, FrameSpared
<1>5. ASSUME NEW f \in Tables, NEW g \in Tables, Disposed(d, f, p, c),
             Settled(f, g, p, PrnStatusAfter(d, p, c)),
             e = g \/ Looked(g, e, p)
      PROVE  Spared(e, y)
  <2> DEFINE j == d.job[p]
  <2>1. ASSUME NEW h, h.pids = d.pids \ {p}, h.job = d.job,
               h.cancelJob = d.cancelJob \ {p}, h.status = d.status,
               h.jstatus[j] # STATUS_SEIZING,
               h.jstatus[j] = STATUS_NONE => j \in y,
               \A i \in Jobs : i # j => h.jstatus[i] = d.jstatus[i]
        PROVE  Spared(h, y) /\ p \notin h.cancelJob
    <3>1. \A q \in h.cancelJob : /\ q \in h.pids /\ h.job[q] \in y
                                 /\ h.status[q] # PRNSTATUS_IDLE
      BY <2>1 DEF Spared
    <3>2. \A i \in Jobs : h.jstatus[i] # STATUS_SEIZING
      BY <2>1 DEF Spared
    <3>3. \A i \in Jobs : ~ Queued(h, i) => i \in y
      <4> SUFFICES ASSUME NEW i \in Jobs, h.jstatus[i] = STATUS_NONE
                   PROVE  i \in y
        BY DEF Queued
      <4>1. CASE i = j
        BY <2>1, <4>1
      <4>2. CASE i # j
        BY <2>1, <4>2 DEF Spared, Queued
      <4> QED
        BY <4>1, <4>2
    <3> QED
      BY <2>1, <3>1, <3>2, <3>3 DEF Spared
  <2>2. Spared(f, y) /\ p \notin f.cancelJob
    <3>1. CASE (c = "printed" \/ p \in d.cancelJob) /\ Leaves(d, f, p)
      <4>1. /\ f.pids = d.pids \ {p} /\ f.job = d.job
            /\ f.cancelJob = d.cancelJob \ {p} /\ f.status = d.status
            /\ f.jstatus[j] = STATUS_NONE
            /\ \A i \in Jobs : i # j => f.jstatus[i] = d.jstatus[i]
        BY <3>1 DEF Leaves
      <4>2. j \in y
        BY <1>2, <3>1 DEF Spared
      <4>3. f.jstatus[j] # STATUS_SEIZING
        BY <4>1
      <4> HIDE DEF j
      <4> QED
        BY <2>1, <4>1, <4>2, <4>3
    <3>2. CASE /\ Stays(d, f, p, c, d.jstatus[j])
               /\ d.jstatus[j] \in {STATUS_CANCEL, STATUS_SEIZING}
               /\ f.cancelJob = d.cancelJob \ {p}
      <4>1. /\ f.pids = d.pids \ {p} /\ f.job = d.job
            /\ f.status = d.status /\ f.jstatus[j] = d.jstatus[j]
            /\ \A i \in Jobs : i # j => f.jstatus[i] = d.jstatus[i]
        BY <3>2 DEF Stays
      <4>2. f.jstatus[j] = STATUS_CANCEL
        BY <1>3, <3>2, <4>1 DEF Spared
      <4>3. f.jstatus[j] # STATUS_SEIZING /\ f.jstatus[j] # STATUS_NONE
        BY <4>2
      <4> HIDE DEF j
      <4> QED
        BY <2>1, <3>2, <4>1, <4>3
    <3>3. CASE ~ (c = "printed" \/ p \in d.cancelJob) /\ Keeps(d, f, p, c)
      <4>1. PICK h \in Tables :
              /\ Stays(d, h, p, c, JobStatusAfter(d, p, c))
              /\ h.cancelJob = d.cancelJob /\ Starts(h, f)
        BY <3>3 DEF Keeps
      <4>2. /\ h.pids = d.pids \ {p} /\ h.job = d.job
            /\ h.status = d.status
            /\ h.jstatus[j] = JobStatusAfter(d, p, c)
            /\ \A i \in Jobs : i # j => h.jstatus[i] = d.jstatus[i]
        BY <4>1 DEF Stays
      <4>3. h.jstatus[j] # STATUS_SEIZING /\ h.jstatus[j] # STATUS_NONE
        BY <4>2 DEF JobStatusAfter
      <4>4. h.cancelJob = d.cancelJob \ {p}
        BY <3>3, <4>1
      <4> HIDE DEF j
      <4>5. Spared(h, y) /\ p \notin h.cancelJob
        BY <2>1, <4>2, <4>3, <4>4
      <4>6. Spared(f, y)
        BY <4>1, <4>5, StartsSpared
      <4> QED
        BY <4>1, <4>5, <4>6 DEF Starts
    <3> QED
      BY <1>5, <3>1, <3>2, <3>3 DEF Disposed
  <2>3. /\ g.pids = f.pids /\ g.job = f.job /\ g.cancelJob = f.cancelJob
        /\ g.jstatus = f.jstatus
        /\ \A q \in Printers \ {p} : g.status[q] = f.status[q]
    BY <1>5 DEF Settled, SameHands
  <2>4. NoneGoes(f, g)
    BY <2>3 DEF NoneGoes, Queued
  <2>5. \A q \in f.cancelJob : g.status[q] # PRNSTATUS_IDLE
    <3>1. f.cancelJob \subseteq Printers \ {p}
      BY <2>2 DEF Tables
    <3> QED
      BY <2>2, <2>3, <3>1 DEF Spared
  <2>6. Spared(g, y)
    BY <2>2, <2>3, <2>4, <2>5, FrameSpared
  <2> QED
    BY <1>5, <2>6, LookedSpared
<1> QED
  BY <1>2, <1>4, <1>5

\* The printer of a job that prints is told to cancel it; the job may be gone.
LEMMA WithdrawnSpared ==
  ASSUME NEW d \in Tables, Exclusive(d), NEW y,
         Spared(d, y), NEW e, NEW j \in Jobs, j \in y, NEW q \in d.pids,
         d.jstatus[j] = q, d.status[q] # PRNSTATUS_IDLE, NEW from,
         Withdrawn(d, e, j, q, from)
  PROVE  Spared(e, y)
<1>1. /\ e.pids = d.pids /\ e.job = d.job
      /\ \A i \in Jobs : e.jstatus[i] = IF i = j THEN STATUS_CANCEL
                                                 ELSE d.jstatus[i]
      /\ e.cancelJob = d.cancelJob \cup {q}
      /\ \A p \in Printers : e.status[p] \in {d.status[p], PRNSTATUS_CANCELING}
  BY DEF Withdrawn, Becomes
<1>2. q \in Printers /\ d.cancelJob \subseteq Printers
  BY DEF Tables
<1>3. d.job[q] = j
  <2>1. d.jstatus[j] >= 0
    BY <1>2, StatusRange
  <2> QED
    BY <2>1 DEF Exclusive
<1>4. \A p \in e.cancelJob : /\ p \in e.pids /\ e.job[p] \in y
                             /\ e.status[p] # PRNSTATUS_IDLE
  BY <1>1, <1>2, <1>3 DEF Spared
<1>5. \A i \in Jobs : e.jstatus[i] # STATUS_SEIZING
  BY <1>1 DEF Spared
<1>6. \A i \in Jobs : ~ Queued(e, i) => ~ Queued(d, i)
  BY <1>1 DEF Queued
<1>7. \A i \in Jobs : ~ Queued(e, i) => i \in y
  BY <1>6 DEF Spared
<1> QED
  BY <1>4, <1>5, <1>7 DEF Spared

\* Every event that is not about ppr.
LEMMA ServedSpared ==
  ASSUME NeverHeld, NEW d, NEW r, NEW lost, NEW owed,
         Sound(d, r, lost, owed), NEW y \in SUBSET Jobs, Spared(d, y),
         NEW e, NEW w, NEW v, Served(d, e, w, v, y)
  PROVE  Spared(e, y)
<1>1. /\ d \in Tables /\ Exclusive(d) /\ Drivers(d, lost)
      /\ d.pids \subseteq Printers /\ d.cancelJob \subseteq d.pids
      /\ \A p \in d.cancelJob : d.status[p] # PRNSTATUS_IDLE
  BY DEF Sound, Tables, Spared
<1>2. ASSUME NEW g, SameHands(d, g), g.jstatus = d.jstatus,
             \A p \in d.pids : g.status[p] = d.status[p]
      PROVE  Spared(g, y)
  <2>1. NoneGoes(d, g)
    BY <1>2 DEF NoneGoes, Queued
  <2>2. \A p \in d.cancelJob : g.status[p] # PRNSTATUS_IDLE
    BY <1>1, <1>2
  <2> QED
    BY <1>2, <2>1, <2>2, FrameSpared DEF SameHands
<1>3. ASSUME NEW g, NEW p, NEW s, Changed(d, g, p, s),
             s = PRNSTATUS_IDLE => p \notin d.pids
      PROVE  Spared(g, y)
  <2>1. /\ SameHands(d, g) /\ ReasonsFollow(d, g, p)
        /\ \A q \in Printers : g.status[q] = IF q = p THEN s ELSE d.status[q]
    BY <1>3 DEF Changed
  <2>2. \A q \in d.cancelJob : g.status[q] # PRNSTATUS_IDLE
    BY <1>1, <1>3, <2>1
  <2> QED
    BY <2>1, <2>2, ReasonsSpared
<1>4. CASE Alike(d, e)
  BY <1>2, <1>4 DEF Alike
<1>5. CASE Woken(d, e)
  <2>1. PICK p \in Printers, g \in Tables :
          /\ d.status[p] \in {PRNSTATUS_FAULT, PRNSTATUS_ENGAGED,
                              PRNSTATUS_STARVED}
          /\ Idled(d, g, p) /\ Looked(g, e, p)
    BY <1>5 DEF Woken
  <2>2. p \notin d.pids
    BY <1>1, <2>1 DEF Drivers
  <2>3. Spared(g, y)
    BY <1>1, <1>2, <2>1, <2>2 DEF Idled
  <2> QED
    BY <2>1, <2>3, LookedSpared
<1>6. CASE Stopped(d, e)
  <2>1. PICK p \in Printers, s \in {PRNSTATUS_STOPT, PRNSTATUS_STOPPING,
                                    PRNSTATUS_HALTING} : Changed(d, e, p, s)
    BY <1>6 DEF Stopped
  <2>2. s # PRNSTATUS_IDLE
    OBVIOUS
  <2> QED
    BY <1>3, <2>1, <2>2
<1>7. CASE Started(d, e)
  <2>1. PICK p \in Printers :
          \/ /\ d.status[p] \in {PRNSTATUS_FAULT, PRNSTATUS_STOPT}
             /\ \E g \in Tables : /\ Changed(d, g, p, PRNSTATUS_IDLE)
                                  /\ Looked(g, e, p)
          \/ \E s \in {PRNSTATUS_PRINTING} : Changed(d, e, p, s)
    BY <1>7 DEF Started
  <2>2. ASSUME d.status[p] \in {PRNSTATUS_FAULT, PRNSTATUS_STOPT},
               NEW g \in Tables, Changed(d, g, p, PRNSTATUS_IDLE),
               Looked(g, e, p)
        PROVE  Spared(e, y)
    <3>1. p \notin d.pids
      BY <1>1, <2>2 DEF Drivers
    <3>2. Spared(g, y)
      BY <1>3, <2>2, <3>1
    <3> QED
      BY <2>2, <3>2, LookedSpared
  <2>3. ASSUME NEW s \in {PRNSTATUS_PRINTING}, Changed(d, e, p, s)
        PROVE  Spared(e, y)
    <3>1. s # PRNSTATUS_IDLE
      OBVIOUS
    <3> QED
      BY <1>3, <2>3, <3>1
  <2> QED
    BY <2>1, <2>2, <2>3
<1>8. ~ Held(d, e)
  BY DEF Held, NeverHeld
<1>9. CASE Released(d, e)
  <2>1. PICK j \in Jobs, g \in Tables :
          /\ Refreshed(d, g, j, d.jdest[j], STATUS_WAITING)
          /\ Offered(g, e, j)
    BY <1>9 DEF Released
  <2>2. STATUS_WAITING \notin {STATUS_NONE, STATUS_SEIZING}
    OBVIOUS
  <2>3. Spared(g, y)
    BY <2>1, <2>2, RefreshedSpared
  <2> QED
    BY <2>1, <2>3, LookedSpared
<1>10. CASE Canceled(d, e, y)
  <2>1. PICK j \in y :
          \/ /\ d.jstatus[j] \in d.pids
             /\ Withdrawn(d, e, j, d.jstatus[j], PRNSTATUS_PRINTING)
          \/ d.jstatus[j] = STATUS_SEIZING
          \/ Dequeued(d, e, j)
    BY <1>10 DEF Canceled
  <2>2. CASE /\ d.jstatus[j] \in d.pids
             /\ Withdrawn(d, e, j, d.jstatus[j], PRNSTATUS_PRINTING)
    <3>1. PICK q \in d.pids : q = d.jstatus[j]
      BY <2>2
    <3>2. d.status[q] # PRNSTATUS_IDLE
      BY <1>1 DEF Drivers
    <3> QED
      BY <1>1, <2>2, <3>1, <3>2, WithdrawnSpared
  <2>3. d.jstatus[j] # STATUS_SEIZING
    BY DEF Spared
  <2>4. CASE Dequeued(d, e, j)
    <3>1. /\ e.pids = d.pids /\ e.job = d.job /\ e.cancelJob = d.cancelJob
          /\ e.jstatus[j] = STATUS_NONE /\ e.status = d.status
          /\ \A i \in Jobs : i # j => e.jstatus[i] = d.jstatus[i]
      BY <2>4 DEF Dequeued, SameHands
    <3>2. \A p \in e.cancelJob : /\ p \in e.pids /\ e.job[p] \in y
                                 /\ e.status[p] # PRNSTATUS_IDLE
      BY <3>1 DEF Spared
    <3>3. \A i \in Jobs : e.jstatus[i] # STATUS_SEIZING
      BY <3>1 DEF Spared
    <3>4. \A i \in Jobs : ~ Queued(e, i) => i \in y
      BY <3>1 DEF Spared, Queued
    <3> QED
      BY <3>2, <3>3, <3>4 DEF Spared
  <2> QED
    BY <2>1, <2>2, <2>3, <2>4
<1>11. CASE Moved(d, e)
  <2>1. PICK j \in Jobs, to \in Dests, g \in Tables :
          d.jstatus[j] < 0 /\ MovedTo(d, g, j, to) /\ Offered(g, e, j)
    BY <1>11 DEF Moved
  <2>2. PICK s : /\ Refreshed(d, g, j, to, s)
                 /\ s = IF d.jstatus[j] = STATUS_STRANDED THEN STATUS_WAITING
                                                         ELSE d.jstatus[j]
    BY <2>1 DEF MovedTo
  <2>3. CASE Queued(d, j)
    <3>1. s \notin {STATUS_NONE, STATUS_SEIZING}
      BY <2>2, <2>3 DEF Queued, Spared
    <3>2. Spared(g, y)
      BY <2>2, <3>1, RefreshedSpared
    <3> QED
      BY <2>1, <3>2, LookedSpared
  <2>4. CASE ~ Queued(d, j)
    <3>1. /\ SameHands(d, g) /\ g.status = d.status
          /\ \A i \in Jobs : i # j => g.jstatus[i] = d.jstatus[i]
          /\ g.jstatus[j] = STATUS_NONE
      BY <2>2, <2>4 DEF Refreshed, OnlyEntry, Queued
    <3>2. NoneGoes(d, g)
      BY <2>4, <3>1 DEF NoneGoes, Queued
    <3>3. Spared(g, y)
      BY <1>1, <3>1, <3>2, FrameSpared DEF SameHands
    <3> QED
      BY <2>1, <3>3, LookedSpared
  <2> QED
    BY <2>3, <2>4
<1>12. CASE Rushed(d, e)
  <2>1. SameHands(d, e) /\ e.jstatus = d.jstatus /\ e.status = d.status
    BY <1>1, <1>12 DEF Rushed, RushJob, Tables, SameHands
  <2> QED
    BY <1>2, <2>1
<1>13. CASE Mounted(d, e)
  <2>1. PICK p \in Printers, g \in Tables :
          Mounts(d, g, p) /\ (e = g \/ Looked(g, e, p))
    BY <1>13 DEF Mounted
  <2>2. SameHands(d, g) /\ ReasonsFollow(d, g, p) /\ g.status = d.status
    BY <2>1 DEF Mounts
  <2>3. Spared(g, y)
    BY <1>1, <2>2, ReasonsSpared
  <2> QED
    BY <2>1, <2>3, LookedSpared
<1>14. CASE Gated(d, e, v)
  <2>1. SameHands(d, e) /\ e.jstatus = d.jstatus /\ e.status = d.status
    BY <1>1, <1>14 DEF Gated, Tables, SameHands
  <2> QED
    BY <1>2, <2>1
<1>15. CASE Exited(d, e, y)
  BY <1>15, ExitedSpared
<1>16. CASE e = d
  BY <1>16
<1>17. CASE \E p : Looked(d, e, p)
  BY <1>1, <1>17, LookedSpared
<1> QED
  BY <1>4, <1>5, <1>6, <1>7, <1>8, <1>9, <1>10, <1>11, <1>12, <1>13, <1>14,
     <1>15, <1>16, <1>17 DEF Served, Attended

\* ppr announces a job: it must not be gone from now on, and is queued.
LEMMA SubmittedSpared ==
  ASSUME EnoughRoom, NEW d, NEW r, NEW lost, NEW owed,
         Sound(d, r, lost, owed), Listed(d), Distinct(d),
         NEW x, Spared(d, x), NEW e, NEW s, NEW y,
         Submitted(d, e, r, s, x, y)
  PROVE  Spared(e, y)
<1>1. d \in Tables /\ Exclusive(d)
  BY DEF Sound
<1>2. PICK j \in Jobs, st \in Arrivals :
        /\ ~ Queued(d, j)
        /\ y = IF JobDest[j] \in d.accepting THEN x \ {j} ELSE x
        /\ \/ /\ JobDest[j] \notin d.accepting \/ Len(d.queue) = QueueMax
              /\ OnlyFiles(d, e)
           \/ \E g \in Tables : Entered(d, g, j, st) /\ Offered(g, e, j)
  BY DEF Submitted
<1>3. Len(d.queue) # QueueMax
  BY <1>1, <1>2, RoomForOne
<1>4. CASE JobDest[j] \notin d.accepting /\ OnlyFiles(d, e)
  <2>1. y = x
    BY <1>2, <1>4
  <2>2. SameHands(d, e) /\ e.jstatus = d.jstatus /\ e.status = d.status
    BY <1>4 DEF OnlyFiles
  <2>3. NoneGoes(d, e) /\ \A p \in d.cancelJob : e.status[p] # PRNSTATUS_IDLE
    BY <2>2 DEF NoneGoes, Queued, Spared
  <2> QED
    BY <2>1, <2>2, <2>3, FrameSpared DEF SameHands
<1>5. ASSUME NEW g \in Tables, Entered(d, g, j, st), Offered(g, e, j)
      PROVE  Spared(e, y)
  <2>1. Refreshed(d, g, j, d.jdest[j], st)
    BY <1>5 DEF Entered
  <2>2. st \notin {STATUS_NONE, STATUS_SEIZING}
    BY InstanceAssumption
  <2>3. Spared(g, x) /\ Queued(g, j)
    BY <2>1, <2>2, RefreshedSpared
  <2>4. ASSUME NEW p \in g.cancelJob
        PROVE  g.job[p] # j
    <3>1. g.cancelJob = d.cancelJob /\ g.job = d.job
      BY <2>1 DEF Refreshed, OnlyEntry, SameHands
    <3>2. p \in d.pids
      BY <3>1 DEF Spared
    <3>3. p \in Printers /\ d.job[p] \in Jobs
      BY <1>1, <3>2, RunningJobs
    <3>4. d.jstatus[d.job[p]] \in {p, STATUS_CANCEL, STATUS_SEIZING}
      BY <1>1, <3>2 DEF Exclusive
    <3>5. Queued(d, d.job[p])
      BY <3>3, <3>4, StatusRange DEF Queued
    <3> QED
      BY <1>2, <3>1, <3>5
  <2>5. Spared(g, y)
    <3>1. x \ {j} \subseteq y
      BY <1>2
    <3>2. \A p \in g.cancelJob : /\ p \in g.pids /\ g.job[p] \in y
                                 /\ g.status[p] # PRNSTATUS_IDLE
      BY <2>3, <2>4, <3>1 DEF Spared
    <3>3. \A i \in Jobs : ~ Queued(g, i) => i \in y
      BY <2>3, <3>1 DEF Spared
    <3> QED
      BY <2>3, <3>2, <3>3 DEF Spared
  <2> QED
    BY <1>5, <2>5, LookedSpared
<1> QED
  BY <1>2, <1>3, <1>4, <1>5

\* ppr has sent the rest of a job.
LEMMA ReloadedSpared ==
  ASSUME NEW d, NEW r \in SUBSET Jobs, NEW y, Spared(d, y), NEW e, NEW s,
         Reloaded(d, e, r, s)
  PROVE  Spared(e, y)
<1>1. PICK j \in r :
        \/ OnlyFiles(d, e)
        \/ \E g \in Tables :
             /\ Refreshed(d, g, j, d.jdest[j], STATUS_WAITING)
             /\ Offered(g, e, j)
  BY DEF Reloaded
<1>2. CASE OnlyFiles(d, e)
  <2>1. SameHands(d, e) /\ e.jstatus = d.jstatus /\ e.status = d.status
    BY <1>2 DEF OnlyFiles
  <2>2. NoneGoes(d, e) /\ \A p \in d.cancelJob : e.status[p] # PRNSTATUS_IDLE
    BY <2>1 DEF NoneGoes, Queued, Spared
  <2> QED
    BY <2>1, <2>2, FrameSpared DEF SameHands
<1>3. ASSUME NEW g \in Tables,
             Refreshed(d, g, j, d.jdest[j], STATUS_WAITING), Offered(g, e, j)
      PROVE  Spared(e, y)
  <2>1. j \in Jobs /\ STATUS_WAITING \notin {STATUS_NONE, STATUS_SEIZING}
    OBVIOUS
  <2>2. Spared(g, y)
    BY <1>3, <2>1, RefreshedSpared
  <2> QED
    BY <1>3, <2>2, LookedSpared
<1> QED
  BY <1>1, <1>2, <1>3

\* The inductive invariant of the jobs.
SparedInv == Spared(pprd, excused)

\* Every event spares the jobs that must not be gone.
LEMMA SparedInvariance ==
  ASSUME NeverHeld, EnoughRoom
  PROVE  Spec => []SparedInv
PROOF
<1>1. Init => SparedInv
  <2>1. Init => /\ pprd.cancelJob = {} /\ excused = Jobs
                /\ \A j \in Jobs : pprd.jstatus[j] = STATUS_NONE
    BY DEF Init, InitTables
  <2> QED
    BY <2>1 DEF SparedInv, Spared
<1>2. ASSUME IndInv, IndInv', Asked, [Next]_vars, QueueInv, SparedInv
      PROVE  SparedInv'
  <2>1. /\ Sound(pprd, recv, {}, 0) /\ recv \in SUBSET Jobs
        /\ excused' \in SUBSET Jobs /\ Spared(pprd, excused)
        /\ Listed(pprd) /\ Distinct(pprd)
    BY <1>2 DEF IndInv, SparedInv, QueueInv, Tidy
  <2>2. CASE UNCHANGED vars
    BY <1>2, <2>2 DEF vars, SparedInv
  <2>3. CASE EventDoes
    <3>1. Spared(pprd', excused')
      <4>1. CASE /\ Served(pprd, pprd', Pending(todo), Pending(todo'), excused')
                 /\ excused \subseteq excused'
        <5>1. Spared(pprd, excused')
          BY <2>1, <4>1 DEF Spared
        <5> QED
          BY <2>1, <4>1, <5>1, ServedSpared
      <4>2. CASE Submitted(pprd, pprd', recv, recv', excused, excused')
        BY <2>1, <4>2, SubmittedSpared
      <4>3. CASE Reloaded(pprd, pprd', recv, recv') /\ excused' = excused
        BY <2>1, <4>3, ReloadedSpared
      <4> QED
        BY <2>3, <4>1, <4>2, <4>3 DEF EventDoes
    <3> QED
      BY <3>1 DEF SparedInv
  <2> QED
    BY <1>2, <2>2, <2>3, Steps
<1>3. SparedInv /\ IndInv /\ IndInv' /\ Asked /\ QueueInv /\ [Next]_vars
        => SparedInv'
  BY <1>2
<1> QED
  BY <1>1, <1>3, Invariance, AskedHolds, QueueInvariance, PTL DEF Spec

\* A job once accepted stays in the queue, with its files, until a pprdrv has
\* printed it or somebody asks to cancel it, if nobody holds jobs (a request
\* to cancel a job that is being seized can stay with a printer and hit its
\* next one).  The queue array must have room for all jobs (when it is full
\* queue_accept_queuefile() drops the job), and a destination must not begin
\* to reject jobs while they are received.
THEOREM NoJobIsLost ==
  ASSUME NeverHeld, NeverLate \/ AlwaysOpen, EnoughRoom
  PROVE  Spec => []NothingLost
PROOF
<1>1. SparedInv /\ QueueInv => NothingLost
  <2> SUFFICES ASSUME SparedInv, QueueInv, NEW j \in Jobs, j \notin excused
               PROVE  Queued(pprd, j) /\ j \in pprd.files
    BY DEF NothingLost
  <2>1. Queued(pprd, j)
    BY DEF SparedInv, Spared
  <2> QED
    BY <2>1 DEF QueueInv, Tidy, Filed
<1> QED
  BY <1>1, SparedInvariance, QueueInvariance, PTL

---------------------------------------------------------------------------
(* Whoever waits for a printer to stop *)

\* Nobody sends the IPP request to resume a printer.
NeverResumed == "resume" \notin Ops

Stopping == {PRNSTATUS_STOPPING, PRNSTATUS_HALTING}

\* They wait for printers that are stopping.
Waiters(d) == \A p \in d.waiter : p \in Printers /\ d.status[p] \in Stopping

\* Nobody else waits, and what is stopping goes on doing so.
SameWaiters(d, e) ==
  /\ e.waiter = d.waiter
  /\ \A p \in Printers : d.status[p] \in Stopping => e.status[p] \in Stopping

\* Those who wait can go on waiting.
LEMMA SameWaitersWait ==
  ASSUME NEW d, NEW e, Waiters(d), SameWaiters(d, e)
  PROVE  Waiters(e)
PROOF
  BY DEF Waiters, SameWaiters

\* Starting jobs, which only idle printers do.
LEMMA StartsWaiters ==
  ASSUME NEW d, NEW e
  PROVE  /\ Starts(d, e) => SameWaiters(d, e)
         /\ \A p : Looked(d, e, p) => SameWaiters(d, e)
         /\ \A j : Offered(d, e, j) => SameWaiters(d, e)
PROOF
<1>1. PRNSTATUS_IDLE \notin Stopping
  BY DEF Stopping
<1>2. ASSUME Starts(d, e)
      PROVE  SameWaiters(d, e)
  <2>1. e.waiter = d.waiter
    BY <1>2 DEF Starts
  <2>2. \A p \in Printers : d.status[p] # PRNSTATUS_IDLE =>
                              e.status[p] = d.status[p]
    BY <1>2, StartsIdle
  <2> QED
    BY <1>1, <2>1, <2>2 DEF SameWaiters
<1> QED
  BY <1>2 DEF Looked, Offered

\* The end of a pprdrv: if its printer is stopping, it is stopt and whoever
\* waits is told.
LEMMA ExitedWaiters ==
  ASSUME NEW d, NEW r, Sound(d, r, {}, 0), Waiters(d),
         NEW e, NEW y, Exited(d, e, y)
  PROVE  Waiters(e)
PROOF
<1>1. d \in Tables /\ Drivers(d, {})
  BY DEF Sound
<1>2. PICK p \in d.pids, c \in ExitCodes :
        \/ e = Die(d)
        \/ \E f, g \in Tables :
             /\ Disposed(d, f, p, c)
             /\ Settled(f, g, p, PrnStatusAfter(d, p, c))
             /\ \/ e = g /\ g.status[p] # PRNSTATUS_IDLE
                \/ Looked(g, e, p)
  BY DEF Exited
<1> DEFINE s == PrnStatusAfter(d, p, c)
<1>3. p \in Printers
  BY <1>1 DEF Tables
<1>4. CASE e = Die(d)
  <2>1. e.waiter = d.waiter /\ e.status = d.status
    BY <1>1, <1>4 DEF Die, Tables
  <2> QED
    BY <2>1 DEF Waiters
<1>5. ASSUME NEW f \in Tables, NEW g \in Tables, Disposed(d, f, p, c),
             Settled(f, g, p, s), e = g \/ Looked(g, e, p)
      PROVE  Waiters(e)
  <2>1. SameWaiters(d, f)
    <3>1. CASE f.waiter = d.waiter /\ f.status = d.status
      BY <3>1 DEF SameWaiters
    <3>2. CASE Keeps(d, f, p, c)
      <4>1. PICK h \in Tables : /\ Stays(d, h, p, c, JobStatusAfter(d, p, c))
                                /\ Starts(h, f)
        BY <3>2 DEF Keeps
      <4>2. h.waiter = d.waiter /\ h.status = d.status
        BY <4>1 DEF Stays
      <4>3. SameWaiters(h, f)
        BY <4>1, StartsWaiters
      <4> QED
        BY <4>2, <4>3 DEF SameWaiters
    <3>3. Leaves(d, f, p) => f.waiter = d.waiter /\ f.status = d.status
      BY DEF Leaves
    <3>4. \A t : Stays(d, f, p, c, t) =>
                   f.waiter = d.waiter /\ f.status = d.status
      BY DEF Stays
    <3> QED
      BY <1>5, <3>1, <3>2, <3>3, <3>4 DEF Disposed
  <2>2. Waiters(g)
    <3>1. d.status[p] \in Stopping => s = PRNSTATUS_STOPT
      BY DEF Stopping, PrnStatusAfter
    <3>2. /\ s = PRNSTATUS_STOPT => g.waiter = f.waiter \ {p}
          /\ s # PRNSTATUS_STOPT => g.waiter = f.waiter
          /\ \A q \in Printers : g.status[q] = IF q = p THEN s ELSE f.status[q]
      BY <1>5 DEF Settled
    <3> HIDE DEF s
    <3>3. CASE s = PRNSTATUS_STOPT
      BY <2>1, <3>2, <3>3 DEF Waiters, SameWaiters
    <3>4. CASE s # PRNSTATUS_STOPT
      <4>1. p \notin d.waiter
        BY <3>1, <3>4 DEF Waiters
      <4> QED
        BY <2>1, <3>2, <3>4, <4>1 DEF Waiters, SameWaiters
    <3> QED
      BY <3>3, <3>4
  <2> QED
    BY <1>5, <2>2, StartsWaiters, SameWaitersWait
<1> QED
  BY <1>2, <1>4, <1>5

\* Every event that is not about ppr.
LEMMA ServedWaiters ==
  ASSUME NeverHeld, NeverResumed, NEW d, NEW r, Sound(d, r, {}, 0),
         Waiters(d), NEW e, NEW w, NEW v, NEW y \in SUBSET Jobs,
         Served(d, e, w, v, y)
  PROVE  Waiters(e)
PROOF
<1>1. d \in Tables
  BY DEF Sound
<1>2. ASSUME NEW g, g.waiter = d.waiter, g.status = d.status,
             \/ e = g
             \/ \E p : Looked(g, e, p)
             \/ \E j : Offered(g, e, j)
      PROVE  Waiters(e)
  <2>1. Waiters(g)
    BY <1>2 DEF Waiters
  <2> QED
    BY <1>2, <2>1, StartsWaiters, SameWaitersWait
<1>3. CASE Alike(d, e)
  BY <1>2, <1>3 DEF Alike
<1>4. CASE Woken(d, e)
  <2>1. PICK p \in Printers, g \in Tables :
          /\ d.status[p] \in {PRNSTATUS_FAULT, PRNSTATUS_ENGAGED,
                              PRNSTATUS_STARVED}
          /\ Idled(d, g, p) /\ Looked(g, e, p)
    BY <1>4 DEF Woken
  <2>2. SameWaiters(d, g)
    BY <2>1 DEF Idled, SameWaiters, Stopping
  <2> QED
    BY <2>1, <2>2, StartsWaiters, SameWaitersWait
<1>5. CASE Stopped(d, e)
  <2>1. PICK p \in Printers :
          \/ /\ e.waiter = d.waiter \ {p}
             /\ Changed(d, e, p, PRNSTATUS_STOPT)
          \/ /\ e.waiter \subseteq d.waiter \cup {p}
             /\ \E s \in Stopping : Changed(d, e, p, s)
    BY <1>5 DEF Stopped, Stopping
  <2>2. CASE e.waiter = d.waiter \ {p} /\ Changed(d, e, p, PRNSTATUS_STOPT)
    BY <2>2 DEF Changed, Waiters
  <2>3. ASSUME e.waiter \subseteq d.waiter \cup {p},
               NEW s \in Stopping, Changed(d, e, p, s)
        PROVE  Waiters(e)
    <3>1. \A q \in Printers : e.status[q] = IF q = p THEN s ELSE d.status[q]
      BY <2>3 DEF Changed
    <3> QED
      BY <2>3, <3>1 DEF Waiters
  <2> QED
    BY <2>1, <2>2, <2>3
<1>6. CASE Started(d, e)
  <2>1. PICK p \in Printers :
          \/ /\ d.status[p] \in {PRNSTATUS_FAULT, PRNSTATUS_STOPT}
             /\ \E g \in Tables :
                  /\ Changed(d, g, p, PRNSTATUS_IDLE) /\ g.waiter = d.waiter
                  /\ Looked(g, e, p)
          \/ /\ Changed(d, e, p, PRNSTATUS_PRINTING)
             /\ e.waiter = d.waiter \ {p}
    BY <1>6 DEF Started, NeverResumed
  <2>2. ASSUME d.status[p] \in {PRNSTATUS_FAULT, PRNSTATUS_STOPT},
               NEW g \in Tables, Changed(d, g, p, PRNSTATUS_IDLE),
               g.waiter = d.waiter, Looked(g, e, p)
        PROVE  Waiters(e)
    <3>1. SameWaiters(d, g)
      BY <2>2 DEF Changed, SameWaiters, Stopping
    <3> QED
      BY <2>2, <3>1, StartsWaiters, SameWaitersWait
  <2>3. CASE Changed(d, e, p, PRNSTATUS_PRINTING) /\ e.waiter = d.waiter \ {p}
    BY <2>3 DEF Changed, Waiters
  <2> QED
    BY <2>1, <2>2, <2>3
<1>7. ~ Held(d, e)
  BY DEF Held, NeverHeld
<1>8. CASE Released(d, e)
  BY <1>2, <1>8 DEF Released, Refreshed, OnlyEntry
<1>9. CASE Canceled(d, e, y)
  <2>1. ASSUME NEW j, NEW q,
               \/ Withdrawn(d, e, j, q, PRNSTATUS_PRINTING)
               \/ Withdrawn(d, e, j, q, PRNSTATUS_SEIZING)
        PROVE  SameWaiters(d, e)
    BY <2>1 DEF Withdrawn, Becomes, SameWaiters, Stopping
  <2>2. ASSUME NEW j, Dequeued(d, e, j)
        PROVE  SameWaiters(d, e)
    BY <2>2 DEF Dequeued, SameWaiters
  <2>3. SameWaiters(d, e)
    BY <1>9, <2>1, <2>2 DEF Canceled
  <2> QED
    BY <2>3, SameWaitersWait
<1>10. CASE Moved(d, e)
  BY <1>2, <1>10 DEF Moved, MovedTo, Refreshed, OnlyEntry
<1>11. CASE Rushed(d, e)
  <2>1. e.waiter = d.waiter /\ e.status = d.status
    BY <1>1, <1>11 DEF Rushed, RushJob, Tables
  <2> QED
    BY <1>2, <2>1
<1>12. CASE Mounted(d, e)
  BY <1>2, <1>12 DEF Mounted, Mounts
<1>13. CASE Gated(d, e, v)
  <2>1. e.waiter = d.waiter /\ e.status = d.status
    BY <1>1, <1>13 DEF Gated, Tables
  <2> QED
    BY <1>2, <2>1
<1>14. CASE Exited(d, e, y)
  BY <1>14, ExitedWaiters
<1>15. CASE e = d
  BY <1>15
<1>16. CASE \E p : Looked(d, e, p)
  BY <1>2, <1>16
<1> QED
  BY <1>3, <1>4, <1>5, <1>6, <1>7, <1>8, <1>9, <1>10, <1>11, <1>12, <1>13,
     <1>14, <1>15, <1>16 DEF Served, Attended

\* ppr announces a job, or has sent the rest of it.
LEMMA SubmittedWaiters ==
  ASSUME NEW d, Waiters(d), NEW e, NEW r, NEW s, NEW x, NEW y,
         Submitted(d, e, r, s, x, y) \/ Reloaded(d, e, r, s)
  PROVE  Waiters(e)
PROOF
<1>1. CASE OnlyFiles(d, e)
  BY <1>1 DEF OnlyFiles, Waiters
<1>2. ASSUME NEW g, NEW j, NEW t, Refreshed(d, g, j, d.jdest[j], t),
             Offered(g, e, j)
      PROVE  Waiters(e)
  <2>1. Waiters(g)
    BY <1>2 DEF Refreshed, OnlyEntry, Waiters
  <2> QED
    BY <1>2, <2>1, StartsWaiters, SameWaitersWait
<1>3. CASE Submitted(d, e, r, s, x, y)
  BY <1>1, <1>2, <1>3 DEF Submitted, Entered
<1>4. CASE Reloaded(d, e, r, s)
  BY <1>1, <1>2, <1>4 DEF Reloaded
<1> QED
  BY <1>3, <1>4

\* The inductive invariant of those who wait.
WaitersInv == Waiters(pprd)

\* Whoever waits for a printer to stop waits for one that is stopping, and so
\* will hear of it, if nobody holds jobs and no IPP client resumes printers.
\* (ipp_resume_printer() and ppop_hold_release() take a printer out of that
\* state and leave ppop_pid as it is.)
THEOREM WaitersAreServed ==
  ASSUME NeverHeld, NeverResumed
  PROVE  Spec => []WaiterWillHear
PROOF
<1>1. Init => WaitersInv
  <2>1. Init => pprd.waiter = {}
    BY DEF Init, InitTables
  <2> QED
    BY <2>1 DEF WaitersInv, Waiters
<1>2. ASSUME IndInv, IndInv', Asked, [Next]_vars, WaitersInv
      PROVE  Waiters(pprd')
  <2>1. /\ Sound(pprd, recv, {}, 0) /\ excused' \in SUBSET Jobs
        /\ Waiters(pprd)
    BY <1>2 DEF IndInv, WaitersInv
  <2>2. CASE UNCHANGED vars
    BY <2>1, <2>2 DEF vars
  <2>3. CASE EventDoes
    BY <2>1, <2>3, ServedWaiters, SubmittedWaiters DEF EventDoes
  <2> QED
    BY <1>2, <2>2, <2>3, Steps
<1>3. WaitersInv /\ IndInv /\ IndInv' /\ Asked /\ [Next]_vars => WaitersInv'
  BY <1>2 DEF WaitersInv
<1>4. WaitersInv => WaiterWillHear
  BY DEF WaitersInv, Waiters, Stopping, WaiterWillHear
<1> QED
  BY <1>1, <1>3, <1>4, Invariance, AskedHolds, PTL DEF Spec

---------------------------------------------------------------------------
(* What is stopping stops *)

\* Nobody starts or resumes printers.
NeverStarted == Ops \cap {"start", "resume"} = {}

\* The states of a printer that has been told to stop.
Down == Stopping \cup {PRNSTATUS_STOPT}

\* A printer that is stopping goes on doing so, or has stopt; and one that
\* has stopt stays so.
OnlyStops(d, e) ==
  \A p \in Printers : d.status[p] \in Down => e.status[p] \in Down

\* The end of a pprdrv: a printer that is stopping becomes stopt.
LEMMA ExitedStops ==
  ASSUME NEW d, NEW r, NEW lost, NEW owed, Sound(d, r, lost, owed),
         NEW e, NEW y, Exited(d, e, y)
  PROVE  OnlyStops(d, e)
PROOF
<1>1. d \in Tables /\ Drivers(d, lost)
  BY DEF Sound
<1>2. PICK p \in d.pids, c \in ExitCodes :
        \/ e = Die(d)
        \/ \E f, g \in Tables :
             /\ Disposed(d, f, p, c)
             /\ Settled(f, g, p, PrnStatusAfter(d, p, c))
             /\ \/ e = g /\ g.status[p] # PRNSTATUS_IDLE
                \/ Looked(g, e, p)
  BY DEF Exited
<1> DEFINE s == PrnStatusAfter(d, p, c)
<1>3. PRNSTATUS_IDLE \notin Down
  BY DEF Down, Stopping
<1>4. CASE e = Die(d)
  <2>1. e.status = d.status
    BY <1>1, <1>4 DEF Die, Tables
  <2> QED
    BY <2>1 DEF OnlyStops
<1>5. ASSUME NEW f \in Tables, NEW g \in Tables, Disposed(d, f, p, c),
             Settled(f, g, p, s), e = g \/ Looked(g, e, p)
      PROVE  OnlyStops(d, e)
  <2>1. \A q \in Printers : d.status[q] \in Down =>
                              f.status[q] = d.status[q]
    <3>1. CASE f.status = d.status
      BY <3>1
    <3>2. CASE Keeps(d, f, p, c)
      <4>1. PICK h \in Tables : /\ Stays(d, h, p, c, JobStatusAfter(d, p, c))
                                /\ Starts(h, f)
        BY <3>2 DEF Keeps
      <4>2. h.status = d.status
        BY <4>1 DEF Stays
      <4> QED
        BY <1>3, <4>1, <4>2, StartsIdle
    <3>3. Leaves(d, f, p) => f.status = d.status
      BY DEF Leaves
    <3>4. \A t : Stays(d, f, p, c, t) => f.status = d.status
      BY DEF Stays
    <3> QED
      BY <1>5, <3>1, <3>2, <3>3, <3>4 DEF Disposed
  <2>2. d.status[p] \in Down => s = PRNSTATUS_STOPT
    <3>1. p \in Printers /\ d.status[p] \in Busy
      BY <1>1 DEF Drivers, Tables
    <3> QED
      BY <3>1 DEF Down, Stopping, Busy, PrnStatusAfter
  <2>3. \A q \in Printers : g.status[q] = IF q = p THEN s ELSE f.status[q]
    BY <1>5 DEF Settled
  <2> HIDE DEF s
  <2>4. ASSUME NEW q \in Printers, d.status[q] \in Down
        PROVE  g.status[q] \in Down /\ e.status[q] = g.status[q]
    <3>1. g.status[q] \in Down
      BY <2>1, <2>2, <2>3, <2>4 DEF Down
    <3>2. g.status[q] # PRNSTATUS_IDLE
      BY <1>3, <3>1
    <3> QED
      BY <1>5, <3>1, <3>2, StartsIdle DEF Looked
  <2> QED
    BY <2>4 DEF OnlyStops
<1> QED
  BY <1>2, <1>4, <1>5

\* Every event that neither is about ppr nor starts a printer.
LEMMA AttendedStops ==
  ASSUME NeverHeld, NEW d, NEW r, NEW lost, NEW owed, Sound(d, r, lost, owed),
         NEW e, NEW w, NEW v, NEW y \in SUBSET Jobs, Attended(d, e, w, v, y)
  PROVE  OnlyStops(d, e)
PROOF
<1>1. d \in Tables
  BY DEF Sound
<1>2. ASSUME NEW g, OnlyStops(d, g),
             \/ e = g
             \/ \E p : Looked(g, e, p)
             \/ \E j : Offered(g, e, j)
      PROVE  OnlyStops(d, e)
  <2>1. e = g \/ Starts(g, e)
    BY <1>2 DEF Looked, Offered
  <2>2. PRNSTATUS_IDLE \notin Down
    BY DEF Down, Stopping
  <2> QED
    BY <1>2, <2>1, <2>2, StartsIdle DEF OnlyStops
<1>20. ASSUME NEW g, g.status = d.status
       PROVE  OnlyStops(d, g)
  BY <1>20 DEF OnlyStops
<1>3. CASE Alike(d, e)
  BY <1>3, <1>20 DEF Alike
<1>4. CASE Woken(d, e)
  <2>1. PICK p \in Printers, g \in Tables :
          /\ d.status[p] \in {PRNSTATUS_FAULT, PRNSTATUS_ENGAGED,
                              PRNSTATUS_STARVED}
          /\ Idled(d, g, p) /\ Looked(g, e, p)
    BY <1>4 DEF Woken
  <2>2. OnlyStops(d, g)
    BY <2>1 DEF Idled, OnlyStops, Down, Stopping
  <2> QED
    BY <1>2, <2>1, <2>2
<1>5. CASE Stopped(d, e)
  BY <1>5 DEF Stopped, Changed, OnlyStops, Down, Stopping
<1>6. ~ Held(d, e)
  BY DEF Held, NeverHeld
<1>7. CASE Released(d, e)
  BY <1>2, <1>7, <1>20 DEF Released, Refreshed, OnlyEntry
<1>8. CASE Canceled(d, e, y)
  <2>1. ASSUME NEW j, NEW q,
               \/ Withdrawn(d, e, j, q, PRNSTATUS_PRINTING)
               \/ Withdrawn(d, e, j, q, PRNSTATUS_SEIZING)
        PROVE  OnlyStops(d, e)
    BY <2>1 DEF Withdrawn, OnlyStops, Down, Stopping
  <2>2. ASSUME NEW j, Dequeued(d, e, j)
        PROVE  OnlyStops(d, e)
    BY <2>2 DEF Dequeued, OnlyStops
  <2> QED
    BY <1>8, <2>1, <2>2 DEF Canceled
<1>9. CASE Moved(d, e)
  BY <1>2, <1>9, <1>20 DEF Moved, MovedTo, Refreshed, OnlyEntry
<1>10. CASE Rushed(d, e)
  <2>1. e.status = d.status
    BY <1>1, <1>10 DEF Rushed, RushJob, Tables
  <2> QED
    BY <1>20, <2>1
<1>11. CASE Mounted(d, e)
  BY <1>2, <1>11, <1>20 DEF Mounted, Mounts
<1>12. CASE Gated(d, e, v)
  <2>1. e.status = d.status
    BY <1>1, <1>12 DEF Gated, Tables
  <2> QED
    BY <1>20, <2>1
<1>13. CASE Exited(d, e, y)
  BY <1>13, ExitedStops
<1>14. CASE e = d
  BY <1>14 DEF OnlyStops
<1>15. CASE \E p : Looked(d, e, p)
  BY <1>2, <1>15, <1>20
<1> QED
  BY <1>3, <1>4, <1>5, <1>6, <1>7, <1>8, <1>9, <1>10, <1>11, <1>12, <1>13,
     <1>14, <1>15 DEF Attended

\* A job that ppr brings is offered to idle printers only.
LEMMA OffersStop ==
  ASSUME NEW d, NEW g, g.status = d.status, NEW e,
         e = g \/ \E j : Offered(g, e, j)
  PROVE  OnlyStops(d, e)
PROOF
<1>1. e = g \/ Starts(g, e)
  BY DEF Offered
<1>2. PRNSTATUS_IDLE \notin Down
  BY DEF Down, Stopping
<1> QED
  BY <1>1, <1>2, StartsIdle DEF OnlyStops

\* ppr announces a job, or has sent the rest of it.
LEMMA SubmittedStops ==
  ASSUME NEW d, NEW e, NEW r, NEW s, NEW x, NEW y,
         Submitted(d, e, r, s, x, y) \/ Reloaded(d, e, r, s)
  PROVE  OnlyStops(d, e)
PROOF
<1>1. CASE Submitted(d, e, r, s, x, y)
  BY <1>1, OffersStop
  DEF Submitted, Entered, Refreshed, OnlyEntry, OnlyFiles
<1>2. CASE Reloaded(d, e, r, s)
  BY <1>2, OffersStop DEF Reloaded, Refreshed, OnlyEntry, OnlyFiles
<1> QED
  BY <1>1, <1>2

\* A printer that is stopping can only become stopt, if nobody starts it again
\* and nobody holds jobs: holding the job it prints is the one command that
\* takes back the stop unasked.
THEOREM StopsAreFinal ==
  ASSUME NeverHeld, NeverStarted
  PROVE  Spec => StoppingOnlyStops
PROOF
<1>1. ASSUME IndInv, IndInv', Asked, [Next]_vars
      PROVE  OnlyStops(pprd, pprd')
  <2>1. Sound(pprd, recv, {}, 0) /\ excused' \in SUBSET Jobs
    BY <1>1 DEF IndInv
  <2>2. CASE UNCHANGED vars
    BY <2>2 DEF vars, OnlyStops
  <2>4. CASE EventDoes
    <3>1. CASE Served(pprd, pprd', Pending(todo), Pending(todo'), excused')
      <4>1. Attended(pprd, pprd', Pending(todo), Pending(todo'), excused')
        BY <3>1 DEF Served, Started, NeverStarted
      <4> QED
        BY <2>1, <4>1, AttendedStops
    <3> QED
      BY <2>4, <3>1, SubmittedStops DEF EventDoes
  <2> QED
    BY <1>1, <2>2, <2>4, Steps
<1>2. IndInv /\ IndInv' /\ Asked /\ [Next]_vars =>
        [\A p \in Printers :
           LET stopping == {PRNSTATUS_STOPPING, PRNSTATUS_HALTING}
           IN  pprd.status[p] \in stopping =>
                 pprd'.status[p] \in stopping \cup {PRNSTATUS_STOPT}]_vars
  BY <1>1 DEF OnlyStops, Down, Stopping
<1> QED
  BY <1>2, Invariance, AskedHolds, PTL DEF Spec, StoppingOnlyStops
===========================================================================
