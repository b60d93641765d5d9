---------------------------- MODULE PprdTables ----------------------------
(***************************************************************************)
(* The tables of the spooler daemon pprd and the routines that change      *)
(* them, as operators from one value of the tables to the next.            *)
(*                                                                         *)
(* pprd is one thread.  While it runs a handler SIGCHLD is blocked, so     *)
(* every routine below runs to completion before anything else touches the *)
(* tables.  `d' is the record of the tables (its type is Tables), `ff' is  *)
(* the set of printers for which a fork() made by the running handler      *)
(* fails.  Operators keep the names of the C routines.                     *)
(***************************************************************************)
EXTENDS Integers, Sequences, FiniteSets

CONSTANTS
  NumPrinters,     \* printer ids are 0 .. NumPrinters-1
  Groups,          \* destination ids of the groups, above every printer id
  Members,         \* Members[g]: the member printers of g, in order
  Rotating,        \* the groups that use their members in rotation
  Jobs,            \* job ids ppr can hand out
  JobDest,         \* the destination each job is submitted to
  JobPriority,     \* the priority each job is submitted with
  JobSeq,          \* sequence_number of each job: its time of submission
  JobMedia,        \* the media each job requires
  MediaIds,        \* ids of the known media
  Bins,            \* Bins[p]: the bins of printer p
  AutoSelect,      \* printers with a bin called "AutoSelect"
  MaxActive,       \* MAX_ACTIVE, most simultaneous pprdrv processes
  QueueMax,        \* QUEUE_SIZE_MAX, most entries of the queue array
  TickInterval,    \* TICK_INTERVAL, seconds between calls to printer_tick()
  RetryMultiplier, \* RETRY_MULTIPLIER, extra seconds of delay per retry
  MaxDelay,        \* MIN_RETRY, longest delay between retries
  EngagedRetry     \* ENGAGED_RETRY, delay when the printer is engaged

Printers == 0 .. NumPrinters - 1
Dests == Printers \cup Groups
NoJob == 0                 \* job_id of a printer that never had a job
NoMedium == -1             \* nothing is mounted on the bin

IsGroup(dest) == dest \in Groups

\* The printers on which a job for `dest' may print.
MembersOf(dest) ==
  IF IsGroup(dest) THEN {Members[dest][i] : i \in DOMAIN Members[dest]}
                   ELSE {dest}

Covers(dest, p) == p \in MembersOf(dest)

ASSUME PrintersAssumption == NumPrinters \in Nat \ {0}
ASSUME GroupsAssumption ==
  /\ Groups \subseteq Nat /\ Groups \cap Printers = {}
  /\ Members \in [Groups -> Seq(Printers)]
  /\ \A g \in Groups : \A i, k \in DOMAIN Members[g] :
        Members[g][i] = Members[g][k] => i = k
  /\ Rotating \subseteq Groups
ASSUME JobsAssumption ==
  /\ Jobs \subseteq Nat \ {0}
  /\ JobDest \in [Jobs -> Dests]
  /\ JobPriority \in [Jobs -> 1 .. 100]
  /\ JobSeq \in [Jobs -> Nat]
  /\ JobMedia \in [Jobs -> SUBSET MediaIds]
ASSUME MediaAssumption ==
  /\ MediaIds \subseteq Nat
  /\ DOMAIN Bins = Printers
  /\ AutoSelect \subseteq Printers
ASSUME LimitsAssumption ==
  /\ MaxActive \in Nat \ {0}
  /\ QueueMax \in Nat \ {0}
  /\ TickInterval \in Nat \ {0}
  /\ RetryMultiplier \in Nat /\ MaxDelay \in Nat /\ EngagedRetry \in Nat

---------------------------------------------------------------------------
(* Status values *)

PRNSTATUS_IDLE      == 0
PRNSTATUS_PRINTING  == 1
PRNSTATUS_CANCELING == 2
PRNSTATUS_SEIZING   == 3
PRNSTATUS_FAULT     == 4
PRNSTATUS_ENGAGED   == 5
PRNSTATUS_STARVED   == 6
PRNSTATUS_STOPT     == 7
PRNSTATUS_STOPPING  == 8
PRNSTATUS_HALTING   == 9
PRNSTATUS_DELIBERATELY_DOWN == 7
PrnStatus == 0 .. 9

\* A status >= 0 is the id of the printer on which the job is printing.
STATUS_WAITING       == -1
STATUS_HELD          == -2
STATUS_WAITING4MEDIA == -3
STATUS_ARRESTED      == -4
STATUS_CANCEL        == -5
STATUS_SEIZING       == -6
STATUS_STRANDED      == -7
STATUS_RECEIVING     == -10
STATUS_NONE          == -11    \* not in the queue array at all
JobStatus ==
  Printers \cup {STATUS_WAITING, STATUS_HELD, STATUS_WAITING4MEDIA,
                 STATUS_ARRESTED, STATUS_CANCEL, STATUS_SEIZING,
                 STATUS_STRANDED, STATUS_RECEIVING, STATUS_NONE}

\* The printer statuses under which a pprdrv is at work.
Busy == {PRNSTATUS_PRINTING, PRNSTATUS_CANCELING, PRNSTATUS_SEIZING,
         PRNSTATUS_STOPPING, PRNSTATUS_HALTING}

\* What pprdrv_exited() tells apart in the wait status.  "noretry" stands
\* for every EXIT_PRNERR_NORETRY code, a core dump and a stop by signal;
\* "prnerr" for every other EXIT_PRNERR code and an unknown code.
ExitCodes == {"printed", "joberr", "incapable", "engaged", "starved",
              "signal", "prnerr", "noretry"}

(***************************************************************************)
(* The tables.  A C flag of every printer (or group, or job) is the set of *)
(* the printers (groups, jobs) that have it on; the bit masks `never' and  *)
(* `notnow' of a job are sets of printers.                                 *)
(***************************************************************************)
Tables ==
  [status      : [Printers -> PrnStatus],          \* struct Printer
   wasStarved  : SUBSET Printers,    \* previous_status is PRNSTATUS_STARVED
   errRetry    : [Printers -> Nat],  \* next_error_retry
   countdown   : [Printers -> Int],
   pids        : SUBSET Printers,    \* job_pid is not zero
   killed      : SUBSET Printers,    \* its pprdrv has been sent SIGTERM
   job         : [Printers -> Jobs \cup {NoJob}],  \* job_id, job_subid
   jobdest     : [Printers -> Dests],              \* job_destid
   cancelJob   : SUBSET Printers,
   holdJob     : SUBSET Printers,
   waiter      : SUBSET Printers,    \* ppop_pid is not zero
   mounted     : [Printers -> [UNION {Bins[p] : p \in Printers}
                                 -> MediaIds \cup {NoMedium}]],
   last        : [Groups -> Int],                  \* struct Group
   heldGroups  : SUBSET Groups,
   accepting   : SUBSET Dests,       \* both kinds of destination
   count       : [Dests -> Int],     \* job_count
   queue       : Seq(Jobs),                        \* struct QEntry
   jstatus     : [Jobs -> JobStatus],
   jdest       : [Jobs -> Dests],
   prio        : [Jobs -> Nat],
   never       : [Jobs -> SUBSET Printers],
   notnow      : [Jobs -> SUBSET Printers],
   pass        : [Jobs -> Nat],
   active      : Int,                \* active_printers
   starving    : Int,                \* starving_printers
   hungry      : Nat,                \* hungry_x of printer_tick()
   files       : SUBSET Jobs,        \* the job's spool files exist
   fatal       : BOOLEAN]            \* pprd has died

\* The tables of a fresh installation: load_printer() and load_group() find
\* no saved state, the queue directory is empty.
InitTables ==
  [status     |-> [p \in Printers |-> PRNSTATUS_IDLE],
   wasStarved |-> {},
   errRetry   |-> [p \in Printers |-> 0],
   countdown  |-> [p \in Printers |-> 0],
   pids       |-> {},
   killed     |-> {},
   job        |-> [p \in Printers |-> NoJob],
   jobdest    |-> [p \in Printers |-> 0],
   cancelJob  |-> {},
   holdJob    |-> {},
   waiter     |-> {},
   mounted    |-> [p \in Printers |->
                    [b \in UNION {Bins[q] : q \in Printers} |-> NoMedium]],
   last       |-> [g \in Groups |-> -1],
   heldGroups |-> {},
   accepting  |-> Dests,
   count      |-> [x \in Dests |-> 0],
   queue      |-> << >>,
   jstatus    |-> [j \in Jobs |-> STATUS_NONE],
   jdest      |-> JobDest,
   prio       |-> JobPriority,
   never      |-> [j \in Jobs |-> {}],
   notnow     |-> [j \in Jobs |-> {}],
   pass       |-> [j \in Jobs |-> 0],
   active     |-> 0,
   starving   |-> 0,
   hungry     |-> 0,
   files      |-> {},
   fatal      |-> FALSE]

\* j has an entry in the queue array.
Queued(d, j) == d.jstatus[j] # STATUS_NONE

---------------------------------------------------------------------------
(* pprd_printer.c and pprd_pprdrv.c: starting a pprdrv *)

\* Mutant: whoever waits for the printer to stop is forgotten.
PrinterNewStatusMute(d, p, new) ==
  [d EXCEPT !.status[p]  = new,
            !.wasStarved = IF d.status[p] = PRNSTATUS_STARVED
                             THEN @ \cup {p} ELSE @ \ {p}]

\* printer_new_status(): the status is changed, the previous one is
\* remembered and whoever waits for the printer to stop is signalled.
PrinterNewStatus(d, p, new) ==
  [d EXCEPT !.status[p]  = new,
            !.wasStarved = IF d.status[p] = PRNSTATUS_STARVED
                             THEN @ \cup {p} ELSE @ \ {p},
            !.waiter     = IF new = PRNSTATUS_STOPT THEN @ \ {p} ELSE @]

\* printer_start() returns -2 unless this holds: the job is barred from the
\* printer by a held group, by missing media or by an earlier pprdrv.
Suitable(d, p, j) ==
  /\ d.jdest[j] \notin d.heldGroups
  /\ p \notin d.notnow[j]
  /\ p \notin d.never[j]

\* Mutant: the ration is compared off by one.
MayForkOneMore(d, p, ahead) ==
  /\ d.active <= MaxActive
  /\ p \in d.wasStarved \/ d.active + d.starving + ahead <= MaxActive

\* pprdrv_start() forks if there is a ration left and no printer that has
\* been starving longer (`ahead' more than are recorded) must be let past.
MayFork(d, p, ahead) ==
  /\ d.active # MaxActive
  /\ p \in d.wasStarved \/ d.active + d.starving + ahead < MaxActive

\* Mutant: the new starving printers are not counted.
StarveUncounted(d, ps) ==
  [d EXCEPT !.status     = [p \in Printers |->
                              IF p \in ps THEN PRNSTATUS_STARVED ELSE @[p]],
            !.wasStarved = @ \ ps]

\* pprdrv_start() gives up: the printers in `ps' now starve.
Starve(d, ps) ==
  [d EXCEPT !.status     = [p \in Printers |->
                              IF p \in ps THEN PRNSTATUS_STARVED ELSE @[p]],
            !.wasStarved = @ \ ps,
            !.starving   = @ + Cardinality(ps)]

\* The offset at which `p' is a member of group `g', as C counts.
MemberOffset(g, p) == (CHOOSE i \in DOMAIN Members[g] : Members[g][i] = p) - 1

\* pprdrv_start() in the parent, after a successful fork().
Launch(d, p, j) ==
  [d EXCEPT !.active     = @ + 1,
            !.pids       = @ \cup {p},
            !.job[p]     = j,
            !.jobdest[p] = d.jdest[j],
            !.status[p]  = PRNSTATUS_PRINTING,
            !.wasStarved = @ \ {p},
            !.jstatus[j] = p,
            !.last       = [g \in Groups |->
                              IF g = d.jdest[j] THEN MemberOffset(g, p)
                                                ELSE @[g]]]

\* The first of a set of positions.
First(S) == CHOOSE i \in S : \A k \in S : i <= k

\* An assertion of the code has failed and fatal() has ended pprd.
Die(d) == [d EXCEPT !.fatal = TRUE]

\* printer_look_for_work(): the idle printer p tries the first job in the
\* queue that is waiting and that it may print.
PrinterLookForWork(d, p, ff) ==
  LET work == {i \in DOMAIN d.queue :
                 LET j == d.queue[i] IN
                   /\ d.jstatus[j] = STATUS_WAITING
                   /\ Covers(d.jdest[j], p)
                   /\ Suitable(d, p, j)}
  IN  IF d.status[p] # PRNSTATUS_IDLE THEN Die(d)
      ELSE IF work = {} THEN d
      ELSE IF MayFork(d, p, 0) /\ p \notin ff
             THEN Launch(d, p, d.queue[First(work)])
             ELSE Starve(d, {p})

\* The printers printer_try_start_suitable_4_this_job() tries, in order.
TryOrder(d, j) ==
  LET g == d.jdest[j]
      n == Len(Members[g])
      y == IF g \in Rotating THEN d.last[g] ELSE -1
  IN  IF IsGroup(g)
        THEN [x \in 1 .. n |-> Members[g][((y + x) % n) + 1]]
        ELSE << g >>

\* printer_try_start_suitable_4_this_job(): the printers are tried in turn
\* until one starts.  Each idle and suitable one that could not be started
\* starves, and counts as starving when the next one is tried.
TryStartSuitable(d, j, ff) ==
  LET try    == TryOrder(d, j)
      idle   == {i \in DOMAIN try : /\ d.status[try[i]] = PRNSTATUS_IDLE
                                    /\ Suitable(d, try[i], j)}
      before(i) == {try[k] : k \in {k \in idle : k < i}}
      able   == {i \in idle : /\ MayFork(d, try[i], Cardinality(before(i)))
                              /\ try[i] \notin ff}
      w      == First(able)
  IN  IF d.jstatus[j] # STATUS_WAITING THEN Die(d)
      ELSE IF able = {} THEN Starve(d, {try[i] : i \in idle})
      ELSE Launch(Starve(d, before(w)), try[w], j)

---------------------------------------------------------------------------
(* pprd_media.c: which printers have the media, and what jobs wait for *)

HasMedia(d, p, j) ==
  \/ Bins[p] = {}
  \/ p \in AutoSelect
  \/ \A m \in JobMedia[j] : \E b \in Bins[p] : d.mounted[p][b] = m

\* stoptmask(): the members that somebody has stopt.
StoptMask(d, dest) ==
  {p \in MembersOf(dest) : d.status[p] >= PRNSTATUS_DELIBERATELY_DOWN}

\* media_set_job_wait_reason(): a job that waits does so for media if every
\* member that is not stopt lacks them.
JobWaitReason(d, j) ==
  LET all   == MembersOf(d.jdest[j])
      stopt == StoptMask(d, d.jdest[j])
  IN  IF d.jstatus[j] \notin {STATUS_WAITING, STATUS_WAITING4MEDIA}
        THEN d.jstatus[j]
      ELSE IF d.notnow[j] \cup stopt = all /\ stopt # all
        THEN STATUS_WAITING4MEDIA
        ELSE STATUS_WAITING

\* media_startstop_update_waitreason(), for every job p could print.
UpdateWaitReason(d, p) ==
  [d EXCEPT !.jstatus =
     [j \in Jobs |-> IF Covers(d.jdest[j], p) THEN JobWaitReason(d, j)
                                              ELSE @[j]]]

\* Mutant: bits are set when media go and not cleared when they come.
UpdateNotNowOnlySets(d, p) ==
  UpdateWaitReason(
    [d EXCEPT !.notnow =
       [j \in Jobs |-> IF /\ Queued(d, j) /\ Covers(d.jdest[j], p)
                          /\ ~ HasMedia(d, p, j)
                         THEN @[j] \cup {p} ELSE @[j]]], p)

\* media_update_notnow(), after a mount on p.
UpdateNotNow(d, p) ==
  LET d1 == [d EXCEPT !.notnow =
               [j \in Jobs |->
                  IF ~ Queued(d, j) \/ ~ Covers(d.jdest[j], p) THEN @[j]
                  ELSE IF HasMedia(d, p, j) THEN @[j] \ {p}
                  ELSE @[j] \cup {p}]]
  IN  UpdateWaitReason(d1, p)

\* media_set_notnow_for_job()
SetNotNowForJob(d, j) ==
  LET d1 == [d EXCEPT !.notnow[j] =
               {p \in MembersOf(d.jdest[j]) : ~ HasMedia(d, p, j)}]
  IN  [d1 EXCEPT !.jstatus[j] = JobWaitReason(d1, j)]

---------------------------------------------------------------------------
(* pprd_queue.c *)

\* The queue array with j put at position i.
Insert(q, i, j) == SubSeq(q, 1, i - 1) \o <<j>> \o SubSeq(q, i, Len(q))

\* Mutant: the entry behind the one that was found is closed up.
RemoveNext(q, j) ==
  LET i == CHOOSE i \in DOMAIN q : q[i] = j
  IN  SubSeq(q, 1, i) \o SubSeq(q, i + 2, Len(q))

\* The queue array without its entry for j.
Remove(q, j) ==
  LET i == CHOOSE i \in DOMAIN q : q[i] = j
  IN  SubSeq(q, 1, i - 1) \o SubSeq(q, i + 1, Len(q))

\* Mutant: the count of the destination is forgotten.
DequeueJobUncounted(d, dest, j) ==
  IF ~ Queued(d, j) \/ d.jdest[j] # dest THEN d
  ELSE [d EXCEPT !.queue      = Remove(@, j),
                 !.files      = @ \ {j},
                 !.jstatus[j] = STATUS_NONE,
                 !.jdest[j]   = JobDest[j],
                 !.prio[j]    = JobPriority[j],
                 !.never[j]   = {},
                 !.notnow[j]  = {},
                 !.pass[j]    = 0]

\* queue_dequeue_job(): the entry, the files and one of the destination's
\* count go.  Nothing happens if the entry is not found.
DequeueJob(d, dest, j) ==
  IF ~ Queued(d, j) \/ d.jdest[j] # dest THEN d
  ELSE [d EXCEPT !.queue      = Remove(@, j),
                 !.files      = @ \ {j},
                 !.count[dest] = @ - 1,
                 !.jstatus[j] = STATUS_NONE,
                 !.jdest[j]   = JobDest[j],
                 !.prio[j]    = JobPriority[j],
                 !.never[j]   = {},
                 !.notnow[j]  = {},
                 !.pass[j]    = 0]

\* Pass numbers count for group jobs only.
FirstPass(dest) == IF IsGroup(dest) THEN 1 ELSE 0

\* queue_accept_queuefile() fills the entry of j from its queue file, which
\* says that the status is st.
LoadEntry(d, j, st) ==
  SetNotNowForJob([d EXCEPT !.jstatus[j] = st,
                            !.prio[j]    = JobPriority[j],
                            !.never[j]   = {},
                            !.pass[j]    = FirstPass(d.jdest[j])], j)

\* Mutant: a new job goes before the older ones of its priority.
InsertPositionUnfair(d, j) ==
  LET later == {i \in DOMAIN d.queue : JobPriority[j] >= d.prio[d.queue[i]]}
  IN  IF later = {} THEN Len(d.queue) + 1 ELSE First(later)

\* Where the queue scan finds room for j: before the first job of lower
\* priority, or of the same priority and a later time.
InsertPosition(d, j) ==
  LET later == {i \in DOMAIN d.queue :
                  LET k == d.queue[i] IN
                    \/ JobPriority[j] > d.prio[k]
                    \/ /\ JobPriority[j] = d.prio[k]
                       /\ JobSeq[j] < JobSeq[k]}
  IN  IF later = {} THEN Len(d.queue) + 1 ELSE First(later)

\* The tail of queue_accept_queuefile(): a job that is ready is started.
StartIfWaiting(d, j, ff) ==
  IF d.jstatus[j] = STATUS_WAITING THEN TryStartSuitable(d, j, ff) ELSE d

\* Mutant: the files of a job that is turned away are left behind.
AcceptQueueFileLitters(d, j, st, ff) ==
  IF JobDest[j] \notin d.accepting \/ Len(d.queue) = QueueMax
    THEN [d EXCEPT !.files = @ \cup {j}]
    ELSE LET d1 == [d EXCEPT !.queue = Insert(@, InsertPosition(d, j), j),
                             !.files = @ \cup {j},
                             !.count[d.jdest[j]] = @ + 1]
         IN  StartIfWaiting(LoadEntry(d1, j, st), j, ff)

\* queue_accept_queuefile(job_is_new = TRUE, reload_job = FALSE), called by
\* queue_new_job() for the command "j".  The catch clause deletes the files.
AcceptQueueFile(d, j, st, ff) ==
  IF JobDest[j] \notin d.accepting \/ Len(d.queue) = QueueMax
    THEN [d EXCEPT !.files = @ \ {j}]
    ELSE LET d1 == [d EXCEPT !.queue = Insert(@, InsertPosition(d, j), j),
                             !.files = @ \cup {j},
                             !.count[d.jdest[j]] = @ + 1]
         IN  StartIfWaiting(LoadEntry(d1, j, st), j, ff)

\* The same with reload_job = TRUE, called by queue_reload_job() for the
\* command "J" that ppr sends for the destination it knows of.
ReloadQueueFile(d, j, st, ff) ==
  IF \/ JobDest[j] \notin d.accepting
     \/ ~ Queued(d, j) \/ d.jdest[j] # JobDest[j]
    THEN [d EXCEPT !.files = IF d.jdest[j] = JobDest[j] THEN @ \ {j} ELSE @]
    ELSE StartIfWaiting(LoadEntry(d, j, st), j, ff)
===========================================================================
