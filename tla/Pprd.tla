------------------------------- MODULE Pprd -------------------------------
(***************************************************************************)
(* The spooler daemon: one action per event its main loop serves.  pprd    *)
(* waits in select() for a command on its FIFO or its socket, for the      *)
(* death of a child and for the tick of its timer, and serves one event at *)
(* a time.                                                                 *)
(*                                                                         *)
(* A handler whose loop can start several printers is a series of steps,   *)
(* one per iteration: the iterations that are left are in `todo', and      *)
(* nothing else happens in the daemon until it is empty.                   *)
(***************************************************************************)
EXTENDS PprdTables

CONSTANTS
  Ops,           \* the commands the clients of this instance send
  Arrivals,      \* statuses with which ppr submits jobs
  ExitsSeen,     \* what pprdrv exits with in this instance
  ForkFailures,  \* the sets of printers for which fork() may fail at once
  MaxRetry,      \* bound: printer errors in a row on one printer
  MaxSkew        \* bound: by how much a counter may have gone wrong

AllOps == {"start", "stop", "wstop", "halt", "hold", "release", "cancel",
           "purge", "move", "moveall", "rush", "last", "mount", "accept",
           "reject", "pause", "resume", "pausegroup", "resumegroup"}

ASSUME InstanceAssumption ==
  /\ Ops \subseteq AllOps
  /\ Arrivals \subseteq {STATUS_WAITING, STATUS_HELD, STATUS_RECEIVING}
  /\ ExitsSeen \subseteq ExitCodes
  /\ ForkFailures \subseteq SUBSET Printers
  /\ MaxRetry \in Nat
  /\ MaxSkew \in Nat

VARIABLES
  pprd,     \* the daemon's tables
  todo,     \* iterations left of the loop of the handler now running
  recv,     \* jobs whose ppr has announced them but is still receiving data
  excused   \* observer: jobs that need not be queued, for they were never
            \* accepted, have been printed or somebody asked to cancel them

vars == <<pprd, todo, recv, excused>>

AllDests == -1     \* QUEUEID_WILDCARD

\* A pending iteration: the printer or job it is about and, for a move or a
\* purge, the destinations of the command.
Task ==
  [op : {"retry", "look"}, arg : Printers]
    \cup [op : {"hungry"}]
    \cup [op : {"purge"}, arg : Jobs, from : Dests \cup {AllDests}]
    \cup [op : {"move"}, arg : Jobs, from : Dests, to : Dests]

---------------------------------------------------------------------------
(* pprd_pprdrv.c: a pprdrv has exited *)

\* The first switch of pprdrv_exited(): a death by signal is expected only
\* of a printer that is halting, seizing or canceling.
EffectiveExit(d, p, e) ==
  IF e = "signal" /\ d.status[p] \notin
       {PRNSTATUS_HALTING, PRNSTATUS_SEIZING, PRNSTATUS_CANCELING}
    THEN "prnerr" ELSE e

RetryDelay(n) ==
  IF n * RetryMultiplier > MaxDelay THEN MaxDelay ELSE n * RetryMultiplier

\* EXIT_INCAPABLE: every member has now ruled the job out.
AllRefused(d, p) ==
  d.never[d.job[p]] \cup {p} = MembersOf(d.jobdest[p])

\* Mutant: a group job is stranded in its second pass.
StrandedEarly(d, p) ==
  \/ ~ IsGroup(d.jobdest[p])
  \/ d.pass[d.job[p]] + 1 > 2

\* EXIT_INCAPABLE: the job is stranded, at once on a single printer, after
\* the second pass over the members of a group.
Stranded(d, p) ==
  \/ ~ IsGroup(d.jobdest[p])
  \/ AllRefused(d, p) /\ d.pass[d.job[p]] + 1 > 2

\* The counters, masks and flags that pprdrv_exited() sets before it turns
\* to the job.  e is the effective exit code.
NoteExit(d, p, e) ==
  LET j == d.job[p]
      refused == e = "incapable" /\ IsGroup(d.jobdest[p]) /\ AllRefused(d, p)
  IN  [d EXCEPT
         !.pids      = @ \ {p},
         !.killed    = @ \ {p},
         !.active    = @ - 1,
         !.starving  = IF e = "starved" THEN @ + 1 ELSE @,
         !.cancelJob = IF e = "printed" THEN @ \ {p} ELSE @,
         !.holdJob   = @ \ {p},
         !.errRetry[p]  = IF e = "prnerr" THEN @ + 1
                          ELSE IF e \in {"printed", "joberr", "noretry"}
                                 THEN 0 ELSE @,
         !.countdown[p] = IF e = "prnerr" THEN RetryDelay(d.errRetry[p] + 1)
                          ELSE IF e = "noretry" THEN 0
                          ELSE IF e = "engaged" THEN EngagedRetry ELSE @,
         !.pass[j]   = IF refused THEN @ + 1 ELSE @,
         !.never[j]  = IF e # "incapable" THEN @
                       ELSE IF refused /\ ~ Stranded(d, p) THEN {}
                       ELSE @ \cup {p}]

\* job_status and prn_status of pprdrv_exited().
JobStatusAfter(d, p, e) ==
  IF p \in d.holdJob THEN STATUS_HELD
  ELSE IF e = "joberr" THEN STATUS_ARRESTED
  ELSE IF e = "incapable" /\ Stranded(d, p) THEN STATUS_STRANDED
  ELSE STATUS_WAITING

PrnStatusAfter(d, p, e) ==
  IF d.status[p] \in {PRNSTATUS_STOPPING, PRNSTATUS_HALTING}
    THEN PRNSTATUS_STOPT
  ELSE IF e = "engaged" THEN PRNSTATUS_ENGAGED
  ELSE IF e = "starved" THEN PRNSTATUS_STARVED
  ELSE IF e \in {"prnerr", "noretry"} THEN PRNSTATUS_FAULT
  ELSE PRNSTATUS_IDLE

\* queue_job_new_status() finds the job by destination and id, and it is
\* fatal if there is none.
JobNewStatus(d, dest, j, new) ==
  IF Queued(d, j) /\ d.jdest[j] = dest
    THEN [d EXCEPT !.jstatus[j] = new]
    ELSE Die(d)

\* Mutant: the request to cancel outlives the job.
DisposeOfJobFlagStays(d, p, e, ff) ==
  LET j    == d.job[p]
      dest == d.jobdest[p]
      d1   == NoteExit(d, p, e)
      new  == JobStatusAfter(d, p, e)
      d2   == JobNewStatus(d1, dest, j, new)
  IN  IF e = "printed" \/ p \in d.cancelJob THEN DequeueJob(d1, dest, j)
      ELSE IF d2.fatal \/ new # STATUS_WAITING THEN d2
      ELSE TryStartSuitable(d2, j, ff)

\* Mutant: the request to cancel is dropped when pprdrv exits.
DisposeOfJobNoCancel(d, p, e, ff) ==
  LET j    == d.job[p]
      dest == d.jobdest[p]
      d1   == NoteExit(d, p, e)
      d2   == JobNewStatus([d1 EXCEPT !.cancelJob = @ \ {p}], dest, j,
                           JobStatusAfter(d, p, e))
  IN  IF e = "printed" THEN DequeueJob(d1, dest, j)
      ELSE IF d2.fatal \/ d2.jstatus[j] # STATUS_WAITING THEN d2
      ELSE TryStartSuitable(d2, j, ff)

\* The job leaves the queue, or gets its new status and the other printers
\* are offered it.
DisposeOfJob(d, p, e, ff) ==
  LET j    == d.job[p]
      dest == d.jobdest[p]
      d1   == NoteExit(d, p, e)
      new  == JobStatusAfter(d, p, e)
      d2   == JobNewStatus(d1, dest, j, new)
  IN  IF e = "printed" \/ p \in d.cancelJob
        THEN [DequeueJob(d1, dest, j) EXCEPT !.cancelJob = @ \ {p}]
      ELSE IF d2.fatal \/ new # STATUS_WAITING THEN d2
      ELSE TryStartSuitable(d2, j, ff)

\* pprdrv_exited().  If it ends in fatal() the tables no longer matter.
PprdrvExited(d, p, code, ff) ==
  LET e  == EffectiveExit(d, p, code)
      d1 == DisposeOfJob(d, p, e, ff)
      d2 == PrinterNewStatus(d1, p, PrnStatusAfter(d1, p, e))
  IN  IF d1.fatal THEN Die(d)
      ELSE IF d2.status[p] = PRNSTATUS_IDLE THEN PrinterLookForWork(d2, p, ff)
      ELSE d2

---------------------------------------------------------------------------
(* pprd_ppop.c and pprd_ipp.c: what the commands do *)

\* pprdrv_kill()
PprdrvKill(d, p) ==
  IF p \in d.pids THEN [d EXCEPT !.killed = @ \cup {p}] ELSE d

\* Mutant: the wait reasons are not brought up to date.
ChangeOnly(d, p, new) == PrinterNewStatus(d, p, new)

\* A change of a printer's status by command, with the wait reasons.
Change(d, p, new) == UpdateWaitReason(PrinterNewStatus(d, p, new), p)

\* ppop_start_stop_wstop_halt(), action 0, and ipp_resume_printer(), which
\* does not release whoever waits for the printer to stop.
StartPrinter(d, p, release, ff) ==
  IF d.status[p] \in {PRNSTATUS_FAULT, PRNSTATUS_STOPT}
    THEN PrinterLookForWork(Change(d, p, PRNSTATUS_IDLE), p, ff)
  ELSE IF d.status[p] = PRNSTATUS_STOPPING
    THEN Change([d EXCEPT !.waiter = IF release THEN @ \ {p} ELSE @],
                p, PRNSTATUS_PRINTING)
  ELSE d

\* Mutant: a printer whose pprdrv is being killed counts as idle.
StopPrinterTooSoon(d, p, halt, wait) ==
  IF d.status[p] \notin {PRNSTATUS_PRINTING, PRNSTATUS_STOPT,
                         PRNSTATUS_STOPPING, PRNSTATUS_HALTING}
    THEN Change(d, p, PRNSTATUS_STOPT)
  ELSE IF d.status[p] = PRNSTATUS_PRINTING
    THEN PprdrvKill(Change(d, p, PRNSTATUS_HALTING), p)
  ELSE d

\* ppop_start_stop_wstop_halt(), actions 1 and 2 (halt), 128 (wait).
StopPrinter(d, p, halt, wait) ==
  LET delayed(x) == [x EXCEPT !.waiter = IF wait THEN @ \cup {p} ELSE @]
  IN  IF d.status[p] \in {PRNSTATUS_FAULT, PRNSTATUS_IDLE,
                          PRNSTATUS_ENGAGED, PRNSTATUS_STARVED}
        THEN Change(d, p, PRNSTATUS_STOPT)
      ELSE IF d.status[p] \in {PRNSTATUS_CANCELING, PRNSTATUS_SEIZING}
        THEN delayed(Change(d, p, PRNSTATUS_HALTING))
      ELSE IF halt /\ d.status[p] \in {PRNSTATUS_PRINTING, PRNSTATUS_STOPPING}
        THEN delayed(PprdrvKill(Change(d, p, PRNSTATUS_HALTING), p))
      ELSE IF d.status[p] = PRNSTATUS_PRINTING
        THEN delayed(Change(d, p, PRNSTATUS_STOPPING))
      ELSE d

\* Mutant: every job that is not printing is simply held.
HoldJobAny(d, j, dies) ==
  IF d.jstatus[j] >= 0 THEN d ELSE [d EXCEPT !.jstatus[j] = STATUS_HELD]

\* ppop_hold_release(), action 0, and ipp_hold_job().  For a job that is
\* being canceled the code indexes printers[] with STATUS_CANCEL: it writes
\* outside of the table, and may die of it.
HoldJob(d, j, dies) ==
  LET s == d.jstatus[j]
  IN  IF s \in {STATUS_WAITING, STATUS_WAITING4MEDIA}
        THEN [d EXCEPT !.jstatus[j] = STATUS_HELD]
      ELSE IF s = STATUS_CANCEL
        THEN [d EXCEPT !.jstatus[j] = STATUS_SEIZING, !.fatal = dies]
      ELSE IF s >= 0
        THEN PprdrvKill([PrinterNewStatus(d, s, PRNSTATUS_SEIZING) EXCEPT
                           !.jstatus[j] = STATUS_SEIZING,
                           !.holdJob    = @ \cup {s}], s)
      ELSE d

\* Mutant: a job that is still being seized can be released.
ReleaseJobSeizing(d, j, ff) ==
  IF d.jstatus[j] \in {STATUS_HELD, STATUS_ARRESTED, STATUS_SEIZING}
    THEN StartIfWaiting(
           SetNotNowForJob([d EXCEPT !.jstatus[j] = STATUS_WAITING], j),
           j, ff)
    ELSE d

\* ppop_hold_release(), action 1.
ReleaseJob(d, j, ff) ==
  IF d.jstatus[j] \in {STATUS_HELD, STATUS_ARRESTED}
    THEN StartIfWaiting(
           SetNotNowForJob([d EXCEPT !.jstatus[j] = STATUS_WAITING], j),
           j, ff)
    ELSE d

\* The printers whose last job, running or not, was j.
HadJob(d, j) == {p \in Printers : d.job[p] = j /\ d.jobdest[p] = d.jdest[j]}

\* One match of ppop_cancel_purge() or ipp_cancel_job_core().
CancelJob(d, j) ==
  LET s == d.jstatus[j]
      p == First(HadJob(d, j))
      withdraw(x, q, from) ==
        IF x.status[q] = from
          THEN PrinterNewStatus(x, q, PRNSTATUS_CANCELING) ELSE x
  IN  IF s >= 0
        THEN PprdrvKill([withdraw(d, s, PRNSTATUS_PRINTING) EXCEPT
                           !.cancelJob  = @ \cup {s},
                           !.jstatus[j] = STATUS_CANCEL], s)
      ELSE IF s = STATUS_CANCEL THEN d
      ELSE IF s = STATUS_SEIZING
        THEN IF HadJob(d, j) = {} THEN d
             ELSE [withdraw(d, p, PRNSTATUS_SEIZING) EXCEPT
                     !.holdJob    = @ \ {p},
                     !.cancelJob  = @ \cup {p},
                     !.jstatus[j] = STATUS_CANCEL]
      ELSE DequeueJob(d, d.jdest[j], j)

\* One match of ppop_move().
MoveJob(d, j, to, ff) ==
  IF d.jstatus[j] >= 0 THEN d
  ELSE StartIfWaiting(
         SetNotNowForJob(
           [d EXCEPT !.jdest[j]   = to,
                     !.jstatus[j] = IF @ = STATUS_STRANDED
                                      THEN STATUS_WAITING ELSE @,
                     !.never[j]   = {},
                     !.pass[j]    = FirstPass(to)], j), j, ff)

\* ppop_rush(): to the head of the queue, or to its tail.
RushJob(d, j, head) ==
  LET rest == Remove(d.queue, j)
  IN  [d EXCEPT !.queue   = IF head THEN <<j>> \o rest ELSE Append(rest, j),
                !.prio[j] = IF head THEN 101 ELSE 1]

\* ppop_mount()
Mount(d, p, b, m, ff) ==
  LET d1 == UpdateNotNow([d EXCEPT !.mounted[p][b] = m], p)
  IN  IF d1.status[p] = PRNSTATUS_IDLE THEN PrinterLookForWork(d1, p, ff)
      ELSE d1

---------------------------------------------------------------------------
(* pprd_printer.c: printer_tick() *)

\* Mutant: the printer looks for work before it is made idle.
TickRetryEarly(d, p, ff) ==
  LET d1 == [d EXCEPT !.countdown[p] = @ - TickInterval]
  IN  IF \/ d.status[p] = PRNSTATUS_FAULT /\ d.errRetry[p] # 0
         \/ d.status[p] = PRNSTATUS_ENGAGED
        THEN IF d1.countdown[p] > 0 THEN d1 ELSE PrinterLookForWork(d1, p, ff)
        ELSE d

\* Mutant: a countdown that does not reach zero at this tick is not kept.
TickRetryForgets(d, p, ff) ==
  LET d1 == [d EXCEPT !.countdown[p] = @ - TickInterval]
  IN  IF \/ d.status[p] = PRNSTATUS_FAULT /\ d.errRetry[p] # 0
         \/ d.status[p] = PRNSTATUS_ENGAGED
        THEN IF d1.countdown[p] > 0 THEN d
             ELSE PrinterLookForWork(
                    PrinterNewStatus(d1, p, PRNSTATUS_IDLE), p, ff)
        ELSE d

\* One iteration of the first loop: a printer in fault or engaged counts
\* down to its retry.
TickRetry(d, p, ff) ==
  LET d1 == [d EXCEPT !.countdown[p] = @ - TickInterval]
  IN  IF \/ d.status[p] = PRNSTATUS_FAULT /\ d.errRetry[p] # 0
         \/ d.status[p] = PRNSTATUS_ENGAGED
        THEN IF d1.countdown[p] > 0 THEN d1
             ELSE PrinterLookForWork(
                    PrinterNewStatus(d1, p, PRNSTATUS_IDLE), p, ff)
        ELSE d

\* Mutant: the scan for starving printers does not move on.
TickHungryStuck(d, ff) ==
  LET x  == IF d.hungry >= NumPrinters THEN 0 ELSE d.hungry
      d2 == [PrinterNewStatus(d, x, PRNSTATUS_IDLE) EXCEPT !.starving = @ - 1]
  IN  IF d.starving = 0 \/ d.active >= MaxActive THEN d
      ELSE IF d.status[x] = PRNSTATUS_STARVED THEN PrinterLookForWork(d2, x, ff)
      ELSE d

\* Mutant: a ration is counted as given before the printer is looked at.
TickHungryEarly(d, ff) ==
  LET x  == IF d.hungry >= NumPrinters THEN 0 ELSE d.hungry
      d1 == [d EXCEPT !.hungry = x + 1, !.starving = @ - 1]
  IN  IF d.starving = 0 \/ d.active >= MaxActive THEN d
      ELSE IF d.status[x] = PRNSTATUS_STARVED
        THEN PrinterLookForWork(PrinterNewStatus(d1, x, PRNSTATUS_IDLE), x, ff)
      ELSE d1

\* One iteration of the second loop: while there are rations left, the next
\* starving printer is fed.  (STARVING_RETRY_INTERVAL is TICK_INTERVAL, so
\* the loop runs at every tick.)
TickHungry(d, ff) ==
  LET x  == IF d.hungry >= NumPrinters THEN 0 ELSE d.hungry
      d1 == [d EXCEPT !.hungry = x + 1]
      d2 == [PrinterNewStatus(d1, x, PRNSTATUS_IDLE) EXCEPT !.starving = @ - 1]
  IN  IF d.starving = 0 \/ d.active >= MaxActive THEN d
      ELSE IF d.status[x] = PRNSTATUS_STARVED THEN PrinterLookForWork(d2, x, ff)
      ELSE d1

---------------------------------------------------------------------------
(* The events *)

Init ==
  /\ pprd = InitTables
  /\ todo = << >>
  /\ recv = {}
  /\ excused = Jobs

\* pprd waits in select().
Waits == todo = << >> /\ ~ pprd.fatal

Starved(d) == {p \in Printers : d.status[p] = PRNSTATUS_STARVED}
QueuedFor(d, dest) == {j \in Jobs : Queued(d, j) /\ d.jdest[j] = dest}

\* starving_printers and job_count drift when a starved printer is stopt and
\* when a job is moved; how far is bounded here.
Bounded(d) ==
  /\ d.starving - Cardinality(Starved(d)) <= MaxSkew
  /\ \A dest \in Dests :
       d.count[dest] - Cardinality(QueuedFor(d, dest)) \in -MaxSkew .. MaxSkew

\* A command of the given kind arrives and its handler leaves the tables so.
Command(op, tables) ==
  /\ op \in Ops
  /\ Waits
  /\ pprd' = tables
  /\ Bounded(pprd')
  /\ UNCHANGED recv

Simple(op, tables) == Command(op, tables) /\ UNCHANGED <<todo, excused>>

\* ppr has written a queue file under a free job id and says so ("j").
SubmitJob(j, st) ==
  /\ Waits
  /\ ~ Queued(pprd, j) /\ j \notin recv
  /\ \E ff \in ForkFailures : pprd' = AcceptQueueFile(pprd, j, st, ff)
  /\ recv' = IF st = STATUS_RECEIVING THEN recv \cup {j} ELSE recv
  /\ excused' = IF JobDest[j] \in pprd.accepting THEN excused \ {j} ELSE excused
  /\ UNCHANGED todo

\* ppr has received the rest of the job and rewritten the queue file ("J").
ReloadJob(j) ==
  /\ Waits
  /\ j \in recv
  /\ \E ff \in ForkFailures :
        pprd' = ReloadQueueFile(pprd, j, STATUS_WAITING, ff)
  /\ recv' = recv \ {j}
  /\ UNCHANGED <<todo, excused>>

\* The pprdrv of p exits and reapchild() hands it to pprdrv_exited().
Exit(p, code) ==
  /\ Waits
  /\ p \in pprd.pids
  /\ EffectiveExit(pprd, p, code) = "prnerr" => pprd.errRetry[p] < MaxRetry
  /\ \E ff \in ForkFailures : pprd' = PprdrvExited(pprd, p, code, ff)
  /\ Bounded(pprd')
  /\ excused' = IF code = "printed" THEN excused \cup {pprd.job[p]}
                                    ELSE excused
  /\ UNCHANGED <<todo, recv>>

\* The commands "t", "p", "P" and "b".
PpopStart(p) ==
  \E ff \in ForkFailures :
    Simple("start", StartPrinter(pprd, p, TRUE, ff))

PpopStop(p)  == Simple("stop",  StopPrinter(pprd, p, FALSE, FALSE))
PpopWstop(p) == Simple("wstop", StopPrinter(pprd, p, FALSE, TRUE))
PpopHalt(p)  == Simple("halt",  StopPrinter(pprd, p, TRUE, FALSE))

\* The command "h", and the IPP request to hold a job, ipp_hold_job().
PpopHold(j) ==
  /\ Queued(pprd, j)
  /\ \E dies \in BOOLEAN : Simple("hold", HoldJob(pprd, j, dies))

\* The command "r".
PpopRelease(j) ==
  /\ Queued(pprd, j)
  /\ \E ff \in ForkFailures : Simple("release", ReleaseJob(pprd, j, ff))

\* The command "c" for one job, and the IPP request, ipp_cancel_job_core().
PpopCancel(j) ==
  /\ Queued(pprd, j)
  /\ Command("cancel", CancelJob(pprd, j))
  /\ excused' = excused \cup {j}
  /\ UNCHANGED todo

\* The command "c" for every job of a destination, or of all: the queue is
\* searched entry by entry.
PpopPurge(dest) ==
  /\ Command("purge", pprd)
  /\ todo' = [i \in 1 .. Len(pprd.queue) |->
                [op |-> "purge", arg |-> pprd.queue[i], from |-> dest]]
  /\ UNCHANGED excused

PurgeStep ==
  /\ todo # << >> /\ ~ pprd.fatal
  /\ Head(todo).op = "purge"
  /\ LET j == Head(todo).arg
         matches == Head(todo).from \in {AllDests, pprd.jdest[j]}
     IN  /\ pprd' = IF matches THEN CancelJob(pprd, j) ELSE pprd
         /\ excused' = IF matches THEN excused \cup {j} ELSE excused
  /\ todo' = Tail(todo)
  /\ UNCHANGED recv

\* The command "m" for one job.
PpopMove(j, to) ==
  /\ Queued(pprd, j)
  /\ \E ff \in ForkFailures : Simple("move", MoveJob(pprd, j, to, ff))

\* The command "m" for every job of a destination.
PpopMoveAll(from, to) ==
  /\ Command("moveall", pprd)
  /\ todo' = [i \in 1 .. Len(pprd.queue) |->
                [op |-> "move", arg |-> pprd.queue[i], from |-> from, to |-> to]]
  /\ UNCHANGED excused

MoveStep ==
  /\ todo # << >> /\ ~ pprd.fatal
  /\ Head(todo).op = "move"
  /\ \E ff \in ForkFailures :
        pprd' = IF pprd.jdest[Head(todo).arg] = Head(todo).from
                  THEN MoveJob(pprd, Head(todo).arg, Head(todo).to, ff)
                  ELSE pprd
  /\ Bounded(pprd')
  /\ todo' = Tail(todo)
  /\ UNCHANGED <<recv, excused>>

PpopRush(j) == Queued(pprd, j) /\ Simple("rush", RushJob(pprd, j, TRUE))
PpopLast(j) == Queued(pprd, j) /\ Simple("last", RushJob(pprd, j, FALSE))

PpopMount(p, b, m) ==
  \E ff \in ForkFailures : Simple("mount", Mount(pprd, p, b, m, ff))

PpopAccept(dest) ==
  Simple("accept", [pprd EXCEPT !.accepting = @ \cup {dest}])
PpopReject(dest) ==
  Simple("reject", [pprd EXCEPT !.accepting = @ \ {dest}])

\* ipp_pause_printer() halts a printer that prints, and leaves one that is
\* already stopping alone.
IppPausePrinter(p) ==
  Simple("pause", IF pprd.status[p] = PRNSTATUS_STOPPING THEN pprd
                  ELSE StopPrinter(pprd, p, TRUE, FALSE))

IppResumePrinter(p) ==
  \E ff \in ForkFailures :
    Simple("resume", StartPrinter(pprd, p, FALSE, ff))

IppPauseGroup(g) ==
  Simple("pausegroup", [pprd EXCEPT !.heldGroups = @ \cup {g}])

\* The group is released and group_look_for_work() visits its members.
IppResumeGroup(g) ==
  /\ Command("resumegroup", [pprd EXCEPT !.heldGroups = @ \ {g}])
  /\ todo' = [i \in 1 .. Len(Members[g]) |->
                [op |-> "look", arg |-> Members[g][i]]]
  /\ UNCHANGED excused

LookStep ==
  /\ todo # << >> /\ ~ pprd.fatal
  /\ Head(todo).op = "look"
  /\ \E ff \in ForkFailures :
        pprd' = IF pprd.status[Head(todo).arg] = PRNSTATUS_IDLE
                  THEN PrinterLookForWork(pprd, Head(todo).arg, ff)
                  ELSE pprd
  /\ todo' = Tail(todo)
  /\ UNCHANGED <<recv, excused>>

\* printer_tick(): a retry step for every printer, then the feeding steps.
Tick ==
  /\ Waits
  /\ todo' = [i \in 1 .. 2 * NumPrinters |->
                IF i <= NumPrinters
                  THEN [op |-> "retry", arg |-> i - 1]
                  ELSE [op |-> "hungry"]]
  /\ UNCHANGED <<pprd, recv, excused>>

TickStep ==
  /\ todo # << >> /\ ~ pprd.fatal
  /\ Head(todo).op \in {"retry", "hungry"}
  /\ \E ff \in ForkFailures :
        pprd' = IF Head(todo).op = "retry"
                  THEN TickRetry(pprd, Head(todo).arg, ff)
                  ELSE TickHungry(pprd, ff)
  /\ todo' = Tail(todo)
  /\ UNCHANGED <<recv, excused>>

LoopStep == PurgeStep \/ MoveStep \/ LookStep \/ TickStep

StopCommand(p) ==
  PpopStop(p) \/ PpopWstop(p) \/ PpopHalt(p) \/ IppPausePrinter(p)
StartCommand(p) == PpopStart(p) \/ IppResumePrinter(p)
ExitOf(p) == \E code \in ExitsSeen : Exit(p, code)

\* Every other event.
Event ==
  \/ LoopStep
  \/ Tick
  \/ \E j \in Jobs :
       \/ \E st \in Arrivals : SubmitJob(j, st)
       \/ ReloadJob(j)
       \/ PpopHold(j) \/ PpopRelease(j) \/ PpopCancel(j)
       \/ PpopRush(j) \/ PpopLast(j)
       \/ \E to \in Dests : PpopMove(j, to)
  \/ \E p \in Printers :
       \E b \in Bins[p], m \in MediaIds \cup {NoMedium} : PpopMount(p, b, m)
  \/ \E dest \in Dests \cup {AllDests} : PpopPurge(dest)
  \/ \E from \in Dests, to \in Dests : PpopMoveAll(from, to)
  \/ \E dest \in Dests : PpopAccept(dest) \/ PpopReject(dest)
  \/ \E g \in Groups : IppPauseGroup(g) \/ IppResumeGroup(g)

Next ==
  \/ Event
  \/ \E p \in Printers : ExitOf(p) \/ StartCommand(p) \/ StopCommand(p)

Spec == Init /\ [][Next]_vars

(***************************************************************************)
(* Fairness.  Once a tick is due the main loop serves it, and with it the  *)
(* children that have died, before it looks at its FIFO again; so neither  *)
(* is put off for ever by other events.  These disable them again and      *)
(* again (while a handler runs), hence strong fairness.  That a pprdrv     *)
(* ends at some time is assumed of pprdrv: a job is finite and SIGTERM     *)
(* makes it shut down.                                                     *)
(***************************************************************************)
Fairness ==
  /\ SF_vars(Tick)
  /\ WF_vars(LoopStep)
  /\ \A p \in Printers : SF_vars(ExitOf(p))

FairSpec == Spec /\ Fairness

---------------------------------------------------------------------------
(* Safety *)

\* The tables, the agenda of the running handler and the observers have
\* the types the C declarations give them, and every job with a status has
\* an entry in the queue array.
TypeOK ==
  /\ pprd \in Tables
  /\ todo \in Seq(Task)
  /\ recv \subseteq Jobs /\ excused \subseteq Jobs
  /\ \A j \in Jobs : Queued(pprd, j) =>
       \E i \in DOMAIN pprd.queue : pprd.queue[i] = j

\* A pprdrv runs for p exactly while p has a status that says so: no reaped
\* child leaves a printer "printing" and no running one is forgotten.
DriverMatchesStatus ==
  \A p \in Printers : p \in pprd.pids <=> pprd.status[p] \in Busy

\* active_printers is the number of pprdrv processes, never over MAX_ACTIVE.
ActiveCount ==
  /\ pprd.active = Cardinality(pprd.pids)
  /\ pprd.active <= MaxActive

\* No job is in the hands of two pprdrv's, a job that prints does so on the
\* printer its status names, and a pprdrv's job is never back among those
\* that may be started: it prints, is being canceled or is being seized.
ExclusivePrinting ==
  /\ \A p, q \in pprd.pids : pprd.job[p] = pprd.job[q] => p = q
  /\ \A j \in Jobs : pprd.jstatus[j] >= 0 =>
        /\ pprd.jstatus[j] \in pprd.pids
        /\ pprd.job[pprd.jstatus[j]] = j
        /\ pprd.jobdest[pprd.jstatus[j]] = pprd.jdest[j]
  /\ \A p \in pprd.pids :
        /\ pprd.job[p] # NoJob
        /\ pprd.jstatus[pprd.job[p]] \in {p, STATUS_CANCEL, STATUS_SEIZING}

\* starving_printers covers every starved printer.  printer_tick() feeds
\* nobody while it is zero, so a printer it missed would never wake.
StarvingCovered == Cardinality(Starved(pprd)) <= pprd.starving

\* The cached `notnow' mask of every queued job agrees with what is mounted.
NotNowFresh ==
  \A j \in Jobs : Queued(pprd, j) =>
    pprd.notnow[j] =
      {p \in MembersOf(pprd.jdest[j]) : ~ HasMedia(pprd, p, j)}

\* p could print j at once: the job waits (for whatever reason), p is one of
\* its printers, has the media, is not ruled out and no group holds it up.
CanPrint(d, p, j) ==
  /\ d.jstatus[j] \in {STATUS_WAITING, STATUS_WAITING4MEDIA}
  /\ Covers(d.jdest[j], p)
  /\ HasMedia(d, p, j)
  /\ p \notin d.never[j]
  /\ d.jdest[j] \notin d.heldGroups

\* When pprd goes back to select() no printer is left idle beside a job that
\* it could print: nothing but a new event would ever start that job.
WorkConserving ==
  Waits => \A p \in Printers, j \in Jobs :
             pprd.status[p] = PRNSTATUS_IDLE => ~ CanPrint(pprd, p, j)

\* A cancel is always for the job that prints now: the flag of a printer and
\* the status of the job it works on stay in step until pprdrv exits.
CancelFlagBelongs ==
  /\ \A p \in pprd.cancelJob :
        p \in pprd.pids /\ pprd.jstatus[pprd.job[p]] = STATUS_CANCEL
  /\ \A j \in Jobs : pprd.jstatus[j] = STATUS_CANCEL =>
        \E p \in pprd.pids \cap pprd.cancelJob : pprd.job[p] = j

\* A job once accepted stays in the queue, with its files, until a pprdrv has
\* printed it or somebody asks to cancel it.
NothingLost ==
  \A j \in Jobs : j \notin excused => Queued(pprd, j) /\ j \in pprd.files

\* ppr is still receiving a job that is queued as such: nothing that happens
\* to the job in the meantime makes it printable before its data is there.
ReceivedFirst ==
  \A j \in recv : Queued(pprd, j) => pprd.jstatus[j] = STATUS_RECEIVING

\* The queue array holds every queued job once, the most urgent first and,
\* among jobs of one priority that nobody has rushed or put last, in the
\* order in which they were submitted (sequence_number is a time in seconds,
\* so two jobs may have the same).
QueueOrder ==
  /\ \A i \in DOMAIN pprd.queue : Queued(pprd, pprd.queue[i])
  /\ \A i, k \in DOMAIN pprd.queue : i < k =>
        LET a == pprd.queue[i]
            b == pprd.queue[k]
        IN  /\ a # b
            /\ pprd.prio[a] >= pprd.prio[b]
            /\ pprd.prio[a] = pprd.prio[b] /\ pprd.prio[a] \in 2 .. 100
                 => JobSeq[a] <= JobSeq[b]

\* job_count of a destination is the number of jobs queued for it.
JobCounts ==
  \A dest \in Dests : pprd.count[dest] = Cardinality(QueuedFor(pprd, dest))

\* The spool files of every queued job exist, and of no other job.
FilesMatchQueue == \A j \in Jobs : j \in pprd.files <=> Queued(pprd, j)

\* A job is given up only when every printer of its destination has said
\* that it can not print it, twice for a group.
StrandedByAll ==
  \A j \in Jobs : pprd.jstatus[j] = STATUS_STRANDED =>
    /\ pprd.never[j] = MembersOf(pprd.jdest[j])
    /\ IsGroup(pprd.jdest[j]) => pprd.pass[j] = 3

\* Whoever waits for a printer to stop waits for one that is stopping.
WaiterWillHear ==
  \A p \in pprd.waiter :
    pprd.status[p] \in {PRNSTATUS_STOPPING, PRNSTATUS_HALTING}

\* No assertion of the code fails.
NoFatal == ~ pprd.fatal

---------------------------------------------------------------------------
(* What a step may never do *)

\* Until somebody starts it again, a printer that is stopping can only
\* become stopt.
StoppingOnlyStops ==
  [][\A p \in Printers :
       LET stopping == {PRNSTATUS_STOPPING, PRNSTATUS_HALTING}
       IN  pprd.status[p] \in stopping =>
             pprd'.status[p] \in stopping \cup {PRNSTATUS_STOPT}]_vars

---------------------------------------------------------------------------
(* Liveness *)

\* A starved printer is fed at last, however busy the others are: none stays
\* starved for ever.
StarvedIsFed ==
  \A p \in Printers : []<>(pprd.status[p] # PRNSTATUS_STARVED)

\* A printer with a fault that allows retries, or engaged elsewhere, is
\* tried again (or stopt): none waits for its retry for ever.
RetryHappens ==
  \A p \in Printers :
    []<>(/\ pprd.status[p] = PRNSTATUS_FAULT => pprd.errRetry[p] = 0
         /\ pprd.status[p] # PRNSTATUS_ENGAGED)

\* A job that is being canceled leaves the queue.
CancelCompletes ==
  \A j \in Jobs : pprd.jstatus[j] = STATUS_CANCEL ~> ~ Queued(pprd, j)

\* Whoever waits for a printer to stop is told in the end.
WaiterIsTold == \A p \in Printers : []<>(p \notin pprd.waiter)
===========================================================================
