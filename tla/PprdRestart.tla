---------------------------- MODULE PprdRestart ----------------------------
(***************************************************************************)
(* What of the daemon's tables survives its death, and what it makes of it *)
(* when it is started again; and the commands with which ppad makes a      *)
(* running daemon read a configuration file again, which go the same way.  *)
(*                                                                         *)
(* Every printer and every group has a spool state file that is rewritten  *)
(* when its record changes; every job has a queue file whose first line    *)
(* pprd rewrites when the job's status changes.  pprd may be shut down or  *)
(* killed between two events, and it may die inside a handler, when only   *)
(* some of the files that the handler changes have been written and one    *)
(* may have been truncated but not written.  A pprdrv outlives it.         *)
(***************************************************************************)
EXTENDS Pprd

CONSTANTS
  MaxCrashes,   \* bound: deaths of pprd
  MaxReloads    \* bound: configurations read again

ASSUME CrashesAssumption ==
  MaxCrashes \in Nat /\ MaxReloads \in Nat

VARIABLES
  disk,      \* the spool state files and the PPRD: lines of the queue files
  up,        \* pprd is running; if not, its tables mean nothing
  crashes,   \* deaths of pprd so far
  reloads,   \* configurations read again so far
  fate,      \* observer: what pprd knows to have become of each job
  ordered,   \* observer: printers last told to stop, and not to start, whose
             \* file no death has truncated since
  loaded     \* observer: what this pprd has been started with

observers == <<fate, ordered, loaded>>
rvars == <<vars, disk, up, crashes, reloads, observers>>

\* What a pprd can not get rid of once it has loaded it: printers with the
\* status STOPPING and no pprdrv that would end it, jobs with a status that
\* only the end of a pprdrv ends, and starved printers that nobody has
\* counted.  Further the jobs that a reload has let start over without asking
\* every printer that could now print them.
Loaded ==
  [stopping : SUBSET Printers, stuck : SUBSET Jobs, uncounted : Nat,
   aside : SUBSET Jobs]

\* The files.  A job_count is saved too, but load_printer() and load_group()
\* set it to zero again.
Disk ==
  [status     : [Printers -> PrnStatus],     \* <printer>/spool_state
   wasStarved : SUBSET Printers,
   errRetry   : [Printers -> Nat],
   countdown  : [Printers -> Int],
   accepting  : SUBSET Dests,                \* and <group>/spool_state
   heldGroups : SUBSET Groups,
   jstatus    : [Jobs -> {s \in JobStatus : s <= 0}],   \* queue file, PPRD:
   prio       : [Jobs -> Nat],
   jdest      : [Jobs -> Dests],             \* its name
   mounted    : [Printers -> [UNION {Bins[p] : p \in Printers}
                                -> MediaIds \cup {NoMedium}]],
   files      : SUBSET Jobs]                 \* it exists

NoDisk ==
  [status     |-> [p \in Printers |-> PRNSTATUS_IDLE],
   wasStarved |-> {},
   errRetry   |-> [p \in Printers |-> 0],
   countdown  |-> [p \in Printers |-> 0],
   accepting  |-> Dests,
   heldGroups |-> {},
   jstatus    |-> [j \in Jobs |-> STATUS_NONE],
   prio       |-> JobPriority,
   jdest      |-> JobDest,
   mounted    |-> InitTables.mounted,
   files      |-> {}]

---------------------------------------------------------------------------
(* Saving *)

\* The member of S that `new' has, or the one that `old' has.
Pick(x, written, new, old) == IF x \in written THEN new ELSE old

\* A set after its elements in `written' have been brought up to date.
PickSet(S, written, new, old) ==
  {x \in S : IF x \in written THEN x \in new ELSE x \in old}

\* A job that prints has status 0 in the file.
WrittenStatus(s) == IF s >= 0 THEN 0 ELSE s

\* The printers and groups whose file is rewritten when the tables go from d
\* to e: the status, the job count, accepting or held has changed.  (The
\* countdown alone is not worth a save.)
SavedDests(d, e) ==
  {x \in Dests :
     \/ d.count[x] # e.count[x]
     \/ x \in d.accepting <=> x \notin e.accepting
     \/ x \in d.heldGroups <=> x \notin e.heldGroups
     \/ x \in Printers /\ <<d.status[x], x \in d.wasStarved>>
                            # <<e.status[x], x \in e.wasStarved>>}

\* printer_spool_state_save() and group_spool_state_save() for `written'.
SaveStates(k, e, written) ==
  [k EXCEPT
     !.status     = [p \in Printers |-> Pick(p, written, e.status[p], @[p])],
     !.wasStarved = PickSet(Printers, written, e.wasStarved, @),
     !.errRetry   = [p \in Printers |-> Pick(p, written, e.errRetry[p], @[p])],
     !.countdown  = [p \in Printers |-> Pick(p, written, e.countdown[p], @[p])],
     !.accepting  = PickSet(Dests, written, e.accepting, @),
     !.heldGroups = PickSet(Groups, written, e.heldGroups, @)]

\* Jobs whose queue file changes: it is new, gone or renamed, or the status
\* on its PPRD: line is another.  A new priority alone is not written.
SavedJobs(d, e) ==
  {j \in Jobs : <<j \in d.files, d.jstatus[j], d.jdest[j]>>
                  # <<j \in e.files, e.jstatus[j], e.jdest[j]>>}

\* Mutant: the number of the printer is written.
SaveJobsRaw(k, d, e, written) ==
  [k EXCEPT
     !.files   = PickSet(Jobs, written, e.files, @),
     !.jdest   = [j \in Jobs |-> Pick(j, written, e.jdest[j], @[j])],
     !.jstatus = [j \in Jobs |-> Pick(j, written, e.jstatus[j], @[j])],
     !.prio    = [j \in Jobs |-> Pick(j, written, e.prio[j], @[j])]]

\* Mutant: the files of a job that is done with stay.
SaveJobsNoUnlink(k, d, e, written) ==
  LET line == {j \in written : d.jstatus[j] # e.jstatus[j]}
  IN  [k EXCEPT
         !.files   = @ \cup e.files,
         !.jdest   = [j \in Jobs |-> Pick(j, written, e.jdest[j], @[j])],
         !.jstatus = [j \in Jobs |->
                        Pick(j, line, WrittenStatus(e.jstatus[j]), @[j])],
         !.prio    = [j \in Jobs |-> Pick(j, line, e.prio[j], @[j])]]

\* queue_write_status_and_flags(), delete_job_files() and the renames of
\* ppop_move() for `written'.  A move alone does not touch the line.
SaveJobs(k, d, e, written) ==
  LET line == {j \in written : d.jstatus[j] # e.jstatus[j]}
  IN  [k EXCEPT
         !.files   = PickSet(Jobs, written, e.files, @),
         !.jdest   = [j \in Jobs |-> Pick(j, written, e.jdest[j], @[j])],
         !.jstatus = [j \in Jobs |->
                        Pick(j, line, WrittenStatus(e.jstatus[j]), @[j])],
         !.prio    = [j \in Jobs |-> Pick(j, line, e.prio[j], @[j])]]

\* A handler that takes the tables from d to e has run to its end; what is
\* mounted is saved by media_mounted_save().
SaveAll(k, d, e) ==
  SaveJobs(SaveStates([k EXCEPT !.mounted = e.mounted], e, SavedDests(d, e)),
           d, e, SavedJobs(d, e))

\* An empty file is as good as none: the loader keeps its defaults.
Truncate(k, torn) ==
  [k EXCEPT
     !.status     = [p \in Printers |-> IF p \in torn THEN PRNSTATUS_IDLE
                                                      ELSE @[p]],
     !.wasStarved = @ \ torn,
     !.errRetry   = [p \in Printers |-> IF p \in torn THEN 0 ELSE @[p]],
     !.countdown  = [p \in Printers |-> IF p \in torn THEN 0 ELSE @[p]],
     !.accepting  = @ \cup torn,
     !.heldGroups = @ \ torn]

---------------------------------------------------------------------------
(* Loading *)

\* Mutant: a printer that was being halted is idle.
StatusAfterDeathHalting(s) ==
  IF s \in {PRNSTATUS_PRINTING, PRNSTATUS_CANCELING, PRNSTATUS_SEIZING,
            PRNSTATUS_HALTING}
    THEN PRNSTATUS_IDLE
  ELSE s

\* load_printer(): what a printer's status becomes because pprd was killed.
StatusAfterDeath(s) ==
  IF s \in {PRNSTATUS_PRINTING, PRNSTATUS_CANCELING, PRNSTATUS_SEIZING}
    THEN PRNSTATUS_IDLE
  ELSE IF s = PRNSTATUS_HALTING THEN PRNSTATUS_STOPT
  ELSE s

\* load_printers() and load_groups(): the records are new but for what the
\* spool state files say.
LoadDests(k) ==
  [InitTables EXCEPT
     !.status     = [p \in Printers |-> StatusAfterDeath(k.status[p])],
     !.wasStarved = {p \in k.wasStarved :
                       StatusAfterDeath(k.status[p]) = k.status[p]},
     !.errRetry   = k.errRetry,
     !.countdown  = k.countdown,
     !.accepting  = k.accepting,
     !.heldGroups = k.heldGroups,
     !.mounted    = k.mounted,
     !.files      = k.files]

\* Mutant: jobs are queued in the order of the directory.
LoadJobUnsorted(d, k, j) ==
  SetNotNowForJob(
    [d EXCEPT !.queue      = Append(@, j),
              !.jdest[j]   = k.jdest[j],
              !.jstatus[j] = IF k.jstatus[j] = 0 THEN STATUS_WAITING
                                                 ELSE k.jstatus[j],
              !.prio[j]    = k.prio[j],
              !.pass[j]    = FirstPass(k.jdest[j]),
              !.count[k.jdest[j]] = @ + 1], j)

\* Mutant: the queue is taken for full one job too early.
LoadJobFullEarly(d, k, j) ==
  IF Len(d.queue) + 1 >= QueueMax THEN [d EXCEPT !.files = @ \ {j}]
  ELSE LoadJobUnsorted(d, k, j)

\* queue_accept_queuefile(job_is_new = FALSE) for one queue file: whether
\* the destination accepts jobs is not asked, and nothing is started yet.
LoadJob(d, k, j) ==
  LET later == {i \in DOMAIN d.queue :
                  LET o == d.queue[i] IN
                    \/ k.prio[j] > d.prio[o]
                    \/ k.prio[j] = d.prio[o] /\ JobSeq[j] < JobSeq[o]}
      pos == IF later = {} THEN Len(d.queue) + 1 ELSE First(later)
  IN  IF Len(d.queue) = QueueMax THEN [d EXCEPT !.files = @ \ {j}]
      ELSE SetNotNowForJob(
             [d EXCEPT !.queue      = Insert(@, pos, j),
                       !.jdest[j]   = k.jdest[j],
                       !.jstatus[j] = IF k.jstatus[j] = 0 THEN STATUS_WAITING
                                                          ELSE k.jstatus[j],
                       !.prio[j]    = k.prio[j],
                       !.pass[j]    = FirstPass(k.jdest[j]),
                       !.count[k.jdest[j]] = @ + 1], j)

\* initialize_queue(): the queue files are read in the order `dir' in which
\* readdir() returns them.  The files are functions over their numbers.
LoadQueue(d, k, dir) ==
  LET load[n \in 0 .. Len(dir)] ==
        IF n = 0 THEN d ELSE LoadJob(load[n - 1], k, dir[n])
  IN  load[Len(dir)]

\* The orders of a directory with these files.
Listings(S) == {q \in [1 .. Cardinality(S) -> S] : \A i, k \in DOMAIN q :
                                                     q[i] = q[k] => i = k}

---------------------------------------------------------------------------
(* ppad has changed a configuration file and says so *)

\* Mutant: the status is taken from the file too.
ReloadRecordAll(d, k, p) ==
  [d EXCEPT !.cancelJob    = @ \ {p},
            !.holdJob      = @ \ {p},
            !.count[p]     = 0,
            !.status[p]    = StatusAfterDeath(k.status[p]),
            !.errRetry[p]  = k.errRetry[p],
            !.countdown[p] = k.countdown[p]]

\* load_printer() on the record of a printer that exists: what the saved
\* state says replaces what pprd knew, but for the status, the pprdrv and
\* the waiting ppop.
ReloadRecord(d, k, p) ==
  [d EXCEPT !.cancelJob    = @ \ {p},
            !.holdJob      = @ \ {p},
            !.count[p]     = 0,
            !.errRetry[p]  = k.errRetry[p],
            !.countdown[p] = k.countdown[p],
            !.wasStarved   = IF /\ p \in k.wasStarved
                                /\ StatusAfterDeath(k.status[p]) = k.status[p]
                               THEN @ \cup {p} ELSE @ \ {p},
            !.accepting    = IF p \in k.accepting THEN @ \cup {p} ELSE @ \ {p},
            !.mounted[p]   = k.mounted[p]]

\* new_printer_config(): the printer may be able to print what it could not
\* before.
ReloadPrinter(d, p, ff) ==
  LET mine(j) == Queued(d, j) /\ Covers(d.jdest[j], p)
      d1 == [d EXCEPT
               !.never   = [j \in Jobs |->
                              IF mine(j) THEN @[j] \ {p} ELSE @[j]],
               !.jstatus = [j \in Jobs |->
                              IF mine(j) /\ @[j] = STATUS_STRANDED
                                THEN STATUS_WAITING ELSE @[j]]]
      d2 == UpdateNotNow(d1, p)
  IN  IF d2.status[p] = PRNSTATUS_IDLE THEN PrinterLookForWork(d2, p, ff)
      ELSE d2

\* new_group_config(): the jobs of the group start over.  STATUS_STRANDED
\* and the pass number stay.
ReloadGroup(d, k, g) ==
  LET mine(j) == Queued(d, j) /\ d.jdest[j] = g
      d1 == [d EXCEPT
               !.last[g]    = -1,
               !.count[g]   = 0,
               !.accepting  = IF g \in k.accepting THEN @ \cup {g} ELSE @ \ {g},
               !.heldGroups = IF g \in k.heldGroups THEN @ \cup {g}
                                                    ELSE @ \ {g},
               !.never      = [j \in Jobs |-> IF mine(j) THEN {} ELSE @[j]],
               !.notnow     = [j \in Jobs |->
                                 IF ~ mine(j) THEN @[j]
                                 ELSE {p \in MembersOf(g) :
                                         ~ HasMedia(d, p, j)}]]
  IN  [d1 EXCEPT !.jstatus =
         [j \in Jobs |-> IF mine(j) THEN JobWaitReason(d1, j) ELSE @[j]]]

\* group_look_for_work(x): x should be the index of the group, but it is the
\* variable that has just run over the queue.  The members of the group
\* with that index look for work, if there is one.
LooksAfterReload(d) ==
  LET at == {g \in Groups :
               Cardinality({h \in Groups : h < g}) = Len(d.queue)}
  IN  IF at = {} THEN << >>
      ELSE LET m == Members[CHOOSE g \in at : TRUE]
           IN  [i \in DOMAIN m |-> [op |-> "look", arg |-> m[i]]]

---------------------------------------------------------------------------
(* The actions *)

RInit ==
  /\ Init
  /\ disk = NoDisk
  /\ up = TRUE
  /\ crashes = 0
  /\ reloads = 0
  /\ fate = [j \in Jobs |-> "none"]
  /\ ordered = {}
  /\ loaded = [stopping |-> {}, stuck |-> {}, uncounted |-> 0, aside |-> {}]

\* A handler of Pprd runs; `done' is the set of the jobs it finds printed.
\* If it does not run to its end (`whole') nobody is told that his command
\* has been obeyed; the files in `torn' are lost.  Job ids are not used
\* again.
Handler(whole, done, torn) ==
  /\ up
  /\ \/ Event /\ done = {} /\ ordered' = ordered \ torn
     \/ \E p \in Printers, code \in ExitsSeen :
          /\ Exit(p, code)
          /\ done = IF code = "printed" THEN {pprd.job[p]} ELSE {}
          /\ ordered' = ordered \ torn
     \/ /\ done = {}
        /\ \E p \in Printers :
             \/ StartCommand(p) /\ ordered' = ordered \ (torn \cup {p})
             \/ /\ StopCommand(p)
                /\ ordered' = IF whole THEN ordered \cup {p}
                                       ELSE ordered \ (torn \cup {p})
  /\ \A j \in pprd'.files \ pprd.files : fate[j] = "none"

\* What is known of the jobs once it is known that those in `done' have been
\* printed.
Known(done) ==
  [j \in Jobs |-> IF j \in done THEN "printed"
                  ELSE IF j \in pprd'.files \ pprd.files THEN "spooled"
                  ELSE fate[j]]

Handle ==
  /\ \E done \in {{}} \cup {{j} : j \in Jobs} :
       Handler(TRUE, done, {}) /\ fate' = Known(done)
  /\ disk' = SaveAll(disk, pprd, pprd')
  /\ UNCHANGED <<up, crashes, reloads, loaded>>

\* The command "NP".  load_printer() makes a busy printer idle in its file.
NewPrinterConfig(p) ==
  /\ up /\ Waits
  /\ reloads < MaxReloads /\ reloads' = reloads + 1
  /\ \E ff \in ForkFailures :
       LET k1 == [disk EXCEPT
                    !.status[p]  = StatusAfterDeath(@),
                    !.wasStarved = IF StatusAfterDeath(disk.status[p])
                                        = disk.status[p] THEN @ ELSE @ \ {p}]
           d1 == ReloadRecord(pprd, disk, p)
           e  == ReloadPrinter(d1, p, ff)
       IN  /\ pprd' = e
           /\ disk' = SaveAll(k1, d1, e)
           /\ loaded' = [loaded EXCEPT !.aside =
                @ \cup {j \in Jobs : Covers(pprd.jdest[j], p)
                                    /\ pprd.jstatus[j] = STATUS_STRANDED}]
  /\ UNCHANGED <<todo, recv, excused, up, crashes, fate, ordered>>

\* The command "NG".
NewGroupConfig(g) ==
  /\ up /\ Waits
  /\ reloads < MaxReloads /\ reloads' = reloads + 1
  /\ pprd' = ReloadGroup(pprd, disk, g)
  /\ disk' = SaveJobs(disk, pprd, pprd', SavedJobs(pprd, pprd'))
  /\ todo' = LooksAfterReload(pprd)
  /\ loaded' = [loaded EXCEPT !.aside = @ \cup QueuedFor(pprd, g)]
  /\ UNCHANGED <<recv, excused, up, crashes, fate, ordered>>

\* pprd is gone.  Its pprdrv's go on, but whether they print their jobs
\* nobody will learn; nor is a job known to be printed if the handler that
\* found out has not come to its end.
Dies ==
  /\ crashes < MaxCrashes
  /\ up' = FALSE
  /\ crashes' = crashes + 1
  /\ fate' = Known({})
  /\ UNCHANGED <<reloads, loaded>>

\* SIGTERM or death between two events.
Shutdown ==
  /\ up /\ todo = << >>
  /\ UNCHANGED vars
  /\ Dies
  /\ UNCHANGED <<disk, ordered>>

\* pprd dies inside a handler: of the files that it changes some have been
\* written, and one may be empty.  The file of a new job is ppr's.
DieInHandler ==
  /\ \E torn \in {{}} \cup {{x} : x \in Dests} :
       /\ \E done \in {{}} \cup {{j} : j \in Jobs} : Handler(FALSE, done, torn)
       /\ SavedDests(pprd, pprd') \cup SavedJobs(pprd, pprd') # {}
       /\ \E dests \in SUBSET SavedDests(pprd, pprd'),
             jobs \in SUBSET SavedJobs(pprd, pprd') :
            /\ torn \subseteq SavedDests(pprd, pprd') \ dests
            /\ pprd'.files \ pprd.files \subseteq jobs
            /\ disk' = Truncate(SaveJobs(SaveStates(disk, pprd', dests),
                                         pprd, pprd', jobs), torn)
  /\ Dies

\* Mutant: the last printer is forgotten.
FirstLooksShort ==
  [i \in 1 .. NumPrinters - 1 |-> [op |-> "look", arg |-> i - 1]]

\* The last loop of initialize_queue(): every printer looks for work.
FirstLooks == [i \in 1 .. NumPrinters |-> [op |-> "look", arg |-> i - 1]]

\* pprd is started: real_main() as far as the main loop.
Restart ==
  /\ ~ up
  /\ \E dir \in Listings(disk.files) :
       LET d == LoadQueue(LoadDests(disk), disk, dir)
       IN  /\ pprd' = d
           /\ disk' = SaveStates([disk EXCEPT !.files = d.files], d, Dests)
           /\ loaded' =
                [stopping  |-> {p \in Printers :
                                  d.status[p] = PRNSTATUS_STOPPING},
                 stuck     |-> {j \in Jobs :
                                  d.jstatus[j] \in {STATUS_CANCEL,
                                                    STATUS_SEIZING}},
                 uncounted |-> Cardinality(Starved(d)),
                 aside     |-> {}]
  /\ todo' = FirstLooks
  /\ up' = TRUE
  /\ UNCHANGED <<recv, excused, crashes, reloads, fate, ordered>>

RNext ==
  \/ Handle
  \/ \E p \in Printers : NewPrinterConfig(p)
  \/ \E g \in Groups : NewGroupConfig(g)
  \/ Shutdown \/ DieInHandler \/ Restart

RSpec == RInit /\ [][RNext]_rvars

---------------------------------------------------------------------------
(* Properties *)

\* The files hold what their readers expect, beside tables of the right type.
RTypeOK ==
  /\ up => TypeOK
  /\ disk \in Disk
  /\ up \in BOOLEAN /\ crashes \in 0 .. MaxCrashes
  /\ reloads \in 0 .. MaxReloads
  /\ fate \in [Jobs -> {"none", "spooled", "printed"}]
  /\ ordered \subseteq Printers
  /\ loaded \in Loaded

\* A job once accepted is on disk, whenever pprd dies, and is queued whenever
\* pprd runs, until it has been printed or somebody has asked to cancel it.
JobsSurvive ==
  \A j \in Jobs : j \notin excused =>
    j \in disk.files /\ (up => Queued(pprd, j))

\* A job that pprd has seen printed is never printed again, whenever pprd dies
\* and however its files are read back: it is printed twice only if pprd died
\* while its pprdrv ran or while the exit of that pprdrv was dealt with.
PrintedOnce ==
  \A j \in Jobs : fate[j] = "printed" =>
    j \notin disk.files /\ (up => ~ Queued(pprd, j))

\* A printer that somebody has stopt does not print again by itself, not
\* even after pprd has been started again, unless its file was lost.
StopSurvives ==
  up => \A p \in ordered : pprd.status[p] \in
          {PRNSTATUS_STOPT, PRNSTATUS_STOPPING, PRNSTATUS_HALTING}

\* Over restarts and reloads, busy printers are those with a pprdrv of this
\* pprd, and jobs that wait for a pprdrv to end have one; except for what
\* was loaded in such a state, whose pprdrv is not this pprd's.
HandsMatch ==
  up => /\ \A p \in Printers :
             p \in pprd.pids <=>
               pprd.status[p] \in Busy /\ p \notin loaded.stopping
        /\ \A j \in Jobs \ loaded.stuck :
             \/ pprd.jstatus[j] \in {STATUS_CANCEL, STATUS_SEIZING}
             \/ pprd.jstatus[j] >= 0
             => \E p \in pprd.pids : pprd.job[p] = j

\* starving_printers falls short of the starved printers by no more than the
\* number that were loaded as starved.
ShortfallBounded ==
  up => Cardinality(Starved(pprd)) <= pprd.starving + loaded.uncounted

\* After a restart too, pprd never waits beside an idle printer and a job it
\* could print, save the jobs a reload has left aside.
RestartsWork ==
  up /\ Waits => \A p \in Printers, j \in Jobs \ loaded.aside :
                   pprd.status[p] = PRNSTATUS_IDLE => ~ CanPrint(pprd, p, j)
=============================================================================
