# Verification of the PPR spooler

PPR is a print spooler for PostScript printers. Its heart is `pprd`, a daemon
that keeps the queue, decides which job goes to which printer, starts a
`pprdrv` process for each print, interprets how that process ended, and obeys
the operator's commands. This directory models that daemon, its restarts, its
main loop and its questions to users, and the `pprdrv` it starts, in TLA+,
checks them with TLC on small instances and proves the safety properties of the
daemon, of its main loop and of its questions with TLAPS for any number of
printers, groups and jobs.

## Inventory

| Part | State | Operations | Interacts with |
|---|---|---|---|
| `pprd_printer.c` | status, retry count and countdown of each printer; where the search for starved printers left off | look for work, try a job on its printers, change a status, tick | starts `pprdrv`; reads the queue |
| `pprd_pprdrv.c` | `active_printers`, `starving_printers`, pid and job of each printer, cancel and hold flags | start, exited, kill | `fork`, `SIGTERM`, `SIGCHLD`; changes queue and printer |
| `pprd_queue.c` | the queue array, job counts, spool files | new job, reload, new status, dequeue | `ppr` announces jobs on a FIFO |
| `pprd_media.c` | media mounted on bins; masks `never`, `notnow` of each job | mount, wait reasons | jobs wait for media |
| `pprd_destid.c` | none (ids of printers and groups) | membership, accepting | all |
| `pprd_ppop.c`, `pprd_ipp.c` | the ppop process that waits for a printer to stop; held groups | one handler per command | `ppop` on the FIFO, `ippd` on a socket |
| `pprd.c` | `SIGCHLD` flag, time of the next tick | main loop | serves one event at a time |
| `pprd_load.c` | none (reads files) | start-up, reload of a printer's or group's configuration | `ppad` |
| `pprd_question.c` | slots of running questioners, retry times | ask, reap, tick | web browser of the user |
| `pprd_statedirs.c`, `libppr/spool_state.c`, first line of the queue files | state of printers, groups and jobs on disk | save, load | the next `pprd` |
| `pprdrv`: interface, RIP, feedback, buffer | pids of two children, flags of the signal handlers, control-D and PJL counts | start, job break, write, wait, stop, fault check | interface and RIP by pipes and signals; `pprd` by its exit code |
| `pprdrv`: pages | page table, sheet count, directions, copies left | number pages, choose a copies method, copy | the printer |
| `pprd_alert.c`, `pprd_respond.c`, `pprd_remind.c`, `pprd_log.c`, `pprd_state.c` | none that matters | send messages | users, operators, queue displays |
| `ppr`, `pprdrv`, `ppop`, `ppad`, `lprsrv`, `papd`, `ippd` | processes of their own | submission, driving a printer, front ends | `pprd` through files, FIFO, exit status |
| filters, interfaces, responders, libraries, web pages | | conversion and transport of bytes | |

What is hard here: `pprd` is one thread, but each print is a process that ends
at any time and in a dozen ways, while commands for the same printer or job
arrive; a job's status and its printer's status are two tables that must stay
in step; four hand-kept counters and two cached masks decide what is started;
a starved or faulty printer is only ever woken by a timer; and the whole state
survives restarts in files. What makes each part correct:

* a printer has a `pprdrv` exactly when its status says so, and no job is in
  the hands of two;
* rations are counted right, and a printer without one gets one in the end;
* no printer is idle beside a job it could print;
* an accepted job is printed, canceled or still queued;
* a stop, a cancel, a hold and a wait for a stop are each carried out;
* the queue is ordered by priority and time; counts and files follow it;
* what an operator or a user was promised survives the death of `pprd`, at
  whatever point it comes;
* a child's death is never forgotten, and is dealt with before the second tick;
* a `pprdrv` that says "printed" has given the printer every copy of every page
  in the right order, and any other exit code blames who is to blame;
* a `pprdrv` ends, and leaves no process behind.

`PROJECT.json` lists every component, with those that are not modelled, and
each hazard at the line where it bites.

## Modules

`PprdTables` holds the daemon's tables as one record and the C routines as
operators from one value of the record to the next. They keep the C names
(`printer_look_for_work()` is `PrinterLookForWork`). A flag of every printer
is the set of the printers that have it on; the bit masks of jobs are sets of
printers. A job id stands for `id` and `subid` together. `ff` is the set of
printers for which `fork()` fails during the running handler. An operator
sets the field `fatal` where the C code calls `fatal()`.

`Pprd` is the state machine: the commands, the exits and the tick as actions,
and the properties. Its variables are

* `pprd`, the tables;
* `todo`, the iterations that are left of a handler that loops over the queue
  or over the printers. Each can start a printer, so each is a step, but no
  other event is served before `todo` is empty;
* `recv`, the jobs that `ppr` has announced and is still receiving;
* `excused`, an observer: jobs that need not be in the queue.

| Action | Code |
|---|---|
| `SubmitJob`, `ReloadJob` | commands `j` and `J` of `ppr`, `queue_accept_queuefile()` |
| `Exit` | `pprdrv_child_hook()`, `pprdrv_exited()` with all it calls |
| `PpopStart`, `PpopStop`, `PpopWstop`, `PpopHalt` | `ppop_start_stop_wstop_halt()` |
| `PpopHold`, `PpopRelease` | `ppop_hold_release()`, `ipp_hold_job()` |
| `PpopCancel`, `PpopPurge`, `PurgeStep` | `ppop_cancel_purge()`, `ipp_cancel_job_core()` |
| `PpopMove`, `PpopMoveAll`, `MoveStep` | `ppop_move()` |
| `PpopRush`, `PpopLast` | `ppop_rush()` |
| `PpopMount` | `ppop_mount()`, `media_update_notnow()` |
| `PpopAccept`, `PpopReject` | `ppop_accept_reject()` |
| `IppPausePrinter`, `IppResumePrinter`, `IppPauseGroup`, `IppResumeGroup`, `LookStep` | `ipp_pause_printer()`, `ipp_resume_printer()`, `group_look_for_work()` |
| `Tick`, `TickStep` | `printer_tick()` |

Handlers are atomic because the code makes them so: `SIGCHLD` is blocked
except in `select()` and its handler only sets a flag. (`lock()` and
`unlock()` are counters without effect, and are left out.)

External behaviour is taken from how `pprd` uses it. A `pprdrv` may exit at any
time with any status `pprdrv_exited()` tells apart. `ppr` announces a job under
an id that is not in the queue. Holding a job that is being canceled makes the
code index `printers[-5]`; the model lets `pprd` die or survive with its tables
unchanged.

`PprdRestart` extends `Pprd` by what is on disk. A step of `Pprd` becomes
`Handle`, which brings the files up to date that the code writes when the
tables go from one value to the next (`SavedDests`, `SavedJobs`); or it becomes
`DieInHandler`: `pprd` dies inside the handler, any of those files have been
written, and one may be truncated, since it is opened with `O_TRUNC`.
`Shutdown` is death or `SIGTERM` between two events, `Restart` is
`load_printers()`, `load_groups()` and `initialize_queue()` with the queue
files in any order. `NewPrinterConfig` and `NewGroupConfig` are the commands of
`ppad`, which send a printer or group through the same loader. The observers
are `fate` (jobs seen printed), `ordered` (printers told to stop whose state
file no death has truncated since) and `loaded` (what this `pprd` inherited and
cannot get rid of).

`PprdQuestions` holds the operators of `pprd_question.c` on a record of its
tables; `PprdLoop` is the main loop, with those questions as its children and
commands. `at` is where `pprd` is: at the top, with `SIGCHLD` unblocked but not
yet in `select()`, in `select()`, testing what it returned, reading from a
client, reaping. `ChildDies` sets the flag and the zero timeout at whichever of
these points the signal finds it, or leaves the signal pending.

| Action of `PprdLoop` | Code |
|---|---|
| `Top`, `Select`, `Interrupted` | `real_main()` around `select()` |
| `CallFails` | `fatal()` in `real_main()` and `do_fifo_command()`, what `do_socket_command()` throws and `main()` catches |
| `DoFifoCommand`, `DoSocketCommand`, `SocketCommandRead`, `ListenerHook` | `do_fifo_command()`, `do_socket_command()`, `listener_hook()` |
| `StartReap`, `ReapChild`, `ReapDone` | `reapchild()`, `question_child_hook()` |
| `Tick` | `tick()`, `question_tick()` |
| `ChildDies`, `Terminate` | `sigchld_handler()`, `sigterm_handler()` |

`PprdrvContract` is the abstract specification of a `pprdrv`: the interface
takes one thing after the other, and in the end there is one exit code, which
is "printed" only if no PostScript error was reported and the whole order is
on the paper. `Delivered` says what that means from the reader's side: the
sheets of each copy are taken from the tray, turned over if it is face up,
folded if they are signatures, and must read as the wanted pages in order, as
many times as asked, collated if asked.

`PprdrvPages` has the routines that decide which pages are sent:
`MakePagetable`, `SheetCount`, `Signature`, `CopyPages`, `SelectCopiesMethod`.
`Keep`, on which they rest, is the loop that goes through the pages and takes
those that are wanted; it is a recursive function, so that it can be proved
about.
`Pprdrv` is the process: `drv.todo` is what is left of its program, made from
`JobStart`, `Document` and `JobEnd` for each file; `FaultCheck` looks at the
flags of the signal handlers and replaces the rest of the program by the
handling of the fault. `drv.phase` tells "about to call `select()`" from
"asleep in it", since a signal that comes before does not wake it. The RIP and
the interface are external: they read, answer, complain and end at any time.
`Pprdrv` is shown to implement `PprdrvContract` (property `KeepsContract`, with
`C == INSTANCE PprdrvContract WITH ...`); the excuses of the contract are what
`pprdrv` has no means to see, or does not look at. What the page algorithms
contribute to it is a property of its own, `ProgramDelivers`: the program of a
job, carried out with nothing lost, delivers the job. `Shapes` says what a job
can be (`struct QEntryFile` and the printer's settings); `copies` is -1 if
nobody has said how many.

An interface exits with any code of `interface.h`, with another one, or of a
signal. Three codes for a printer error and four for one that retries cannot
help are each one code of the model, since `pprd` treats them alike.
`GivesUp` stands for every call of `fatal()` that is not a step of its own, and
for the exceptions that `main()` catches: the queue file, the page table or a
text that cannot be read (`make_pagetable()`, `copy_pages()`, `real_main()`),
or the configuration, the PPD file, fonts, logs and memory. It may come before
any step at which `pprdrv` reads or notes something, with interface and RIP
running or not, and exits with any code that such a call gives. So the page
algorithms of `PprdrvPages` are those of files that are well formed.

| Action of `Pprdrv` | Code |
|---|---|
| `Main`, `Again`, `Verdict` | `real_main()`, `copy_pages()` |
| `GivesUp` | `fatal()`, `main()` |
| `PageTimeLimit` | `writemon_sleep_time()` |
| `Launch`, `LaunchFails`, `Handshake`, `HandshakeTimeout`, `Signal`, `Shut`, `Reap`, `InterfaceVerdict` | `pprdrv_interface.c` |
| `RipStart`, `RipStartFails`, `RipEof`, `RipScreen`, `RipVerdict` | `pprdrv_rip.c` |
| `FlushCheck`, `Sleep`, `FlushAgain`, `FlushWrite`, `FlushBroken`, `Epipe` | `printer_flush()` |
| `WaitTest`, `WaitInterrupted`, `FeedbackReady`, `WaitTimeout`, `Drained` | `feedback_wait()` and the loops around it |
| `InterfaceDies`, `RipEnds`, `Terminate` | the signal handlers |

Definitions commented "Mutant" are deliberate errors, one for each property of
each passing run; in place of the definition that follows them they make TLC
find the property violated. Nothing else refers to them.

`MCPprd`, `MCPprdRestart`, `MCPprdLoop` and `MCPprdrv` give the constants of
the instances. `PprdProofs`, `PprdSteps`, `PprdQueueProofs` and
`PprdJobProofs`, each of which extends the one before, have the theorems
about `Pprd`, `PprdRestartProofs`, which extends the last of them, those about
`PprdRestart`, `PprdLoopProofs` those about `PprdLoop`, `PprdrvProofs` and
`PprdrvPageProofs` those about `Pprdrv` and its pages.

## Runs

| Run | Instance | Shows |
|---|---|---|
| `control` | 2 printers, a rotating group of both, 2 jobs, 1 ration, every exit status but engaged (in `live`) and job error (in `media`), failing forks; start, stop, wstop, halt, cancel | types, counters, cancel flags, no lost job, no lost waiter, no failed assertion |
| `jobs` | 2 printers, 2 jobs, some still being received; hold, release, cancel, move, pause, resume | driver and status agree, exclusive printing, data first |
| `queue` | 1 printer in a group, 4 jobs of 2 priorities, room for 3; stop, rush, last, accept, reject, cancel, purge | order, counts and files |
| `media` | 2 printers with a bin each, 2 media, a group that can be held; mount, start, stop, release, pause and resume of the group | fresh masks, no idle printer beside work, jobs stranded only by all |
| `live` | 2 printers, 2 jobs, 1 ration, printers in fault or engaged for two ticks; start, wstop, cancel | starved printers fed, retries made, cancels completed, waiters told |
| `restart` | 2 printers in a group, 2 jobs, 1 ration; start, stop, cancel; one death at any point, one reload | jobs and stops survive, nothing seen printed is printed again, printers and children agree, work is taken up |
| `loop` | 2 jobs, one of them received late and possibly moved before or after, 2 slots, 1 launch per tick, forks that fail, FIFO with 2 commands of which one fits a read | deaths known and reaped in time, one questioner per job, due questions asked |
| `driver` | 16 jobs with each jobbreak protocol, with and without RIP, and up to 2 troubles at any moment; 704 jobs of every shape without trouble | page order and copies, the contract, who is blamed, no process left, termination |
| `hold_stopping` | stop and hold | **violated**: a hold undoes a stop |
| `stale_cancel` | a group job refused by its first printer, then hold and cancel | **violated**: another job is deleted in its place |
| `move_seizing` | hold and move | **violated**: `pprd` dies |
| `overflow` | room for one job | **violated**: the job that does not fit is deleted |

`jobs` and the violation runs that can end with the death of `pprd` do not
check for deadlock, nor do `loop` (which ends with `SIGTERM`) and `driver`
(which ends with an exit code); the others do.

The four violations are disagreements between the code and its own comments or
manual page, quoted under "findings" in `PROJECT.json`:

* `ppop_hold_release()` overwrites `PRNSTATUS_STOPPING` or `_HALTING` by
  `PRNSTATUS_SEIZING`, so the printer is idle afterwards and goes on printing;
  a `ppop wstop` that waits is left waiting.
* A cancel finds the printer of a job that is being seized by its `job_id`.
  That is never cleared, so a printer that had the job before is taken for it.
* `ppop_move()` refuses to move a job that prints, but not one that is being
  seized or canceled and is still in the hands of its `pprdrv`.
* On overflow of the queue array the job's files are deleted.

The properties that these histories break are checked in `control` and
`queue` without the command that breaks them, so that what else could break
them is seen. `JobCounts` is likewise not checked together with moves, which
leave the counts of both destinations as they were.

### Known defects that are exceptions of a property

These are modelled as the code has them. Each is reachable in the run, and the
property that it breaks names it as an exception, so that all else is checked.

* After a restart a printer loaded as `STOPPING` stays so, with no `pprdrv` to
  end it; a job loaded as being canceled or seized stays so; starved printers
  are loaded but not counted, so that they are fed only when another one starves
  (`loaded` in `HandsMatch` and `ShortfallBounded`).
* A death between `O_TRUNC` and `write()` loses a stop (`ordered`).
* A `pprdrv` survives its `pprd`; the next one may print the job again
  (`PrintedOnce` is about jobs that were seen printed).
* `new_group_config()` calls `group_look_for_work(x)` with an `x` that has run
  over the queue; and a stranded job made waiting by `new_printer_config()` is
  offered to that printer only (`loaded.aside` in `RestartsWork`).
* When `fork()` fails for a questioner its slot is lost, and when the last one
  is lost `pprd` dies; a job asked about while it is being received loses
  `ASKING_NOW` when its data has come, is asked about twice, and `pprd` dies; a
  job moved while it is asked about keeps `ASKING_NOW` (`KnownDeaths`,
  `OneAsker`).
* `SIGCHLD` that comes while a command is served waits for the next return of
  `select()`, up to a tick (`ReapedInTime` says how long at most).
* `feedback_wait()` looks at no flag before it sleeps without limit. A death or
  `SIGTERM` that comes just before is missed, and `pprdrv` waits for ever if
  nothing else comes: it holds the write end of the pipe itself. In
  `rip_stop()`, whose first wait has no limit, this needs no fault at all: the
  RIP has only to end at the wrong moment (`Deaf` in `Ends`).
* If interface and RIP are dead when `fault_check()` is called,
  `interface_fault_check()` clears `interface_died`, and `rip_fault_check()`,
  called while the feedback is drained, ends in `interface_close()`, which waits
  for it (`Unreaped` in `Ends`).
* A second copy of a file that has page comments but `%%PageOrder: Special` is
  sent when the printer cannot collate; `copies_pages_countdown` is then -1 and
  its pages are sent without end (`Endless` in `Ends`).
* A RIP that exits with an error after its input is closed, an interface that
  exits with 0 when it has not read everything, and any exit code of an
  interface that is replaced for the next file are ignored (the excuses of the
  contract).
* `SIGTERM` when the interface is dead leaves a RIP alone (`NothingLeft`).

Seen while modelling, outside the instances: `signature()` takes half of
`pagefactor` for a side also in simplex, so that `-s fronts` prints other pages
than the two passes promised in `docs/refman/ppr.1.pod:1094`; it numbers 4-up
signatures of several sheets as if they had one; copies are ignored for files
that are passed through; `ppop_rush()` does not write the new priority to the
queue file; `ppop_mount()` saves the list of mounted media after it may have
started a `pprdrv` that reads it.

### Bounds

* `MaxRetry` bounds printer errors in a row (0 or 1): after the first the
  delay stays at its limit, `MaxDelay`.
* `MaxSkew` bounds how far `starving_printers` and `job_count` may drift from
  what they count (1): the drift has no other effect than to grow.
* Two printers and two jobs are enough for every pair that can meet: printer
  and printer in a group, job and job on one printer, a job that returns and
  the printer it left. With one ration (`MaxActive = 1`) and two printers one
  of them starves. Four jobs and room for three give insertion at both ends, in
  the middle and into a full array: a job that meets two others may go before,
  between or behind them.
* `TickInterval`, `RetryMultiplier`, `MaxDelay` and `EngagedRetry` are 1, so that
  a retry is due at the next tick, but in `live`: there a delay is 2 ticks, so
  that a retry is not yet due at the first.
* `Ops`, `Arrivals`, `ExitsSeen` and `ForkFailures` choose what happens in an
  instance; the proofs do not depend on them.

* `restart`: one death and one reload, in either order and at every point. All
  exceptions above are reached. Exits other than "printed" do not change what is
  saved in a way that "printed" and a cancel do not.
* `loop`: `MaxLate` (1) is how late `pprd` may be for a tick because a client
  keeps it waiting, `MaxCount` (2) bounds counters that only grow between two
  ticks, `MaxFifo` (2) with `Fits` (1) lets a block be too long. `Movable`
  is the job that is received late: moved while it is received, it is not found
  when its data has come. A job received at once is moved like it afterwards.
* `driver`: `PipeSize` is 1, so that every write can block; `MaxFeedback` (2)
  lets two messages be read at once; `MaxPaper` (40) is more than any job sends
  but the endless one, which it cuts off. Two troubles let both children die in
  either order with a message or a signal between, or one of them when `pprdrv`
  gives up or a page takes too long; the page algorithms are
  checked for up to 9 pages, 3 signatures, both directions, both trays and two
  copies, which leaves the last sheet full, partly full and empty.

The bounds `MaxRetry` and `MaxSkew` are guards of actions, and the proofs do not
use those guards: the theorems hold without the bounds.

### Fairness

`Tick` and the exit of each running `pprdrv` are strongly fair, the steps of a
running handler weakly fair. The main loop serves a tick that is due, and
before it the children that have died, without looking at its FIFO, so
commands cannot put them off for ever; but they are disabled while a handler
runs, hence strong fairness. That a `pprdrv` ends is an assumption about
`pprdrv`: jobs are finite, and it shuts down on `SIGTERM`. Commands and
submissions are not fair. Two other runs look behind these assumptions:
`ReapedInTime` in `loop` is the bounded form of "children are reaped whatever
the commands do", for the code as it is, and `Ends` in `driver` says when a
`pprdrv` does end.

In `driver`, the steps of `pprdrv` are weakly fair (it is scheduled), so are
the reading and orderly end of the interface, those of the RIP, and, by itself,
what the printer answers: while `feedback_pjl_wait()` waits for that it writes
again and again, which keeps the interface busy.
Neither is assumed to end before its input does, and trouble is never fair.
`Ends` therefore fails for an interface that hangs, as it does in reality: there
`pprdrv` waits for the operator.

## Proofs

Every safety property of `Pprd`, `PprdRestart`, `PprdLoop` and `Pprdrv` that a
passing run checks is proved with TLAPS, from the assumptions on the constants
alone (printers are numbered from 0, group members are distinct printers, jobs
have destinations and priorities, limits and pipe sizes are positive, a job is
one of `Shapes` and wants pages that it has) and from the hypotheses named
below. The theorems hold for any number of printers, groups, jobs, deaths,
reloads, slots, pages, copies and troubles, and do not use the bounds.

| Module | Theorem | Property | Hypotheses |
|---|---|---|---|
| `PprdProofs` | `TypesHold` | `TypeOK` | |
| | `DriversMatch` | `DriverMatchesStatus` | |
| | `ActiveIsCounted` | `ActiveCount` | |
| | `PrintingIsExclusive` | `ExclusivePrinting` | |
| | `StarvingIsCovered` | `StarvingCovered` | |
| | `DataComesFirst` | `ReceivedFirst` | |
| `PprdQueueProofs` | `MasksAreFresh` | `NotNowFresh` | |
| | `QueueIsOrdered` | `QueueOrder` | `NeverLate \/ NeverRushed` |
| | `FilesGoWithEntries` | `FilesMatchQueue` | `NeverLate \/ AlwaysOpen` |
| | `JobsAreCounted` | `JobCounts` | `NeverMoved` |
| | `GivenUpOnlyByAll` | `StrandedByAll` | |
| | `PrintersFindWork` | `WorkConserving` | `NeverHeld` |
| `PprdJobProofs` | `CancelsReachTheirJob` | `CancelFlagBelongs` | `NeverHeld`, `NeverMoved` |
| | `NoAssertionFails` | `NoFatal` | `NeverHeld`, `NeverMoved` |
| | `NoJobIsLost` | `NothingLost` | `NeverHeld`, `NeverLate \/ AlwaysOpen`, `EnoughRoom` |
| | `WaitersAreServed` | `WaiterWillHear` | `NeverHeld`, `NeverResumed` |
| | `StopsAreFinal` | `StoppingOnlyStops` | `NeverHeld`, `NeverStarted` |
| `PprdRestartProofs` | `RestartTypesHold` | `RTypeOK` | |
| | `ShortfallDoesNotGrow` | `ShortfallBounded` | |
| | `QueueOrderSurvives` | `QueueOrder`, `NotNowFresh` while up | `NeverLate \/ NeverRushed` |
| | `HandsMatchAlways` | `HandsMatch` | `NeverMoved` |
| | `PrintedIsForgotten` | `PrintedOnce` | `NeverMoved` |
| | `StoppedStayStopped` | `StopSurvives` | `NeverHeld` |
| | `RestartsFindWork` | `RestartsWork` | `NeverHeld` |
| | `JobsOutliveDeaths` | `JobsSurvive` | `NeverHeld`, `NeverLate \/ AlwaysOpen`, `EnoughRoom` |
| `PprdLoopProofs` | `DeathsAreKnown` | `DeathIsKnown` | |
| | `DeathsAreReaped` | `ReapedInTime` | |
| | `LoopTypes` | `LTypeOK` | |
| | `DeathsAreExplained` | `KnownDeaths` | |
| | `AskedByOne` | `OneAsker` | |
| | `QuestionsAreCovered` | `OutstandingCovers` | |
| | `TicksAsk` | `TickAsks` | |
| `PprdrvProofs` | `NobodyLeft` | `NothingLeft` | |
| | `BlamesRight` | `Blame` | |
| | `Refines` | `KeepsContract` | `[]ProgramDelivers` |
| `PprdrvPageProofs` | `PagesDeliver` | `ProgramDelivers` | all jobs are `Printable` |
| | `PrintedIsDelivered` | `KeepsContract` | all jobs are `Printable` |

A hypothesis about `Pprd` says which commands nobody sends (`Ops`) or in which
state jobs are announced (`Arrivals`). Each of them is needed because of what the code
does, and the proof attempt without it is how some of these were found:

* `NeverLate \/ NeverRushed`: a job that is rushed while it is being received
  moves to the head of the queue; when its data has come, `queue_reload_job()`
  reads the old priority from the queue file and leaves it where it is.
* `NeverLate \/ AlwaysOpen`: if the destination rejects jobs by the time that
  the data of an announced job has come, the files are deleted, and the entry
  made by the announcement stays.
* `NeverMoved`: `ppop_move()` does not carry over the job counts; and it moves
  a job that is being canceled away from under its `pprdrv`.
* `NeverHeld`: a hold turns `STOPPING` into `SEIZING` and changes no wait
  reason, so that a job which waits because its printer was stopping is not
  looked at when the printer becomes idle instead; it leaves a waiting
  `ppop wstop` behind (finding `hold_stopping`); and a job held while it is
  canceled leaves the cancel flag set for nobody (finding `stale_cancel`).
  `StopsAreFinal` is the other half of that finding: the hold is the only
  command that takes back a stop without having been asked to.
* `NeverResumed`: `ipp_resume_printer()` makes a stopping printer print on and
  keeps `ppop_pid`.
* `EnoughRoom`: the queue array has room for all jobs (finding `overflow`).
* `Printable`: of a PostScript job some page is wanted; its signatures, if any,
  are folded sheets with two pages on each side, and both sides are printed; and
  if `ppr` found no pages in the file, so that `pprdrv` sends it as it is, all
  pages are wanted, there are no signatures and the stack is not to be turned
  over. The other jobs do not come out as ordered: for 5 pages and every mask,
  order, tray, number of copies and a choice of layouts, TLC finds that
  `Delivers` is false for every job that is not `Printable`. All 720 jobs of
  `driver` are.

Except for `StopsAreFinal` the runs check the same properties without the
same commands, and the theorems say that nothing else breaks them.

None of the six properties of `PprdProofs` is inductive alone. That a job is
not started twice needs that the printers in `pids` are those with a busy
status (an idle printer has no job to lose), that in turn needs that a job's
status names a running printer (a hold or a cancel goes from the job to the
printer), and the ration count needs both. The inductive invariant `Sound` is their conjunction with the
types, with the agreement of statuses and queue entries (`Entries`), and with
the rule that a job being received has no other status. Inside
`pprdrv_exited()` it is broken for a moment: the printer has lost its child and
keeps its busy status while other printers are offered the job. `Sound(d, r, x,
k)` therefore has parameters for the printers in that position and for a
starving printer counted before it has the status. (After a restart the same
parameters stand for what was loaded, see below.) One lemma per routine shows
that it keeps `Sound`; `Preserved` has one step per action; the theorems follow
from `Invariance`.

`PprdSteps` says once what each action does, as relations between the tables
before and after: a printer starts a job or fails to, a status changes, an
entry goes, a job is announced, moved, canceled, refused. The lemma `Steps`
reduces `Next` to these events. The two modules after it prove these invariants
over the events, together with `Sound`:

* `QueueInv` (`PprdQueueProofs`): entries are distinct and ordered, counts and
  files agree with them, masks are fresh.
* `RefusalsInv` and `WorkInv` (`PprdQueueProofs`). The first counts passes: the
  printers that have refused a job are members of its destination, and there is
  no third pass in which not all have. The second says, for each iteration that
  a handler has still to make (`todo`), which printers may be idle beside work
  until then, and that a job marked as waiting for media waits for a printer
  that is stopt or lacks the media.
* `CancelInv`, `SparedInv` and `WaitersInv` (`PprdJobProofs`): cancel flags and
  canceled jobs correspond one to one through the running `pprdrv`, each prints
  for the destination its job has now; a job that must not be gone is queued,
  and no `pprdrv` that is told to cancel has it, wherever it was moved; and who
  waits waits for a stopping printer. That an announced job finds room is a
  pigeonhole argument over queue places.

`PprdRestartProofs` uses these lemmas for the steps of a running `pprd` and adds
the files. Its invariant `Base` says what the files are whether `pprd` runs or
not (`Filing`: every file is one that the loaders can read, and a job that is
still being received is marked so), and, while it runs, that the tables are
`Sound` and `Tidy` but for what it has loaded (`Running`): the printers loaded
as stopping have no `pprdrv`, and `starving_printers` is short by those loaded
as starved. A step of a handler is split into what the tables do, which is
known, and which of the files are written, any of them and in any order, with
perhaps one of them truncated. `initialize_queue()` is a recursive function
over the files in the order of the directory; `Came` says what it has made of
those read so far, and is carried along it by induction. On top of `Base` there
is one invariant for each property, with the file beside the table in each:

* `HandsInv`: every `pprdrv` prints for the destination its job has, and a job
  that waits for the end of one has one, but for those loaded so. `PrintedOnce`
  follows: only the exit of a `pprdrv` makes a job printed, and then the job is
  the one in its hands.
* `ShutInv`: a printer that was told to stop is down, and so says its file, and
  the file of every printer that is down says so. The second half is what makes
  it inductive: a death may keep a status from being written, but it is then
  the new status that is lost, never the old one.
* `BusyInv`: `WorkInv`, but for the jobs that a reload has put aside. A
  restart satisfies it because it lets every printer look at the whole queue.
* `SafeInv`: a job that must not be gone has its file at all times, no file says
  that a job is being seized, and a running `pprd` spares the job.

`PprdLoopProofs` has two invariants. `LoopInv` is about signals and time alone:
a timeout of zero comes with the flag, a child that is dead is known of, and
while it is not, `pprd` goes from one tick straight to the next, so the ticks it
has been late by are at most `MaxLate`. `TablesInv` is about questions: nothing
is queued twice, `active_questions` is the number of running processes, a job
that was not asked about too early has at most one process, and one that will
find it if `ASKING_NOW` is set and it was not moved. The scan of the queue and
the block of commands are recursive functions. What they come to is proved by
induction over the natural numbers: `Induction` is derived from the pigeonhole
principle for finite sets (the library's induction theorems have an operator as
a parameter, which the provers can not instantiate), and used for each of the
two functions first to show that it exists and then to carry the invariant
along it.

`PprdrvProofs` has one invariant, `Inv` (theorem `DriverInvariant`), in two
parts.

* `Sound` is about the processes. What is left of the program (`drv.todo`) is a
  word of a small language: `Follows` says which step may come after which,
  `Ripped` that every RIP is waited for before the next one is started. That
  `RealMain` is such a word, for every job, is `RealMainIs`; a fault replaces it
  by another. `Children` says that `intpid`, `interface_died`, the exit codes
  and the "no fault" flags agree with what has become of the children, `Places`
  what the children can be doing when `pprdrv` is at a step (nobody can write
  into the feedback pipe any more when `interface_close()` looks at the exit
  code), `Modes` what is known after a fault, `Reasons` that each flag, message
  and exit code has had its cause (in a child, in a file or the configuration,
  or in the time a page took). `Blame` needs them all: that a RIP killed by
  `pprdrv` itself is not taken for the fault of the job depends on the "no
  fault" flag being set in the same step in which it is killed.
* `Conserved` is about the paper. What the interface has taken, what is in its
  pipe, what is in the pipe of the RIP and what is for the paper in the rest of
  the program are together what `RealMain` had to send, unless something was
  lost that will be seen (an exit code, a signal that killed the RIP), that is
  an excuse of the contract, or the program has no end. A PostScript error is in
  the pipe or has been noted.

There is one lemma per action for `Inv`. The refinement then takes one more look
at every action: `OnlyVerdictPrints` says that no fault and no failure ends with
"printed", and `VerdictDelivers` that at the last step of `real_main()` the
pipes and the program are empty, so the paper is what `RealMain` sends.

That this delivers the job (`ProgramDelivers`) is a statement about the page
algorithms alone (`PprdrvPageProofs`). It relates two computations that have nothing in common: the
code counts sheets down and up, looks into a table and numbers places of a
signature; the contract takes the printed sheets and reads them. The proof goes
from one to the other in these steps.

* `TableIs`: the table of `make_pagetable()` holds the wanted pages in the order
  in which the contract wants them (the page with i wanted ones before it), or
  from the end, if the file is in descending order.
* `SignaturePlaces`, `SheetIs`: `signature()` is inverted on a sheet: at each
  place `copy_sheet()` finds the page that belongs there, or none.
* `CopyIs`: a copy is sent sheet by sheet, all sheets full but the last one, of
  which the blank pages may be missing if no other copy comes behind it.
* `ReadsStraight`, `LeafedIs`, `ReadsFolded`: sheets in this order, turned over
  if the tray is face up, read as the wanted pages; and folded sheets do, leaf by
  leaf, booklet by booklet.
* `PassesRead`, `MethodIs`, `Repeated`: copies of the script section, of the file
  and of the printer multiply to the copies that were ordered.
* `ProgramData`, `BodiesAre`, `FramedDelivered`: of the program of a job, with the
  jobbreak protocol, RIP and interface between the files, only the files are for
  the paper, and the flag pages are where they belong.

The inductions over pages, sheets and files use `Induction` and recursive
functions, as in `PprdLoopProofs`. `SecondIsEndless` is the exception that
`ProgramDelivers` names: with a script section, a second file never ends.

Only model-checked: all liveness, which, with fairness, is out of the prover's
reach (`StarvedIsFed`, `RetryHappens`, `CancelCompletes` and
`WaiterIsTold` of `live`, `Ends` of `driver`).

## Not modelled

Message texts, replies to clients, logs, alerts and responses (output only);
the contents of queue files beyond their first line, PostScript, filters, the
work of interfaces; front ends and command line clients beyond the commands
they send; the numbering of media and bins; creation and deletion of printers
and groups; of `pprd_ipp.c`, purge, the CUPS requests and the release of
arrested jobs. Of `pprdrv`: query jobs (patch file, page count, persistent
downloads), commentators and the wait for them, charging, and the fonts, features and N-Up code that is put between the
pages. Of `ppr`: everything but the announcement of a job. Most of the
repository is text processing (`ppr`, `ppad`, `ppop`, filters, fonts), vendored
code (Tcl, PCRE) and scripts, which have no state that a model checker could
add to a test.

## Plan

Done: `PprdTables`, `Pprd`, `PprdRestart`, `PprdQuestions`, `PprdLoop`,
`PprdrvContract`, `PprdrvPages` and `Pprdrv`, with the proofs of their safety
properties and of the refinement. Next, in this order:

1. The rest of `pprd_ipp.c`.
2. The commentators of `pprdrv` and its wait for them.
