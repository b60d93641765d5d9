------------------------------ MODULE PprdLoop ------------------------------
(***************************************************************************)
(* The main loop of pprd and what reaches it: commands on the FIFO,        *)
(* requests on the Unix-domain socket, connections to its TCP ports, the   *)
(* deaths of its children, SIGTERM and the time.  pprd has SIGCHLD blocked *)
(* but around select(), where its handler only sets a flag and sets the    *)
(* timeout to zero.  In Pprd an event is a single action; here is how      *)
(* pprd learns of it.                                                      *)
(*                                                                         *)
(* The children here are the processes that ask questions, the commands    *)
(* those that concern questions.  The servers that pprd starts for TCP     *)
(* connections die unnoticed.                                              *)
(***************************************************************************)
EXTENDS PprdQuestions

CONSTANTS
  TickInterval,  \* TICK_INTERVAL
  Fits,          \* commands that do_fifo_command() can read at once
  ForkMayFail,   \* {FALSE}, or BOOLEAN
  Movable,       \* bound: jobs that somebody may move
  MaxFifo,       \* bound: commands in the FIFO
  MaxLate,       \* bound: how late a tick may be served
  MaxCount       \* bound: launches in a tick and questions counted

ASSUME LoopAssumption ==
  /\ TickInterval \in Nat \ {0} /\ Fits \in Nat \ {0}
  /\ ForkMayFail \subseteq BOOLEAN /\ Movable \subseteq Jobs
  /\ MaxFifo \in Nat /\ MaxLate \in Nat /\ MaxCount \in Nat

VARIABLES
  q,         \* the tables of the question subsystem
  at,        \* where pprd is in its main loop
  ready,     \* what select() has returned, as real_main() looks at it
  caught,    \* sigchld_caught
  zeroed,    \* the handler has set select_tv to zero
  pending,   \* SIGCHLD has been sent and is blocked
  term,      \* sigterm_received
  left,      \* until next_tick
  fifo,      \* number of commands written to the FIFO and not yet read
  socket,    \* somebody has connected to one of the sockets
  zombies,   \* children that have died and have not been reaped
  late       \* observer: ticks since the first of the zombies died

vars == <<q, at, ready, caught, zeroed, pending, term, left, fifo, socket,
          zombies, late>>
tables == <<q, left, zombies, late>>
signals == <<caught, zeroed, pending>>
outside == <<term, fifo, socket>>

\* The children, by their slots.
Children == {x \in Slots : q.pid[x] = "running"}

LInit ==
  /\ q = InitTables
  /\ at = "top" /\ ready = "none"
  /\ caught = FALSE /\ zeroed = FALSE /\ pending = FALSE /\ term = FALSE
  /\ left = TickInterval
  /\ fifo = 0 /\ socket = FALSE
  /\ zombies = {} /\ late = 0

---------------------------------------------------------------------------
(* The loop *)

\* The top of the loop.  If it is time for a tick nothing else is asked for.
\* Otherwise the timeout is computed and SIGCHLD let through.
Top ==
  /\ at = "top"
  /\ IF term THEN at' = "down" /\ UNCHANGED signals
     ELSE IF left <= 0 THEN at' = "test" /\ UNCHANGED signals
     ELSE /\ at' = "unblocked"
          /\ caught' = (caught \/ pending)
          /\ zeroed' = pending
          /\ pending' = FALSE
  /\ UNCHANGED <<tables, ready, outside>>

\* What pprd will serve, if anything can be read: the FIFO goes first.
Readable ==
  IF fifo > 0 THEN {"fifo"} ELSE IF socket THEN {"usock", "inet"} ELSE {}

\* select() returns, at once or after a wait, and SIGCHLD is blocked again.
Select ==
  /\ at \in {"unblocked", "selecting"}
  /\ \/ /\ Readable # {}
        /\ at' = "test" /\ ready' \in Readable /\ zeroed' = FALSE
     \/ /\ Readable = {} /\ (zeroed \/ left <= 0)
        /\ at' = "test" /\ ready' = "none" /\ zeroed' = FALSE
     \/ /\ Readable = {} /\ ~ zeroed /\ left > 0
        /\ at = "unblocked"
        /\ at' = "selecting" /\ UNCHANGED <<ready, zeroed>>
  /\ UNCHANGED <<tables, caught, pending, outside>>

\* Back to the top, unless pprd has died of fatal().
Continue ==
  /\ at' = IF q'.fatal = "no" THEN "top" ELSE "down"
  /\ ready' = "none"

\* What one command may do.  ppr uses a job id that is free, and sends "J"
\* for a job that it has announced; commands about a job that is not queued
\* do nothing.
Obeyed(t, fail) ==
  {t1 \in
     {NewJob(t, j, fail) : j \in
        {i \in Jobs : ~ Queued(t, i) /\ \A x \in Slots :
                         t.pid[x] = "running" => t.about[x][1] # i}}
     \cup {JobReceived(t, j, fail) : j \in t.receiving}
     \cup {QuestionOn(t, j, fail) : j \in Jobs}
     \cup {JobMoved(t, j, to) : j \in Movable, to \in Dests} :
   t1.outstanding <= MaxCount /\ t1.launches <= MaxCount}

\* do_fifo_command(): a block is read and all the commands in it obeyed.  If
\* there are more than one read can hold, the block ends within a command
\* and is ignored, and what is left of that command will make no sense.
DoFifoCommand ==
  /\ at = "test" /\ ready = "fifo"
  /\ IF fifo > Fits
       THEN fifo' = fifo - (Fits + 1) /\ UNCHANGED q
       ELSE /\ fifo' = 0
            /\ \E fail \in ForkMayFail :
                 LET obeyed[n \in 0 .. fifo] ==
                       IF n = 0 THEN {q}
                       ELSE UNION {IF t.fatal = "no" THEN Obeyed(t, fail)
                                   ELSE {t} : t \in obeyed[n - 1]}
                 IN  q' \in obeyed[fifo]
  /\ Continue
  /\ UNCHANGED <<signals, left, zombies, late, term, socket>>

\* do_socket_command(): pprd accepts the connection and waits for the request.
DoSocketCommand ==
  /\ at = "test" /\ ready = "usock"
  /\ at' = "reading" /\ ready' = "none" /\ socket' = FALSE
  /\ UNCHANGED <<tables, signals, term, fifo>>

\* The client sends its request, which is to cancel a job, or is gone.
SocketCommandRead ==
  /\ at = "reading"
  /\ \/ UNCHANGED q
     \/ \E j \in Jobs : Queued(q, j) /\ q' = JobGone(q, j)
  /\ Continue
  /\ UNCHANGED <<signals, left, zombies, late, outside>>

\* listener_hook(): a server is started for the connection, or fork() fails;
\* pprd closes the connection at its end.
ListenerHook ==
  /\ at = "test" /\ ready = "inet"
  /\ at' = "top" /\ ready' = "none" /\ socket' = FALSE
  /\ UNCHANGED <<tables, signals, term, fifo>>

\* Nothing can be read, and the flag is set.
StartReap ==
  /\ at = "test" /\ ready \in {"none", "eintr"} /\ caught
  /\ caught' = FALSE
  /\ at' = "reap" /\ ready' = "none"
  /\ UNCHANGED <<tables, zeroed, pending, outside>>

\* Mutant: one child for one signal.
ReapChildOnce(c) ==
  /\ at = "reap" /\ c \in zombies
  /\ zombies' = zombies \ {c}
  /\ late' = IF zombies' = {} THEN 0 ELSE late
  /\ \E ok \in BOOLEAN, fail \in ForkMayFail : q' = ChildHook(q, c, ok, fail)
  /\ at' = "top"
  /\ UNCHANGED <<ready, signals, left, outside>>

\* One iteration of reapchild().
ReapChild(c) ==
  /\ at = "reap" /\ c \in zombies
  /\ zombies' = zombies \ {c}
  /\ late' = IF zombies' = {} THEN 0 ELSE late
  /\ \E ok \in BOOLEAN, fail \in ForkMayFail : q' = ChildHook(q, c, ok, fail)
  /\ at' = IF q'.fatal = "no" THEN "reap" ELSE "down"
  /\ UNCHANGED <<ready, signals, left, outside>>

\* waitpid() has no more.
ReapDone ==
  /\ at = "reap" /\ zombies = {}
  /\ at' = "top"
  /\ UNCHANGED <<tables, ready, signals, outside>>

\* Mutant: an expired timeout is a tick, whatever the flag says.
TickFirst ==
  /\ at = "test" /\ ready = "none"
  /\ \E fail \in ForkMayFail : q' = QuestionTick(q, fail)
  /\ left' = left + TickInterval
  /\ late' = IF zombies = {} THEN 0 ELSE late + 1
  /\ Continue
  /\ UNCHANGED <<signals, zombies, outside>>

\* Mutant: the next tick is put off twice.
TickTwice ==
  /\ at = "test" /\ ready = "none" /\ ~ caught
  /\ \E fail \in ForkMayFail : q' = QuestionTick(q, fail)
  /\ left' = left + 2 * TickInterval
  /\ late' = IF zombies = {} THEN 0 ELSE late + 1
  /\ Continue
  /\ UNCHANGED <<signals, zombies, outside>>

\* tick(), as far as the questions go.
Tick ==
  /\ at = "test" /\ ready = "none" /\ ~ caught
  /\ \E fail \in ForkMayFail : q' = QuestionTick(q, fail)
  /\ left' = left + TickInterval
  /\ late' = IF zombies = {} THEN 0 ELSE late + 1
  /\ Continue
  /\ UNCHANGED <<signals, zombies, outside>>

\* select() was interrupted by something else.
Interrupted ==
  /\ at = "test" /\ ready = "eintr" /\ ~ caught
  /\ at' = "top" /\ ready' = "none"
  /\ UNCHANGED <<tables, signals, outside>>

\* select() fails, or a read() of the FIFO, or the accept() or the read() of
\* a client's request: pprd dies of fatal(), or of what main() catches.
CallFails ==
  /\ \/ at \in {"unblocked", "selecting", "reading"}
     \/ at = "test" /\ ready \in {"fifo", "usock"}
  /\ at' = "down" /\ ready' = "none"
  /\ UNCHANGED <<tables, signals, outside>>

---------------------------------------------------------------------------
(* The world *)

\* Time passes while pprd waits for a client's request, which can make it
\* late, and on every way to select(), however short its wait there.
Elapse ==
  /\ \/ at \in {"unblocked", "selecting"} /\ left > 0
     \/ at = "reading"
  /\ left > -MaxLate
  /\ left' = left - 1
  /\ q' = Later(q)
  /\ UNCHANGED <<at, ready, signals, zombies, late, outside>>

\* What a signal does to a select() that is under way.
Interrupts ==
  IF at = "selecting" THEN at' = "test" /\ ready' = "eintr"
                      ELSE UNCHANGED <<at, ready>>

\* A child dies and SIGCHLD is sent: it interrupts select(), is caught just
\* before or just after it, or has to wait until it is let through.
ChildDies(c) ==
  /\ at # "down" /\ c \in Children \ zombies
  /\ zombies' = zombies \cup {c}
  /\ Interrupts
  /\ \/ /\ at \in {"unblocked", "selecting", "test"}
        /\ caught' = TRUE /\ zeroed' = (at = "unblocked")
        /\ UNCHANGED pending
     \/ /\ at \notin {"unblocked", "selecting"}
        /\ pending' = TRUE
        /\ UNCHANGED <<caught, zeroed>>
  /\ UNCHANGED <<q, left, late, outside>>

\* SIGTERM is never blocked.
Terminate ==
  /\ at # "down" /\ ~ term
  /\ term' = TRUE
  /\ Interrupts
  /\ UNCHANGED <<tables, signals, fifo, socket>>

\* ppr, ppop or ppad writes a command.
Writes ==
  /\ at # "down"
  /\ fifo < MaxFifo
  /\ fifo' = fifo + 1
  /\ UNCHANGED <<tables, at, ready, signals, term, socket>>

\* Somebody connects to the Unix-domain socket or to a TCP port.
Connects ==
  /\ at # "down" /\ ~ socket
  /\ socket' = TRUE
  /\ UNCHANGED <<tables, at, ready, signals, term, fifo>>

Loop ==
  \/ Top \/ Select
  \/ DoFifoCommand \/ DoSocketCommand \/ SocketCommandRead \/ ListenerHook
  \/ StartReap \/ (\E c \in Slots : ReapChild(c)) \/ ReapDone
  \/ Tick \/ Interrupted \/ CallFails

LNext ==
  \/ Loop
  \/ Elapse
  \/ \E c \in Slots : ChildDies(c)
  \/ Terminate
  \/ Writes \/ Connects

LSpec == LInit /\ [][LNext]_vars

---------------------------------------------------------------------------
(* Properties *)

LTypeOK ==
  /\ q \in Tables
  /\ at \in {"top", "unblocked", "selecting", "test", "reading", "reap",
             "down"}
  /\ ready \in {"none", "eintr", "fifo", "usock", "inet"}
  /\ {caught, zeroed, pending, term} \subseteq BOOLEAN
  /\ left \in -MaxLate .. TickInterval
  /\ fifo \in 0 .. MaxFifo
  /\ zombies \subseteq Children

\* A death is never forgotten: while there is something to reap, the signal
\* is on its way, or the flag is set, or reapchild() is at it.
DeathIsKnown ==
  zombies # {} /\ at # "down" => pending \/ caught \/ at = "reap"

\* However busy its clients keep pprd, and whatever falls between the test of
\* the flag and select(), at most one tick passes with a child unreaped, and
\* those that were overdue already.
ReapedInTime == late <= 1 + MaxLate \div TickInterval

\* pprd dies on an assertion of the question subsystem only if fork() has
\* failed before (there is no free slot) or a job was asked about while it
\* was still being received (ASKING_NOW is not set).
KnownDeaths ==
  /\ q.fatal = "no slot" => \E x \in Slots : q.pid[x] = "failed"
  /\ q.fatal = "not asking" => q.early # {}

\* ASKING_NOW and the slots agree: a job is asked about by one process, and
\* only if it says so, unless it was moved or asked about too early.
OneAsker ==
  q.fatal = "no" =>
    \A i \in DOMAIN q.queue :
      LET j == q.queue[i]
      IN  j \notin q.early \cup q.moved =>
            Cardinality(Askers(q, j)) = IF j \in q.asking THEN 1 ELSE 0

\* outstanding_questions, by which the scan of the queue is cut short, is not
\* smaller than the number of questions that have been announced.
OutstandingCovers ==
  Cardinality(q.unanswered \ q.receiving) <= q.outstanding

\* A tick asks every question whose time has come, as far as the limits on
\* processes and launches and the fork()s allow; a job ahead that is still
\* being received, whose question nobody has counted, may use up the count.
TickAsks ==
  [][ left' > left /\ q'.fatal = "no" =>
        \/ q'.active = MaxQuestions \/ q'.launches >= MaxLaunches
        \/ \E x \in Slots : q'.pid[x] = "failed" /\ q.pid[x] # "failed"
        \/ q.receiving # {}
        \/ \A j \in q.unanswered : j \in q'.asking \/ q.wait[j] > 0 ]_vars
=============================================================================
