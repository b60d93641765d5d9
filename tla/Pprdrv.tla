------------------------------- MODULE Pprdrv -------------------------------
(***************************************************************************)
(* pprdrv, the process that prints one job, with the two processes it      *)
(* starts: the interface, to which it writes the job and which sends back  *)
(* what the printer says, and the RIP, if the printer needs one, which is  *)
(* put between them for the time of each PostScript file.                  *)
(*                                                                         *)
(* pprdrv is a sequential program that now and then waits in select().  It *)
(* learns of the death of a child, of SIGTERM and of SIGUSR1 by signal     *)
(* handlers that set a flag, and looks at the flags in fault_check().  Its *)
(* program for the job is the sequence drv.todo of writes and waits; a     *)
(* fault replaces what is left of it.  drv.phase tells whether pprdrv is   *)
(* about to call select() or asleep in it: a signal that comes before does *)
(* not wake it.                                                            *)
(***************************************************************************)
EXTENDS PprdrvPages

CONSTANTS
  Orders,       \* the jobs, with the settings of the printer and a bound,
                \* trouble, on how many things go wrong
  PipeSize,     \* blocks that a pipe holds
  MaxFeedback,  \* bound: messages in the pipe from the interface
  MaxPaper      \* bound: blocks the interface takes

\* What ppr puts into a queue file, and what a printer may be set to.
Shapes ==
  [kind : {"postscript", "transparent", "barbar"}, pages : Nat,
   mask : SUBSET Nat, pageorder : {-1, 0, 1}, script : BOOLEAN,
   N : Nat \ {0}, pagefactor : Nat \ {0}, sigsheets : Nat,
   sigpart : SUBSET {"fronts", "backs"}, copies : Nat \cup {-1},
   collate : BOOLEAN, cancollate : BOOLEAN, faceup : BOOLEAN,
   flags : SUBSET {"first", "last"},
   jobbreak : {"none", "signal", "newinterface", "control-d", "pjl",
               "signal/pjl"},
   feedback : BOOLEAN, rip : BOOLEAN, trouble : Nat]

ASSUME OrdersAssumption ==
  Orders \subseteq Shapes /\ \A j \in Orders : j.mask \subseteq 1 .. j.pages

ASSUME PipeAssumption ==
  PipeSize \in Nat \ {0} /\ MaxFeedback \in Nat \ {0} /\ MaxPaper \in Nat

VARIABLES
  job,     \* the job and the settings of the printer
  drv,     \* pprdrv
  intf,    \* the interface: its state, exit code and input
  rip,     \* the RIP: its state and input
  fb,      \* the pipe from the interface and the RIP to pprdrv
  paper,   \* what the interface has taken
  luck,    \* how many more things may go wrong
  facts    \* observer: what has gone wrong

vars == <<job, drv, intf, rip, fb, paper, luck, facts>>

\* What an interface may exit with: the codes of interface.h, of which those
\* that pprd treats alike are one ("prnerr" stands for three and "noretry" for
\* four); a code that is not among them ("weird"); or a signal ("killed",
\* "core").
InterfaceCodes ==
  {"printed", "prnerr", "noretry", "joberr", "signal", "engaged", "starved",
   "weird", "killed", "core"}

\* What the printer takes for something to be put on paper.
Data == {"doc", "page", "flag", "raw"}

\* What of a program, or of what is in a pipe, is for the paper.
DataOf(s) == Keep(s, Data \X Int)

\* All that pprdrv writes: the rest is for the jobbreak protocols.
Blocks == Data \cup {"eot", "pjl", "eoj", "uel"}

Op(name) == <<name, 0>>
Ops(names) == [i \in DOMAIN names |-> Op(names[i])]

---------------------------------------------------------------------------
(* The program for a job *)

\* interface_close().
InterfaceClose == Ops(<<"shut", "drain", "reap">>)

StartInterface(j) ==
  Ops(IF j.jobbreak \in {"signal", "signal/pjl"} THEN <<"launch", "handshake">>
      ELSE <<"launch">>)

SignalJobbreak == Ops(<<"signal", "usr1">>)

\* The output of a RIP is not PostScript, nor is a file passed through.
IsPostScript(j, type) == type \in {"flag", "postscript"} /\ ~ j.rip

\* job_start() and printer_setup().
JobStart(j, type, iteration) ==
  (IF iteration = 1 THEN StartInterface(j)
   ELSE IF j.jobbreak = "signal" THEN SignalJobbreak
   ELSE IF j.jobbreak = "newinterface" THEN InterfaceClose \o StartInterface(j)
   ELSE <<>>)
  \o
  (IF type = "transparent" THEN <<>>
   ELSE IF j.jobbreak = "control-d"
     THEN IF iteration = 1 /\ IsPostScript(j, type) THEN Ops(<<"eot">>)
          ELSE <<>>
   ELSE IF j.jobbreak \in {"pjl", "signal/pjl"} THEN Ops(<<"pjl">>)
   ELSE <<>>)
  \o
  (IF j.rip /\ type \in {"flag", "postscript"} THEN Ops(<<"rip">>) ELSE <<>>)

\* job_end() and printer_cleanup().
JobEnd(j, type) ==
  (IF j.rip /\ type \in {"flag", "postscript"}
     THEN Ops(<<"ripeof", "ripwait0", "ripwait", "ripscreen">>) ELSE <<>>)
  \o
  (IF type = "transparent" THEN <<>>
   ELSE IF j.jobbreak = "control-d" /\ IsPostScript(j, type)
     THEN Ops(IF j.feedback THEN <<"eot", "ctrld">> ELSE <<"eot">>)
   ELSE IF j.jobbreak \in {"pjl", "signal/pjl"}
     THEN (IF ~ IsPostScript(j, type) THEN <<>>
           ELSE IF j.jobbreak = "pjl" THEN Ops(<<"eot">>)
           ELSE SignalJobbreak)
          \o Ops(IF j.feedback THEN <<"eoj", "pjlstart", "pjlend", "uel">>
                 ELSE <<"eoj", "uel">>)
   ELSE <<>>)

\* real_main(): the files that are sent, one after the other.
Files(j) ==
  (IF "first" \in j.flags THEN << <<"flag", << <<"flag", 0>> >> >> >> ELSE <<>>)
  \o
  (IF j.kind # "postscript" THEN << <<j.kind, << <<"raw", 0>> >> >> >>
   ELSE [i \in 1 .. SelectCopiesMethod(j).docs |->
           <<"postscript", Document(j, i)>>])
  \o
  (IF "last" \in j.flags THEN << <<"flag", << <<"flag", 0>> >> >> >> ELSE <<>>)

RealMain(j) ==
  LET files == Files(j)
  IN  FlattenSeq([i \in DOMAIN files |->
                    JobStart(j, files[i][1], i) \o files[i][2]
                      \o JobEnd(j, files[i][1])])
      \o InterfaceClose \o Ops(<<"verdict">>)

---------------------------------------------------------------------------
(* Faults.  v is a state of pprdrv. *)

Advance(v) == [v EXCEPT !.todo = Tail(@), !.phase = "run"]

Turn(v, todo) == [v EXCEPT !.todo = todo, !.phase = "run"]

\* rip_cancel().
RipCancel(v) ==
  IF v.rippid THEN [v EXCEPT !.rnofault = TRUE, !.killed = @ \cup {"rip"}]
  ELSE v

\* Mutant: only the RIP is killed.
KillInterfaceNot(v) == IF v.intpid THEN RipCancel(v) ELSE v

\* kill_interface().
KillInterface(v) ==
  IF v.intpid THEN [RipCancel(v) EXCEPT !.killed = @ \cup {"interface"}] ELSE v

\* hooked_exit(), fatal().
HookedExit(v, code) == [Turn(KillInterface(v), <<>>) EXCEPT !.verdict = code]

\* interface_fault_check(): the interface has died.
InterfaceFault(v) ==
  [Turn(RipCancel(v), Ops(<<"drain", "ifault">>))
     EXCEPT !.wend = FALSE, !.died = FALSE]

\* rip_fault_check(): the RIP has died.
RipFault(v) ==
  [Turn(v, Ops(<<"ripscreen">>) \o InterfaceClose \o Ops(<<"ripverdict">>))
     EXCEPT !.rnofault = TRUE]

FaultCheck(v) ==
  IF v.term THEN HookedExit(v, "signal")
  ELSE IF v.died /\ ~ v.nofault THEN InterfaceFault(v)
  ELSE IF v.rdied /\ ~ v.rnofault THEN RipFault(v)
  ELSE v

\* interface_exit_screen(): what pprdrv exits with if the interface did not
\* exit as it should, or "ok".
InterfaceExitScreen(code) ==
  CASE code \in {"killed", "weird"} -> "prnerr"
    [] code = "core" -> "noretry"
    [] code = "signal" -> "signal"
    [] OTHER -> "ok"

\* rip_exit_screen().
RipExitScreen(code) ==
  CASE code = "segv" -> "joberr"
    [] code \in {"pipe", "killed"} -> "prnerr"
    [] OTHER -> "ok"

\* feedback_reader(): one message.
ReadMessage(v, m) ==
  CASE m = "error" -> [v EXCEPT !.err = TRUE]
    [] m = "ghost" -> [v EXCEPT !.ghost = TRUE]
    [] m = "ctrld" -> [v EXCEPT !.dcount = @ - 1]
    [] m = "start" -> [v EXCEPT !.seen = TRUE, !.active = TRUE]
    [] m = "end" -> [v EXCEPT !.active = FALSE]

FeedbackReader(v, messages) ==
  LET read[n \in 0 .. Len(messages)] ==
        IF n = 0 THEN v ELSE ReadMessage(read[n - 1], messages[n])
  IN  read[Len(messages)]

\* A signal handler has run: if pprdrv was asleep it is so no more.
Wake(v) == IF v.phase = "asleep" THEN [v EXCEPT !.phase = "intr"] ELSE v

---------------------------------------------------------------------------
DInit ==
  /\ job \in Orders
  /\ drv = [todo |-> Ops(<<"main">>), phase |-> "run",
            intpid |-> FALSE, died |-> FALSE, nofault |-> FALSE,
            rippid |-> FALSE, rdied |-> FALSE, rnofault |-> FALSE,
            icode |-> "none", rcode |-> "none", riping |-> FALSE,
            usr1 |-> FALSE, term |-> FALSE, wend |-> FALSE, dcount |-> 0,
            err |-> FALSE, ghost |-> FALSE, seen |-> FALSE, active |-> FALSE,
            killed |-> {}, verdict |-> "none"]
  /\ intf = [state |-> "none", in |-> <<>>, eof |-> FALSE, asked |-> FALSE,
             owes |-> <<>>, code |-> "none"]
  /\ rip = [state |-> "none", in |-> <<>>, eof |-> FALSE]
  /\ fb = <<>> /\ paper = <<>>
  /\ luck = job.trouble /\ facts = {}

\* pprdrv is at a step of its program.
At(name) == drv.todo # <<>> /\ Head(drv.todo)[1] = name

AtBlock == drv.todo # <<>> /\ Head(drv.todo)[1] \in Blocks

\* Something goes wrong.
Trouble(what) ==
  /\ luck > 0 /\ luck' = luck - 1
  /\ facts' = facts \cup {what}

NoTrouble == UNCHANGED <<luck, facts>>

children == <<intf, rip, fb, paper>>

---------------------------------------------------------------------------
(* Steps of pprdrv that do not wait *)

\* The beginning of real_main(): the printer may be found incapable.
Main ==
  /\ At("main")
  /\ \/ drv' = Turn(drv, RealMain(job)) /\ NoTrouble
     \/ /\ drv' = [Turn(drv, <<>>) EXCEPT !.verdict = "incapable"]
        /\ Trouble("incapable")
  /\ UNCHANGED <<job, children>>

\* What pprdrv may find wrong on its own: with the queue file and the files of
\* the job, or with its configuration, the PPD file, the fonts, the logs and
\* the memory it needs; and what it exits with for each.
Defects ==
  [file |-> {"joberr", "noretry"},
   setup |-> {"joberr", "noretry", "prnerr", "starved"}]

\* The steps before which it reads, or notes its progress in the queue file.
Reads == Blocks \cup {"main", "launch", "signal", "rip", "shut"}

\* fatal(), all over pprdrv, and the exception handler in main().
GivesUp ==
  /\ drv.todo # <<>> /\ Head(drv.todo)[1] \in Reads /\ drv.phase = "run"
  /\ \E what \in DOMAIN Defects :
       /\ Trouble(what)
       /\ \E code \in Defects[what] : drv' = HookedExit(drv, code)
  /\ UNCHANGED <<job, children>>

\* The script section once more.
Again ==
  /\ At("again")
  /\ drv' = Turn(drv, CopyPages(job, -1) \o drv.todo)
  /\ NoTrouble /\ UNCHANGED <<job, children>>

\* start_interface(), up to the handshake.  An interface that uses SIGUSR1
\* will send one when it is ready.
Launch ==
  /\ At("launch")
  /\ drv' = [Advance(drv) EXCEPT
               !.intpid = TRUE, !.died = FALSE, !.nofault = FALSE,
               !.usr1 = FALSE, !.wend = TRUE, !.dcount = 0,
               !.seen = FALSE, !.active = FALSE]
  /\ intf' = [state |-> "up", in |-> <<>>, eof |-> FALSE,
              asked |-> job.jobbreak \in {"signal", "signal/pjl"},
              owes |-> <<>>, code |-> "none"]
  /\ fb' = <<>>
  /\ facts' = IF drv.icode \in {"none", "printed"} THEN facts
              ELSE facts \cup {"ignored"}
  /\ UNCHANGED <<job, rip, paper, luck>>

\* There is no such interface, no pipe or no process for it.
LaunchFails ==
  /\ At("launch")
  /\ \E code \in {"noretry", "prnerr", "starved"} : drv' = HookedExit(drv, code)
  /\ Trouble("launch")
  /\ UNCHANGED <<job, children>>

\* The end of start_interface(): SIGUSR1 has come, or the interface is dead.
Handshake ==
  /\ At("handshake")
  /\ drv.usr1 \/ drv.died
  /\ drv' = IF drv.died THEN FaultCheck(drv) ELSE Advance(drv)
  /\ NoTrouble /\ UNCHANGED <<job, children>>

\* Nothing has come for 30 seconds.
HandshakeTimeout ==
  /\ At("handshake") /\ ~ drv.usr1 /\ ~ drv.died
  /\ drv' = IF FaultCheck(drv) = drv THEN HookedExit(drv, "noretry")
            ELSE FaultCheck(drv)
  /\ Trouble("handshake")
  /\ UNCHANGED <<job, children>>

\* signal_jobbreak(), up to its wait.  If the interface has died, intpid is 0
\* and the signal goes to pprdrv's own process group.
Signal ==
  /\ At("signal")
  /\ drv' = [Advance(drv) EXCEPT !.usr1 = ~ drv.intpid]
  /\ intf' = [intf EXCEPT !.asked = drv.intpid]
  /\ NoTrouble /\ UNCHANGED <<job, rip, fb, paper>>

\* rip_start().
RipStart ==
  /\ At("rip")
  /\ drv' = [Advance(drv) EXCEPT !.rippid = TRUE, !.riping = TRUE,
                                 !.rdied = FALSE, !.rnofault = FALSE]
  /\ \/ rip' = [state |-> "up", in |-> <<>>, eof |-> FALSE] /\ NoTrouble
     \* It dies before its pid is known: nobody will hear of it.
     \/ rip' = [state |-> "dead", in |-> <<>>, eof |-> FALSE] /\ Trouble("rip")
  /\ UNCHANGED <<job, intf, fb, paper>>

\* There is no such RIP, no pipe or no process for it.
RipStartFails ==
  /\ At("rip")
  /\ \E code \in {"noretry", "prnerr"} : drv' = HookedExit(drv, code)
  /\ Trouble("launch")
  /\ UNCHANGED <<job, children>>

\* Mutant: the death of the RIP is still taken for a fault.
RipEofWatched ==
  /\ At("ripeof")
  /\ drv' = Advance(drv)
  /\ rip' = [rip EXCEPT !.eof = TRUE]
  /\ NoTrouble /\ UNCHANGED <<job, intf, fb, paper>>

\* rip_stop(), up to its wait.
RipEof ==
  /\ At("ripeof")
  /\ drv' = [Advance(drv) EXCEPT !.rnofault = TRUE]
  /\ rip' = [rip EXCEPT !.eof = TRUE]
  /\ NoTrouble /\ UNCHANGED <<job, intf, fb, paper>>

\* rip_stop(), when the RIP has ended.
RipScreen ==
  /\ At("ripscreen")
  /\ LET v == [drv EXCEPT !.rdied = FALSE]
     IN  drv' = IF FaultCheck(v) # v THEN FaultCheck(v)
                ELSE IF RipExitScreen(v.rcode) # "ok"
                  THEN HookedExit(v, RipExitScreen(v.rcode))
                ELSE [Advance(v) EXCEPT !.riping = FALSE]
  /\ NoTrouble /\ UNCHANGED <<job, children>>

\* rip_fault_check(), when the interface has ended too.
RipVerdict ==
  /\ At("ripverdict")
  /\ drv' = HookedExit(drv, IF drv.rcode = "quit" /\ drv.ghost THEN "noretry"
                            ELSE "joberr")
  /\ NoTrouble /\ UNCHANGED <<job, children>>

\* interface_close(), up to its waits.
Shut ==
  /\ At("shut")
  /\ drv' = [Advance(drv) EXCEPT !.nofault = TRUE, !.wend = FALSE]
  /\ intf' = [intf EXCEPT !.eof = TRUE]
  /\ NoTrouble /\ UNCHANGED <<job, rip, fb, paper>>

\* interface_close() waits for the interface with sigsuspend().
Reap ==
  /\ At("reap") /\ drv.died
  /\ drv' = IF InterfaceExitScreen(drv.icode) # "ok"
              THEN HookedExit(drv, InterfaceExitScreen(drv.icode))
              ELSE Advance(drv)
  /\ NoTrouble /\ UNCHANGED <<job, children>>

\* interface_fault_check(), when all that the interface sent has been read.
InterfaceVerdict ==
  /\ At("ifault")
  /\ LET screened == InterfaceExitScreen(drv.icode)
     IN  drv' = HookedExit(drv, IF screened # "ok" THEN screened
                                ELSE IF drv.icode = "printed" THEN "noretry"
                                ELSE IF drv.err THEN "joberr"
                                ELSE drv.icode)
  /\ NoTrouble /\ UNCHANGED <<job, children>>

\* The end of real_main().
Verdict ==
  /\ At("verdict")
  /\ drv' = [Turn(drv, <<>>) EXCEPT
               !.verdict = IF drv.err THEN "joberr" ELSE drv.icode]
  /\ NoTrouble /\ UNCHANGED <<job, children>>

---------------------------------------------------------------------------
(* printer_flush() *)

\* select() is called, here and in feedback_wait().
Sleep ==
  /\ drv.phase = "due"
  /\ drv' = [drv EXCEPT !.phase = "asleep"]
  /\ NoTrouble /\ UNCHANGED <<job, children>>

\* The process that reads what pprdrv writes.
ReaderGone == IF drv.riping THEN rip.state # "up" ELSE intf.state # "up"

Input == IF drv.riping THEN rip.in ELSE intf.in

\* fault_check(), then select().
FlushCheck ==
  /\ AtBlock /\ drv.phase = "run"
  /\ drv' = IF FaultCheck(drv) # drv THEN FaultCheck(drv)
            ELSE [drv EXCEPT !.phase = "due"]
  /\ NoTrouble /\ UNCHANGED <<job, children>>

\* select() has been interrupted, or has timed out when there is something
\* that the next fault_check() will find.
FlushAgain ==
  /\ AtBlock
  /\ \/ drv.phase = "intr"
     \/ drv.phase = "asleep" /\ FaultCheck(drv) # drv
  /\ drv' = [drv EXCEPT !.phase = "run"]
  /\ NoTrouble /\ UNCHANGED <<job, children>>

\* Mutant: pprdrv waits until the pipe has room for more than it writes.
FlushWriteRoomy ==
  /\ AtBlock /\ drv.phase = "asleep" /\ fb = <<>>
  /\ ~ ReaderGone /\ Len(Input) + 1 < PipeSize
  /\ LET block == Head(drv.todo)
         counted == /\ block[1] = "eot"
                    /\ job.jobbreak = "control-d" /\ job.feedback
     IN  /\ drv' = IF counted THEN [Advance(drv) EXCEPT !.dcount = @ + 1]
                   ELSE Advance(drv)
         /\ IF drv.riping
              THEN rip' = [rip EXCEPT !.in = Append(@, block)] /\ UNCHANGED intf
              ELSE /\ intf' = [intf EXCEPT !.in = Append(@, block)]
                   /\ UNCHANGED rip
  /\ NoTrouble /\ UNCHANGED <<job, fb, paper>>

\* select() says that write() will not block, and that there is nothing to
\* read, which would go first.
FlushWrite ==
  /\ AtBlock /\ drv.phase = "asleep" /\ fb = <<>>
  /\ ~ ReaderGone /\ Len(Input) < PipeSize
  /\ LET block == Head(drv.todo)
         counted == /\ block[1] = "eot"
                    /\ job.jobbreak = "control-d" /\ job.feedback
     IN  /\ drv' = IF counted THEN [Advance(drv) EXCEPT !.dcount = @ + 1]
                   ELSE Advance(drv)
         /\ IF drv.riping
              THEN rip' = [rip EXCEPT !.in = Append(@, block)] /\ UNCHANGED intf
              ELSE /\ intf' = [intf EXCEPT !.in = Append(@, block)]
                   /\ UNCHANGED rip
  /\ NoTrouble /\ UNCHANGED <<job, fb, paper>>

\* write() fails with EPIPE.
FlushBroken ==
  /\ AtBlock /\ drv.phase = "asleep" /\ fb = <<>> /\ ReaderGone
  /\ drv' = Turn(drv, Ops(<<"epipe">>))
  /\ NoTrouble /\ UNCHANGED <<job, children>>

\* Ten times, with a second between, fault_check() is called.  If no child
\* is known to be dead in the end that is a printer error.
Epipe ==
  /\ At("epipe")
  /\ drv' = IF FaultCheck(drv) # drv THEN FaultCheck(drv)
            ELSE HookedExit(drv, "prnerr")
  /\ NoTrouble /\ UNCHANGED <<job, children>>

---------------------------------------------------------------------------
(* feedback_wait() and the loops that call it *)

Waits == {"usr1", "ctrld", "pjlstart", "pjlend", "drain", "ripwait0", "ripwait"}

AtWait == drv.todo # <<>> /\ Head(drv.todo)[1] \in Waits

\* What the loop waits for.  feedback_drain() waits for the end of file.  A
\* printer that says it is broken ends the wait for PJL as "end" does.
Met(v) ==
  LET name == Head(v.todo)[1]
  IN  \/ name = "usr1" /\ v.usr1
      \/ name = "ctrld" /\ v.dcount <= 0
      \/ name = "pjlstart" /\ v.seen
      \/ name = "pjlend" /\ (~ v.active \/ v.err)
      \/ name \in {"ripwait0", "ripwait"} /\ v.rdied

\* The condition of the loop.
WaitTest ==
  /\ AtWait /\ drv.phase = "run"
  /\ drv' = IF ~ Met(drv) THEN [drv EXCEPT !.phase = "due"]
            ELSE IF At("pjlend") THEN [Advance(drv) EXCEPT !.seen = FALSE]
            ELSE Advance(drv)
  /\ NoTrouble /\ UNCHANGED <<job, children>>

\* select() has been interrupted.  signal_jobbreak() and rip_stop() have
\* feedback_wait() return; rip_stop() gives its first call no timeout.
WaitInterrupted ==
  /\ AtWait /\ drv.phase = "intr"
  /\ drv' = IF FaultCheck(drv) # drv THEN FaultCheck(drv)
            ELSE IF At("ripwait0") THEN Advance(drv)
            ELSE IF At("usr1") \/ At("ripwait")
              THEN [drv EXCEPT !.phase = "run"]
            ELSE [drv EXCEPT !.phase = "due"]
  /\ NoTrouble /\ UNCHANGED <<job, children>>

\* feedback_pjl_wait() writes something whenever feedback_wait() returns, lest
\* the printer close the connection.
KeepAlive(v) == Turn(v, Ops(<<"uel">>) \o v.todo)

\* There is something to read, in a wait or in printer_flush().
FeedbackReady ==
  /\ AtWait \/ AtBlock
  /\ drv.phase = "asleep" /\ fb # <<>>
  /\ IF FaultCheck(drv) # drv THEN drv' = FaultCheck(drv) /\ UNCHANGED fb
     ELSE /\ fb' = <<>>
          /\ LET v == [FeedbackReader(drv, fb) EXCEPT !.phase = "run"]
             IN  drv' = IF At("ripwait0") THEN Advance(v)
                        ELSE IF At("pjlend") THEN KeepAlive(v)
                        ELSE v
  /\ NoTrouble /\ UNCHANGED <<job, intf, rip, paper>>

\* Nobody can write to the pipe any more.
EndOfFeedback ==
  ~ drv.wend /\ intf.state # "up" /\ rip.state # "up" /\ fb = <<>>

\* Mutant: feedback_drain() does not wait for the end of file.
DrainedEarly ==
  /\ At("drain") /\ drv.phase = "asleep" /\ fb = <<>>
  /\ drv' = IF FaultCheck(drv) # drv THEN FaultCheck(drv) ELSE Advance(drv)
  /\ NoTrouble /\ UNCHANGED <<job, children>>

\* feedback_drain() is done.
Drained ==
  /\ At("drain") /\ drv.phase = "asleep" /\ EndOfFeedback
  /\ drv' = IF FaultCheck(drv) # drv THEN FaultCheck(drv) ELSE Advance(drv)
  /\ NoTrouble /\ UNCHANGED <<job, children>>

\* feedback_wait() has been given a time limit and it is over.  It returns
\* without a fault_check().
WaitTimeout ==
  /\ drv.phase = "asleep"
  /\ \/ /\ At("usr1") \/ At("ripwait")
        /\ Met(drv)
        /\ drv' = [drv EXCEPT !.phase = "run"]
     \/ At("pjlend") /\ fb = <<>> /\ drv' = KeepAlive(drv)
  /\ NoTrouble /\ UNCHANGED <<job, children>>

\* writemon_sleep_time(): the printer has been on line, and a page has not
\* come out, for longer than PageTimeLimit allows.
PageTimeLimit ==
  /\ AtBlock \/ AtWait
  /\ drv.phase \in {"due", "asleep"}
  /\ drv' = HookedExit(drv, "joberr")
  /\ Trouble("slow")
  /\ UNCHANGED <<job, children>>

---------------------------------------------------------------------------
(* The interface, the RIP and the operator *)

Running == drv.verdict = "none"

\* What the printer answers to a block.
Answer(block) ==
  IF ~ job.feedback THEN <<>>
  ELSE CASE block[1] = "eot" -> <<"ctrld">>
         [] block[1] = "pjl" -> <<"start">>
         [] block[1] = "eoj" -> <<"end">>
         [] OTHER -> <<>>

InterfaceReads ==
  /\ Running /\ intf.state = "up" /\ intf.in # <<>>
  /\ LET block == Head(intf.in)
     IN  /\ IF block[1] \in Data
              THEN Len(paper) < MaxPaper /\ paper' = Append(paper, block)
              ELSE UNCHANGED paper
         /\ intf' = [intf EXCEPT !.in = Tail(@), !.owes = @ \o Answer(block)]
  /\ NoTrouble /\ UNCHANGED <<job, drv, rip, fb>>

\* The answer of the printer comes back.
PrinterAnswers ==
  /\ Running /\ intf.state = "up" /\ intf.owes # <<>>
  /\ Len(fb) < MaxFeedback /\ fb' = Append(fb, Head(intf.owes))
  /\ intf' = [intf EXCEPT !.owes = Tail(@)]
  /\ NoTrouble /\ UNCHANGED <<job, drv, rip, paper>>

\* The interface sends SIGUSR1, at first or as an answer to one.
InterfaceAnswers ==
  /\ Running /\ intf.state = "up" /\ intf.asked
  /\ intf' = [intf EXCEPT !.asked = FALSE]
  /\ drv' = Wake([drv EXCEPT !.usr1 = TRUE])
  /\ NoTrouble /\ UNCHANGED <<job, rip, fb, paper>>

\* A message about an error in the PostScript, from the printer or the RIP.
Complains ==
  /\ Running /\ "error" \notin facts
  /\ intf.state = "up" \/ rip.state = "up"
  /\ Len(fb) < MaxFeedback /\ fb' = Append(fb, "error")
  /\ Trouble("error")
  /\ UNCHANGED <<job, drv, intf, rip, paper>>

\* A message of a Ghostscript that does not like its command line.
GhostComplains ==
  /\ Running /\ rip.state = "up" /\ "ghost" \notin facts
  /\ Len(fb) < MaxFeedback /\ fb' = Append(fb, "ghost")
  /\ Trouble("ghost")
  /\ UNCHANGED <<job, drv, intf, rip, paper>>

\* All has been read, and pprdrv and the RIP have closed the pipe.
InterfaceDone ==
  intf.eof /\ intf.in = <<>> /\ intf.owes = <<>> /\ rip.state # "up"

\* The interface ends, of itself or not.  Its pipes are closed before pprdrv
\* gets SIGCHLD.
InterfaceEnds(code) ==
  /\ Running /\ intf.state = "up"
  /\ IF InterfaceDone /\ code = "printed" THEN NoTrouble
     ELSE Trouble(IF code = "printed" THEN "hasty" ELSE "interface")
  /\ intf' = [intf EXCEPT !.state = "closed", !.in = <<>>, !.owes = <<>>,
                         !.asked = FALSE, !.code = code]
  /\ UNCHANGED <<job, drv, rip, fb, paper>>

\* sigchld_handler() and interface_sigchld_hook().
InterfaceDies ==
  /\ Running /\ intf.state = "closed"
  /\ intf' = [intf EXCEPT !.state = "dead"]
  /\ drv' = Wake([drv EXCEPT !.died = TRUE, !.intpid = FALSE,
                           !.icode = intf.code])
  /\ NoTrouble /\ UNCHANGED <<job, rip, fb, paper>>

\* The RIP turns PostScript into what the printer understands.
RipPasses ==
  /\ Running /\ rip.state = "up" /\ rip.in # <<>>
  /\ intf.state = "up" /\ Len(intf.in) < PipeSize
  /\ intf' = [intf EXCEPT !.in = Append(@, Head(rip.in))]
  /\ rip' = [rip EXCEPT !.in = Tail(@)]
  /\ NoTrouble /\ UNCHANGED <<job, drv, fb, paper>>

\* sigchld_handler() and rip_sigchld_hook(): the RIP ends at the end of its
\* input, when it is killed, when the interface is gone, or of itself.
RipEnds(code) ==
  /\ Running /\ rip.state = "up"
  /\ \/ code = "ok" /\ rip.eof /\ rip.in = <<>> /\ NoTrouble
     \/ code = "killed" /\ "rip" \in drv.killed /\ NoTrouble
     \/ /\ code \in {"pipe", "quit"} /\ intf.state # "up" /\ rip.in # <<>>
        /\ facts' = facts \cup (IF code = "quit" THEN {"quit"} ELSE {})
        /\ UNCHANGED luck
     \/ code \in {"segv", "killed"} /\ Trouble("rip")
     \/ code = "quit" /\ Trouble("quit")
  /\ rip' = [rip EXCEPT !.state = "dead", !.in = <<>>]
  /\ drv' = Wake([drv EXCEPT !.rdied = TRUE, !.rippid = FALSE, !.rcode = code])
  /\ UNCHANGED <<job, intf, fb, paper>>

\* sigterm_handler(): pprd wants it to stop.
Terminate ==
  /\ Running /\ ~ drv.term
  /\ drv' = Wake([drv EXCEPT !.term = TRUE])
  /\ Trouble("operator")
  /\ UNCHANGED <<job, children>>

---------------------------------------------------------------------------
RipCodes == {"ok", "killed", "pipe", "quit", "segv"}

Walks ==
  \/ Main \/ Again \/ Launch \/ Handshake \/ Signal \/ RipStart \/ RipEof
  \/ RipScreen \/ RipVerdict \/ Shut \/ Reap \/ InterfaceVerdict \/ Verdict
  \/ Sleep \/ FlushCheck \/ FlushAgain \/ FlushWrite \/ FlushBroken \/ Epipe
  \/ WaitTest \/ WaitInterrupted \/ FeedbackReady \/ Drained \/ WaitTimeout

Serves ==
  \/ InterfaceReads \/ InterfaceAnswers \/ InterfaceDies
  \/ InterfaceEnds("printed") /\ InterfaceDone

Rips == RipPasses \/ \E code \in RipCodes : RipEnds(code) /\ luck' = luck

DNext ==
  \/ Walks \/ GivesUp \/ LaunchFails \/ HandshakeTimeout \/ RipStartFails
  \/ PageTimeLimit
  \/ InterfaceReads \/ PrinterAnswers \/ InterfaceAnswers
  \/ \E code \in InterfaceCodes : InterfaceEnds(code)
  \/ InterfaceDies \/ Complains \/ GhostComplains
  \/ RipPasses \/ (\E code \in RipCodes : RipEnds(code))
  \/ Terminate

\* The processes are scheduled, an interface goes on reading and answering
\* and ends at the end of its input, a RIP does too, and the printer answers.
DSpec ==
  /\ DInit /\ [][DNext]_vars
  /\ WF_vars(Walks) /\ WF_vars(Serves) /\ WF_vars(PrinterAnswers)
  /\ WF_vars(Rips)

---------------------------------------------------------------------------
(* Properties *)

C == INSTANCE PprdrvContract WITH
       order <- job, verdict <- drv.verdict,
       complaint <- "error" \in facts,
       excuses <- facts \cap {"hasty", "quit", "ignored"}

\* The program of a job, carried out to its end with nothing lost, delivers
\* the job, whichever pages, sheets, signatures and copies it asks for, or it
\* has no end.
Delivers(j) ==
  LET program == RealMain(j)
  IN  \/ \E i \in DOMAIN program : program[i] = Op("again")
      \/ C!Delivered(j, DataOf(program))
ProgramDelivers == At("main") => Delivers(job)

\* What pprd relies on when a pprdrv says EXIT_PRINTED: whatever the order in
\* which children die, messages come and pipes break, the interface has been
\* given every copy of every page that was asked for, in the order in which
\* they will be read, and no PostScript error was reported before the end of
\* the feedback.  pprdrv cannot know better if an interface exits with 0, or
\* a RIP with any code, when it has not read all that is in its pipe; and it
\* ignores the exit code of an interface that is replaced for the next file.
KeepsContract == C!Contract

\* The exit code blames who is to blame, since pprd arrests the job, stops
\* the printer or tries again because of it.  A job that meets no trouble is
\* never failed; it is arrested only for a PostScript error, a RIP that did
\* not finish, never one that pprdrv itself has killed, files or resources
\* that cannot be read, a page that takes too long, or because the interface
\* says so; a printer is not said to have been halted unless somebody sent a
\* signal, nor to be engaged unless its interface has said so.
Blame ==
  LET v == drv.verdict
  IN  /\ v \notin {"none", "printed"} => facts # {}
      /\ v = "joberr" =>
           \/ facts \cap {"error", "rip", "quit", "file", "setup", "slow"} # {}
           \/ drv.icode = "joberr"
      /\ v = "signal" => "operator" \in facts \/ drv.icode = "signal"
      /\ v = "engaged" => drv.icode = "engaged"
      /\ v = "incapable" => "incapable" \in facts
      /\ v = "starved" =>
           facts \cap {"launch", "setup"} # {} \/ drv.icode = "starved"
      /\ v = "noretry" =>
           \/ facts \cap {"launch", "handshake", "hasty", "file", "setup"} # {}
           \/ drv.icode \in {"core", "noretry"}
           \/ "ghost" \in facts /\ drv.rcode = "quit"

\* pprdrv leaves no interface behind that it has not killed, and no RIP
\* either, unless the interface it writes to is dead.
NothingLeft ==
  drv.verdict # "none" =>
    /\ intf.state \in {"up", "closed"} => "interface" \in drv.killed
    /\ rip.state = "up" => "rip" \in drv.killed \/ intf.state = "dead"

\* feedback_wait() does not look at the flags before it sleeps: a signal that
\* came too early, and that nothing will come after, has been missed.
Deaf ==
  /\ drv.phase = "asleep" /\ fb = <<>>
  /\ \/ (At("usr1") \/ At("ctrld") \/ At("pjlstart") \/ At("ripwait0"))
        /\ FaultCheck(drv) # drv
     \/ At("ripwait0") /\ drv.rdied

\* interface_fault_check() has cleared interface_died, and then found the RIP
\* dead too: interface_close() waits for a death that it was told of before.
Unreaped == At("reap") /\ intf.state = "dead" /\ ~ drv.died

\* A pprdrv ends, and with it the job's hold on the printer, if the interface
\* goes on reading and answering.  Three things can keep it from that: the
\* missed signal, the death of both children at once, and a second copy of a
\* file whose script section is sent without end.
Ends == <>[](drv.verdict # "none" \/ Deaf \/ Unreaped \/ Endless(job))
=============================================================================
