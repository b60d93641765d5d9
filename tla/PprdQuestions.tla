--------------------------- MODULE PprdQuestions ---------------------------
(***************************************************************************)
(* Questions to users (pprd_question.c).  A job may carry a question that  *)
(* its user has to answer.  pprd asks it with a process of its own, which  *)
(* opens a window at the user's end, and asks again some time after that   *)
(* process has exited, until the question has been answered.               *)
(*                                                                         *)
(* The operators here take the tables of the question subsystem, and the   *)
(* fields of the queue that it uses, as a record and return the changed    *)
(* one.  `fail' says that fork() fails.                                    *)
(***************************************************************************)
EXTENDS Integers, Sequences, FiniteSets

CONSTANTS
  Jobs,
  Dests,
  HomeDest,        \* the destination with which jobs are submitted
  Skeletons,       \* jobs that ppr announces before it has received them
  MaxQuestions,    \* MAX_ACTIVE_QUESTIONS
  MaxLaunches,     \* MAX_LAUNCHES_PER_TICK
  ResendDone,      \* until a question is asked again: 300 seconds,
  ResendFailed     \* or 60 seconds if it could not be asked

ASSUME QuestionsAssumption ==
  /\ Jobs # {} /\ HomeDest \in Dests
  /\ Skeletons \subseteq Jobs
  /\ MaxQuestions \in Nat \ {0} /\ MaxLaunches \in Nat \ {0}
  /\ ResendDone \in Nat /\ ResendFailed \in Nat

Slots == 1 .. MaxQuestions

\* The pid of a slot of active_question[]: 0, -1 or that of a process.
Pid == {"free", "failed", "running"}

Tables ==
  [queue       : Seq(Jobs),
   dest        : [Jobs -> Dests],
   receiving   : SUBSET Jobs,         \* STATUS_RECEIVING
   unanswered  : SUBSET Jobs,         \* JOB_FLAG_QUESTION_UNANSWERED
   asking      : SUBSET Jobs,         \* JOB_FLAG_QUESTION_ASKING_NOW
   wait        : [Jobs -> Nat],       \* until resend_message_at
   pid         : [Slots -> Pid],
   about       : [Slots -> Jobs \X Dests],
   active      : Nat,                 \* active_questions
   launches    : Nat,                 \* launches_this_tick
   outstanding : Nat,                 \* outstanding_questions
   early       : SUBSET Jobs,         \* observer: asked while STATUS_RECEIVING
   moved       : SUBSET Jobs,         \* observer: moved while it was asked
   fatal       : {"no", "no slot", "not asking"}]

\* What the fields of a free slot say does not matter.
Nothing == <<CHOOSE j \in Jobs : TRUE, HomeDest>>

\* question_init(), and an empty queue.
InitTables ==
  [queue       |-> << >>,
   dest        |-> [j \in Jobs |-> HomeDest],
   receiving   |-> {},
   unanswered  |-> {},
   asking      |-> {},
   wait        |-> [j \in Jobs |-> 0],
   pid         |-> [x \in Slots |-> "free"],
   about       |-> [x \in Slots |-> Nothing],
   active      |-> 0,
   launches    |-> 0,
   outstanding |-> 0,
   early       |-> {},
   moved       |-> {},
   fatal       |-> "no"]

Queued(q, j) == \E i \in DOMAIN q.queue : q.queue[i] = j

\* The slots whose process asks about j where it is now.
Askers(q, j) == {x \in Slots : q.pid[x] = "running"
                                 /\ q.about[x] = <<j, q.dest[j]>>}

---------------------------------------------------------------------------
\* question_launch().  If fork() fails the slot keeps the pid -1, with which
\* nothing will ever free it.
Launch(q, j, fail) ==
  LET free == {x \in Slots : q.pid[x] = "free"}
      x    == CHOOSE y \in free : \A z \in free : y <= z
  IN  IF free = {} THEN [q EXCEPT !.fatal = "no slot"]
      ELSE IF fail THEN [q EXCEPT !.pid[x] = "failed"]
      ELSE [q EXCEPT !.pid[x]    = "running",
                     !.about[x]  = <<j, q.dest[j]>>,
                     !.asking    = @ \cup {j},
                     !.active    = @ + 1,
                     !.launches  = @ + 1,
                     !.early     = IF j \in q.receiving THEN @ \cup {j} ELSE @]

\* Mutant: the questions seen are all there are, however far the scan got.
LookForWorkRecounts(q, fail) ==
  LET due(j) == j \in q.unanswered \ q.asking /\ q.wait[j] = 0
      first  == CHOOSE i \in DOMAIN q.queue :
                  due(q.queue[i]) /\ \A k \in 1 .. i - 1 : ~ due(q.queue[k])
      may    == q.active < MaxQuestions /\ q.launches < MaxLaunches
  IN  IF q.outstanding = 0 \/ ~ \E i \in DOMAIN q.queue : due(q.queue[i])
        THEN q
      ELSE IF may THEN [Launch(q, q.queue[first], fail) EXCEPT !.outstanding = 1]
      ELSE [q EXCEPT !.outstanding = 0]

\* question_look_for_work(): the queue is scanned until as many questions
\* have been seen as there may be, or no more can be asked now.  Only a scan
\* that gets to the end shows how many there are.
LookForWork(q, fail) ==
  LET more(s) == /\ s.q.fatal = "no"
                 /\ s.count < q.outstanding
                 /\ s.q.active < MaxQuestions
                 /\ s.q.launches < MaxLaunches
      see(s, j) ==
        [x     |-> s.x + 1,
         count |-> IF j \in q.unanswered THEN s.count + 1 ELSE s.count,
         q     |-> IF /\ j \in q.unanswered \ s.q.asking
                      /\ q.wait[j] = 0
                     THEN Launch(s.q, j, fail) ELSE s.q]
      scan[n \in 0 .. Len(q.queue)] ==
        IF n = 0 THEN [x |-> 0, count |-> 0, q |-> q]
        ELSE LET s == scan[n - 1]
             IN  IF s.x = n - 1 /\ more(s) THEN see(s, q.queue[n]) ELSE s
      end == scan[Len(q.queue)]
  IN  IF q.outstanding = 0 THEN q
      ELSE IF end.x = Len(q.queue)
        THEN [end.q EXCEPT !.outstanding = end.count]
      ELSE end.q

\* Mutant: a question is counted only if it could not be asked at once.
QuestionJobUncounted(q, j, fail) ==
  IF q.active < MaxQuestions THEN Launch(q, j, fail)
  ELSE [q EXCEPT !.outstanding = @ + 1]

\* question_job()
QuestionJob(q, j, fail) ==
  LET q1 == [q EXCEPT !.outstanding = @ + 1]
  IN  IF q1.active < MaxQuestions THEN Launch(q1, j, fail) ELSE q1

\* Mutant: the slot is freed only if the job is still there.
ChildHookLeaks(q, x, ok, fail) ==
  LET j     == q.about[x][1]
      found == Queued(q, j) /\ q.about[x][2] = q.dest[j]
      q1    == IF found
                 THEN [q EXCEPT !.wait[j] = IF ok THEN ResendDone
                                                  ELSE ResendFailed,
                                !.asking  = @ \ {j}]
                 ELSE q
  IN  LookForWork([q1 EXCEPT !.pid[x] = IF found THEN "free" ELSE @,
                             !.about[x] = Nothing, !.active = @ - 1], fail)

\* Mutant: ASKING_NOW is cleared only if the question could be asked.
ChildHookKeeps(q, x, ok, fail) ==
  LET j  == q.about[x][1]
      q1 == IF Queued(q, j) /\ q.about[x][2] = q.dest[j]
              THEN [q EXCEPT !.wait[j] = ResendDone,
                             !.asking  = IF ok THEN @ \ {j} ELSE @]
              ELSE q
  IN  LookForWork([q1 EXCEPT !.pid[x] = "free", !.about[x] = Nothing,
                             !.active = @ - 1], fail)

\* question_child_hook() for the process of slot x, which has exited with 0
\* or not.  It looks for the job where it was when the question was asked.
ChildHook(q, x, ok, fail) ==
  LET j     == q.about[x][1]
      found == Queued(q, j) /\ q.about[x][2] = q.dest[j]
      q1    == IF found
                 THEN [q EXCEPT !.wait[j] = IF ok THEN ResendDone
                                                  ELSE ResendFailed,
                                !.asking  = @ \ {j}]
                 ELSE q
  IN  IF found /\ j \notin q.asking THEN [q EXCEPT !.fatal = "not asking"]
      ELSE LookForWork([q1 EXCEPT !.pid[x]   = "free",
                                  !.about[x] = Nothing,
                                  !.active   = @ - 1], fail)

\* question_tick()
QuestionTick(q, fail) == LookForWork([q EXCEPT !.launches = 0], fail)

---------------------------------------------------------------------------
(* What the commands do, as far as the questions go *)

\* queue_new_job(): every job here has a question.
NewJob(q, j, fail) ==
  LET q1 == [q EXCEPT !.queue      = Append(@, j),
                      !.receiving  = IF j \in Skeletons THEN @ \cup {j} ELSE @,
                      !.unanswered = @ \cup {j}]
  IN  IF j \in Skeletons THEN q1 ELSE QuestionJob(q1, j, fail)

\* queue_reload_job(): the queue file of a skeleton has been written anew,
\* and so are its flags.  If there is no such job its files are deleted.
JobReceived(q, j, fail) ==
  IF ~ Queued(q, j) \/ q.dest[j] # HomeDest THEN q
  ELSE QuestionJob([q EXCEPT !.receiving  = @ \ {j},
                             !.unanswered = @ \cup {j},
                             !.asking     = @ \ {j},
                             !.wait[j]    = 0], j, fail)

\* queue_dequeue_job(): the process that may be asking is left alone.  What
\* the entry held is set back, for no one reads it again.
JobGone(q, j) ==
  LET i == CHOOSE n \in DOMAIN q.queue : q.queue[n] = j
  IN  [q EXCEPT !.queue      = SubSeq(@, 1, i - 1) \o SubSeq(@, i + 1, Len(@)),
                !.dest[j]    = HomeDest,
                !.receiving  = @ \ {j},
                !.unanswered = @ \ {j},
                !.asking     = @ \ {j},
                !.wait[j]    = 0,
                !.early      = @ \ {j},
                !.moved      = @ \ {j}]

\* ppop_move()
JobMoved(q, j, to) ==
  IF ~ Queued(q, j) THEN q
  ELSE [q EXCEPT !.dest[j] = to,
                 !.moved   = IF q.dest[j] # to /\ j \in q.asking
                               THEN @ \cup {j} ELSE @]

\* ppop_modify_question() and question_on_off().  ppop always says "on".
QuestionOn(q, j, fail) ==
  IF ~ Queued(q, j) THEN q
  ELSE LET q1 == [q EXCEPT !.wait[j] = 0, !.unanswered = @ \cup {j}]
       IN  IF j \in q.asking THEN q1 ELSE QuestionJob(q1, j, fail)

\* The clock has moved on.
Later(q) ==
  [q EXCEPT !.wait = [j \in Jobs |-> IF @[j] = 0 THEN 0 ELSE @[j] - 1]]
=============================================================================
