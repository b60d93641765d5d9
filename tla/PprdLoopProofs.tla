--------------------------- MODULE PprdLoopProofs ---------------------------
(***************************************************************************)
(* Proofs about the main loop of pprd and its questions to users, for any  *)
(* number of jobs and question slots, any tick and any bound on how late a *)
(* tick may be served: no death of a child is forgotten, a child that has  *)
(* died is reaped before a second tick that is on time, a user is asked by *)
(* one process, and a tick asks all that is due.                           *)
(***************************************************************************)
EXTENDS PprdLoop, FiniteSetTheorems, SequenceTheorems, TLAPS

USE DEF tables, signals, outside

---------------------------------------------------------------------------
(* Signals *)

\* Where pprd is when it may have a timeout that has expired, and the types
\* of what tells it.
Signals ==
  /\ at \in {"top", "unblocked", "selecting", "test", "reading", "reap",
             "down"}
  /\ ready \in {"none", "eintr", "fifo", "usock", "inet"}
  /\ caught \in BOOLEAN /\ zeroed \in BOOLEAN /\ pending \in BOOLEAN
  /\ term \in BOOLEAN /\ socket \in BOOLEAN
  /\ left \in Int /\ -MaxLate <= left /\ left <= TickInterval
  /\ fifo \in 0 .. MaxFifo
  /\ at # "test" => ready = "none"

\* A tick that comes without the flag being set is due.
Due ==
  /\ zeroed /\ at \in {"unblocked", "selecting"} => caught
  /\ at = "test" /\ ready = "none" => caught \/ left <= 0

\* How late pprd may be.  Between two ticks that find a child unreaped with
\* the signal still blocked, pprd goes straight from the one to the other,
\* for the second is overdue already; so the time by which it is behind is
\* at least that of the ticks since.
Overdue ==
  /\ late \in Nat
  /\ late > 0 => zombies # {} /\ (late - 1) * TickInterval <= MaxLate
  /\ late > 0 /\ at # "down" =>
       \/ caught \/ at = "reap"
       \/ /\ at \in {"top", "test"} /\ ready = "none"
          /\ late * TickInterval <= left + MaxLate

LoopInv == Signals /\ Due /\ DeathIsKnown /\ Overdue

\* What pprd and the world do to all that is not in the tables, one conjunct
\* of the invariant at a time.
LEMMA SignalsStep ==
  ASSUME Signals, Due, LNext
  PROVE  Signals'
<1> USE LoopAssumption DEF Signals
<1>1. CASE Top BY <1>1 DEF Top
<1>2. CASE Select BY <1>2 DEF Select, Readable
<1>3. CASE DoFifoCommand BY <1>3 DEF DoFifoCommand, Continue
<1>4. CASE DoSocketCommand BY <1>4 DEF DoSocketCommand
<1>5. CASE SocketCommandRead BY <1>5 DEF SocketCommandRead, Continue
<1>6. CASE ListenerHook BY <1>6 DEF ListenerHook
<1>7. CASE StartReap BY <1>7 DEF StartReap
<1>8. CASE \E c \in Slots : ReapChild(c) BY <1>8 DEF ReapChild
<1>9. CASE ReapDone BY <1>9 DEF ReapDone
<1>10. CASE Tick BY <1>10 DEF Tick, Continue, Due
<1>11. CASE Interrupted BY <1>11 DEF Interrupted
<1>12. CASE Elapse BY <1>12 DEF Elapse
<1>13. CASE \E c \in Slots : ChildDies(c) BY <1>13 DEF ChildDies, Interrupts
<1>14. CASE Terminate BY <1>14 DEF Terminate, Interrupts
<1>15. CASE Writes BY <1>15 DEF Writes
<1>16. CASE Connects BY <1>16 DEF Connects
<1>17. CASE CallFails BY <1>17 DEF CallFails
<1> QED BY <1>1, <1>2, <1>3, <1>4, <1>5, <1>6, <1>7, <1>8, <1>9, <1>10,
           <1>11, <1>12, <1>13, <1>14, <1>15, <1>16, <1>17 DEF LNext, Loop

\* A timeout of zero comes with the flag.
LEMMA DueStep ==
  ASSUME Signals, Due, LNext
  PROVE  Due'
<1> USE LoopAssumption DEF Signals, Due
<1>1. CASE Top BY <1>1 DEF Top
<1>2. CASE Select BY <1>2 DEF Select, Readable
<1>3. CASE DoFifoCommand BY <1>3 DEF DoFifoCommand, Continue
<1>4. CASE DoSocketCommand BY <1>4 DEF DoSocketCommand
<1>5. CASE SocketCommandRead BY <1>5 DEF SocketCommandRead, Continue
<1>6. CASE ListenerHook BY <1>6 DEF ListenerHook
<1>7. CASE StartReap BY <1>7 DEF StartReap
<1>8. CASE \E c \in Slots : ReapChild(c) BY <1>8 DEF ReapChild
<1>9. CASE ReapDone BY <1>9 DEF ReapDone
<1>10. CASE Tick BY <1>10 DEF Tick, Continue
<1>11. CASE Interrupted BY <1>11 DEF Interrupted
<1>12. CASE Elapse BY <1>12 DEF Elapse
<1>13. CASE \E c \in Slots : ChildDies(c) BY <1>13 DEF ChildDies, Interrupts
<1>14. CASE Terminate BY <1>14 DEF Terminate, Interrupts
<1>15. CASE Writes BY <1>15 DEF Writes
<1>16. CASE Connects BY <1>16 DEF Connects
<1>17. CASE CallFails BY <1>17 DEF CallFails
<1> QED BY <1>1, <1>2, <1>3, <1>4, <1>5, <1>6, <1>7, <1>8, <1>9, <1>10,
           <1>11, <1>12, <1>13, <1>14, <1>15, <1>16, <1>17 DEF LNext, Loop

\* The flag is cleared only by StartReap, the signal taken only by Top, and
\* ReapDone comes only when there is nothing left to reap.
LEMMA DeathStep ==
  ASSUME Signals, DeathIsKnown, LNext
  PROVE  DeathIsKnown'
<1> USE DEF Signals, DeathIsKnown
<1>1. CASE Top BY <1>1 DEF Top
<1>2. CASE Select BY <1>2 DEF Select, Readable
<1>3. CASE DoFifoCommand BY <1>3 DEF DoFifoCommand, Continue
<1>4. CASE DoSocketCommand BY <1>4 DEF DoSocketCommand
<1>5. CASE SocketCommandRead BY <1>5 DEF SocketCommandRead, Continue
<1>6. CASE ListenerHook BY <1>6 DEF ListenerHook
<1>7. CASE StartReap BY <1>7 DEF StartReap
<1>8. CASE \E c \in Slots : ReapChild(c) BY <1>8 DEF ReapChild
<1>9. CASE ReapDone BY <1>9 DEF ReapDone
<1>10. CASE Tick BY <1>10 DEF Tick, Continue
<1>11. CASE Interrupted BY <1>11 DEF Interrupted
<1>12. CASE Elapse BY <1>12 DEF Elapse
<1>13. CASE \E c \in Slots : ChildDies(c) BY <1>13 DEF ChildDies, Interrupts
<1>14. CASE Terminate BY <1>14 DEF Terminate, Interrupts
<1>15. CASE Writes BY <1>15 DEF Writes
<1>16. CASE Connects BY <1>16 DEF Connects
<1>17. CASE CallFails BY <1>17 DEF CallFails
<1> QED BY <1>1, <1>2, <1>3, <1>4, <1>5, <1>6, <1>7, <1>8, <1>9, <1>10,
           <1>11, <1>12, <1>13, <1>14, <1>15, <1>16, <1>17 DEF LNext, Loop

\* Arithmetic of the ticks.
LEMMA TicksAdd ==
  ASSUME NEW n \in Nat
  PROVE  /\ n * TickInterval \in Nat
         /\ (n + 1) * TickInterval = n * TickInterval + TickInterval
         /\ (n + 1 - 1) * TickInterval = n * TickInterval
BY LoopAssumption

\* What is at most so many ticks late is that many ticks late.
LEMMA TicksDivide ==
  ASSUME NEW n \in Nat, n * TickInterval <= MaxLate
  PROVE  n <= MaxLate \div TickInterval
<1> DEFINE d == MaxLate \div TickInterval
           r == MaxLate % TickInterval
<1>1. /\ d \in Int /\ r \in 0 .. TickInterval - 1
      /\ MaxLate = TickInterval * d + r
  BY LoopAssumption
<1> HIDE DEF d, r
<1>2. CASE n > d
  <2>1. PICK k \in Nat : n = d + 1 + k
    <3>1. n - d - 1 \in Nat /\ n = d + 1 + (n - d - 1) BY <1>1, <1>2
    <3> QED BY <3>1
  <2>2. n * TickInterval = d * TickInterval + TickInterval + k * TickInterval
    BY <1>1, <2>1, LoopAssumption
  <2>3. k * TickInterval >= 0 BY LoopAssumption
  <2>4. d * TickInterval \in Int /\ TickInterval * d = d * TickInterval
    BY <1>1, LoopAssumption
  <2> QED BY <1>1, <2>2, <2>3, <2>4, LoopAssumption
<1> QED BY <1>1, <1>2 DEF d

\* Two ticks in a row find a child unreaped only if the second is overdue.
LEMMA OverdueStep ==
  ASSUME Signals, Due, DeathIsKnown, Overdue, LNext
  PROVE  Overdue'
<1> USE LoopAssumption DEF Signals, Due, DeathIsKnown, Overdue
<1>1. CASE Top BY <1>1 DEF Top
<1>2. CASE Select BY <1>2 DEF Select, Readable
<1>3. CASE DoFifoCommand BY <1>3 DEF DoFifoCommand, Continue
<1>4. CASE DoSocketCommand BY <1>4 DEF DoSocketCommand
<1>5. CASE SocketCommandRead BY <1>5 DEF SocketCommandRead, Continue
<1>6. CASE ListenerHook BY <1>6 DEF ListenerHook
<1>7. CASE StartReap BY <1>7 DEF StartReap
<1>8. CASE \E c \in Slots : ReapChild(c) BY <1>8 DEF ReapChild
<1>9. CASE ReapDone BY <1>9 DEF ReapDone
<1>10. CASE Tick BY <1>10 DEF Tick, Continue
<1>11. CASE Interrupted BY <1>11 DEF Interrupted
<1>12. CASE Elapse BY <1>12 DEF Elapse
<1>13. CASE \E c \in Slots : ChildDies(c) BY <1>13 DEF ChildDies, Interrupts
<1>14. CASE Terminate BY <1>14 DEF Terminate, Interrupts
<1>15. CASE Writes BY <1>15 DEF Writes
<1>16. CASE Connects BY <1>16 DEF Connects
<1>17. CASE CallFails BY <1>17 DEF CallFails
<1> QED BY <1>1, <1>2, <1>3, <1>4, <1>5, <1>6, <1>7, <1>8, <1>9, <1>10,
           <1>11, <1>12, <1>13, <1>14, <1>15, <1>16, <1>17 DEF LNext, Loop

\* The loop keeps its invariant.
LEMMA LoopKeepsInv == LSpec => []LoopInv
<1>1. LInit => LoopInv
  <2> SUFFICES ASSUME LInit PROVE LoopInv OBVIOUS
  <2>1. Signals
    <3>1. 0 \in 0 .. MaxFifo BY LoopAssumption
    <3>2. -MaxLate <= left /\ left <= TickInterval /\ left \in Int
      BY LoopAssumption DEF LInit
    <3>3. /\ caught \in BOOLEAN /\ zeroed \in BOOLEAN /\ pending \in BOOLEAN
          /\ term \in BOOLEAN /\ socket \in BOOLEAN
      BY DEF LInit
    <3>4. at = "top" /\ ready = "none" /\ fifo = 0 BY DEF LInit
    <3> QED BY <3>1, <3>2, <3>3, <3>4 DEF Signals
  <2>2. Due /\ DeathIsKnown BY DEF LInit, Due, DeathIsKnown
  <2>3. Overdue BY DEF LInit, Overdue
  <2> QED BY <2>1, <2>2, <2>3 DEF LoopInv
<1>2. LoopInv /\ [LNext]_vars => LoopInv'
  <2> SUFFICES ASSUME LoopInv, [LNext]_vars PROVE LoopInv' OBVIOUS
  <2>1. CASE LNext
    BY <2>1, SignalsStep, DueStep, DeathStep, OverdueStep DEF LoopInv
  <2>2. CASE UNCHANGED vars
    BY <2>2 DEF LoopInv, Signals, Due, DeathIsKnown, Overdue, vars
  <2> QED BY <2>1, <2>2
<1> QED BY <1>1, <1>2, PTL DEF LSpec

\* A death is never forgotten: with SIGCHLD blocked but around select(), and
\* a handler that only sets a flag, pprd reaps every child it has, whatever
\* falls between the test of the flag and select().
THEOREM DeathsAreKnown == LSpec => []DeathIsKnown
<1>1. LoopInv => DeathIsKnown BY DEF LoopInv
<1> QED BY <1>1, LoopKeepsInv, PTL

\* At most one tick passes with a child unreaped, and those that were overdue
\* when it died, for every tick interval and however late pprd may be.
THEOREM DeathsAreReaped == LSpec => []ReapedInTime
<1>1. LoopInv => ReapedInTime
  <2> SUFFICES ASSUME LoopInv PROVE ReapedInTime OBVIOUS
  <2>1. late \in Nat BY DEF LoopInv, Overdue
  <2>2. CASE late = 0
    <3>1. 0 * TickInterval <= MaxLate BY LoopAssumption
    <3>2. 0 <= MaxLate \div TickInterval BY <3>1, TicksDivide
    <3>3. MaxLate \div TickInterval \in Int BY LoopAssumption
    <3> QED BY <2>2, <3>2, <3>3 DEF ReapedInTime
  <2>3. CASE late > 0
    <3>1. late - 1 \in Nat /\ (late - 1) * TickInterval <= MaxLate
      BY <2>1, <2>3 DEF LoopInv, Overdue
    <3>2. late - 1 <= MaxLate \div TickInterval BY <3>1, TicksDivide
    <3>3. MaxLate \div TickInterval \in Int BY LoopAssumption
    <3> QED BY <2>1, <3>2, <3>3 DEF ReapedInTime
  <2> QED BY <2>1, <2>2, <2>3
<1> QED BY <1>1, LoopKeepsInv, PTL

---------------------------------------------------------------------------
(* Induction *)

\* The natural numbers are the least set with 0 and the successors of its
\* members.  If k were missing, n |-> n - 1 would map the numbers up to k
\* that are missing into those that are less than k, one to one: there is one
\* less of them.
LEMMA Induction ==
  ASSUME NEW S, 0 \in S, \A n \in Nat : n \in S => n + 1 \in S
  PROVE  Nat \subseteq S
<1> SUFFICES ASSUME NEW k \in Nat, k \notin S PROVE FALSE OBVIOUS
<1> DEFINE D == {n \in 0 .. k : n \notin S}
           T == D \ {k}
           f == [n \in D |-> n - 1]
<1>1. IsFiniteSet(D)
  <2>1. IsFiniteSet(0 .. k) BY FS_Interval
  <2>2. D \in SUBSET (0 .. k) OBVIOUS
  <2> HIDE DEF D
  <2> QED BY <2>1, <2>2, FS_Subset
<1>2. k \in D OBVIOUS
<1>3. \A n \in D : n \in Nat /\ n - 1 \in T
  <2> TAKE n \in D
  <2>1. n \in Nat /\ n <= k /\ n \notin S /\ n # 0 OBVIOUS
  <2>2. n - 1 \in Nat /\ (n - 1) + 1 = n BY <2>1
  <2>3. n - 1 \notin S BY <2>1, <2>2
  <2> QED BY <2>1, <2>2, <2>3
<1>4. f \in [D -> T] BY <1>3
<1>5. \A x, y \in D : x # y => f[x] # f[y] BY <1>3
<1> HIDE DEF D, f
<1>6. IsFiniteSet(T) /\ Cardinality(T) = Cardinality(D) - 1
  BY <1>1, <1>2, FS_RemoveElement
<1>7. Cardinality(T) < Cardinality(D)
  BY <1>1, <1>6, FS_CardinalityType
<1> HIDE DEF T
<1>8. \E x, y \in D : x # y /\ f[x] = f[y]
  BY <1>1, <1>4, <1>6, <1>7, FS_PigeonHole
<1> QED BY <1>5, <1>8

---------------------------------------------------------------------------
(* The tables of the questions *)

\* The slots whose process is running, and those of them that ask about j,
\* wherever it was when the question was asked.
Running(t) == {x \in Slots : t.pid[x] = "running"}
About(t, j) == {x \in Running(t) : t.about[x][1] = j}

\* Nothing is in the queue twice, every job in it has a question, and what
\* the flags say is said of jobs in it.
Rows(t) ==
  /\ \A a, b \in DOMAIN t.queue : t.queue[a] = t.queue[b] => a = b
  /\ t.unanswered = {j \in Jobs : Queued(t, j)}
  /\ t.asking \subseteq t.unanswered /\ t.receiving \subseteq t.unanswered
  /\ t.early \subseteq t.unanswered /\ t.moved \subseteq t.unanswered

\* A job that was not asked about too early is asked about by one process at
\* most, and by none if ASKING_NOW is not set or it is still being received;
\* and if ASKING_NOW is set, by one that will find it, unless it was moved.
AskedOf(t, j) ==
  /\ j \notin t.asking \/ j \in t.receiving => About(t, j) = {}
  /\ \A x, y \in About(t, j) : x = y
  /\ j \in t.asking \ t.moved =>
       \E x \in About(t, j) : t.about[x] = <<j, t.dest[j]>>
AskedOnce(t) == \A j \in t.unanswered \ t.early : AskedOf(t, j)

\* active_questions is the number of processes, and the assertions fail only
\* after one of the known defects.
Counted(t) == t.active = Cardinality(Running(t))
Deaths(t) ==
  /\ t.fatal = "no slot" => \E x \in Slots : t.pid[x] = "failed"
  /\ t.fatal = "not asking" => t.early # {}

\* outstanding_questions covers what has been announced.
CoversAll(t) == Cardinality(t.unanswered \ t.receiving) <= t.outstanding

Good(t) == /\ t \in Tables /\ Rows(t) /\ AskedOnce(t)
           /\ Counted(t) /\ Deaths(t) /\ CoversAll(t)

\* What asking leaves as it is: the queue, what is known of its jobs and of
\* the questions, and the slots that are not free.
Kept(t, r) ==
  /\ r.queue = t.queue /\ r.dest = t.dest /\ r.wait = t.wait
  /\ r.receiving = t.receiving /\ r.unanswered = t.unanswered
  /\ r.moved = t.moved
RunsOn(t, r) == \A x \in Slots : t.pid[x] # "free" => r.pid[x] = t.pid[x]

\* The three things question_launch() may do, for slot x.
NoSlot(t, r) ==
  /\ {x \in Slots : t.pid[x] = "free"} = {}
  /\ r.pid = t.pid /\ r.about = t.about /\ r.asking = t.asking
  /\ r.active = t.active /\ r.launches = t.launches /\ r.early = t.early
  /\ r.fatal = "no slot"
NoFork(t, r, x) ==
  /\ r.pid = [t.pid EXCEPT ![x] = "failed"]
  /\ r.about = t.about /\ r.asking = t.asking
  /\ r.active = t.active /\ r.launches = t.launches /\ r.early = t.early
  /\ r.fatal = t.fatal
Asks(t, r, x, j) ==
  /\ r.pid = [t.pid EXCEPT ![x] = "running"]
  /\ r.about = [t.about EXCEPT ![x] = <<j, t.dest[j]>>]
  /\ r.asking = t.asking \cup {j}
  /\ r.active = t.active + 1 /\ r.launches = t.launches + 1
  /\ r.early = t.early \cup ({j} \cap t.receiving)
  /\ r.fatal = t.fatal
Launched(t, r, j) ==
  \/ NoSlot(t, r)
  \/ \E x \in Slots : /\ t.pid[x] = "free"
                      /\ NoFork(t, r, x) \/ Asks(t, r, x, j)

\* A nonempty set of slots has a first one.
LEMMA FirstSlot ==
  ASSUME NEW F \in SUBSET Slots, F # {}
  PROVE  \E y \in F : \A z \in F : y <= z
<1> SUFFICES ASSUME \A y \in F : \E z \in F : z < y PROVE FALSE
  BY DEF Slots
<1> DEFINE S == {n \in Nat : \A m \in F : n < m}
<1>1. 0 \in S BY QuestionsAssumption DEF Slots
<1>2. \A n \in Nat : n \in S => n + 1 \in S
  <2> TAKE n \in Nat
  <2> HAVE n \in S
  <2>1. \A m \in F : n < m /\ m \in Nat BY DEF Slots
  <2>2. ASSUME NEW m \in F, ~ (n + 1 < m) PROVE FALSE
    <3>1. m = n + 1 BY <2>1, <2>2
    <3>2. PICK z \in F : z < m OBVIOUS
    <3> QED BY <2>1, <3>1, <3>2
  <2> QED BY <2>2
<1> HIDE DEF S
<1>3. Nat \subseteq S BY <1>1, <1>2, Induction
<1>4. PICK m \in F : TRUE OBVIOUS
<1>5. m \in Nat BY DEF Slots
<1>6. m \in S BY <1>3, <1>5
<1> QED BY <1>5, <1>6 DEF S

\* question_launch() does one of the three.
LEMMA LaunchIs ==
  ASSUME NEW t \in Tables, NEW j \in Jobs, NEW fail
  PROVE  LET r == Launch(t, j, fail)
         IN  /\ r \in Tables /\ Kept(t, r) /\ r.outstanding = t.outstanding
             /\ Launched(t, r, j)
<1> DEFINE free == {y \in Slots : t.pid[y] = "free"}
           x == CHOOSE y \in free : \A z \in free : y <= z
           r == Launch(t, j, fail)
<1>1. CASE free = {}
  <2>1. r = [t EXCEPT !.fatal = "no slot"] BY <1>1 DEF Launch
  <2>2. r \in Tables BY <2>1 DEF Tables
  <2>3. Kept(t, r) /\ r.outstanding = t.outstanding BY <2>1 DEF Kept, Tables
  <2>4. NoSlot(t, r) BY <1>1, <2>1 DEF NoSlot, Tables
  <2> QED BY <2>2, <2>3, <2>4 DEF Launched
<1>2. CASE free # {}
  <2>1. x \in free BY <1>2, FirstSlot
  <2> HIDE DEF x
  <2>2. x \in Slots /\ t.pid[x] = "free" BY <2>1
  <2>3. CASE fail
    <3>1. r = [t EXCEPT !.pid[x] = "failed"] BY <1>2, <2>3 DEF Launch, x
    <3> HIDE DEF r
    <3>2. r \in Tables BY <2>2, <3>1 DEF Tables, Pid
    <3>3. Kept(t, r) /\ r.outstanding = t.outstanding BY <3>1 DEF Kept, Tables
    <3>4. NoFork(t, r, x) BY <2>2, <3>1 DEF NoFork, Tables
    <3> QED BY <2>2, <3>2, <3>3, <3>4 DEF Launched, r
  <2>4. CASE ~ fail
    <3>1. r = [t EXCEPT !.pid[x]    = "running",
                     !.about[x]  = <<j, t.dest[j]>>,
                     !.asking    = @ \cup {j},
                     !.active    = @ + 1,
                     !.launches  = @ + 1,
                     !.early     = IF j \in t.receiving THEN @ \cup {j} ELSE @]
      BY <1>2, <2>4 DEF Launch, x
    <3> DEFINE pid1 == [t.pid EXCEPT ![x] = "running"]
               about1 == [t.about EXCEPT ![x] = <<j, t.dest[j]>>]
               early1 == IF j \in t.receiving THEN t.early \cup {j} ELSE t.early
    <3>a. /\ pid1 \in [Slots -> Pid] /\ about1 \in [Slots -> Jobs \X Dests]
          /\ t.asking \cup {j} \in SUBSET Jobs /\ early1 \in SUBSET Jobs
          /\ t.active + 1 \in Nat /\ t.launches + 1 \in Nat
      <4>1. /\ t.pid \in [Slots -> Pid] /\ t.about \in [Slots -> Jobs \X Dests]
            /\ t.dest \in [Jobs -> Dests] /\ t.asking \subseteq Jobs
            /\ t.early \subseteq Jobs /\ t.active \in Nat
            /\ t.launches \in Nat
        BY DEF Tables
      <4>2. <<j, t.dest[j]>> \in Jobs \X Dests BY <4>1
      <4>3. pid1 \in [Slots -> Pid] BY <4>1 DEF Pid
      <4>4. about1 \in [Slots -> Jobs \X Dests] BY <4>1, <4>2
      <4> QED BY <4>1, <4>3, <4>4
    <3>b. r = [t EXCEPT !.pid = pid1, !.about = about1,
                        !.asking = t.asking \cup {j}, !.active = t.active + 1,
                        !.launches = t.launches + 1, !.early = early1]
      BY <3>1 DEF Tables
    <3> HIDE DEF r, pid1, about1, early1
    <3>2. r \in Tables BY <3>a, <3>b DEF Tables
    <3>3. Kept(t, r) /\ r.outstanding = t.outstanding BY <3>1 DEF Kept, Tables
    <3>4. Asks(t, r, x, j) BY <2>2, <3>1 DEF Asks, Tables
    <3> QED BY <2>2, <3>2, <3>3, <3>4 DEF Launched, r
  <2> QED BY <2>3, <2>4
<1> QED BY <1>1, <1>2

\* There are MAX_ACTIVE_QUESTIONS slots.
LEMMA AllSlots == IsFiniteSet(Slots) /\ Cardinality(Slots) = MaxQuestions
<1>1. MaxQuestions \in Int /\ 1 \in Int /\ ~ (1 > MaxQuestions)
  BY QuestionsAssumption
<1>2. MaxQuestions - 1 + 1 = MaxQuestions BY <1>1
<1> QED BY <1>1, <1>2, FS_Interval DEF Slots

\* The running processes can be counted; if there are as many as slots they
\* are in all of them.
LEMMA SlotsFinite ==
  ASSUME NEW t
  PROVE  /\ IsFiniteSet(Running(t)) /\ Cardinality(Running(t)) \in Nat
         /\ Cardinality(Running(t)) <= MaxQuestions
         /\ Cardinality(Running(t)) = MaxQuestions => Running(t) = Slots
<1>1. Running(t) \in SUBSET Slots BY DEF Running
<1> QED BY <1>1, AllSlots, FS_Subset, FS_CardinalityType

\* The queue and its flags are in order as long as only queued jobs are asked
\* about.
LEMMA RowsKept ==
  ASSUME NEW t, NEW r, Rows(t), Kept(t, r), r.asking \subseteq t.unanswered,
         r.early \subseteq t.unanswered
  PROVE  Rows(r)
BY DEF Rows, Kept, Queued

\* The invariant of the askers is about nothing but these fields.
LEMMA AskedKept ==
  ASSUME NEW t, NEW r, AskedOnce(t), r.unanswered = t.unanswered,
         r.early = t.early, r.asking = t.asking, r.receiving = t.receiving,
         r.moved = t.moved, r.dest = t.dest, r.pid = t.pid, r.about = t.about
  PROVE  AskedOnce(r)
<1>1. \A j : About(r, j) = About(t, j) BY DEF About, Running
<1>2. ASSUME NEW j, AskedOf(t, j) PROVE AskedOf(r, j)
  BY <1>1, <1>2 DEF AskedOf
<1> QED BY <1>2 DEF AskedOnce

\* What of the tables the launch of a question about j keeps.
LEMMA LaunchKeeps ==
  ASSUME NEW t \in Tables, Rows(t), AskedOnce(t), Counted(t), Deaths(t),
         NEW j \in t.unanswered \ t.asking, t.active < MaxQuestions,
         NEW r \in Tables, Kept(t, r), Launched(t, r, j)
  PROVE  Rows(r) /\ AskedOnce(r) /\ Counted(r) /\ Deaths(r) /\ RunsOn(t, r)
<1>0. j \in Jobs BY DEF Tables
<1>p. /\ t.pid \in [Slots -> Pid] /\ t.about \in [Slots -> Jobs \X Dests]
      /\ t.dest \in [Jobs -> Dests]
  BY DEF Tables
<1>1. CASE NoSlot(t, r)
  <2>1. Rows(r) BY <1>1, RowsKept DEF NoSlot, Rows
  <2>2. /\ Running(r) = Running(t)
        /\ \A i : About(r, i) = About(t, i)
    BY <1>1 DEF NoSlot, Running, About
  <2>3. AskedOnce(r)
    BY <1>1, AskedKept DEF NoSlot, Kept
  <2>4. Counted(r) BY <1>1, <2>2 DEF NoSlot, Counted
  <2>5. \E x \in Slots : t.pid[x] = "failed"
    <3> SUFFICES ASSUME \A x \in Slots : t.pid[x] # "failed" PROVE FALSE
      OBVIOUS
    <3>1. \A x \in Slots : t.pid[x] = "running"
      BY <1>1, <1>p DEF NoSlot, Pid
    <3>2. Running(t) = Slots BY <3>1 DEF Running
    <3> QED BY <3>2, AllSlots, QuestionsAssumption DEF Counted
  <2>6. Deaths(r) BY <1>1, <2>5 DEF NoSlot, Deaths
  <2>7. RunsOn(t, r) BY <1>1 DEF NoSlot, RunsOn
  <2> QED BY <2>1, <2>3, <2>4, <2>6, <2>7
<1>2. ASSUME NEW x \in Slots, t.pid[x] = "free", NoFork(t, r, x)
      PROVE  Rows(r) /\ AskedOnce(r) /\ Counted(r) /\ Deaths(r) /\ RunsOn(t, r)
  <2>1. Rows(r) BY <1>2, RowsKept DEF NoFork, Rows
  <2>2. Running(r) = Running(t) BY <1>2, <1>p DEF NoFork, Running
  <2>3. \A i : About(r, i) = About(t, i) BY <1>2, <2>2 DEF NoFork, About
  <2>4. AskedOnce(r)
    BY <1>2, <2>3 DEF NoFork, Kept, AskedOnce, AskedOf
  <2>5. Counted(r) BY <1>2, <2>2 DEF NoFork, Counted
  <2>6. Deaths(r) BY <1>2, <1>p DEF NoFork, Deaths
  <2>7. RunsOn(t, r) BY <1>2, <1>p DEF NoFork, RunsOn
  <2> QED BY <2>1, <2>4, <2>5, <2>6, <2>7
<1>3. ASSUME NEW x \in Slots, t.pid[x] = "free", Asks(t, r, x, j)
      PROVE  Rows(r) /\ AskedOnce(r) /\ Counted(r) /\ Deaths(r) /\ RunsOn(t, r)
  <2>1. Rows(r) BY <1>3, RowsKept DEF Asks, Rows
  <2>2. x \notin Running(t) /\ Running(r) = Running(t) \cup {x}
    BY <1>3, <1>p DEF Asks, Running
  <2>3. /\ r.about[x] = <<j, t.dest[j]>>
        /\ \A y \in Running(t) : r.about[y] = t.about[y]
    BY <1>3, <1>p, <2>2 DEF Asks, Running
  <2>4. AskedOnce(r)
    <3> SUFFICES ASSUME NEW i \in r.unanswered \ r.early PROVE AskedOf(r, i)
      BY DEF AskedOnce
    <3>1. i \in t.unanswered \ t.early /\ AskedOf(t, i)
      BY <1>3 DEF Asks, Kept, AskedOnce
    <3>2. CASE i # j
      <4>1. About(r, i) = About(t, i) BY <2>2, <2>3, <3>2 DEF About
      <4>2. /\ i \in r.asking <=> i \in t.asking
            /\ r.receiving = t.receiving /\ r.moved = t.moved /\ r.dest = t.dest
        BY <1>3, <3>2 DEF Asks, Kept
      <4>3. \A y \in About(t, i) : r.about[y] = t.about[y]
        BY <2>3 DEF About
      <4> QED BY <3>1, <4>1, <4>2, <4>3 DEF AskedOf
    <3>3. CASE i = j
      <4>1. j \notin t.receiving BY <1>3, <3>3 DEF Asks
      <4>2. About(t, j) = {} BY <3>1, <3>3 DEF AskedOf
      <4>3. About(r, j) = {x} BY <2>2, <2>3, <4>2 DEF About
      <4>4. j \in r.asking /\ j \notin r.receiving /\ r.dest = t.dest
        BY <1>3, <4>1 DEF Asks, Kept
      <4> QED BY <2>3, <3>3, <4>3, <4>4 DEF AskedOf
    <3> QED BY <3>2, <3>3
  <2>5. Counted(r)
    <3>1. Cardinality(Running(r)) = Cardinality(Running(t)) + 1
      BY <2>2, SlotsFinite, FS_AddElement
    <3> QED BY <1>3, <3>1 DEF Asks, Counted
  <2>6. Deaths(r)
    BY <1>3, <1>p DEF Asks, Deaths
  <2>7. RunsOn(t, r) BY <1>3, <1>p DEF Asks, RunsOn
  <2> QED BY <2>1, <2>4, <2>5, <2>6, <2>7
<1> QED BY <1>1, <1>2, <1>3 DEF Launched

---------------------------------------------------------------------------
(* The scan of the queue *)

\* The steps of question_look_for_work(), of which LookForWork() has the
\* last: what is known when the scan has come to place n of the queue.
MayGoOn(t, s) ==
  /\ s.q.fatal = "no" /\ s.count < t.outstanding
  /\ s.q.active < MaxQuestions /\ s.q.launches < MaxLaunches
Seen(t, s, j, fail) ==
  [x     |-> s.x + 1,
   count |-> IF j \in t.unanswered THEN s.count + 1 ELSE s.count,
   q     |-> IF /\ j \in t.unanswered \ s.q.asking
                /\ t.wait[j] = 0
               THEN Launch(s.q, j, fail) ELSE s.q]
ScanStep(t, s, n, fail) ==
  IF s.x = n - 1 /\ MayGoOn(t, s) THEN Seen(t, s, t.queue[n], fail) ELSE s
ScanTo(t, fail, m, f) ==
  f = [n \in 0 .. m |-> IF n = 0 THEN [x |-> 0, count |-> 0, q |-> t]
                        ELSE ScanStep(t, f[n - 1], n, fail)]

\* The recursion is well defined.
LEMMA ScanExists ==
  ASSUME NEW t, NEW fail
  PROVE  \A m \in Nat : \E f : ScanTo(t, fail, m, f)
<1> DEFINE S == {m \in Nat : \E f : ScanTo(t, fail, m, f)}
           start == [x |-> 0, count |-> 0, q |-> t]
           next(s, n) == ScanStep(t, s, n, fail)
<1>1. 0 \in S
  <2> DEFINE f == [n \in 0 .. 0 |-> IF n = 0 THEN start ELSE start]
  <2>1. f = [n \in 0 .. 0 |-> IF n = 0 THEN start ELSE next(f[n - 1], n)]
    <3>1. \A n \in 0 .. 0 : n = 0 OBVIOUS
    <3> HIDE DEF start, next
    <3> QED BY <3>1
  <2>2. ScanTo(t, fail, 0, f) BY <2>1 DEF ScanTo
  <2> QED BY <2>2
<1>2. \A m \in Nat : m \in S => m + 1 \in S
  <2> TAKE m \in Nat
  <2> HAVE m \in S
  <2>1. PICK f : ScanTo(t, fail, m, f) OBVIOUS
  <2> DEFINE g == [n \in 0 .. m + 1 |-> IF n = 0 THEN start
                                        ELSE next(f[n - 1], n)]
  <2> HIDE DEF start, next
  <2>2. f = [n \in 0 .. m |-> IF n = 0 THEN start ELSE next(f[n - 1], n)]
    BY <2>1 DEF ScanTo, start, next
  <2>3. \A n \in 0 .. m : g[n] = f[n] BY <2>2
  <2>4. \A n \in 0 .. m + 1 : n # 0 => n - 1 \in 0 .. m OBVIOUS
  <2>5. \A n \in 0 .. m + 1 : n # 0 => g[n - 1] = f[n - 1] BY <2>3, <2>4
  <2>6. g = [n \in 0 .. m + 1 |-> IF n = 0 THEN start
                                   ELSE next(g[n - 1], n)]
    BY <2>5
  <2> HIDE DEF g
  <2>7. ScanTo(t, fail, m + 1, g) BY <2>6 DEF ScanTo, start, next
  <2> QED BY <2>7
<1> HIDE DEF S
<1>3. Nat \subseteq S BY <1>1, <1>2, Induction
<1> QED BY <1>3 DEF S

\* LookForWork() is what the scan comes to.
LEMMA LookForWorkIs ==
  ASSUME NEW t, NEW fail, Len(t.queue) \in Nat
  PROVE  \E f : /\ ScanTo(t, fail, Len(t.queue), f)
                /\ LookForWork(t, fail) =
                     LET end == f[Len(t.queue)]
                     IN  IF t.outstanding = 0 THEN t
                         ELSE IF end.x = Len(t.queue)
                           THEN [end.q EXCEPT !.outstanding = end.count]
                         ELSE end.q
<1> DEFINE f == CHOOSE g : ScanTo(t, fail, Len(t.queue), g)
<1>1. ScanTo(t, fail, Len(t.queue), f) BY ScanExists
<1>2. LookForWork(t, fail) =
        LET end == f[Len(t.queue)]
        IN  IF t.outstanding = 0 THEN t
            ELSE IF end.x = Len(t.queue)
              THEN [end.q EXCEPT !.outstanding = end.count]
            ELSE end.q
  BY DEF LookForWork, ScanTo, ScanStep, MayGoOn, Seen
<1> HIDE DEF f
<1> QED BY <1>1, <1>2

\* The invariant of the tables but for outstanding_questions, which the scan
\* recounts.
Sound(t) == /\ t \in Tables /\ Rows(t) /\ AskedOnce(t)
            /\ Counted(t) /\ Deaths(t)

\* A fork() has failed since.
Failure(t, r) == \E x \in Slots : r.pid[x] = "failed" /\ t.pid[x] # "failed"

\* Job j has been asked about, or its time has not come, or it could not be
\* asked about.
SeenTo(t, r, j) ==
  j \in r.asking \/ t.wait[j] > 0 \/ r.fatal # "no" \/ Failure(t, r)

\* What holds when the scan has come to place n.
Scanned(t, s, n) ==
  /\ s.x \in 0 .. n /\ s.count = s.x
  /\ s.x < n => ~ MayGoOn(t, s)
  /\ Sound(s.q) /\ Kept(t, s.q) /\ RunsOn(t, s.q)
  /\ s.q.outstanding = t.outstanding
  /\ \A k \in 1 .. s.x : SeenTo(t, s.q, t.queue[k])

\* One step of the scan.
LEMMA ScanStepKeeps ==
  ASSUME NEW t, Sound(t), NEW fail, NEW n \in 1 .. Len(t.queue), NEW s,
         Scanned(t, s, n - 1)
  PROVE  Scanned(t, ScanStep(t, s, n, fail), n)
<1>t. /\ t.queue \in Seq(Jobs) /\ t.wait \in [Jobs -> Nat]
      /\ t.pid \in [Slots -> Pid]
  BY DEF Sound, Tables
<1>l. Len(t.queue) \in Nat /\ n \in DOMAIN t.queue /\ n \in Nat /\ n # 0
  BY <1>t
<1> DEFINE j == t.queue[n]
<1>j. j \in Jobs /\ j \in t.unanswered
  BY <1>t, <1>l DEF Sound, Rows, Queued
<1>x. s.x \in 0 .. n - 1 /\ s.count = s.x BY DEF Scanned
<1>1. CASE ~ (s.x = n - 1 /\ MayGoOn(t, s))
  <2>1. ScanStep(t, s, n, fail) = s BY <1>1 DEF ScanStep
  <2>2. s.x \in 0 .. n BY <1>x, <1>l
  <2>3. s.x < n => ~ MayGoOn(t, s)
    <3>1. s.x = n - 1 \/ s.x < n - 1 BY <1>x, <1>l
    <3> QED BY <1>1, <3>1 DEF Scanned
  <2> QED BY <2>1, <2>2, <2>3 DEF Scanned
<1>2. CASE s.x = n - 1 /\ MayGoOn(t, s)
  <2> DEFINE r == IF j \in t.unanswered \ s.q.asking /\ t.wait[j] = 0
                    THEN Launch(s.q, j, fail) ELSE s.q
             s1 == [x |-> n, count |-> n, q |-> r]
  <2>1. ScanStep(t, s, n, fail) = s1
    <3>1. s.x + 1 = n /\ s.count + 1 = n BY <1>2, <1>x, <1>l
    <3>2. ScanStep(t, s, n, fail) = Seen(t, s, j, fail) BY <1>2 DEF ScanStep
    <3>3. Seen(t, s, j, fail) = [x |-> s.x + 1, count |-> s.count + 1, q |-> r]
      BY <1>j DEF Seen
    <3> HIDE DEF r
    <3> QED BY <3>1, <3>2, <3>3
  <2>s. /\ Sound(s.q) /\ Kept(t, s.q) /\ RunsOn(t, s.q)
        /\ s.q.outstanding = t.outstanding
        /\ \A k \in 1 .. n - 1 : SeenTo(t, s.q, t.queue[k])
    BY <1>2 DEF Scanned
  <2>2. CASE j \in t.unanswered \ s.q.asking /\ t.wait[j] = 0
    <3>1. r = Launch(s.q, j, fail) BY <2>2
    <3> HIDE DEF r
    <3>2. /\ r \in Tables /\ Kept(s.q, r) /\ r.outstanding = t.outstanding
          /\ Launched(s.q, r, j)
      BY <3>1, <2>s, <1>j, LaunchIs DEF Sound
    <3>3. j \in s.q.unanswered \ s.q.asking /\ s.q.active < MaxQuestions
      BY <1>2, <2>2, <2>s DEF Kept, MayGoOn
    <3>4. Sound(r) /\ RunsOn(s.q, r)
      BY <2>s, <3>2, <3>3, LaunchKeeps DEF Sound
    <3>5. Kept(t, r) BY <2>s, <3>2 DEF Kept
    <3>6. RunsOn(t, r) BY <2>s, <3>4 DEF RunsOn
    <3>7. /\ s.q.asking \subseteq r.asking
          /\ Failure(t, s.q) => Failure(t, r)
          /\ SeenTo(t, r, j)
      <4>p. s.q.pid \in [Slots -> Pid] BY <2>s DEF Sound, Tables
      <4>1. CASE NoSlot(s.q, r)
        BY <4>1 DEF NoSlot, Failure, SeenTo
      <4>2. ASSUME NEW x \in Slots, s.q.pid[x] = "free", NoFork(s.q, r, x)
            PROVE  /\ s.q.asking \subseteq r.asking
                   /\ Failure(t, s.q) => Failure(t, r)
                   /\ Failure(t, r)
        <5>1. r.pid[x] = "failed" /\ r.asking = s.q.asking
          BY <4>p, <4>2 DEF NoFork
        <5>2. t.pid[x] # "failed" BY <2>s, <4>2 DEF RunsOn
        <5> QED BY <5>1, <5>2 DEF Failure
      <4>3. ASSUME NEW x \in Slots, s.q.pid[x] = "free", Asks(s.q, r, x, j)
            PROVE  /\ s.q.asking \subseteq r.asking
                   /\ Failure(t, s.q) => Failure(t, r)
                   /\ j \in r.asking
        BY <4>p, <4>3 DEF Asks, Failure
      <4> QED BY <3>2, <4>1, <4>2, <4>3 DEF Launched, SeenTo
    <3>8. \A k \in 1 .. n : SeenTo(t, r, t.queue[k])
      <4> TAKE k \in 1 .. n
      <4>1. CASE k = n BY <3>7, <4>1
      <4>2. CASE k # n
        <5>1. SeenTo(t, s.q, t.queue[k]) /\ s.q.fatal = "no"
          BY <1>2, <1>l, <2>s, <4>2 DEF MayGoOn
        <5> QED BY <3>7, <5>1 DEF SeenTo
      <4> QED BY <4>1, <4>2
    <3>9. n \in 0 .. n /\ ~ (n < n) BY <1>l
    <3> QED BY <2>1, <3>2, <3>4, <3>5, <3>6, <3>8, <3>9 DEF Scanned
  <2>3. CASE ~ (j \in t.unanswered \ s.q.asking /\ t.wait[j] = 0)
    <3>1. r = s.q BY <2>3
    <3> HIDE DEF r
    <3>2. SeenTo(t, s.q, j)
      <4>1. t.wait[j] \in Nat BY <1>t, <1>j
      <4> QED BY <2>3, <1>j, <4>1 DEF SeenTo
    <3>3. \A k \in 1 .. n : SeenTo(t, r, t.queue[k])
      <4> TAKE k \in 1 .. n
      <4>1. CASE k = n BY <3>1, <3>2, <4>1
      <4>2. CASE k # n BY <1>l, <2>s, <3>1, <4>2
      <4> QED BY <4>1, <4>2
    <3>4. n \in 0 .. n /\ ~ (n < n) BY <1>l
    <3> QED BY <2>1, <2>s, <3>1, <3>3, <3>4 DEF Scanned
  <2> QED BY <2>2, <2>3
<1> QED BY <1>1, <1>2

\* The queue as a function.
LEMMA QueueType ==
  ASSUME NEW t \in Tables
  PROVE  /\ Len(t.queue) \in Nat /\ DOMAIN t.queue = 1 .. Len(t.queue)
         /\ t.queue \in Seq(Jobs)
         /\ t.queue \in [1 .. Len(t.queue) -> Jobs]
<1>1. t.queue \in Seq(Jobs) BY DEF Tables
<1> DEFINE s == t.queue
<1> HIDE DEF s
<1>2. s \in Seq(Jobs) BY <1>1 DEF s
<1>3. /\ Len(s) \in Nat /\ DOMAIN s = 1 .. Len(s)
      /\ s \in [1 .. Len(s) -> Jobs]
  BY <1>2, LenProperties
<1> QED BY <1>1, <1>3 DEF s

\* The scan to the end of the queue, by induction.
LEMMA ScanKeeps ==
  ASSUME NEW t, Sound(t), NEW fail, NEW f,
         ScanTo(t, fail, Len(t.queue), f)
  PROVE  Scanned(t, f[Len(t.queue)], Len(t.queue))
<1> DEFINE L == Len(t.queue)
           S == {n \in Nat : n <= L => Scanned(t, f[n], n)}
<1>0. L \in Nat BY QueueType DEF Sound
<1>1. 0 \in S
  <2> DEFINE s == [x |-> 0, count |-> 0, q |-> t]
  <2>1. 0 \in 0 .. L BY <1>0
  <2>2. f[0] = s BY <2>1 DEF ScanTo
  <2>3. Kept(t, t) /\ RunsOn(t, t) BY DEF Kept, RunsOn
  <2>4. /\ s.x = 0 /\ s.count = 0 /\ s.q = t /\ ~ (0 < 0)
        /\ 0 \in 0 .. 0 /\ 1 .. 0 = {}
    OBVIOUS
  <2> HIDE DEF s
  <2>5. Scanned(t, s, 0) BY <2>3, <2>4 DEF Scanned
  <2> QED BY <2>2, <2>5
<1>2. \A n \in Nat : n \in S => n + 1 \in S
  <2> TAKE n \in Nat
  <2> HAVE n \in S
  <2> SUFFICES ASSUME n + 1 <= L PROVE Scanned(t, f[n + 1], n + 1) OBVIOUS
  <2>1. /\ n + 1 \in 1 .. L /\ n + 1 \in 0 .. L /\ n + 1 # 0
        /\ (n + 1) - 1 = n /\ n <= L
    BY <1>0
  <2>2. Scanned(t, f[n], n) BY <2>1
  <2>3. f[n + 1] = ScanStep(t, f[n], n + 1, fail) BY <2>1 DEF ScanTo
  <2> HIDE DEF S
  <2> QED BY <2>1, <2>2, <2>3, ScanStepKeeps
<1> HIDE DEF S
<1>3. Nat \subseteq S BY <1>1, <1>2, Induction
<1> QED BY <1>0, <1>3 DEF S

\* There are as many questions as places in the queue.
LEMMA QueueCount ==
  ASSUME NEW t \in Tables, Rows(t)
  PROVE  /\ IsFiniteSet(t.unanswered)
         /\ Cardinality(t.unanswered) = Len(t.queue)
<1> DEFINE L == Len(t.queue)
           f == t.queue
           I == 1 .. L
           U == t.unanswered
<1>1. L \in Nat /\ f \in [I -> Jobs] /\ DOMAIN f = I BY QueueType
<1>2. \A i \in I : f[i] \in U BY <1>1 DEF Rows, Queued
<1>3. \A j \in U : \E i \in I : f[i] = j BY <1>1 DEF Rows, Queued
<1>4. \A a, b \in I : f[a] = f[b] => a = b BY <1>1 DEF Rows
<1>5. IsFiniteSet(I) /\ Cardinality(I) = L
  <2>1. L \in Int /\ 1 \in Int /\ L - 1 + 1 = L /\ (1 > L => L = 0) BY <1>1
  <2> QED BY <2>1, FS_Interval
<1> HIDE DEF I, U, f, L
<1>6. f \in [I -> U] BY <1>1, <1>2
<1>7. f \in Bijection(I, U)
  <2>1. f \in Injection(I, U) BY <1>4, <1>6 DEF Injection, IsInjective
  <2>2. f \in Surjection(I, U) BY <1>3, <1>6 DEF Surjection
  <2> QED BY <2>1, <2>2 DEF Bijection
<1>8. ExistsBijection(I, U) BY <1>7 DEF ExistsBijection
<1>9. IsFiniteSet(U) /\ Cardinality(U) = L BY <1>5, <1>8, FS_Bijection
<1> QED BY <1>9 DEF U, L

\* Not all of the questions need have been announced.
LEMMA AnnouncedFinite ==
  ASSUME NEW t \in Tables, Rows(t)
  PROVE  /\ IsFiniteSet(t.unanswered \ t.receiving)
         /\ Cardinality(t.unanswered \ t.receiving) \in Nat
         /\ Cardinality(t.unanswered \ t.receiving) <= Len(t.queue)
<1>1. t.unanswered \ t.receiving \in SUBSET t.unanswered OBVIOUS
<1> QED BY <1>1, QueueCount, FS_Subset, FS_CardinalityType

\* question_look_for_work() keeps the tables sound, and recounts the
\* questions rightly.
LEMMA LookForWorkKeeps ==
  ASSUME NEW t, Good(t), NEW fail
  PROVE  LET r == LookForWork(t, fail)
         IN  Good(r) /\ Kept(t, r) /\ RunsOn(t, r)
<1> DEFINE L == Len(t.queue)
           r == LookForWork(t, fail)
<1>0. L \in Nat BY QueueType DEF Good
<1>1. Sound(t) BY DEF Good, Sound
<1>2. PICK f : /\ ScanTo(t, fail, L, f)
               /\ r = LET end == f[L]
                      IN  IF t.outstanding = 0 THEN t
                          ELSE IF end.x = L
                            THEN [end.q EXCEPT !.outstanding = end.count]
                          ELSE end.q
  BY <1>0, LookForWorkIs
<1> DEFINE end == f[L]
<1>3. Scanned(t, end, L) BY <1>1, <1>2, ScanKeeps
<1>4. /\ end.x \in 0 .. L /\ end.count = end.x
      /\ Sound(end.q) /\ Kept(t, end.q) /\ RunsOn(t, end.q)
      /\ end.q.outstanding = t.outstanding
  BY <1>3 DEF Scanned
<1>5. CASE t.outstanding = 0
  <2>1. r = t BY <1>2, <1>5
  <2> HIDE DEF r
  <2> QED BY <2>1 DEF Kept, RunsOn, r
<1>6. CASE t.outstanding # 0 /\ end.x = L
  <2>1. r = [end.q EXCEPT !.outstanding = L] BY <1>2, <1>4, <1>6
  <2> HIDE DEF r, end
  <2>2. r \in Tables /\ r.outstanding = L
    BY <2>1, <1>0, <1>4 DEF Sound, Tables
  <2>3. /\ Kept(end.q, r) /\ r.pid = end.q.pid /\ r.about = end.q.about
        /\ r.asking = end.q.asking /\ r.early = end.q.early
        /\ r.active = end.q.active /\ r.fatal = end.q.fatal
    BY <2>1, <1>4 DEF Sound, Tables, Kept
  <2>4. Rows(r) BY <1>4, <2>3, RowsKept DEF Sound, Rows
  <2>5. AskedOnce(r)
    BY <1>4, <2>3, AskedKept DEF Sound, Kept
  <2>6. Counted(r) /\ Deaths(r)
    BY <1>4, <2>3 DEF Sound, Counted, Deaths, Running
  <2>7. r.queue = t.queue BY <1>4, <2>3 DEF Kept
  <2>8. CoversAll(r)
    BY <2>2, <2>4, <2>7, AnnouncedFinite DEF CoversAll
  <2>9. Kept(t, r) /\ RunsOn(t, r)
    BY <1>4, <2>3 DEF Kept, RunsOn
  <2> QED BY <2>2, <2>4, <2>5, <2>6, <2>8, <2>9 DEF Good, r
<1>7. CASE t.outstanding # 0 /\ end.x # L
  <2>1. r = end.q BY <1>2, <1>7
  <2> HIDE DEF r, end
  <2>2. CoversAll(r)
    BY <1>4, <2>1 DEF Good, CoversAll, Kept
  <2> QED BY <1>4, <2>1, <2>2 DEF Sound, Good, r
<1> QED BY <1>5, <1>6, <1>7

\* question_look_for_work() asks every question whose time has come, if it
\* is not stopped by a limit or a failure.
LEMMA LookForWorkAsks ==
  ASSUME NEW t, Good(t), t.receiving = {}, NEW fail,
         LookForWork(t, fail).fatal = "no",
         LookForWork(t, fail).active # MaxQuestions,
         LookForWork(t, fail).launches < MaxLaunches,
         ~ Failure(t, LookForWork(t, fail)),
         NEW j \in t.unanswered
  PROVE  j \in LookForWork(t, fail).asking \/ t.wait[j] > 0
<1> DEFINE L == Len(t.queue)
           r == LookForWork(t, fail)
<1>0. L \in Nat /\ t \in Tables /\ Rows(t) BY QueueType DEF Good
<1>1. Sound(t) BY DEF Good, Sound
<1>2. PICK f : /\ ScanTo(t, fail, L, f)
               /\ r = LET end == f[L]
                      IN  IF t.outstanding = 0 THEN t
                          ELSE IF end.x = L
                            THEN [end.q EXCEPT !.outstanding = end.count]
                          ELSE end.q
  BY <1>0, LookForWorkIs
<1> DEFINE end == f[L]
<1>3. Scanned(t, end, L) BY <1>1, <1>2, ScanKeeps
<1>4. /\ end.x \in 0 .. L /\ end.count = end.x /\ Sound(end.q)
      /\ end.x < L => ~ MayGoOn(t, end)
      /\ \A k \in 1 .. end.x : SeenTo(t, end.q, t.queue[k])
  BY <1>3 DEF Scanned
<1>5. t.unanswered \ t.receiving = t.unanswered OBVIOUS
<1>6. Cardinality(t.unanswered) = L BY <1>0, QueueCount
<1>7. L <= t.outstanding BY <1>5, <1>6 DEF Good, CoversAll
<1>8. PICK i \in 1 .. L : t.queue[i] = j
  BY <1>0, QueueType DEF Rows, Queued
<1>9. t.outstanding # 0 BY <1>0, <1>7, <1>8
<1>10. /\ r.fatal = end.q.fatal /\ r.active = end.q.active
       /\ r.launches = end.q.launches /\ r.asking = end.q.asking
       /\ r.pid = end.q.pid
  <2>1. r = [end.q EXCEPT !.outstanding = end.count] \/ r = end.q
    BY <1>2, <1>9
  <2> HIDE DEF r, end
  <2> QED BY <1>4, <2>1 DEF Sound, Tables
<1> HIDE DEF r, end
<1>11. end.q.active < MaxQuestions
  <2>1. end.q.active # MaxQuestions BY <1>10 DEF r
  <2>2. end.q.active \in Nat /\ end.q.active <= MaxQuestions
    BY <1>4, SlotsFinite DEF Sound, Counted
  <2> QED BY <2>1, <2>2, QuestionsAssumption
<1>12. end.x = L
  <2> SUFFICES ASSUME end.x < L PROVE FALSE BY <1>0, <1>4
  <2>1. end.count < t.outstanding
    <3>1. t.outstanding \in Nat BY DEF Good, Tables
    <3> QED BY <1>0, <1>4, <1>7, <3>1
  <2> QED BY <1>4, <1>10, <1>11, <2>1 DEF MayGoOn, r
<1>13. SeenTo(t, end.q, j) BY <1>4, <1>8, <1>12
<1>14. ~ Failure(t, end.q) BY <1>10 DEF Failure, r
<1> QED BY <1>10, <1>13, <1>14 DEF SeenTo, r

---------------------------------------------------------------------------
(* What the commands do to the tables *)

\* The times and the counters are not in the invariant but for one of them.
LEMMA SoundSame ==
  ASSUME NEW t, Sound(t), NEW r \in Tables,
         r.queue = t.queue, r.dest = t.dest, r.receiving = t.receiving,
         r.unanswered = t.unanswered, r.asking = t.asking, r.pid = t.pid,
         r.about = t.about, r.active = t.active, r.early = t.early,
         r.moved = t.moved, r.fatal = t.fatal
  PROVE  Sound(r) /\ RunsOn(t, r)
<1>1. Rows(r) BY DEF Sound, Rows, Queued
<1>2. AskedOnce(r) BY AskedKept DEF Sound
<1>3. Counted(r) /\ Deaths(r) BY DEF Sound, Counted, Deaths, Running
<1> QED BY <1>1, <1>2, <1>3 DEF Sound, RunsOn

\* question_job() counts the new question and asks it if it can.
LEMMA QuestionJobKeeps ==
  ASSUME NEW t, Sound(t), NEW fail, NEW j \in t.unanswered \ t.asking,
         Cardinality(t.unanswered \ t.receiving) <= t.outstanding + 1
  PROVE  LET r == QuestionJob(t, j, fail)
         IN  Good(r) /\ RunsOn(t, r)
<1> DEFINE n == t.outstanding + 1
           t1 == [t EXCEPT !.outstanding = n]
           r == QuestionJob(t, j, fail)
<1>1. t \in Tables /\ j \in Jobs /\ n \in Nat
  <2>1. t \in Tables BY DEF Sound
  <2>2. t.outstanding \in Nat /\ t.unanswered \subseteq Jobs BY <2>1 DEF Tables
  <2> QED BY <2>1, <2>2
<1>r. r = IF t1.active < MaxQuestions THEN Launch(t1, j, fail) ELSE t1
  BY DEF QuestionJob
<1> HIDE DEF n
<1>2. /\ t1 \in Tables /\ t1.outstanding = n
      /\ t1.queue = t.queue /\ t1.dest = t.dest
      /\ t1.receiving = t.receiving /\ t1.unanswered = t.unanswered
      /\ t1.asking = t.asking /\ t1.pid = t.pid /\ t1.about = t.about
      /\ t1.active = t.active /\ t1.early = t.early /\ t1.moved = t.moved
      /\ t1.fatal = t.fatal
  BY <1>1 DEF Tables
<1> HIDE DEF t1, r
<1>3. Sound(t1) /\ RunsOn(t, t1) BY <1>2, SoundSame
<1>4. CoversAll(t1) BY <1>2 DEF CoversAll, n
<1>5. CASE t1.active < MaxQuestions
  <2>1. r = Launch(t1, j, fail) BY <1>5, <1>r
  <2>2. /\ r \in Tables /\ Kept(t1, r) /\ r.outstanding = t1.outstanding
        /\ Launched(t1, r, j)
    BY <1>1, <1>2, <2>1, LaunchIs
  <2>3. Sound(r) /\ RunsOn(t1, r)
    BY <1>2, <1>3, <1>5, <2>2, LaunchKeeps DEF Sound
  <2>4. CoversAll(r) BY <1>4, <2>2 DEF CoversAll, Kept
  <2>5. RunsOn(t, r) BY <1>2, <2>3 DEF RunsOn
  <2> QED BY <2>3, <2>4, <2>5 DEF Good, Sound, r
<1>6. CASE ~ (t1.active < MaxQuestions)
  <2>1. r = t1 BY <1>6, <1>r
  <2> QED BY <1>3, <1>4, <2>1 DEF Good, Sound, r
<1> QED BY <1>5, <1>6

\* question_tick()
LEMMA TickKeeps ==
  ASSUME NEW t, Good(t), NEW fail
  PROVE  LET r == QuestionTick(t, fail)
         IN  Good(r) /\ RunsOn(t, r)
<1> DEFINE t1 == [t EXCEPT !.launches = 0]
           r == QuestionTick(t, fail)
<1>1. t \in Tables BY DEF Good
<1>2. /\ t1 \in Tables /\ t1.outstanding = t.outstanding
      /\ t1.queue = t.queue /\ t1.dest = t.dest
      /\ t1.receiving = t.receiving /\ t1.unanswered = t.unanswered
      /\ t1.asking = t.asking /\ t1.pid = t.pid /\ t1.about = t.about
      /\ t1.active = t.active /\ t1.early = t.early /\ t1.moved = t.moved
      /\ t1.fatal = t.fatal
  BY <1>1 DEF Tables
<1>r. r = LookForWork(t1, fail) BY DEF QuestionTick
<1> HIDE DEF t1, r
<1>3. Sound(t1) BY <1>2, SoundSame DEF Good, Sound
<1>4. Good(t1) BY <1>2, <1>3 DEF Good, Sound, CoversAll
<1>5. Good(r) /\ RunsOn(t1, r) BY <1>r, <1>4, LookForWorkKeeps
<1> QED BY <1>2, <1>5 DEF RunsOn, r

\* A tick asks what is due.
LEMMA TickAsksDue ==
  ASSUME NEW t, Good(t), t.receiving = {}, NEW fail,
         QuestionTick(t, fail).fatal = "no",
         QuestionTick(t, fail).active # MaxQuestions,
         QuestionTick(t, fail).launches < MaxLaunches,
         ~ Failure(t, QuestionTick(t, fail)),
         NEW j \in t.unanswered
  PROVE  j \in QuestionTick(t, fail).asking \/ t.wait[j] > 0
<1> DEFINE t1 == [t EXCEPT !.launches = 0]
<1>1. t \in Tables BY DEF Good
<1>2. /\ t1 \in Tables /\ t1.outstanding = t.outstanding
      /\ t1.queue = t.queue /\ t1.dest = t.dest
      /\ t1.receiving = t.receiving /\ t1.unanswered = t.unanswered
      /\ t1.asking = t.asking /\ t1.pid = t.pid /\ t1.about = t.about
      /\ t1.active = t.active /\ t1.early = t.early /\ t1.moved = t.moved
      /\ t1.fatal = t.fatal /\ t1.wait = t.wait
  BY <1>1 DEF Tables
<1>r. QuestionTick(t, fail) = LookForWork(t1, fail) BY DEF QuestionTick
<1> HIDE DEF t1
<1>3. Sound(t1) BY <1>2, SoundSame DEF Good, Sound
<1>4. Good(t1) BY <1>2, <1>3 DEF Good, Sound, CoversAll
<1>5. ~ Failure(t1, LookForWork(t1, fail)) BY <1>2, <1>r DEF Failure
<1> QED BY <1>2, <1>r, <1>4, <1>5, LookForWorkAsks

\* The clock.
LEMMA LaterKeeps ==
  ASSUME NEW t, Good(t)
  PROVE  Good(Later(t)) /\ RunsOn(t, Later(t))
<1> DEFINE w == [j \in Jobs |-> IF t.wait[j] = 0 THEN 0 ELSE t.wait[j] - 1]
           r == [t EXCEPT !.wait = w]
<1>1. t \in Tables BY DEF Good
<1>2. w \in [Jobs -> Nat]
  <2>1. t.wait \in [Jobs -> Nat] BY <1>1 DEF Tables
  <2> QED BY <2>1
<1>3. Later(t) = r BY DEF Later
<1> HIDE DEF w
<1>4. /\ r \in Tables /\ r.outstanding = t.outstanding
      /\ r.queue = t.queue /\ r.dest = t.dest
      /\ r.receiving = t.receiving /\ r.unanswered = t.unanswered
      /\ r.asking = t.asking /\ r.pid = t.pid /\ r.about = t.about
      /\ r.active = t.active /\ r.early = t.early /\ r.moved = t.moved
      /\ r.fatal = t.fatal
  BY <1>1, <1>2 DEF Tables
<1> HIDE DEF r
<1>5. Sound(r) /\ RunsOn(t, r) BY <1>4, SoundSame DEF Good, Sound
<1> QED BY <1>3, <1>4, <1>5 DEF Good, Sound, CoversAll

\* question_on_off(): a job in the queue has a question already.
LEMMA QuestionOnKeeps ==
  ASSUME NEW t, Good(t), NEW fail, NEW j \in Jobs
  PROVE  LET r == QuestionOn(t, j, fail)
         IN  Good(r) /\ RunsOn(t, r)
<1>1. t \in Tables BY DEF Good
<1>2. CASE ~ Queued(t, j)
  BY <1>2 DEF QuestionOn, RunsOn
<1>3. CASE Queued(t, j)
  <2> DEFINE w == [t.wait EXCEPT ![j] = 0]
             t1 == [t EXCEPT !.wait[j] = 0, !.unanswered = @ \cup {j}]
             r == QuestionOn(t, j, fail)
  <2>1. j \in t.unanswered BY <1>3 DEF Good, Rows
  <2>2. w \in [Jobs -> Nat] BY <1>1 DEF Tables
  <2>3. t1 = [t EXCEPT !.wait = w, !.unanswered = t.unanswered \cup {j}]
    BY <1>1 DEF Tables
  <2>4. t.unanswered \cup {j} = t.unanswered BY <2>1
  <2>r. r = IF j \in t.asking THEN t1 ELSE QuestionJob(t1, j, fail)
    BY <1>3 DEF QuestionOn
  <2> HIDE DEF w, t1, r
  <2>5. /\ t1 \in Tables /\ t1.outstanding = t.outstanding
        /\ t1.queue = t.queue /\ t1.dest = t.dest
        /\ t1.receiving = t.receiving /\ t1.unanswered = t.unanswered
        /\ t1.asking = t.asking /\ t1.pid = t.pid /\ t1.about = t.about
        /\ t1.active = t.active /\ t1.early = t.early /\ t1.moved = t.moved
        /\ t1.fatal = t.fatal
    BY <1>1, <2>2, <2>3, <2>4 DEF Tables
  <2>6. Sound(t1) /\ RunsOn(t, t1) BY <2>5, SoundSame DEF Good, Sound
  <2>7. CASE j \in t.asking
    <3>1. r = t1 BY <2>7, <2>r
    <3>2. Good(t1) BY <2>5, <2>6 DEF Good, Sound, CoversAll
    <3> QED BY <2>6, <3>1, <3>2 DEF r
  <2>8. CASE j \notin t.asking
    <3>1. r = QuestionJob(t1, j, fail) BY <2>8, <2>r
    <3>2. Cardinality(t1.unanswered \ t1.receiving) <= t1.outstanding + 1
      <4>1. Cardinality(t.unanswered \ t.receiving) \in Nat
        BY AnnouncedFinite DEF Good
      <4>2. t.outstanding \in Nat BY <1>1 DEF Tables
      <4> QED BY <2>5, <4>1, <4>2 DEF Good, CoversAll
    <3>3. Good(r) /\ RunsOn(t1, r)
      BY <2>1, <2>5, <2>6, <2>8, <3>1, <3>2, QuestionJobKeeps
    <3> QED BY <2>5, <3>3 DEF RunsOn, r
  <2> QED BY <2>7, <2>8
<1> QED BY <1>2, <1>3

\* The invariant of job i says nothing of the others.
LEMMA AskedOther ==
  ASSUME NEW t, NEW r, NEW i, AskedOf(t, i), About(r, i) = About(t, i),
         \A x \in About(t, i) : r.about[x] = t.about[x],
         i \in r.asking <=> i \in t.asking,
         i \in r.receiving => i \in t.receiving,
         i \in t.moved => i \in r.moved,
         r.dest[i] = t.dest[i]
  PROVE  AskedOf(r, i)
BY DEF AskedOf

\* A question more to cover.
LEMMA OneMore ==
  ASSUME NEW t \in Tables, Rows(t), CoversAll(t), NEW j,
         NEW V, V \subseteq (t.unanswered \ t.receiving) \cup {j}
  PROVE  Cardinality(V) <= t.outstanding + 1
<1> DEFINE U == t.unanswered \ t.receiving
<1>1. IsFiniteSet(U) /\ Cardinality(U) \in Nat BY AnnouncedFinite
<1>2. Cardinality(U) <= t.outstanding BY DEF CoversAll
<1>3. t.outstanding \in Nat BY DEF Tables
<1> HIDE DEF U
<1>4. /\ IsFiniteSet(U \cup {j})
      /\ Cardinality(U \cup {j}) = Cardinality(U)
           \/ Cardinality(U \cup {j}) = Cardinality(U) + 1
  BY <1>1, FS_AddElement
<1>5. V \in SUBSET (U \cup {j}) BY DEF U
<1>6. IsFiniteSet(V) /\ Cardinality(V) <= Cardinality(U \cup {j})
  BY <1>4, <1>5, FS_Subset
<1>7. Cardinality(V) \in Nat BY <1>6, FS_CardinalityType
<1> QED BY <1>1, <1>2, <1>3, <1>4, <1>6, <1>7

\* queue_new_job(), for a job id that is free and that nobody asks about.
LEMMA NewJobKeeps ==
  ASSUME NEW t, Good(t), NEW fail, NEW j \in Jobs, ~ Queued(t, j),
         About(t, j) = {}
  PROVE  LET r == NewJob(t, j, fail)
         IN  Good(r) /\ RunsOn(t, r)
<1> DEFINE que == Append(t.queue, j)
           rec == IF j \in Skeletons THEN t.receiving \cup {j} ELSE t.receiving
           una == t.unanswered \cup {j}
           t1 == [t EXCEPT !.queue = que, !.receiving = rec, !.unanswered = una]
           r == NewJob(t, j, fail)
<1>1. t \in Tables /\ Rows(t) /\ j \notin t.unanswered BY DEF Good, Rows
<1>2. t.queue \in Seq(Jobs) /\ Len(t.queue) \in Nat
      /\ DOMAIN t.queue = 1 .. Len(t.queue)
  BY <1>1, QueueType
<1>3. /\ que \in Seq(Jobs) /\ DOMAIN que = 1 .. Len(t.queue) + 1
      /\ \A i \in 1 .. Len(t.queue) : que[i] = t.queue[i]
      /\ que[Len(t.queue) + 1] = j
  BY <1>2
<1>4. rec \subseteq Jobs /\ una \subseteq Jobs BY <1>1 DEF Tables
<1>r. r = IF j \in Skeletons THEN t1 ELSE QuestionJob(t1, j, fail)
  BY DEF NewJob
<1> HIDE DEF r, que, rec, una
<1>5. /\ t1 \in Tables /\ t1.outstanding = t.outstanding
      /\ t1.queue = que /\ t1.dest = t.dest
      /\ t1.receiving = rec /\ t1.unanswered = una
      /\ t1.asking = t.asking /\ t1.pid = t.pid /\ t1.about = t.about
      /\ t1.active = t.active /\ t1.early = t.early /\ t1.moved = t.moved
      /\ t1.fatal = t.fatal
  BY <1>1, <1>3, <1>4 DEF Tables
<1> HIDE DEF t1
<1>6. Rows(t1)
  <2>1. ASSUME NEW i PROVE Queued(t1, i) <=> Queued(t, i) \/ i = j
    <3>1. Queued(t1, i) <=> \E k \in 1 .. Len(t.queue) + 1 : que[k] = i
      BY <1>3, <1>5 DEF Queued
    <3>2. Queued(t, i) <=> \E k \in 1 .. Len(t.queue) : t.queue[k] = i
      BY <1>2 DEF Queued
    <3>3. \A k \in 1 .. Len(t.queue) + 1 :
            k \in 1 .. Len(t.queue) \/ k = Len(t.queue) + 1
      BY <1>2
    <3>4. \A k \in 1 .. Len(t.queue) : k \in 1 .. Len(t.queue) + 1 BY <1>2
    <3>5. Len(t.queue) + 1 \in 1 .. Len(t.queue) + 1 BY <1>2
    <3> QED BY <1>3, <3>1, <3>2, <3>3, <3>4, <3>5
  <2>2. una = {i \in Jobs : Queued(t1, i)} BY <1>1, <2>1 DEF una, Rows
  <2>3. ASSUME NEW a \in DOMAIN que, NEW b \in DOMAIN que, que[a] = que[b]
        PROVE  a = b
    <3>1. \A k \in 1 .. Len(t.queue) + 1 :
            k \in 1 .. Len(t.queue) \/ k = Len(t.queue) + 1
      BY <1>2
    <3>2. \A k \in 1 .. Len(t.queue) : t.queue[k] # j BY <1>2 DEF Queued
    <3>3. \A k, l \in 1 .. Len(t.queue) : t.queue[k] = t.queue[l] => k = l
      BY <1>1, <1>2 DEF Rows
    <3> QED BY <1>3, <2>3, <3>1, <3>2, <3>3
  <2>4. t.unanswered \subseteq una /\ rec \subseteq una
    BY <1>1 DEF rec, una, Rows
  <2>5. /\ t.asking \subseteq una /\ t.early \subseteq una
        /\ t.moved \subseteq una
    BY <1>1, <2>4 DEF Rows
  <2> QED BY <1>5, <2>2, <2>3, <2>4, <2>5 DEF Rows
<1>7. Running(t1) = Running(t) /\ \A i : About(t1, i) = About(t, i)
  BY <1>5 DEF Running, About
<1>8. AskedOnce(t1)
  <2> SUFFICES ASSUME NEW i \in t1.unanswered \ t1.early PROVE AskedOf(t1, i)
    BY DEF AskedOnce
  <2>1. CASE i = j
    <3>1. j \notin t1.asking BY <1>1, <1>5 DEF Rows
    <3> QED BY <1>7, <2>1, <3>1 DEF AskedOf
  <2>2. CASE i # j
    <3>1. AskedOf(t, i) BY <1>5, <2>2 DEF Good, AskedOnce, una
    <3>2. i \in t1.receiving => i \in t.receiving BY <1>5, <2>2 DEF rec
    <3> QED BY <1>5, <1>7, <3>1, <3>2, AskedOther
  <2> QED BY <2>1, <2>2
<1>9. Sound(t1) /\ RunsOn(t, t1)
  BY <1>5, <1>6, <1>7, <1>8 DEF Good, Sound, Counted, Deaths, RunsOn
<1>10. CASE j \in Skeletons
  <2>1. r = t1 BY <1>r, <1>10
  <2>2. una \ rec = t.unanswered \ t.receiving
    BY <1>1, <1>10 DEF una, rec
  <2>3. CoversAll(t1) BY <1>5, <2>2 DEF Good, CoversAll
  <2> QED BY <1>9, <2>1, <2>3 DEF Good, Sound, r
<1>11. CASE j \notin Skeletons
  <2>1. r = QuestionJob(t1, j, fail) BY <1>r, <1>11
  <2>2. una \ rec \subseteq (t.unanswered \ t.receiving) \cup {j}
    BY <1>11 DEF una, rec
  <2>3. Cardinality(una \ rec) <= t.outstanding + 1
    BY <1>1, <2>2, OneMore DEF Good
  <2>4. j \in t1.unanswered \ t1.asking BY <1>1, <1>5 DEF una, Rows
  <2>5. Good(r) /\ RunsOn(t1, r)
    BY <1>5, <1>9, <2>1, <2>3, <2>4, QuestionJobKeeps
  <2> QED BY <1>5, <2>5 DEF RunsOn, r
<1> QED BY <1>10, <1>11

\* A sequence without its n-th element.
Without(s, n) == SubSeq(s, 1, n - 1) \o SubSeq(s, n + 1, Len(s))

\* What is where in it.
LEMMA TakenOut ==
  ASSUME NEW s \in Seq(Jobs), NEW n \in 1 .. Len(s), NEW r,
         r = Without(s, n)
  PROVE  /\ r \in Seq(Jobs) /\ DOMAIN r = 1 .. Len(s) - 1
         /\ \A i \in 1 .. Len(s) - 1 : /\ i < n => r[i] = s[i]
                                       /\ i >= n => r[i] = s[i + 1]
<1> DEFINE a == SubSeq(s, 1, n - 1)
           c == SubSeq(s, n + 1, Len(s))
<1>1. Len(s) \in Nat /\ DOMAIN s = 1 .. Len(s)
  BY LenProperties
<1>2. n \in 1 .. Len(s) OBVIOUS
<1>3. r = a \o c BY DEF Without
<1>4. /\ a \in Seq(Jobs) /\ Len(a) = n - 1
      /\ \A i \in 1 .. n - 1 : a[i] = s[i]
  BY <1>1, <1>2, SubSeqProperties
<1>5. /\ c \in Seq(Jobs) /\ Len(c) = Len(s) - n
      /\ \A i \in 1 .. Len(s) - n : c[i] = s[n + i]
  <2>1. n + 1 \in 1 .. Len(s) + 1
    BY <1>1, <1>2
  <2>2. /\ c \in Seq(Jobs)
        /\ Len(c) = IF n + 1 <= Len(s) THEN Len(s) - (n + 1) + 1 ELSE 0
        /\ \A i \in 1 .. Len(s) - (n + 1) + 1 : c[i] = s[(n + 1) + i - 1]
    BY <1>1, <1>2, <2>1, SubSeqProperties
  <2> HIDE DEF c
  <2>3. Len(c) = Len(s) - n
    <3>1. CASE n + 1 <= Len(s)
      <4>1. Len(s) - (n + 1) + 1 = Len(s) - n
        BY <1>1, <1>2
      <4> QED
        BY <2>2, <3>1, <4>1
    <3>2. CASE ~ (n + 1 <= Len(s))
      <4> DEFINE l == Len(s)
      <4>0. l \in Nat /\ n \in 1 .. l /\ ~ (n + 1 <= l)
        BY <1>1, <1>2, <3>2
      <4>1. Len(s) - n = 0
        <5>1. l - n = 0
          <6> HIDE DEF l
          <6> QED
            BY <4>0
        <5> QED
          BY <5>1
      <4>2. Len(c) = 0
        BY <2>2, <3>2, Zenon
      <4> QED
        BY <4>1, <4>2
    <3> QED
      BY <3>1, <3>2
  <2>4. ASSUME NEW i \in 1 .. Len(s) - n
        PROVE  c[i] = s[n + i]
    <3>1. i \in 1 .. Len(s) - (n + 1) + 1 /\ (n + 1) + i - 1 = n + i
      BY <1>1, <1>2
    <3> QED
      BY <2>2, <3>1
  <2> QED
    BY <2>2, <2>3, <2>4
<1> HIDE DEF a, c
<1>6. /\ r \in Seq(Jobs) /\ Len(r) = Len(s) - 1
      /\ \A i \in 1 .. Len(s) - 1 :
           r[i] = IF i <= n - 1 THEN a[i] ELSE c[i - (n - 1)]
  <2> DEFINE x == a \o c
  <2>0. /\ x \in Seq(Jobs) /\ Len(x) = Len(a) + Len(c)
        /\ \A i \in 1 .. Len(a) + Len(c) :
             x[i] = IF i <= Len(a) THEN a[i] ELSE c[i - Len(a)]
    BY <1>4, <1>5, ConcatProperties, Zenon
  <2> HIDE DEF x
  <2>1. /\ r \in Seq(Jobs) /\ Len(r) = Len(a) + Len(c)
        /\ \A i \in 1 .. Len(a) + Len(c) :
             r[i] = IF i <= Len(a) THEN a[i] ELSE c[i - Len(a)]
    BY <1>3, <2>0 DEF x
  <2> QED
    BY <1>1, <1>2, <1>4, <1>5, <2>1
<1>7. ASSUME NEW i \in 1 .. Len(s) - 1
      PROVE  /\ i < n => r[i] = s[i]
             /\ i >= n => r[i] = s[i + 1]
  <2>1. CASE i < n
    BY <1>1, <1>2, <1>4, <1>6, <2>1
  <2>2. CASE i >= n
    <3>1. /\ i - (n - 1) \in 1 .. Len(s) - n /\ n + (i - (n - 1)) = i + 1
          /\ ~ (i <= n - 1) /\ ~ (i < n)
      BY <1>1, <1>2, <2>2
    <3> QED
      BY <1>5, <1>6, <2>2, <3>1
  <2>3. i \in Nat /\ n \in Nat /\ (i < n \/ i >= n) /\ ~ (i < n /\ i >= n)
    BY <1>1, <1>2
  <2> QED
    BY <2>1, <2>2, <2>3
<1>8. DOMAIN r = 1 .. Len(s) - 1
  BY <1>6, LenProperties
<1> QED BY <1>6, <1>7, <1>8

\* queue_dequeue_job(), with pprd alive.
LEMMA JobGoneKeeps ==
  ASSUME NEW t, Good(t), t.fatal = "no", NEW j \in Jobs, Queued(t, j)
  PROVE  Good(JobGone(t, j)) /\ RunsOn(t, JobGone(t, j))
<1> DEFINE n == CHOOSE k \in DOMAIN t.queue : t.queue[k] = j
           que == SubSeq(t.queue, 1, n - 1)
                    \o SubSeq(t.queue, n + 1, Len(t.queue))
           des == [t.dest EXCEPT ![j] = HomeDest]
           wai == [t.wait EXCEPT ![j] = 0]
           r == JobGone(t, j)
<1>1. t \in Tables /\ Rows(t) BY DEF Good
<1>2. /\ t.queue \in Seq(Jobs) /\ Len(t.queue) \in Nat
      /\ DOMAIN t.queue = 1 .. Len(t.queue)
  BY <1>1, QueueType
<1>3. n \in 1 .. Len(t.queue) /\ t.queue[n] = j BY <1>2 DEF Queued
<1>4. des \in [Jobs -> Dests] /\ wai \in [Jobs -> Nat]
  BY <1>1, QuestionsAssumption DEF Tables
<1>5. r = [t EXCEPT !.queue = que, !.dest = des,
                    !.receiving = t.receiving \ {j},
                    !.unanswered = t.unanswered \ {j},
                    !.asking = t.asking \ {j}, !.wait = wai,
                    !.early = t.early \ {j}, !.moved = t.moved \ {j}]
  BY <1>1 DEF JobGone, Tables
<1> HIDE DEF n, wai, r
<1>6. /\ que \in Seq(Jobs) /\ DOMAIN que = 1 .. Len(t.queue) - 1
      /\ \A i \in 1 .. Len(t.queue) - 1 : /\ i < n => que[i] = t.queue[i]
                                          /\ i >= n => que[i] = t.queue[i + 1]
  BY <1>2, <1>3, TakenOut DEF Without
<1>d. \A i \in Jobs : i # j => des[i] = t.dest[i] BY <1>1 DEF Tables
<1> HIDE DEF que, des
<1>7. /\ r \in Tables /\ r.outstanding = t.outstanding
      /\ r.queue = que /\ r.dest = des
      /\ r.receiving = t.receiving \ {j}
      /\ r.unanswered = t.unanswered \ {j}
      /\ r.asking = t.asking \ {j} /\ r.pid = t.pid /\ r.about = t.about
      /\ r.active = t.active /\ r.early = t.early \ {j}
      /\ r.moved = t.moved \ {j} /\ r.fatal = t.fatal
  BY <1>1, <1>4, <1>5, <1>6 DEF Tables
<1>8. Rows(r)
  <2>0. \A a, b \in 1 .. Len(t.queue) : t.queue[a] = t.queue[b] => a = b
    BY <1>1, <1>2 DEF Rows
  <2>1. ASSUME NEW i \in 1 .. Len(t.queue) - 1
        PROVE  \E m \in 1 .. Len(t.queue) :
                 /\ que[i] = t.queue[m] /\ m # n
                 /\ i < n => m = i
                 /\ i >= n => m = i + 1
    <3>1. i \in 1 .. Len(t.queue) /\ i + 1 \in 1 .. Len(t.queue)
      BY <1>2
    <3>2. n \in Nat /\ i \in Nat BY <1>2, <1>3
    <3>3. CASE i < n
      <4>1. i # n /\ ~ (i >= n) BY <3>2, <3>3
      <4> QED BY <1>6, <3>1, <3>3, <4>1
    <3>4. CASE i >= n
      <4>1. i + 1 # n /\ ~ (i < n) BY <3>2, <3>4
      <4> QED BY <1>6, <3>1, <3>4, <4>1
    <3> QED BY <3>2, <3>3, <3>4
  <2>2. ASSUME NEW m \in 1 .. Len(t.queue), m # n
        PROVE  \E i \in 1 .. Len(t.queue) - 1 : que[i] = t.queue[m]
    <3>1. n \in Nat /\ m \in Nat BY <1>2, <1>3
    <3>2. CASE m < n
      <4>1. m \in 1 .. Len(t.queue) - 1 BY <1>2, <1>3, <3>2
      <4> QED BY <1>6, <3>2, <4>1
    <3>3. CASE m > n
      <4>1. m - 1 \in 1 .. Len(t.queue) - 1 /\ m - 1 >= n /\ (m - 1) + 1 = m
        BY <1>2, <1>3, <3>3
      <4> QED BY <1>6, <4>1
    <3> QED BY <2>2, <3>1, <3>2, <3>3
  <2>3. ASSUME NEW i PROVE Queued(r, i) <=> Queued(t, i) /\ i # j
    <3>1. Queued(r, i) <=> \E k \in 1 .. Len(t.queue) - 1 : que[k] = i
      BY <1>6, <1>7 DEF Queued
    <3>2. Queued(t, i) <=> \E k \in 1 .. Len(t.queue) : t.queue[k] = i
      BY <1>2 DEF Queued
    <3>3. ASSUME Queued(r, i) PROVE Queued(t, i) /\ i # j
      <4>1. PICK k \in 1 .. Len(t.queue) - 1 : que[k] = i BY <3>1, <3>3
      <4>2. PICK m \in 1 .. Len(t.queue) : que[k] = t.queue[m] /\ m # n
        BY <2>1
      <4>3. t.queue[m] = i BY <4>1, <4>2
      <4>4. i # j BY <1>3, <2>0, <4>2, <4>3
      <4> QED BY <3>2, <4>3, <4>4
    <3>4. ASSUME Queued(t, i), i # j PROVE Queued(r, i)
      <4>1. PICK m \in 1 .. Len(t.queue) : t.queue[m] = i BY <3>2, <3>4
      <4>2. m # n BY <1>3, <3>4, <4>1
      <4>3. PICK k \in 1 .. Len(t.queue) - 1 : que[k] = t.queue[m]
        BY <2>2, <4>2
      <4> QED BY <3>1, <4>1, <4>3
    <3> QED BY <3>3, <3>4
  <2>4. r.unanswered = {i \in Jobs : Queued(r, i)}
    BY <1>1, <1>7, <2>3 DEF Rows
  <2>5. ASSUME NEW a \in 1 .. Len(t.queue) - 1,
               NEW b \in 1 .. Len(t.queue) - 1, que[a] = que[b]
        PROVE  a = b
    <3>1. PICK k \in 1 .. Len(t.queue) :
             /\ que[a] = t.queue[k]
             /\ a < n => k = a
             /\ a >= n => k = a + 1
      BY <2>1
    <3>2. PICK l \in 1 .. Len(t.queue) :
             /\ que[b] = t.queue[l]
             /\ b < n => l = b
             /\ b >= n => l = b + 1
      BY <2>1
    <3>3. k = l BY <2>0, <2>5, <3>1, <3>2
    <3> QED BY <1>2, <1>3, <3>1, <3>2, <3>3
  <2>6. \A a, b \in DOMAIN r.queue : r.queue[a] = r.queue[b] => a = b
    BY <1>6, <1>7, <2>5
  <2> QED BY <1>1, <1>7, <2>4, <2>6 DEF Rows
<1>9. Running(r) = Running(t) /\ \A i : About(r, i) = About(t, i)
  BY <1>7 DEF Running, About
<1>10. AskedOnce(r)
  <2> SUFFICES ASSUME NEW i \in r.unanswered \ r.early PROVE AskedOf(r, i)
    BY DEF AskedOnce
  <2>1. i # j /\ i \in t.unanswered \ t.early BY <1>7
  <2>2. i \in Jobs BY <1>1, <2>1 DEF Tables
  <2>3. AskedOf(t, i) BY <2>1 DEF Good, AskedOnce
  <2> QED BY <1>7, <1>9, <1>d, <2>1, <2>2, <2>3, AskedOther
<1>11. CoversAll(r)
  <2> DEFINE U == t.unanswered \ t.receiving
             V == r.unanswered \ r.receiving
  <2>1. V \in SUBSET U BY <1>7
  <2>2. IsFiniteSet(U) /\ Cardinality(U) \in Nat BY <1>1, AnnouncedFinite
  <2>3. Cardinality(U) <= t.outstanding BY DEF Good, CoversAll
  <2>4. t.outstanding \in Nat BY <1>1 DEF Tables
  <2> HIDE DEF U, V
  <2>5. Cardinality(V) <= Cardinality(U) /\ Cardinality(V) \in Nat
    BY <2>1, <2>2, FS_Subset, FS_CardinalityType
  <2>6. Cardinality(V) <= t.outstanding BY <2>2, <2>3, <2>4, <2>5
  <2> QED BY <1>7, <2>6 DEF CoversAll, V
<1>12. Counted(r) /\ Deaths(r)
  BY <1>7, <1>9 DEF Good, Counted, Deaths
<1> QED BY <1>7, <1>8, <1>10, <1>11, <1>12 DEF Good, RunsOn, r

\* queue_reload_job(), for a job that is being received.
LEMMA JobReceivedKeeps ==
  ASSUME NEW t, Good(t), NEW fail, NEW j \in t.receiving
  PROVE  LET r == JobReceived(t, j, fail)
         IN  Good(r) /\ RunsOn(t, r)
<1>1. t \in Tables /\ Rows(t) BY DEF Good
<1>2. j \in Jobs /\ j \in t.unanswered BY <1>1 DEF Tables, Rows
<1>3. CASE ~ Queued(t, j) \/ t.dest[j] # HomeDest
  <2>1. JobReceived(t, j, fail) = t BY <1>3 DEF JobReceived
  <2> QED BY <2>1 DEF RunsOn
<1>4. CASE ~ (~ Queued(t, j) \/ t.dest[j] # HomeDest)
  <2> DEFINE w == [t.wait EXCEPT ![j] = 0]
             t1 == [t EXCEPT !.receiving = t.receiving \ {j},
                             !.unanswered = t.unanswered \cup {j},
                             !.asking = t.asking \ {j}, !.wait = w]
             r == JobReceived(t, j, fail)
  <2>1. w \in [Jobs -> Nat] BY <1>1 DEF Tables
  <2>r. r = QuestionJob(t1, j, fail)
    <3>1. t1 = [t EXCEPT !.receiving  = @ \ {j},
                         !.unanswered = @ \cup {j},
                         !.asking     = @ \ {j},
                         !.wait[j]    = 0]
      BY <1>1 DEF Tables
    <3> HIDE DEF t1
    <3> QED BY <1>4, <3>1 DEF JobReceived
  <2>2. t.unanswered \cup {j} = t.unanswered BY <1>2
  <2> HIDE DEF w, r
  <2>3. /\ t1 \in Tables /\ t1.outstanding = t.outstanding
        /\ t1.queue = t.queue /\ t1.dest = t.dest
        /\ t1.receiving = t.receiving \ {j} /\ t1.unanswered = t.unanswered
        /\ t1.asking = t.asking \ {j} /\ t1.pid = t.pid /\ t1.about = t.about
        /\ t1.active = t.active /\ t1.early = t.early /\ t1.moved = t.moved
        /\ t1.fatal = t.fatal
    BY <1>1, <2>1, <2>2 DEF Tables
  <2> HIDE DEF t1
  <2>4. Rows(t1) BY <1>1, <2>3 DEF Rows, Queued
  <2>5. Running(t1) = Running(t) /\ \A i : About(t1, i) = About(t, i)
    BY <2>3 DEF Running, About
  <2>6. AskedOnce(t1)
    <3> SUFFICES ASSUME NEW i \in t1.unanswered \ t1.early
                 PROVE  AskedOf(t1, i)
      BY DEF AskedOnce
    <3>1. AskedOf(t, i) BY <2>3 DEF Good, AskedOnce
    <3>2. CASE i = j
      <4>1. About(t, j) = {} BY <3>1, <3>2 DEF AskedOf
      <4> QED BY <2>3, <2>5, <3>2, <4>1 DEF AskedOf
    <3>3. CASE i # j
      <4>1. /\ i \in t1.asking <=> i \in t.asking
            /\ i \in t1.receiving => i \in t.receiving
        BY <2>3, <3>3
      <4> QED BY <2>3, <2>5, <3>1, <4>1, AskedOther
    <3> QED BY <3>2, <3>3
  <2>7. Sound(t1)
    BY <2>3, <2>4, <2>5, <2>6 DEF Good, Sound, Counted, Deaths
  <2>8. Cardinality(t1.unanswered \ t1.receiving) <= t1.outstanding + 1
    <3>1. t1.unanswered \ t1.receiving
            \subseteq (t.unanswered \ t.receiving) \cup {j}
      BY <2>3
    <3> QED BY <1>1, <2>3, <3>1, OneMore DEF Good
  <2>9. j \in t1.unanswered \ t1.asking BY <1>2, <2>3
  <2>10. Good(r) /\ RunsOn(t1, r)
    BY <2>r, <2>7, <2>8, <2>9, QuestionJobKeeps
  <2> QED BY <2>3, <2>10 DEF RunsOn, r
<1> QED BY <1>3, <1>4

\* ppop_move()
LEMMA JobMovedKeeps ==
  ASSUME NEW t, Good(t), NEW j \in Jobs, NEW to \in Dests
  PROVE  LET r == JobMoved(t, j, to)
         IN  Good(r) /\ RunsOn(t, r)
<1>1. t \in Tables /\ Rows(t) BY DEF Good
<1>2. CASE ~ Queued(t, j)
  <2>1. JobMoved(t, j, to) = t BY <1>2 DEF JobMoved
  <2> QED BY <2>1 DEF RunsOn
<1>3. CASE Queued(t, j)
  <2> DEFINE des == [t.dest EXCEPT ![j] = to]
             mov == IF t.dest[j] # to /\ j \in t.asking
                      THEN t.moved \cup {j} ELSE t.moved
             r == [t EXCEPT !.dest = des, !.moved = mov]
  <2>1. des \in [Jobs -> Dests] /\ mov \subseteq Jobs
    BY <1>1 DEF Tables
  <2>2. JobMoved(t, j, to) = r BY <1>1, <1>3 DEF JobMoved, Tables
  <2>3. des[j] = to /\ \A i \in Jobs : i # j => des[i] = t.dest[i]
    BY <1>1 DEF Tables
  <2>4. t.moved \subseteq mov /\ mov \subseteq t.moved \cup {j} OBVIOUS
  <2>5. t.dest[j] # to /\ j \in t.asking => j \in mov OBVIOUS
  <2> HIDE DEF des, mov
  <2>6. /\ r \in Tables /\ r.outstanding = t.outstanding
        /\ r.queue = t.queue /\ r.dest = des
        /\ r.receiving = t.receiving /\ r.unanswered = t.unanswered
        /\ r.asking = t.asking /\ r.pid = t.pid /\ r.about = t.about
        /\ r.active = t.active /\ r.early = t.early /\ r.moved = mov
        /\ r.fatal = t.fatal
    BY <1>1, <2>1 DEF Tables
  <2> HIDE DEF r
  <2>7. Rows(r)
    <3>1. j \in t.unanswered BY <1>1, <1>3 DEF Rows
    <3> QED BY <1>1, <2>4, <2>6, <3>1 DEF Rows, Queued
  <2>8. Running(r) = Running(t) /\ \A i : About(r, i) = About(t, i)
    BY <2>6 DEF Running, About
  <2>9. AskedOnce(r)
    <3> SUFFICES ASSUME NEW i \in r.unanswered \ r.early
                 PROVE  AskedOf(r, i)
      BY DEF AskedOnce
    <3>1. AskedOf(t, i) /\ i \in Jobs
      BY <1>1, <2>6 DEF Good, AskedOnce, Rows
    <3>2. i \in t.moved => i \in r.moved BY <2>4, <2>6
    <3>3. CASE des[i] = t.dest[i]
      BY <2>6, <2>8, <3>1, <3>2, <3>3, AskedOther
    <3>4. CASE des[i] # t.dest[i]
      <4>1. i = j /\ t.dest[j] # to BY <2>3, <3>1, <3>4
      <4>2. ~ (i \in r.asking \ r.moved) BY <2>5, <2>6, <4>1
      <4> QED BY <2>6, <2>8, <3>1, <4>2 DEF AskedOf
    <3> QED BY <3>3, <3>4
  <2>10. CoversAll(r) /\ Counted(r) /\ Deaths(r)
    BY <2>6, <2>8 DEF Good, CoversAll, Counted, Deaths
  <2> QED BY <2>2, <2>6, <2>7, <2>9, <2>10 DEF Good, RunsOn
<1> QED BY <1>2, <1>3

\* question_child_hook() for a process that was running.
LEMMA ChildHookSound ==
  ASSUME NEW t, Good(t), NEW x \in Running(t), NEW ok \in BOOLEAN, NEW fail
  PROVE  LET r == ChildHook(t, x, ok, fail)
         IN  Good(r) /\ Running(t) \ {x} \subseteq Running(r)
<1>1. t \in Tables /\ Rows(t) BY DEF Good
<1>p. /\ x \in Slots /\ t.pid[x] = "running" /\ t.pid \in [Slots -> Pid]
      /\ t.about \in [Slots -> Jobs \X Dests]
  BY <1>1 DEF Running, Tables
<1> DEFINE j == t.about[x][1]
           found == Queued(t, j) /\ t.about[x][2] = t.dest[j]
           r == ChildHook(t, x, ok, fail)
<1>2. j \in Jobs /\ x \in About(t, j) /\ t.about[x] = <<j, t.about[x][2]>>
  BY <1>p DEF About
<1>3. CASE found /\ j \notin t.asking
  <2>1. r = [t EXCEPT !.fatal = "not asking"] BY <1>3 DEF ChildHook
  <2> HIDE DEF r
  <2>2. /\ r \in Tables /\ r.outstanding = t.outstanding
        /\ r.queue = t.queue /\ r.dest = t.dest
        /\ r.receiving = t.receiving /\ r.unanswered = t.unanswered
        /\ r.asking = t.asking /\ r.pid = t.pid /\ r.about = t.about
        /\ r.active = t.active /\ r.early = t.early /\ r.moved = t.moved
        /\ r.fatal = "not asking"
    BY <1>1, <2>1 DEF Tables
  <2>3. Rows(r)
    <3>1. Kept(t, r) BY <1>1, <2>1 DEF Kept, Tables
    <3> QED BY <1>1, <2>2, <3>1, RowsKept DEF Rows
  <2>4. AskedOnce(r) BY <2>2, AskedKept DEF Good
  <2>5. Running(r) = Running(t) BY <2>2 DEF Running
  <2>6. j \in t.early
    <3>1. j \in t.unanswered BY <1>1, <1>2, <1>3 DEF Rows
    <3> QED BY <1>2, <1>3, <3>1 DEF Good, AskedOnce, AskedOf
  <2>7. CoversAll(r) /\ Counted(r) /\ Deaths(r)
    BY <2>2, <2>5, <2>6 DEF Good, CoversAll, Counted, Deaths
  <2> QED BY <2>2, <2>3, <2>4, <2>5, <2>7 DEF Good, r
<1>4. CASE ~ (found /\ j \notin t.asking)
  <2> DEFINE wai == IF found
                      THEN [t.wait EXCEPT ![j] = IF ok THEN ResendDone
                                                 ELSE ResendFailed]
                      ELSE t.wait
             ask == IF found THEN t.asking \ {j} ELSE t.asking
             pid1 == [t.pid EXCEPT ![x] = "free"]
             about1 == [t.about EXCEPT ![x] = Nothing]
             n == t.active - 1
             t1 == [t EXCEPT !.wait = wai, !.asking = ask, !.pid = pid1,
                             !.about = about1, !.active = n]
  <2>r. r = LookForWork(t1, fail)
    <3> DEFINE q1 == IF found
                       THEN [t EXCEPT !.wait[j] = IF ok THEN ResendDone
                                                        ELSE ResendFailed,
                                      !.asking  = @ \ {j}]
                       ELSE t
               t2 == [q1 EXCEPT !.pid[x] = "free", !.about[x] = Nothing,
                                !.active = @ - 1]
    <3>1. r = LookForWork(t2, fail) BY <1>4 DEF ChildHook
    <3>2. t2 = t1
      <4>1. CASE found BY <1>1, <4>1 DEF Tables
      <4>2. CASE ~ found BY <1>1, <4>2 DEF Tables
      <4> QED BY <4>1, <4>2
    <3> QED BY <3>1, <3>2
  <2>1. pid1 \in [Slots -> Pid] BY <1>p DEF Pid
  <2>2. about1 \in [Slots -> Jobs \X Dests]
    <3>1. Nothing \in Jobs \X Dests BY QuestionsAssumption DEF Nothing
    <3> QED BY <1>p, <3>1
  <2>3. wai \in [Jobs -> Nat] /\ ask \subseteq t.asking
    BY <1>1, <1>2, QuestionsAssumption DEF Tables
  <2>4. /\ found => ask = t.asking \ {j}
        /\ ~ found => ask = t.asking
        /\ \A i : i # j => (i \in ask <=> i \in t.asking)
    OBVIOUS
  <2>5. pid1[x] = "free" /\ \A y \in Slots : y # x => pid1[y] = t.pid[y]
    BY <1>p
  <2>6. \A y \in Slots : y # x => about1[y] = t.about[y]
    BY <1>p
  <2>7. n = Cardinality(Running(t) \ {x}) /\ n \in Nat
    <3>1. IsFiniteSet(Running(t)) BY SlotsFinite
    <3>2. /\ IsFiniteSet(Running(t) \ {x})
          /\ Cardinality(Running(t) \ {x}) = Cardinality(Running(t)) - 1
      BY <3>1, FS_RemoveElement
    <3>3. Cardinality(Running(t) \ {x}) \in Nat BY <3>2, FS_CardinalityType
    <3> QED BY <3>2, <3>3 DEF Good, Counted
  <2> HIDE DEF wai, ask, pid1, about1, n, r, found, j
  <2>a. t.asking \subseteq Jobs BY <1>1 DEF Tables
  <2>b. ask \subseteq Jobs BY <2>3, <2>a
  <2>8. /\ t1 \in Tables /\ t1.outstanding = t.outstanding
        /\ t1.queue = t.queue /\ t1.dest = t.dest
        /\ t1.receiving = t.receiving /\ t1.unanswered = t.unanswered
        /\ t1.asking = ask /\ t1.pid = pid1 /\ t1.about = about1
        /\ t1.active = n /\ t1.early = t.early /\ t1.moved = t.moved
        /\ t1.fatal = t.fatal
    BY <1>1, <2>1, <2>2, <2>3, <2>b, <2>7 DEF Tables
  <2> HIDE DEF t1
  <2>9. Rows(t1)
    BY <1>1, <2>3, <2>8 DEF Rows, Queued
  <2>10. Running(t1) = Running(t) \ {x}
    BY <2>5, <2>8 DEF Running
  <2>11. \A i : About(t1, i) = About(t, i) \ {x}
    <3>1. \A y \in Running(t) \ {x} : t1.about[y] = t.about[y]
      BY <2>6, <2>8 DEF Running
    <3> QED BY <2>10, <3>1 DEF About
  <2>12. \A y \in Running(t) \ {x} : t1.about[y] = t.about[y]
    BY <2>6, <2>8 DEF Running
  <2>13. AskedOnce(t1)
    <3> SUFFICES ASSUME NEW i \in t1.unanswered \ t1.early
                 PROVE  AskedOf(t1, i)
      BY DEF AskedOnce
    <3>1. AskedOf(t, i) /\ i \in t.unanswered
      BY <2>8 DEF Good, AskedOnce
    <3>2. CASE i # j
      <4>1. x \notin About(t, i) BY <3>2 DEF About, j
      <4>2. About(t1, i) = About(t, i) BY <2>11, <4>1
      <4>3. \A y \in About(t, i) : t1.about[y] = t.about[y]
        BY <2>12, <4>1 DEF About
      <4>4. i \in t1.asking <=> i \in t.asking BY <2>4, <2>8, <3>2
      <4> QED BY <2>8, <3>1, <4>2, <4>3, <4>4, AskedOther
    <3>3. CASE i = j
      <4>1. About(t1, j) = {}
        <5>1. \A y \in About(t, j) : y = x BY <1>2, <3>1, <3>3 DEF AskedOf
        <5> QED BY <2>11, <5>1
      <4>2. ~ (j \in t1.asking \ t1.moved)
        <5>1. CASE found BY <2>4, <2>8, <5>1
        <5>2. CASE ~ found
          <6>1. Queued(t, j) BY <1>1, <3>1, <3>3 DEF Rows
          <6>2. t.about[x][2] # t.dest[j] BY <5>2, <6>1 DEF found, j
          <6>3. ~ \E y \in About(t, j) : t.about[y] = <<j, t.dest[j]>>
            BY <1>2, <3>1, <3>3, <6>2 DEF AskedOf
          <6>4. j \notin t.asking \ t.moved
            BY <3>1, <3>3, <6>3 DEF AskedOf
          <6> QED BY <2>4, <2>8, <5>2, <6>4
        <5> QED BY <5>1, <5>2
      <4> QED BY <3>3, <4>1, <4>2 DEF AskedOf
    <3> QED BY <3>2, <3>3
  <2>14. Counted(t1) /\ CoversAll(t1)
    BY <2>7, <2>8, <2>10 DEF Good, Counted, CoversAll
  <2>15. Deaths(t1)
    BY <1>p, <2>5, <2>8 DEF Good, Deaths
  <2>16. Good(t1) BY <2>8, <2>9, <2>13, <2>14, <2>15 DEF Good
  <2>17. Good(r) /\ RunsOn(t1, r) BY <2>r, <2>16, LookForWorkKeeps
  <2>18. Running(t1) \subseteq Running(r)
    BY <2>17 DEF RunsOn, Running
  <2> QED BY <2>10, <2>17, <2>18 DEF r
<1> QED BY <1>3, <1>4

---------------------------------------------------------------------------
(* The loop and the tables *)

\* One command.
LEMMA ObeyedKeeps ==
  ASSUME NEW t, Good(t), NEW fail, NEW r \in Obeyed(t, fail)
  PROVE  Good(r) /\ RunsOn(t, r)
<1>1. ASSUME NEW j \in Jobs, ~ Queued(t, j),
             \A x \in Slots : t.pid[x] = "running" => t.about[x][1] # j,
             r = NewJob(t, j, fail)
      PROVE  Good(r) /\ RunsOn(t, r)
  <2>1. About(t, j) = {} BY <1>1 DEF About, Running
  <2> QED BY <1>1, <2>1, NewJobKeeps
<1>2. ASSUME NEW j \in t.receiving, r = JobReceived(t, j, fail)
      PROVE  Good(r) /\ RunsOn(t, r)
  BY <1>2, JobReceivedKeeps
<1>3. ASSUME NEW j \in Jobs, r = QuestionOn(t, j, fail)
      PROVE  Good(r) /\ RunsOn(t, r)
  BY <1>3, QuestionOnKeeps
<1>4. ASSUME NEW j \in Jobs, NEW to \in Dests, r = JobMoved(t, j, to)
      PROVE  Good(r) /\ RunsOn(t, r)
  BY <1>4, JobMovedKeeps
<1> QED BY <1>1, <1>2, <1>3, <1>4, LoopAssumption DEF Obeyed

\* A block of commands, obeyed one after the other, as long as pprd lives.
ObeyEach(X, fail) ==
  UNION {IF t.fatal = "no" THEN Obeyed(t, fail) ELSE {t} : t \in X}
ObeyTo(t, fail, m, f) ==
  f = [n \in 0 .. m |-> IF n = 0 THEN {t} ELSE ObeyEach(f[n - 1], fail)]

\* The recursion is well defined.
LEMMA ObeyExists ==
  ASSUME NEW t, NEW fail
  PROVE  \A m \in Nat : \E f : ObeyTo(t, fail, m, f)
<1> DEFINE S == {m \in Nat : \E f : ObeyTo(t, fail, m, f)}
           start == {t}
           next(X) == ObeyEach(X, fail)
<1>1. 0 \in S
  <2> DEFINE f == [n \in 0 .. 0 |-> IF n = 0 THEN start ELSE start]
  <2>1. f = [n \in 0 .. 0 |-> IF n = 0 THEN start ELSE next(f[n - 1])]
    <3>1. \A n \in 0 .. 0 : n = 0 OBVIOUS
    <3> HIDE DEF start, next
    <3> QED BY <3>1
  <2>2. ObeyTo(t, fail, 0, f) BY <2>1 DEF ObeyTo
  <2> QED BY <2>2
<1>2. \A m \in Nat : m \in S => m + 1 \in S
  <2> TAKE m \in Nat
  <2> HAVE m \in S
  <2>1. PICK f : ObeyTo(t, fail, m, f) OBVIOUS
  <2> DEFINE g == [n \in 0 .. m + 1 |-> IF n = 0 THEN start ELSE next(f[n - 1])]
  <2> HIDE DEF start, next
  <2>2. f = [n \in 0 .. m |-> IF n = 0 THEN start ELSE next(f[n - 1])]
    BY <2>1 DEF ObeyTo, start, next
  <2>3. \A n \in 0 .. m : g[n] = f[n] BY <2>2
  <2>4. \A n \in 0 .. m + 1 : n # 0 => n - 1 \in 0 .. m OBVIOUS
  <2>5. \A n \in 0 .. m + 1 : n # 0 => g[n - 1] = f[n - 1] BY <2>3, <2>4
  <2>6. g = [n \in 0 .. m + 1 |-> IF n = 0 THEN start ELSE next(g[n - 1])]
    BY <2>5
  <2> HIDE DEF g
  <2>7. ObeyTo(t, fail, m + 1, g) BY <2>6 DEF ObeyTo, start, next
  <2> QED BY <2>7
<1> HIDE DEF S
<1>3. Nat \subseteq S BY <1>1, <1>2, Induction
<1> QED BY <1>3 DEF S

\* A block of commands keeps the tables sound, by induction.
LEMMA ObeyKeeps ==
  ASSUME NEW t, Good(t), NEW fail, NEW m \in Nat, NEW f, ObeyTo(t, fail, m, f)
  PROVE  \A r \in f[m] : Good(r) /\ RunsOn(t, r)
<1> DEFINE S == {n \in Nat : n <= m =>
                               \A r \in f[n] : Good(r) /\ RunsOn(t, r)}
<1>1. 0 \in S
  <2>1. 0 \in 0 .. m OBVIOUS
  <2>2. f[0] = {t} BY <2>1 DEF ObeyTo
  <2>3. RunsOn(t, t) BY DEF RunsOn
  <2> QED BY <2>2, <2>3
<1>2. \A n \in Nat : n \in S => n + 1 \in S
  <2> TAKE n \in Nat
  <2> HAVE n \in S
  <2> SUFFICES ASSUME n + 1 <= m, NEW r \in f[n + 1]
               PROVE  Good(r) /\ RunsOn(t, r)
    OBVIOUS
  <2>1. n + 1 \in 0 .. m /\ n + 1 # 0 /\ (n + 1) - 1 = n /\ n <= m OBVIOUS
  <2>2. \A s \in f[n] : Good(s) /\ RunsOn(t, s) BY <2>1
  <2>3. f[n + 1] = ObeyEach(f[n], fail) BY <2>1 DEF ObeyTo
  <2> HIDE DEF S
  <2>4. PICK s \in f[n] : r \in (IF s.fatal = "no" THEN Obeyed(s, fail) ELSE {s})
    BY <2>3 DEF ObeyEach
  <2>5. Good(s) /\ RunsOn(t, s) BY <2>2, <2>4
  <2>6. CASE s.fatal = "no"
    <3>1. Good(r) /\ RunsOn(s, r) BY <2>4, <2>5, <2>6, ObeyedKeeps
    <3> QED BY <2>5, <3>1 DEF RunsOn
  <2>7. CASE s.fatal # "no" BY <2>4, <2>5, <2>7
  <2> QED BY <2>6, <2>7
<1> HIDE DEF S
<1>3. Nat \subseteq S BY <1>1, <1>2, Induction
<1> QED BY <1>3 DEF S

\* The tables are sound, the children that have died had been running, and
\* pprd does not live on after a failed assertion.
TablesInv ==
  /\ Good(q)
  /\ zombies \subseteq Running(q)
  /\ at # "down" => q.fatal = "no"

\* Nothing but reapchild() frees a slot in use.
LEMMA ZombiesKept ==
  ASSUME TablesInv, RunsOn(q, q'), zombies' \subseteq zombies
  PROVE  zombies' \subseteq Running(q')
BY DEF TablesInv, RunsOn, Running

\* do_fifo_command() keeps the invariant.
LEMMA FifoKeeps ==
  ASSUME Signals, TablesInv, DoFifoCommand
  PROVE  TablesInv'
<1>1. zombies' = zombies /\ (at' # "down" => q'.fatal = "no")
  BY DEF DoFifoCommand, Continue
<1>2. Good(q') /\ RunsOn(q, q')
  <2>1. CASE fifo > Fits
    BY <2>1 DEF DoFifoCommand, TablesInv, RunsOn
  <2>2. CASE ~ (fifo > Fits)
    <3>0. fifo \in Nat BY LoopAssumption DEF Signals
    <3>1. PICK fail \in ForkMayFail :
            LET obeyed[n \in 0 .. fifo] ==
                  IF n = 0 THEN {q}
                  ELSE UNION {IF t.fatal = "no" THEN Obeyed(t, fail)
                              ELSE {t} : t \in obeyed[n - 1]}
            IN  q' \in obeyed[fifo]
      BY <2>2 DEF DoFifoCommand
    <3> DEFINE f == CHOOSE g : ObeyTo(q, fail, fifo, g)
    <3>2. ObeyTo(q, fail, fifo, f) BY <3>0, ObeyExists
    <3>3. q' \in f[fifo] BY <3>1 DEF ObeyTo, ObeyEach
    <3> HIDE DEF f
    <3> QED BY <3>0, <3>2, <3>3, ObeyKeeps DEF TablesInv
  <2> QED BY <2>1, <2>2
<1> QED BY <1>1, <1>2, ZombiesKept DEF TablesInv

\* Every step of pprd and of the world keeps the invariant.
LEMMA TablesStep ==
  ASSUME Signals, TablesInv, LNext
  PROVE  TablesInv'
<1>0. Good(q) /\ RunsOn(q, q) BY DEF TablesInv, RunsOn
<1>1. ASSUME UNCHANGED <<q, zombies>>, at' = "down" \/ at # "down"
      PROVE  TablesInv'
  <2>1. Running(q') = Running(q) BY <1>1 DEF Running
  <2> QED BY <1>1, <2>1 DEF TablesInv
<1>2. ASSUME zombies' = zombies, Good(q'), RunsOn(q, q'),
             at' # "down" => q'.fatal = "no"
      PROVE  TablesInv'
  BY <1>2, ZombiesKept DEF TablesInv
<1>3. CASE Top BY <1>1, <1>3 DEF Top
<1>4. CASE Select BY <1>1, <1>4 DEF Select
<1>5. CASE DoFifoCommand BY <1>5, FifoKeeps
<1>6. CASE DoSocketCommand BY <1>1, <1>6 DEF DoSocketCommand
<1>7. CASE SocketCommandRead
  <2>1. Good(q') /\ RunsOn(q, q')
    <3>1. CASE UNCHANGED q BY <1>0, <3>1
    <3>2. ASSUME NEW j \in Jobs, Queued(q, j), q' = JobGone(q, j)
          PROVE  Good(q') /\ RunsOn(q, q')
      <4>1. q.fatal = "no" BY <1>7 DEF SocketCommandRead, TablesInv
      <4> QED BY <1>0, <3>2, <4>1, JobGoneKeeps
    <3> QED BY <1>7, <3>1, <3>2 DEF SocketCommandRead
  <2> QED BY <1>2, <1>7, <2>1 DEF SocketCommandRead, Continue
<1>8. CASE ListenerHook BY <1>1, <1>8 DEF ListenerHook
<1>9. CASE StartReap BY <1>1, <1>9 DEF StartReap
<1>10. ASSUME NEW c \in Slots, ReapChild(c) PROVE TablesInv'
  <2>1. PICK ok \in BOOLEAN, fail \in ForkMayFail :
          q' = ChildHook(q, c, ok, fail)
    BY <1>10 DEF ReapChild
  <2>2. c \in Running(q) BY <1>10 DEF ReapChild, TablesInv
  <2>3. Good(q') /\ Running(q) \ {c} \subseteq Running(q')
    BY <1>0, <2>1, <2>2, ChildHookSound
  <2> QED BY <1>10, <2>3 DEF ReapChild, TablesInv
<1>11. CASE ReapDone BY <1>1, <1>11 DEF ReapDone
<1>12. CASE Tick
  <2>1. PICK fail \in ForkMayFail : q' = QuestionTick(q, fail)
    BY <1>12 DEF Tick
  <2>2. Good(q') /\ RunsOn(q, q') BY <1>0, <2>1, TickKeeps
  <2> QED BY <1>2, <1>12, <2>2 DEF Tick, Continue
<1>13. CASE Interrupted BY <1>1, <1>13 DEF Interrupted
<1>14. CASE Elapse
  <2>1. q' = Later(q) /\ zombies' = zombies /\ at' = at /\ at # "down"
    BY <1>14 DEF Elapse
  <2>2. Good(q') /\ RunsOn(q, q') BY <1>0, <2>1, LaterKeeps
  <2>3. q'.fatal = q.fatal BY <1>0, <2>1 DEF Later, Good, Tables
  <2> QED BY <1>2, <2>1, <2>2, <2>3 DEF TablesInv
<1>15. ASSUME NEW c \in Slots, ChildDies(c) PROVE TablesInv'
  <2>1. /\ q' = q /\ zombies' = zombies \cup {c} /\ at # "down"
        /\ c \in Running(q)
    BY <1>15 DEF ChildDies, Children, Running
  <2> QED BY <2>1 DEF TablesInv
<1>16. CASE Terminate BY <1>1, <1>16 DEF Terminate
<1>17. CASE Writes BY <1>1, <1>17 DEF Writes
<1>18. CASE Connects BY <1>1, <1>18 DEF Connects
<1>19. CASE CallFails BY <1>1, <1>19 DEF CallFails
<1> QED BY <1>3, <1>4, <1>5, <1>6, <1>7, <1>8, <1>9, <1>10, <1>11, <1>12,
           <1>13, <1>14, <1>15, <1>16, <1>17, <1>18, <1>19
  DEF LNext, Loop

\* The tables keep their invariant.
LEMMA TablesKeepInv == LSpec => [](LoopInv /\ TablesInv)
<1>1. LInit => TablesInv
  <2> SUFFICES ASSUME LInit PROVE TablesInv OBVIOUS
  <2> DEFINE t == InitTables
  <2>q. q = t /\ zombies = {} BY DEF LInit
  <2>1. t \in Tables
    <3>1. Nothing \in Jobs \X Dests BY QuestionsAssumption DEF Nothing
    <3>2. << >> \in Seq(Jobs) OBVIOUS
    <3> QED BY <3>1, <3>2, QuestionsAssumption DEF InitTables, Tables, Pid
  <2>2. /\ t.queue = << >> /\ t.unanswered = {} /\ t.asking = {}
        /\ t.receiving = {} /\ t.early = {} /\ t.moved = {}
        /\ t.pid = [x \in Slots |-> "free"]
        /\ t.active = 0 /\ t.outstanding = 0 /\ t.fatal = "no"
    BY DEF InitTables
  <2> HIDE DEF t
  <2>3. DOMAIN t.queue = {} BY <2>2
  <2>4. Rows(t) BY <2>2, <2>3 DEF Rows, Queued
  <2>5. Running(t) = {} BY <2>2 DEF Running
  <2>6. Counted(t) BY <2>2, <2>5, FS_EmptySet DEF Counted
  <2>7. CoversAll(t)
    <3>1. t.unanswered \ t.receiving = {} BY <2>2
    <3> QED BY <2>2, <3>1, FS_EmptySet DEF CoversAll
  <2>8. AskedOnce(t) BY <2>2 DEF AskedOnce
  <2>9. Deaths(t) BY <2>2 DEF Deaths
  <2> QED BY <2>q, <2>1, <2>2, <2>4, <2>6, <2>7, <2>8, <2>9 DEF TablesInv, Good
<1>2. LoopInv /\ TablesInv /\ [LNext]_vars => TablesInv'
  <2> SUFFICES ASSUME LoopInv, TablesInv, [LNext]_vars PROVE TablesInv'
    OBVIOUS
  <2>1. CASE LNext BY <2>1, TablesStep DEF LoopInv
  <2>2. CASE UNCHANGED vars
    <3>1. q' = q /\ zombies' = zombies /\ at' = at BY <2>2 DEF vars
    <3>2. Running(q') = Running(q) BY <3>1
    <3> QED BY <3>1, <3>2 DEF TablesInv
  <2> QED BY <2>1, <2>2
<1> QED BY <1>1, <1>2, LoopKeepsInv, PTL DEF LSpec

\* The loop and the tables of the questions keep their types; what has died
\* was a child, and active_questions never falls below zero.
THEOREM LoopTypes == LSpec => []LTypeOK
<1>1. LoopInv /\ TablesInv => LTypeOK
  <2> SUFFICES ASSUME LoopInv, TablesInv PROVE LTypeOK OBVIOUS
  <2>1. q \in Tables BY DEF TablesInv, Good
  <2>2. zombies \subseteq Children
    BY DEF TablesInv, Running, Children
  <2>3. left \in -MaxLate .. TickInterval
    BY LoopAssumption DEF LoopInv, Signals
  <2>4. {caught, zeroed, pending, term} \subseteq BOOLEAN
    BY DEF LoopInv, Signals
  <2> QED BY <2>1, <2>2, <2>3, <2>4 DEF LTypeOK, LoopInv, Signals
<1> QED BY <1>1, TablesKeepInv, PTL

\* The assertions of pprd_question.c fail only after a fork() has failed or a
\* job has been asked about while it was being received.
THEOREM DeathsAreExplained == LSpec => []KnownDeaths
<1>1. TablesInv => KnownDeaths BY DEF TablesInv, Good, Deaths, KnownDeaths
<1> QED BY <1>1, TablesKeepInv, PTL

\* A user is asked by one process exactly when the job says so, if the job
\* was neither moved nor asked about too early.
THEOREM AskedByOne == LSpec => []OneAsker
<1>1. TablesInv => OneAsker
  <2> SUFFICES ASSUME TablesInv, NEW i \in DOMAIN q.queue,
                      q.queue[i] \notin q.early \cup q.moved
               PROVE  LET j == q.queue[i]
                      IN  Cardinality(Askers(q, j)) =
                            IF j \in q.asking THEN 1 ELSE 0
    BY DEF OneAsker
  <2> DEFINE j == q.queue[i]
  <2>1. q \in Tables /\ Rows(q) /\ AskedOnce(q) BY DEF TablesInv, Good
  <2>2. j \in Jobs BY <2>1, QueueType
  <2>3. j \in q.unanswered BY <2>1, <2>2 DEF Rows, Queued
  <2>4. AskedOf(q, j) BY <2>1, <2>3 DEF AskedOnce
  <2>5. Askers(q, j) = {x \in About(q, j) : q.about[x] = <<j, q.dest[j]>>}
    BY DEF Askers, About, Running
  <2>6. CASE j \notin q.asking
    <3>1. Askers(q, j) = {} BY <2>4, <2>5, <2>6 DEF AskedOf
    <3> QED BY <2>6, <3>1, FS_EmptySet
  <2>7. CASE j \in q.asking
    <3>1. PICK x \in About(q, j) : q.about[x] = <<j, q.dest[j]>>
      BY <2>4, <2>7 DEF AskedOf
    <3>2. Askers(q, j) = {x} BY <2>4, <2>5, <3>1 DEF AskedOf
    <3> QED BY <2>7, <3>2, FS_Singleton
  <2> QED BY <2>6, <2>7
<1> QED BY <1>1, TablesKeepInv, PTL

\* outstanding_questions is never too small, so the scan that it cuts short
\* leaves out no question that has been announced.
THEOREM QuestionsAreCovered == LSpec => []OutstandingCovers
<1>1. TablesInv => OutstandingCovers
  BY DEF TablesInv, Good, CoversAll, OutstandingCovers
<1> QED BY <1>1, TablesKeepInv, PTL

\* A tick asks every question whose time has come, as far as the limits and
\* the fork()s allow.
THEOREM TicksAsk == LSpec => TickAsks
<1> DEFINE A == left' > left /\ q'.fatal = "no" =>
        \/ q'.active = MaxQuestions \/ q'.launches >= MaxLaunches
        \/ \E x \in Slots : q'.pid[x] = "failed" /\ q.pid[x] # "failed"
        \/ q.receiving # {}
        \/ \A j \in q.unanswered : j \in q'.asking \/ q.wait[j] > 0
<1>1. LoopInv /\ TablesInv /\ [LNext]_vars => [A]_vars
  <2> SUFFICES ASSUME LoopInv, TablesInv, LNext, left' > left PROVE A
    OBVIOUS
  <2>1. left \in Int BY DEF LoopInv, Signals
  <2>2. CASE Tick
    <3>1. PICK fail \in ForkMayFail : q' = QuestionTick(q, fail)
      BY <2>2 DEF Tick
    <3> SUFFICES ASSUME q'.fatal = "no", q'.active # MaxQuestions,
                        ~ (q'.launches >= MaxLaunches), ~ Failure(q, q'),
                        q.receiving = {}, NEW j \in q.unanswered
                 PROVE  j \in q'.asking \/ q.wait[j] > 0
      BY DEF Failure
    <3>2. Good(q) BY DEF TablesInv
    <3>3. q' \in Tables BY <3>1, <3>2, TickKeeps DEF Good
    <3>4. q'.launches < MaxLaunches
      <4>1. q'.launches \in Nat BY <3>3 DEF Tables
      <4> QED BY <4>1, QuestionsAssumption
    <3> QED BY <3>1, <3>2, <3>4, TickAsksDue
  <2>3. CASE ~ Tick
    <3>1. left' = left \/ left' = left - 1
      BY <2>3 DEF LNext, Loop, Top, Select, DoFifoCommand, DoSocketCommand,
             SocketCommandRead, ListenerHook, StartReap, ReapChild, ReapDone,
             Interrupted, CallFails, Elapse, ChildDies, Terminate, Writes,
             Connects
    <3> QED BY <2>1, <3>1
  <2> QED BY <2>2, <2>3
<1> QED BY <1>1, TablesKeepInv, PTL DEF LSpec, TickAsks
===========================================================================
