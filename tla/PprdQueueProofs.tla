-------------------------- MODULE PprdQueueProofs --------------------------
(***************************************************************************)
(* Proofs that the queue array, the spool files, the job counts and the    *)
(* media masks agree with one another, and that the queue is worked off:   *)
(* jobs are given up only when every printer has refused them, and no      *)
(* printer is left idle beside a job it could print.  All is for any       *)
(* number of printers, groups and jobs.  Some theorems hold only for       *)
(* installations that never use certain features together, or not some     *)
(* commands: their hypotheses name them.                                   *)
(***************************************************************************)
EXTENDS PprdSteps

USE DEF PRNSTATUS_IDLE, PRNSTATUS_PRINTING, PRNSTATUS_CANCELING,
        PRNSTATUS_SEIZING, PRNSTATUS_FAULT, PRNSTATUS_ENGAGED,
        PRNSTATUS_STARVED, PRNSTATUS_STOPT, PRNSTATUS_STOPPING,
        PRNSTATUS_HALTING, PrnStatus, Busy,
        STATUS_WAITING, STATUS_HELD, STATUS_WAITING4MEDIA, STATUS_ARRESTED,
        STATUS_CANCEL, STATUS_SEIZING, STATUS_STRANDED, STATUS_RECEIVING,
        STATUS_NONE, NoJob

---------------------------------------------------------------------------
(* Positions in the queue array *)

\* What is where after an insertion.
LEMMA InsertAt ==
  ASSUME NEW q \in Seq(Jobs), NEW n \in 1 .. Len(q) + 1, NEW j \in Jobs,
         NEW r, r = Insert(q, n, j)
  PROVE  /\ Len(q) \in Nat /\ DOMAIN q = 1 .. Len(q)
         /\ DOMAIN r = 1 .. Len(q) + 1
         /\ \A i \in 1 .. Len(q) + 1 :
              /\ i < n => r[i] = q[i]
              /\ i = n => r[i] = j
              /\ i > n => r[i] = q[i - 1]
PROOF
<1> DEFINE a == SubSeq(q, 1, n - 1)
           b == <<j>>
           c == SubSeq(q, n, Len(q))
           u == a \o b
<1>1. Len(q) \in Nat /\ DOMAIN q = 1 .. Len(q)
  BY LenProperties
<1>2. /\ a \in Seq(Jobs) /\ Len(a) = n - 1
      /\ \A i \in 1 .. n - 1 : a[i] = q[i]
  BY <1>1, SubSeqProperties
<1>3. /\ c \in Seq(Jobs) /\ Len(c) = Len(q) - n + 1
      /\ \A i \in 1 .. Len(q) - n + 1 : c[i] = q[n + i - 1]
  BY <1>1, SubSeqProperties
<1>4. b \in Seq(Jobs) /\ Len(b) = 1 /\ b[1] = j
  OBVIOUS
<1>5. r = u \o c
  BY DEF Insert
<1> HIDE DEF a, b, c
<1>6. /\ u \in Seq(Jobs) /\ Len(u) = n
      /\ \A i \in 1 .. n : u[i] = IF i <= n - 1 THEN a[i] ELSE b[i - (n - 1)]
  <2>1. /\ u \in Seq(Jobs) /\ Len(u) = Len(a) + Len(b)
        /\ \A i \in 1 .. Len(a) + Len(b) :
             u[i] = IF i <= Len(a) THEN a[i] ELSE b[i - Len(a)]
    BY <1>2, <1>4, ConcatProperties, Zenon
  <2> HIDE DEF u
  <2> QED
    BY <1>1, <1>2, <1>4, <2>1
<1> HIDE DEF u
<1>7. /\ r \in Seq(Jobs) /\ Len(r) = Len(q) + 1
      /\ \A i \in 1 .. Len(q) + 1 : r[i] = IF i <= n THEN u[i] ELSE c[i - n]
  <2>1. /\ r \in Seq(Jobs) /\ Len(r) = Len(u) + Len(c)
        /\ \A i \in 1 .. Len(u) + Len(c) :
             r[i] = IF i <= Len(u) THEN u[i] ELSE c[i - Len(u)]
    BY <1>3, <1>5, <1>6, ConcatProperties
  <2> QED
    BY <1>1, <1>3, <1>6, <2>1
<1>8. ASSUME NEW i \in 1 .. Len(q) + 1
      PROVE  /\ i < n => r[i] = q[i]
             /\ i = n => r[i] = j
             /\ i > n => r[i] = q[i - 1]
  <2>1. CASE i < n
    BY <1>1, <1>2, <1>6, <1>7, <2>1
  <2>2. CASE i = n
    <3>1. n - (n - 1) = 1 /\ ~ (n <= n - 1) /\ n \in 1 .. n
      BY <1>1
    <3>2. u[n] = j
      BY <1>4, <1>6, <3>1
    <3> QED
      BY <1>7, <2>2, <3>2
  <2>3. CASE i > n
    <3>1. i - n \in 1 .. Len(q) - n + 1 /\ n + (i - n) - 1 = i - 1
      BY <1>1, <2>3
    <3>2. ~ (i <= n) /\ ~ (i < n) /\ i # n
      BY <1>1, <2>3
    <3>3. r[i] = c[i - n]
      BY <1>7, <3>2
    <3>4. c[i - n] = q[i - 1]
      <4>1. c[i - n] = q[n + (i - n) - 1]
        BY <1>3, <3>1
      <4> QED
        BY <3>1, <4>1
    <3> QED
      BY <3>2, <3>3, <3>4
  <2> QED
    BY <1>1, <2>1, <2>2, <2>3
<1>9. DOMAIN r = 1 .. Len(q) + 1
  BY <1>7, LenProperties
<1> QED
  BY <1>1, <1>8, <1>9

\* r is q without its entry at n.
ClosedUp(q, r, n) ==
  /\ r \in Seq(Jobs)
  /\ Len(q) \in Nat \ {0} /\ DOMAIN q = 1 .. Len(q)
  /\ Len(r) = Len(q) - 1 /\ DOMAIN r = 1 .. Len(q) - 1
  /\ \A i \in 1 .. Len(q) - 1 :
       /\ i < n => r[i] = q[i]
       /\ i >= n => r[i] = q[i + 1]

\* What is where after a removal.
LEMMA RemoveAt ==
  ASSUME NEW q \in Seq(Jobs), NEW j \in Jobs, \E i \in DOMAIN q : q[i] = j,
         NEW r, r = Remove(q, j)
  PROVE  \E n \in 1 .. Len(q) : q[n] = j /\ ClosedUp(q, r, n)
PROOF
<1> DEFINE n == CHOOSE i \in DOMAIN q : q[i] = j
           a == SubSeq(q, 1, n - 1)
           c == SubSeq(q, n + 1, Len(q))
<1>1. Len(q) \in Nat /\ DOMAIN q = 1 .. Len(q)
  BY LenProperties
<1>2. n \in 1 .. Len(q) /\ q[n] = j
  BY <1>1
<1>3. r = a \o c
  BY DEF Remove
<1> HIDE DEF n
<1>4. /\ a \in Seq(Jobs) /\ Len(a) = n - 1
      /\ \A i \in 1 .. n - 1 : a[i] = q[i]
  BY <1>1, <1>2, SubSeqProperties
<1>5. /\ c \in Seq(Jobs) /\ Len(c) = Len(q) - n
      /\ \A i \in 1 .. Len(q) - n : c[i] = q[n + i]
  <2>1. n + 1 \in 1 .. Len(q) + 1
    BY <1>1, <1>2
  <2>2. /\ c \in Seq(Jobs)
        /\ Len(c) = IF n + 1 <= Len(q) THEN Len(q) - (n + 1) + 1 ELSE 0
        /\ \A i \in 1 .. Len(q) - (n + 1) + 1 : c[i] = q[(n + 1) + i - 1]
    BY <1>1, <1>2, <2>1, SubSeqProperties
  <2> HIDE DEF c
  <2>3. Len(c) = Len(q) - n
    <3>1. CASE n + 1 <= Len(q)
      <4>1. Len(q) - (n + 1) + 1 = Len(q) - n
        BY <1>1, <1>2
      <4> QED
        BY <2>2, <3>1, <4>1
    <3>2. CASE ~ (n + 1 <= Len(q))
      <4> DEFINE l == Len(q)
      <4>0. l \in Nat /\ n \in 1 .. l /\ ~ (n + 1 <= l)
        BY <1>1, <1>2, <3>2
      <4>1. Len(q) - n = 0
        <5>1. l - n = 0
          <6> HIDE DEF l
          <6> QED
            BY <4>0
        <5> QED
          BY <5>1
      <4>2. Len(c) = 0
        BY <2>2, <3>2, Zenon
      <4> QED
        BY <4>1, <4>2
    <3> QED
      BY <3>1, <3>2
  <2>4. ASSUME NEW i \in 1 .. Len(q) - n
        PROVE  c[i] = q[n + i]
    <3>1. i \in 1 .. Len(q) - (n + 1) + 1 /\ (n + 1) + i - 1 = n + i
      BY <1>1, <1>2
    <3> QED
      BY <2>2, <3>1
  <2> QED
    BY <2>2, <2>3, <2>4
<1> HIDE DEF a, c
<1>6. /\ r \in Seq(Jobs) /\ Len(r) = Len(q) - 1
      /\ \A i \in 1 .. Len(q) - 1 :
           r[i] = IF i <= n - 1 THEN a[i] ELSE c[i - (n - 1)]
  <2> DEFINE x == a \o c
  <2>0. /\ x \in Seq(Jobs) /\ Len(x) = Len(a) + Len(c)
        /\ \A i \in 1 .. Len(a) + Len(c) :
             x[i] = IF i <= Len(a) THEN a[i] ELSE c[i - Len(a)]
    BY <1>4, <1>5, ConcatProperties, Zenon
  <2> HIDE DEF x
  <2>1. /\ r \in Seq(Jobs) /\ Len(r) = Len(a) + Len(c)
        /\ \A i \in 1 .. Len(a) + Len(c) :
             r[i] = IF i <= Len(a) THEN a[i] ELSE c[i - Len(a)]
    BY <1>3, <2>0 DEF x
  <2> QED
    BY <1>1, <1>2, <1>4, <1>5, <2>1
<1>7. ASSUME NEW i \in 1 .. Len(q) - 1
      PROVE  /\ i < n => r[i] = q[i]
             /\ i >= n => r[i] = q[i + 1]
  <2>1. CASE i < n
    BY <1>1, <1>2, <1>4, <1>6, <2>1
  <2>2. CASE i >= n
    <3>1. /\ i - (n - 1) \in 1 .. Len(q) - n /\ n + (i - (n - 1)) = i + 1
          /\ ~ (i <= n - 1) /\ ~ (i < n)
      BY <1>1, <1>2, <2>2
    <3> QED
      BY <1>5, <1>6, <2>2, <3>1
  <2>3. i \in Nat /\ n \in Nat /\ (i < n \/ i >= n) /\ ~ (i < n /\ i >= n)
    BY <1>1, <1>2
  <2> QED
    BY <2>1, <2>2, <2>3
<1>8. DOMAIN r = 1 .. Len(q) - 1
  BY <1>6, LenProperties
<1>9. Len(q) \in Nat \ {0}
  BY <1>1, <1>2
<1> QED
  BY <1>1, <1>2, <1>6, <1>7, <1>8, <1>9 DEF ClosedUp

\* The entries that are left keep their order.
LEMMA ClosedUpPlaces ==
  ASSUME NEW q \in Seq(Jobs), NEW r, NEW n \in 1 .. Len(q), ClosedUp(q, r, n)
  PROVE  /\ \A i \in DOMAIN r : \E m \in DOMAIN q : r[i] = q[m] /\ m # n
         /\ \A i, k \in DOMAIN r : i < k =>
              \E m, l \in DOMAIN q : m < l /\ r[i] = q[m] /\ r[k] = q[l]
PROOF
<1>1. /\ Len(q) \in Nat \ {0} /\ DOMAIN q = 1 .. Len(q)
      /\ DOMAIN r = 1 .. Len(q) - 1
      /\ \A i \in 1 .. Len(q) - 1 :
           /\ i < n => r[i] = q[i]
           /\ i >= n => r[i] = q[i + 1]
  BY DEF ClosedUp
<1>2. ASSUME NEW i \in DOMAIN r
      PROVE  \E m \in DOMAIN q : /\ r[i] = q[m] /\ m # n
                                 /\ i < n => m = i
                                 /\ i >= n => m = i + 1
  <2>1. CASE i < n
    <3>1. i \in DOMAIN q /\ i # n /\ ~ (i >= n)
      BY <1>1, <2>1
    <3> QED
      BY <1>1, <2>1, <3>1
  <2>2. CASE i >= n
    <3>1. i + 1 \in DOMAIN q /\ i + 1 # n /\ ~ (i < n)
      BY <1>1, <2>2
    <3> QED
      BY <1>1, <2>2, <3>1
  <2>3. i < n \/ i >= n
    BY <1>1
  <2> QED
    BY <2>1, <2>2, <2>3
<1>3. ASSUME NEW i \in DOMAIN r, NEW k \in DOMAIN r, i < k
      PROVE  \E m, l \in DOMAIN q : m < l /\ r[i] = q[m] /\ r[k] = q[l]
  <2>1. PICK m \in DOMAIN q :
          r[i] = q[m] /\ (i < n => m = i) /\ (i >= n => m = i + 1)
    BY <1>2
  <2>2. PICK l \in DOMAIN q :
          r[k] = q[l] /\ (k < n => l = k) /\ (k >= n => l = k + 1)
    BY <1>2
  <2>3. m < l
    BY <1>1, <1>3, <2>1, <2>2
  <2> QED
    BY <2>1, <2>2, <2>3
<1> QED
  BY <1>2, <1>3

---------------------------------------------------------------------------
(* The invariant *)

\* No job is ever rushed or put last.
NeverRushed == Ops \cap {"rush", "last"} = {}

\* ppr announces a job only when it has all of its data.
NeverLate == STATUS_RECEIVING \notin Arrivals

\* No destination ever stops accepting jobs.
AlwaysOpen == "reject" \notin Ops

\* No job is ever moved.
NeverMoved == Ops \cap {"move", "moveall"} = {}

\* The queue array has no entry of a job without a status.
Listed(d) == \A i \in DOMAIN d.queue : Queued(d, d.queue[i])

Distinct(d) ==
  \A i, k \in DOMAIN d.queue : i < k => d.queue[i] # d.queue[k]

\* a may stand before b.
Precedes(d, a, b) ==
  /\ d.prio[a] >= d.prio[b]
  /\ d.prio[a] = d.prio[b] /\ d.prio[a] \in 2 .. 100 => JobSeq[a] <= JobSeq[b]

Ordered(d) ==
  \A i, k \in DOMAIN d.queue : i < k => Precedes(d, d.queue[i], d.queue[k])

Priorities(d) ==
  /\ \A j \in Jobs : d.prio[j] \in 1 .. 101
  /\ NeverRushed => \A j \in Jobs : d.prio[j] = JobPriority[j]

\* The masks agree with what is mounted.
Fresh(d) == \A j \in Jobs : Queued(d, j) => d.notnow[j] = Mask(d, j)

Filed(d) ==
  /\ \A j \in d.files : Queued(d, j)
  /\ NeverLate \/ AlwaysOpen => \A j \in Jobs : Queued(d, j) => j \in d.files

\* The counts of the destinations in `sure' are right.
Counted(d, sure) ==
  NeverMoved =>
    \A dest \in sure : d.count[dest] = Cardinality(QueuedFor(d, dest))

\* Without reloads every count is sure.
Tidy(d, sure) ==
  /\ Listed(d) /\ Distinct(d)
  /\ NeverLate \/ NeverRushed => Ordered(d)
  /\ Priorities(d)
  /\ Fresh(d)
  /\ Filed(d)
  /\ Counted(d, sure)
  /\ AlwaysOpen => d.accepting = Dests

\* Nothing that the invariant speaks of has changed.
Kept(d, e) ==
  /\ e.queue = d.queue /\ e.prio = d.prio /\ e.files = d.files
  /\ e.count = d.count /\ e.jdest = d.jdest /\ e.notnow = d.notnow
  /\ e.mounted = d.mounted /\ e.accepting = d.accepting
  /\ \A j \in Jobs : Queued(e, j) <=> Queued(d, j)

\* Such a change leaves the invariant.
LEMMA KeptTidy ==
  ASSUME NEW d \in Tables, NEW e, NEW sure, sure \subseteq Dests,
         Tidy(d, sure), Kept(d, e)
  PROVE  Tidy(e, sure)
PROOF
<1>1. \A i \in DOMAIN d.queue : d.queue[i] \in Jobs
  BY DEF Tables
<1>2. Listed(e) /\ Distinct(e)
  BY <1>1 DEF Tidy, Kept, Listed, Distinct
<1>3. NeverLate \/ NeverRushed => Ordered(e)
  BY DEF Tidy, Kept, Ordered, Precedes
<1>4. Priorities(e)
  BY DEF Tidy, Kept, Priorities
<1>5. Fresh(e)
  BY SameMask DEF Tidy, Kept, Fresh
<1>6. Filed(e)
  <2>1. d.files \subseteq Jobs
    BY DEF Tables
  <2> QED
    BY <2>1 DEF Tidy, Kept, Filed
<1>7. Counted(e, sure)
  <2>1. \A dest : QueuedFor(e, dest) = QueuedFor(d, dest)
    BY DEF Kept, QueuedFor
  <2> QED
    BY <2>1 DEF Tidy, Kept, Counted
<1> QED
  BY <1>2, <1>3, <1>4, <1>5, <1>6, <1>7 DEF Tidy, Kept

\* Two changes of this kind are one.
LEMMA KeptTwice ==
  ASSUME NEW d, NEW g, NEW e, Kept(d, g), Kept(g, e)
  PROVE  Kept(d, e)
  BY DEF Kept

\* Starting jobs changes nothing of it.
LEMMA StartsKept ==
  ASSUME NEW d, NEW e, Starts(d, e)
  PROVE  Kept(d, e)
PROOF
<1>1. \A j \in Jobs : Queued(e, j) <=> Queued(d, j)
  <2>1. ASSUME NEW p \in Printers, NEW j \in Jobs, Begins(d, e, p, j)
        PROVE  \A i \in Jobs : Queued(e, i) <=> Queued(d, i)
    <3>1. p # STATUS_NONE /\ d.jstatus[j] # STATUS_NONE
      BY <2>1, StatusRange DEF Begins, Fits
    <3> QED
      BY <2>1, <3>1 DEF Begins, Queued
  <2> QED
    BY <2>1 DEF Starts, Queued
<1> QED
  BY <1>1 DEF Starts, Kept, SameJobs, SameEntries

\* Nor does a printer that looks for work, or a job that is offered.
LEMMA LookedKept ==
  ASSUME NEW d, NEW e
  PROVE  /\ \A p : Looked(d, e, p) => Kept(d, e)
         /\ \A j : Offered(d, e, j) => Kept(d, e)
  BY StartsKept DEF Looked, Offered

\* Nor does a new status of a printer.
LEMMA ChangedKept ==
  ASSUME NEW d, NEW e
  PROVE  /\ \A p, s : Changed(d, e, p, s) => Kept(d, e)
         /\ \A p, s : Settled(d, e, p, s) => Kept(d, e)
         /\ \A p : Idled(d, e, p) => Kept(d, e)
         /\ Alike(d, e) => Kept(d, e)
PROOF
<1>1. ASSUME NEW p, NEW s, Changed(d, e, p, s)
      PROVE  Kept(d, e)
  BY <1>1 DEF Changed, ReasonsFollow, Kept, SameJobs, SameEntries, Queued
<1>2. ASSUME SameJobs(d, e), e.jstatus = d.jstatus
      PROVE  Kept(d, e)
  BY <1>2 DEF Kept, SameJobs, SameEntries, Queued
<1> QED
  BY <1>1, <1>2 DEF Settled, Idled, Alike

\* Nor does a new status of a queued job.
LEMMA BecomesKept ==
  ASSUME NEW d, NEW e, NEW j \in Jobs, NEW s, Becomes(d, e, j, s),
         Queued(d, j), s # STATUS_NONE
  PROVE  Kept(d, e)
  BY DEF Becomes, Kept, SameJobs, SameEntries, Queued

\* Nor does the end of a pprdrv whose job stays.
LEMMA StaysKept ==
  ASSUME NEW d, NEW e, NEW p, NEW c, NEW s, Stays(d, e, p, c, s),
         d.job[p] \in Jobs, Queued(d, d.job[p]), s # STATUS_NONE
  PROVE  Kept(d, e)
PROOF
<1>1. \A j \in Jobs : Queued(e, j) <=> Queued(d, j)
  BY DEF Stays, Queued
<1> QED
  BY <1>1 DEF Stays, Kept

---------------------------------------------------------------------------
(* The routines that change an entry *)

\* An entry that is filled again keeps its place.
LEMMA RefreshedTidy ==
  ASSUME NEW d \in Tables, NEW g, NEW sure, sure \subseteq Dests,
         Tidy(d, sure), NEW j \in Jobs, NEW dest, NEW s,
         Refreshed(d, g, j, dest, s), SamePlaces(d, g),
         Queued(g, j) <=> Queued(d, j),
         g.prio[j] \in {d.prio[j], JobPriority[j]},
         NeverLate \/ NeverRushed => g.prio[j] = d.prio[j],
         NeverMoved => dest = d.jdest[j]
  PROVE  Tidy(g, sure)
PROOF
<1>1. /\ \A i \in Jobs : Queued(g, i) <=> Queued(d, i)
      /\ \A i \in Jobs : i # j =>
           /\ g.jdest[i] = d.jdest[i] /\ g.prio[i] = d.prio[i]
           /\ g.notnow[i] = d.notnow[i]
      /\ g.queue = d.queue /\ g.files = d.files /\ g.count = d.count
      /\ g.mounted = d.mounted /\ g.accepting = d.accepting
      /\ g.jdest[j] = dest /\ g.notnow[j] = Mask(g, j)
  BY DEF Refreshed, OnlyEntry, SamePlaces, Queued
<1>2. \A i \in DOMAIN d.queue : d.queue[i] \in Jobs
  BY DEF Tables
<1>3. Listed(g) /\ Distinct(g)
  BY <1>1, <1>2 DEF Tidy, Listed, Distinct
<1>4. NeverLate \/ NeverRushed => Ordered(g)
  <2> SUFFICES ASSUME NeverLate \/ NeverRushed PROVE Ordered(g)
    OBVIOUS
  <2>1. \A i \in Jobs : g.prio[i] = d.prio[i]
    BY <1>1
  <2> QED
    BY <1>1, <1>2, <2>1 DEF Tidy, Ordered, Precedes
<1>5. Priorities(g)
  <2>1. JobPriority[j] \in 1 .. 101
    BY JobsAssumption
  <2> QED
    BY <1>1, <2>1 DEF Tidy, Priorities
<1>6. Fresh(g)
  BY <1>1, SameMask DEF Tidy, Fresh
<1>7. Filed(g)
  <2>1. d.files \subseteq Jobs
    BY DEF Tables
  <2> QED
    BY <1>1, <2>1 DEF Tidy, Filed
<1>8. Counted(g, sure)
  <2> SUFFICES ASSUME NeverMoved PROVE Counted(g, sure)
    BY DEF Counted
  <2>1. \A x : QueuedFor(g, x) = QueuedFor(d, x)
    BY <1>1 DEF QueuedFor
  <2> QED
    BY <1>1, <2>1 DEF Tidy, Counted
<1> QED
  BY <1>1, <1>3, <1>4, <1>5, <1>6, <1>7, <1>8 DEF Tidy

\* The set of the queued jobs is finite, for each has an entry.
LEMMA QueuedFinite ==
  ASSUME NEW d \in Tables, Entries(d), NEW dest
  PROVE  IsFiniteSet(QueuedFor(d, dest))
PROOF
<1> DEFINE n == Len(d.queue)
           R == {d.queue[i] : i \in 1 .. n}
<1>1. d.queue \in Seq(Jobs) /\ n \in Nat /\ DOMAIN d.queue = 1 .. n
  <2>1. d.queue \in Seq(Jobs)
    BY DEF Tables
  <2> QED
    BY <2>1, LenProperties
<1>2. IsFiniteSet(R)
  <2>1. IsFiniteSet(1 .. n)
    <3> HIDE DEF n
    <3>1. 1 \in Int /\ n \in Int
      BY <1>1
    <3> QED
      BY <3>1, FS_Interval, Zenon
  <2>2. d.queue \in [1 .. n -> R]
    BY <1>1
  <2>3. \A x \in R : \E i \in 1 .. n : d.queue[i] = x
    OBVIOUS
  <2> HIDE DEF n, R
  <2>4. d.queue \in Surjection(1 .. n, R)
    BY <2>2, <2>3 DEF Surjection
  <2> QED
    BY <2>1, <2>4, FS_Surjection
<1>3. QueuedFor(d, dest) \subseteq R
  BY <1>1 DEF QueuedFor, Entries
<1> QED
  BY <1>2, <1>3, FS_Subset

\* Job j has left the queue.
Removed(d, e, j) ==
  /\ e.mounted = d.mounted /\ e.accepting = d.accepting
  /\ e.queue = Remove(d.queue, j) /\ e.files = d.files \ {j}
  /\ \A x \in Dests :
       e.count[x] = IF x = d.jdest[j] THEN d.count[x] - 1 ELSE d.count[x]
  /\ e.jstatus[j] = STATUS_NONE
  /\ \A i \in Jobs :
       /\ e.prio[i] = IF i = j THEN JobPriority[j] ELSE d.prio[i]
       /\ i # j => /\ e.jstatus[i] = d.jstatus[i]
                   /\ e.jdest[i] = d.jdest[i]
                   /\ e.notnow[i] = d.notnow[i]

\* The entries behind it close up, and the count follows.
LEMMA RemovedTidy ==
  ASSUME NEW d \in Tables, Entries(d), NEW e, NEW sure, sure \subseteq Dests,
         Tidy(d, sure), NEW j \in Jobs,
         Queued(d, j), Removed(d, e, j)
  PROVE  Tidy(e, sure)
PROOF
<1> DEFINE q == d.queue
           r == e.queue
<1>1. q \in Seq(Jobs) /\ d.jdest[j] \in Dests
  BY DEF Tables
<1>20. PICK n \in 1 .. Len(q) : q[n] = j /\ ClosedUp(q, r, n)
  <2>1. \E i \in DOMAIN q : q[i] = j
    BY DEF Entries
  <2>2. r = Remove(q, j)
    BY DEF Removed
  <2> HIDE DEF q, r
  <2> QED
    BY <1>1, <2>1, <2>2, RemoveAt
<1>2. /\ q[n] = j /\ r \in Seq(Jobs)
      /\ Len(q) \in Nat \ {0} /\ DOMAIN q = 1 .. Len(q)
      /\ Len(r) = Len(q) - 1 /\ DOMAIN r = 1 .. Len(q) - 1
      /\ \A i \in 1 .. Len(q) - 1 :
           /\ i < n => r[i] = q[i]
           /\ i >= n => r[i] = q[i + 1]
  BY <1>20 DEF ClosedUp
<1>3. /\ \A i, k \in DOMAIN q : i < k => q[i] # q[k]
      /\ \A i \in DOMAIN q : q[i] \in Jobs /\ Queued(d, q[i])
      /\ NeverLate \/ NeverRushed =>
           \A i, k \in DOMAIN q : i < k => Precedes(d, q[i], q[k])
  BY <1>1 DEF Tidy, Listed, Distinct, Ordered
<1> HIDE DEF q, r
<1>4. /\ \A i \in DOMAIN r : \E m \in DOMAIN q : r[i] = q[m] /\ m # n
      /\ \A i, k \in DOMAIN r : i < k =>
           \E m, l \in DOMAIN q : m < l /\ r[i] = q[m] /\ r[k] = q[l]
  BY <1>1, <1>20, ClosedUpPlaces
<1>5. \A i \in DOMAIN r : r[i] \in Jobs /\ r[i] # j /\ Queued(d, r[i])
  <2> SUFFICES ASSUME NEW i \in DOMAIN r
               PROVE  r[i] \in Jobs /\ r[i] # j /\ Queued(d, r[i])
    OBVIOUS
  <2>1. PICK m \in DOMAIN q : r[i] = q[m] /\ m # n
    BY <1>4
  <2>2. m < n \/ n < m
    BY <1>2, <2>1
  <2>3. q[m] # q[n]
    BY <1>2, <1>3, <2>2
  <2> QED
    BY <1>2, <1>3, <2>1, <2>3
<1>6. ASSUME NEW i \in DOMAIN r, NEW k \in DOMAIN r, i < k
      PROVE  \E m, l \in DOMAIN q : m < l /\ r[i] = q[m] /\ r[k] = q[l]
  BY <1>4, <1>6
<1>7. Listed(e) /\ Distinct(e)
  BY <1>3, <1>5, <1>6 DEF Listed, Distinct, Removed, Queued, r
<1>8. NeverLate \/ NeverRushed => Ordered(e)
  <2> SUFFICES ASSUME NeverLate \/ NeverRushed,
                      NEW i \in DOMAIN r, NEW k \in DOMAIN r, i < k
               PROVE  Precedes(e, r[i], r[k])
    BY DEF Ordered, r
  <2>1. Precedes(d, r[i], r[k])
    BY <1>3, <1>6
  <2> QED
    BY <1>5, <2>1 DEF Precedes, Removed
<1>9. Priorities(e)
  <2>1. JobPriority[j] \in 1 .. 101
    BY JobsAssumption
  <2> QED
    BY <2>1 DEF Tidy, Priorities, Removed
<1>10. Fresh(e)
  BY SameMask DEF Tidy, Fresh, Removed, Queued
<1>11. Filed(e)
  <2>1. d.files \subseteq Jobs
    BY DEF Tables
  <2> QED
    BY <2>1 DEF Tidy, Filed, Removed, Queued
<1>12. Counted(e, sure)
  <2> SUFFICES ASSUME NeverMoved, NEW x \in sure
               PROVE  e.count[x] = Cardinality(QueuedFor(e, x))
    BY DEF Counted
  <2>1. d.count[x] = Cardinality(QueuedFor(d, x))
    BY DEF Tidy, Counted
  <2>2. IsFiniteSet(QueuedFor(d, x))
    BY QueuedFinite
  <2>3. CASE x = d.jdest[j]
    <3>1. QueuedFor(e, x) = QueuedFor(d, x) \ {j} /\ j \in QueuedFor(d, x)
      BY <2>3 DEF QueuedFor, Removed, Queued
    <3>2. Cardinality(QueuedFor(e, x)) = Cardinality(QueuedFor(d, x)) - 1
      BY <2>2, <3>1, FS_RemoveElement
    <3> QED
      BY <2>1, <2>3, <3>2 DEF Removed
  <2>4. CASE x # d.jdest[j]
    <3>1. QueuedFor(e, x) = QueuedFor(d, x)
      BY <2>4 DEF QueuedFor, Removed, Queued
    <3> QED
      BY <2>1, <2>4, <3>1 DEF Removed
  <2> QED
    BY <2>3, <2>4
<1> QED
  BY <1>7, <1>8, <1>9, <1>10, <1>11, <1>12 DEF Tidy, Removed

\* j would have to stand before k, with the priority pr.
Overtakes(d, pr, j, k) ==
  \/ pr > d.prio[k]
  \/ pr = d.prio[k] /\ JobSeq[j] < JobSeq[k]

\* The first entry that j overtakes, or the end of the queue.
RoomFor(d, pr, j) ==
  LET later == {i \in DOMAIN d.queue : Overtakes(d, pr, j, d.queue[i])}
  IN  IF later = {} THEN Len(d.queue) + 1 ELSE First(later)

\* The scan for room stops there.
LEMMA RoomFacts ==
  ASSUME NEW d \in Tables, NEW pr, NEW j \in Jobs,
         NEW n, n = RoomFor(d, pr, j)
  PROVE  /\ n \in 1 .. Len(d.queue) + 1
         /\ \A i \in DOMAIN d.queue :
              i < n => ~ Overtakes(d, pr, j, d.queue[i])
         /\ n \in DOMAIN d.queue => Overtakes(d, pr, j, d.queue[n])
PROOF
<1> DEFINE later == {i \in DOMAIN d.queue : Overtakes(d, pr, j, d.queue[i])}
<1>1. d.queue \in Seq(Jobs)
  BY DEF Tables
<1>2. Len(d.queue) \in Nat /\ DOMAIN d.queue = 1 .. Len(d.queue)
  BY <1>1, LenProperties
<1>3. later \in SUBSET Nat
  BY <1>2
<1>4. n = IF later = {} THEN Len(d.queue) + 1 ELSE First(later)
  BY DEF RoomFor
<1>5. CASE later = {}
  <2>1. n \notin DOMAIN d.queue /\ n \in 1 .. Len(d.queue) + 1
    BY <1>2, <1>4, <1>5
  <2> QED
    BY <1>5, <2>1
<1>6. CASE later # {}
  <2> HIDE DEF later
  <2>1. First(later) \in later /\ \A k \in later : First(later) <= k
    BY <1>3, <1>6, FirstIn
  <2>2. n = First(later)
    BY <1>4, <1>6
  <2>3. n \in later /\ n \in Nat /\ \A k \in later : n <= k
    BY <1>3, <2>1, <2>2
  <2>4. \A i \in DOMAIN d.queue : i < n => i \notin later
    BY <1>2, <2>3
  <2>5. n \in DOMAIN d.queue
    BY <2>3 DEF later
  <2> QED
    BY <1>2, <2>3, <2>4, <2>5 DEF later
<1> QED
  BY <1>5, <1>6

\* A job that enters the queue there keeps its order.
LEMMA InLine ==
  ASSUME NEW d \in Tables, Listed(d), Distinct(d), NEW g, NEW j \in Jobs,
         ~ Queued(d, j), g.jstatus[j] # STATUS_NONE,
         \A i \in Jobs : i # j =>
           g.jstatus[i] = d.jstatus[i] /\ g.prio[i] = d.prio[i],
         NEW pr \in Nat, g.prio[j] = pr,
         NEW n, n = RoomFor(d, pr, j), g.queue = Insert(d.queue, n, j)
  PROVE  /\ Listed(g) /\ Distinct(g)
         /\ Ordered(d) => Ordered(g)
PROOF
<1> DEFINE q == d.queue
           r == g.queue
<1>1. /\ g.jstatus[j] # STATUS_NONE
      /\ \A i \in Jobs : i # j =>
           g.jstatus[i] = d.jstatus[i] /\ g.prio[i] = d.prio[i]
      /\ g.prio[j] = pr
  OBVIOUS
<1>2. /\ \A i \in Jobs : i # j => (Queued(g, i) <=> Queued(d, i))
      /\ Queued(g, j)
  BY <1>1 DEF Queued
<1>3. /\ \A i, k \in DOMAIN q : i < k => q[i] # q[k]
      /\ \A i \in DOMAIN q : q[i] \in Jobs /\ Queued(d, q[i]) /\ q[i] # j
      /\ Ordered(d) =>
           \A i, k \in DOMAIN q : i < k => Precedes(d, q[i], q[k])
  <2>1. q \in Seq(Jobs)
    BY DEF Tables
  <2> QED
    BY <2>1 DEF Listed, Distinct, Ordered
<1>4. /\ n \in 1 .. Len(q) + 1
      /\ \A i \in DOMAIN q : i < n => ~ Overtakes(d, pr, j, q[i])
      /\ n \in DOMAIN q => Overtakes(d, pr, j, q[n])
  BY RoomFacts
<1>5. /\ n \in Nat /\ Len(q) \in Nat /\ DOMAIN q = 1 .. Len(q)
      /\ n \in 1 .. Len(q) + 1
      /\ DOMAIN r = 1 .. Len(q) + 1
      /\ \A i \in 1 .. Len(q) + 1 :
           /\ i < n => r[i] = q[i]
           /\ i = n => r[i] = j
           /\ i > n => r[i] = q[i - 1]
  <2>1. q \in Seq(Jobs) /\ n \in 1 .. Len(q) + 1 /\ r = Insert(q, n, j)
    BY <1>4 DEF Tables
  <2> HIDE DEF q, r
  <2>2. n \in Nat
    BY <2>1
  <2>3. /\ Len(q) \in Nat /\ DOMAIN q = 1 .. Len(q)
        /\ DOMAIN r = 1 .. Len(q) + 1
        /\ \A i \in 1 .. Len(q) + 1 :
             /\ i < n => r[i] = q[i]
             /\ i = n => r[i] = j
             /\ i > n => r[i] = q[i - 1]
    BY <2>1, InsertAt
  <2> QED
    BY <2>1, <2>2, <2>3
<1> HIDE DEF q, r
<1>6. ASSUME NEW i \in DOMAIN r
      PROVE  \/ i = n /\ r[i] = j
             \/ i < n /\ i \in DOMAIN q /\ r[i] = q[i]
             \/ i > n /\ i - 1 \in DOMAIN q /\ r[i] = q[i - 1]
  BY <1>5
<1>7. Listed(g)
  <2> SUFFICES ASSUME NEW i \in DOMAIN r PROVE Queued(g, r[i])
    BY DEF Listed, r
  <2> QED
    BY <1>2, <1>3, <1>6
<1>8. Distinct(g)
  <2> SUFFICES ASSUME NEW i \in DOMAIN r, NEW k \in DOMAIN r, i < k
               PROVE  r[i] # r[k]
    BY DEF Distinct, r
  <2>1. CASE i = n \/ k = n
    <3>1. /\ i # n => \E m \in DOMAIN q : r[i] = q[m]
          /\ k # n => \E m \in DOMAIN q : r[k] = q[m]
          /\ i = n => r[i] = j
          /\ k = n => r[k] = j
      BY <1>5, <1>6
    <3>2. i # k
      BY <1>5
    <3> QED
      BY <1>3, <2>1, <3>1, <3>2
  <2>2. CASE i # n /\ k # n
    <3>1. PICK m \in DOMAIN q :
            r[i] = q[m] /\ ((m = i /\ i < n) \/ (m = i - 1 /\ i > n))
      BY <1>6, <2>2
    <3>2. PICK l \in DOMAIN q :
            r[k] = q[l] /\ ((l = k /\ k < n) \/ (l = k - 1 /\ k > n))
      BY <1>6, <2>2
    <3>3. m < l
      BY <1>5, <3>1, <3>2
    <3> QED
      BY <1>3, <3>1, <3>2, <3>3
  <2> QED
    BY <2>1, <2>2
<1>9. Ordered(d) => Ordered(g)
  <2> SUFFICES ASSUME Ordered(d),
                      NEW i \in DOMAIN r, NEW k \in DOMAIN r, i < k
               PROVE  Precedes(g, r[i], r[k])
    BY DEF Ordered, r
  <2>0. /\ \A x \in Jobs : d.prio[x] \in Nat /\ JobSeq[x] \in Nat
    <3>1. \A x \in Jobs : d.prio[x] \in Nat
      BY DEF Tables
    <3>2. \A x \in Jobs : JobSeq[x] \in Nat
      BY JobsAssumption
    <3> QED
      BY <3>1, <3>2
  <2>1. CASE i # n /\ k # n
    <3>1. PICK m \in DOMAIN q :
            r[i] = q[m] /\ ((m = i /\ i < n) \/ (m = i - 1 /\ i > n))
      BY <1>6, <2>1
    <3>2. PICK l \in DOMAIN q :
            r[k] = q[l] /\ ((l = k /\ k < n) \/ (l = k - 1 /\ k > n))
      BY <1>6, <2>1
    <3>3. m < l
      BY <1>5, <3>1, <3>2
    <3>4. Precedes(d, q[m], q[l])
      BY <1>3, <3>3
    <3> QED
      BY <1>1, <1>3, <3>1, <3>2, <3>4 DEF Precedes
  <2>2. CASE k = n
    <3>1. i < n /\ i \in DOMAIN q /\ r[i] = q[i] /\ r[k] = j
      BY <1>5, <1>6, <2>2
    <3>2. ~ Overtakes(d, pr, j, q[i])
      BY <1>4, <3>1
    <3>3. q[i] \in Jobs /\ q[i] # j
      BY <1>3, <3>1
    <3> QED
      BY <1>1, <2>0, <3>1, <3>2, <3>3 DEF Precedes, Overtakes
  <2>3. CASE i = n
    <3>1. /\ k > n /\ k - 1 \in DOMAIN q /\ r[k] = q[k - 1] /\ r[i] = j
          /\ n \in DOMAIN q /\ (n = k - 1 \/ n < k - 1)
      BY <1>5, <1>6, <2>3
    <3>2. Overtakes(d, pr, j, q[n])
      BY <1>4, <3>1
    <3>3. q[n] = q[k - 1] \/ Precedes(d, q[n], q[k - 1])
      BY <1>3, <3>1
    <3>4. /\ q[n] \in Jobs /\ q[n] # j
          /\ q[k - 1] \in Jobs /\ q[k - 1] # j
      BY <1>3, <3>1
    <3> QED
      BY <1>1, <2>0, <3>1, <3>2, <3>3, <3>4 DEF Precedes, Overtakes
  <2> QED
    BY <2>1, <2>2, <2>3
<1> QED
  BY <1>7, <1>8, <1>9

\* A new job takes its place in the order, with its files and its count.
LEMMA EnteredTidy ==
  ASSUME NEW d \in Tables, Entries(d), NEW g, NEW sure, sure \subseteq Dests,
         Tidy(d, sure), NEW j \in Jobs,
         ~ Queued(d, j), NEW st, st # STATUS_NONE, Entered(d, g, j, st)
  PROVE  Tidy(g, sure)
PROOF
<1>1. /\ g.jstatus[j] # STATUS_NONE
      /\ \A i \in Jobs : i # j =>
           /\ g.jstatus[i] = d.jstatus[i] /\ g.jdest[i] = d.jdest[i]
           /\ g.prio[i] = d.prio[i] /\ g.notnow[i] = d.notnow[i]
      /\ g.files = d.files \cup {j} /\ g.prio[j] = JobPriority[j]
      /\ g.mounted = d.mounted /\ g.accepting = d.accepting
      /\ g.jdest[j] = d.jdest[j] /\ g.notnow[j] = Mask(g, j)
  BY DEF Entered, Refreshed, OnlyEntry
<1>2. /\ \A i \in Jobs : i # j => (Queued(g, i) <=> Queued(d, i))
      /\ Queued(g, j)
  BY <1>1 DEF Queued
<1>3. /\ Listed(d) /\ Distinct(d)
      /\ NeverLate \/ NeverRushed => Ordered(d)
  BY DEF Tidy
<1>4. InsertPosition(d, j) = RoomFor(d, JobPriority[j], j)
  BY DEF InsertPosition, RoomFor, Overtakes
<1>5. g.queue = Insert(d.queue, RoomFor(d, JobPriority[j], j), j)
  BY <1>4 DEF Entered
<1>6. JobPriority[j] \in Nat
  BY JobsAssumption
<1>7. Listed(g) /\ Distinct(g) /\ (Ordered(d) => Ordered(g))
  BY <1>1, <1>3, <1>5, <1>6, InLine
<1>10. Priorities(g)
  <2>1. JobPriority[j] \in 1 .. 101
    BY JobsAssumption
  <2> QED
    BY <1>1, <2>1 DEF Tidy, Priorities
<1>11. Fresh(g)
  BY <1>1, <1>2, SameMask DEF Tidy, Fresh
<1>12. Filed(g)
  <2>1. d.files \subseteq Jobs
    BY DEF Tables
  <2> QED
    BY <1>1, <1>2, <2>1 DEF Tidy, Filed
<1>13. Counted(g, sure)
  <2> SUFFICES ASSUME NeverMoved, NEW x \in sure
               PROVE  g.count[x] = Cardinality(QueuedFor(g, x))
    BY DEF Counted
  <2>1. d.count[x] = Cardinality(QueuedFor(d, x))
    BY DEF Tidy, Counted
  <2>2. IsFiniteSet(QueuedFor(d, x))
    BY QueuedFinite
  <2>3. g.count[x] = IF x = d.jdest[j] THEN d.count[x] + 1 ELSE d.count[x]
    BY DEF Entered
  <2>4. CASE x = d.jdest[j]
    <3>1. QueuedFor(g, x) = QueuedFor(d, x) \cup {j} /\ j \notin QueuedFor(d, x)
      BY <1>1, <1>2, <2>4 DEF QueuedFor
    <3>2. Cardinality(QueuedFor(g, x)) = Cardinality(QueuedFor(d, x)) + 1
      BY <2>2, <3>1, FS_AddElement
    <3> QED
      BY <2>1, <2>3, <2>4, <3>2
  <2>5. CASE x # d.jdest[j]
    <3>1. QueuedFor(g, x) = QueuedFor(d, x)
      BY <1>1, <1>2, <2>5 DEF QueuedFor
    <3> QED
      BY <2>1, <2>3, <2>5, <3>1
  <2> QED
    BY <2>4, <2>5
<1> QED
  BY <1>1, <1>3, <1>7, <1>10, <1>11, <1>12, <1>13 DEF Tidy

\* The priority of a rushed job is above, that of one put last below all.
LEMMA EndsPrecede ==
  ASSUME NEW e, NEW a, NEW b,
         \/ e.prio[a] = 101 /\ e.prio[b] \in 1 .. 101
         \/ e.prio[b] = 1 /\ e.prio[a] \in 1 .. 101
  PROVE  Precedes(e, a, b)
  BY DEF Precedes

\* A job that is rushed or put last gets a priority beyond all others.
LEMMA RushTidy ==
  ASSUME NEW d \in Tables, Entries(d), NEW sure, sure \subseteq Dests,
         Tidy(d, sure), NEW j \in Jobs, Queued(d, j),
         NEW head \in BOOLEAN, ~ NeverRushed, NEW e, e = RushJob(d, j, head)
  PROVE  Tidy(e, sure)
PROOF
<1> DEFINE q    == d.queue
           rest == Remove(q, j)
           que  == IF head THEN <<j>> \o rest ELSE Append(rest, j)
           pri  == [d.prio EXCEPT ![j] = IF head THEN 101 ELSE 1]
<1>1. q \in Seq(Jobs)
  BY DEF Tables
<1>2. /\ \A i, k \in DOMAIN q : i < k => q[i] # q[k]
      /\ \A i \in DOMAIN q : q[i] \in Jobs /\ Queued(d, q[i])
      /\ NeverLate \/ NeverRushed =>
           \A i, k \in DOMAIN q : i < k => Precedes(d, q[i], q[k])
  BY <1>1 DEF Tidy, Listed, Distinct, Ordered
<1>3. e = [d EXCEPT !.queue = que, !.prio = pri]
  BY DEF RushJob
<1>4. \A x \in Jobs : pri[x] = IF x = j THEN IF head THEN 101 ELSE 1
                                        ELSE d.prio[x]
  BY DEF Tables
<1>5. \E i \in DOMAIN q : q[i] = j
  BY DEF Entries
<1> HIDE DEF q
<1>6. PICK n \in 1 .. Len(q) : q[n] = j /\ ClosedUp(q, rest, n)
  BY <1>1, <1>5, RemoveAt
<1> HIDE DEF rest, pri
<1>7. rest \in Seq(Jobs) /\ Len(rest) \in Nat /\ DOMAIN rest = 1 .. Len(rest)
  BY <1>6, LenProperties DEF ClosedUp
<1>8. /\ \A i \in DOMAIN rest : \E m \in DOMAIN q : rest[i] = q[m] /\ m # n
      /\ \A i, k \in DOMAIN rest : i < k =>
           \E m, l \in DOMAIN q : m < l /\ rest[i] = q[m] /\ rest[k] = q[l]
  BY <1>1, <1>6, ClosedUpPlaces
<1>9. ASSUME NEW i \in DOMAIN rest
      PROVE  rest[i] \in Jobs /\ rest[i] # j /\ Queued(d, rest[i])
  <2>1. PICK m \in DOMAIN q : rest[i] = q[m] /\ m # n
    BY <1>8
  <2>2. n \in DOMAIN q /\ (m < n \/ n < m)
    BY <1>6, <2>1 DEF ClosedUp
  <2>3. q[m] # q[n]
    BY <1>2, <2>2
  <2> QED
    BY <1>2, <1>6, <2>1, <2>3
<1>10. /\ \A i, k \in DOMAIN rest : i < k => rest[i] # rest[k]
       /\ NeverLate => \A i, k \in DOMAIN rest :
                         i < k => Precedes(d, rest[i], rest[k])
  BY <1>2, <1>8
<1>11. /\ DOMAIN que = 1 .. Len(rest) + 1
       /\ head => /\ que[1] = j
                  /\ \A i \in 2 .. Len(rest) + 1 :
                       i - 1 \in DOMAIN rest /\ que[i] = rest[i - 1]
       /\ ~ head => /\ que[Len(rest) + 1] = j
                    /\ \A i \in 1 .. Len(rest) :
                         i \in DOMAIN rest /\ que[i] = rest[i]
  <2>1. CASE head
    <3> DEFINE a == <<j>>
               u == a \o rest
    <3>1. a \in Seq(Jobs) /\ Len(a) = 1 /\ a[1] = j
      OBVIOUS
    <3>2. que = u
      BY <2>1
    <3> HIDE DEF a, que
    <3>3. /\ u \in Seq(Jobs) /\ Len(u) = 1 + Len(rest)
          /\ \A i \in 1 .. 1 + Len(rest) :
               u[i] = IF i <= 1 THEN a[i] ELSE rest[i - 1]
      <4>1. /\ u \in Seq(Jobs) /\ Len(u) = Len(a) + Len(rest)
            /\ \A i \in 1 .. Len(a) + Len(rest) :
                 u[i] = IF i <= Len(a) THEN a[i] ELSE rest[i - Len(a)]
        BY <1>7, <3>1, ConcatProperties, Zenon
      <4> HIDE DEF u
      <4> QED
        BY <3>1, <4>1
    <3> HIDE DEF u
    <3>4. DOMAIN u = 1 .. 1 + Len(rest)
      BY <3>3, LenProperties
    <3>5. u[1] = j
      BY <1>7, <3>1, <3>3
    <3>6. ASSUME NEW i \in 2 .. Len(rest) + 1
          PROVE  i - 1 \in DOMAIN rest /\ u[i] = rest[i - 1]
      BY <1>7, <3>3
    <3> QED
      BY <1>7, <2>1, <3>2, <3>4, <3>5, <3>6
  <2>2. CASE ~ head
    <3> DEFINE u == Append(rest, j)
    <3>1. que = u
      BY <2>2
    <3> HIDE DEF que
    <3>2. /\ u \in Seq(Jobs) /\ Len(u) = Len(rest) + 1
          /\ \A i \in 1 .. Len(rest) : u[i] = rest[i]
          /\ u[Len(rest) + 1] = j
      BY <1>7, AppendProperties
    <3> HIDE DEF u
    <3>3. DOMAIN u = 1 .. Len(rest) + 1
      BY <3>2, LenProperties
    <3> QED
      BY <1>7, <2>2, <3>1, <3>2, <3>3
  <2> QED
    BY <2>1, <2>2
<1> HIDE DEF que
<1>12. /\ e.queue = que /\ e.prio = pri /\ e.files = d.files
       /\ e.count = d.count /\ e.jdest = d.jdest /\ e.notnow = d.notnow
       /\ e.mounted = d.mounted /\ e.accepting = d.accepting
       /\ e.jstatus = d.jstatus
  BY <1>3 DEF Tables
<1>13. \A x \in Jobs : Queued(e, x) <=> Queued(d, x)
  BY <1>12 DEF Queued
<1>14. Listed(e)
  <2> SUFFICES ASSUME NEW i \in DOMAIN que PROVE Queued(d, que[i])
    BY <1>12 DEF Listed, Queued
  <2>1. que[i] = j \/ \E m \in DOMAIN rest : que[i] = rest[m]
    BY <1>7, <1>11
  <2> QED
    BY <1>9, <2>1
<1>15. Distinct(e)
  <2> SUFFICES ASSUME NEW i \in DOMAIN que, NEW k \in DOMAIN que, i < k
               PROVE  que[i] # que[k]
    BY <1>12 DEF Distinct
  <2>1. CASE head
    <3>1. k - 1 \in DOMAIN rest /\ que[k] = rest[k - 1]
      BY <1>7, <1>11, <2>1
    <3>2. CASE i = 1
      BY <1>9, <1>11, <2>1, <3>1, <3>2
    <3>3. CASE i # 1
      <4>1. i - 1 \in DOMAIN rest /\ que[i] = rest[i - 1] /\ i - 1 < k - 1
        BY <1>7, <1>11, <2>1, <3>3
      <4> QED
        BY <1>10, <3>1, <4>1
    <3> QED
      BY <3>2, <3>3
  <2>2. CASE ~ head
    <3>1. i \in DOMAIN rest /\ que[i] = rest[i]
      BY <1>7, <1>11, <2>2
    <3>2. CASE k = Len(rest) + 1
      BY <1>9, <1>11, <2>2, <3>1, <3>2
    <3>3. CASE k # Len(rest) + 1
      <4>1. k \in DOMAIN rest /\ que[k] = rest[k]
        BY <1>7, <1>11, <2>2, <3>3
      <4> QED
        BY <1>10, <3>1, <4>1
    <3> QED
      BY <3>2, <3>3
  <2> QED
    BY <2>1, <2>2
<1>16. NeverLate => Ordered(e)
  <2> SUFFICES ASSUME NeverLate, NEW i \in DOMAIN que, NEW k \in DOMAIN que,
                      i < k
               PROVE  Precedes(e, que[i], que[k])
    BY <1>12 DEF Ordered
  <2>0. \A x \in Jobs : d.prio[x] \in 1 .. 101
    BY DEF Tidy, Priorities
  <2>1. CASE head
    <3>1. k - 1 \in DOMAIN rest /\ que[k] = rest[k - 1]
      BY <1>7, <1>11, <2>1
    <3>2. que[k] \in Jobs /\ que[k] # j
      BY <1>9, <3>1
    <3>3. CASE i = 1
      <4>1. e.prio[que[i]] = 101 /\ e.prio[que[k]] \in 1 .. 101
        BY <1>4, <1>11, <1>12, <2>0, <2>1, <3>2, <3>3
      <4> QED
        BY <4>1, EndsPrecede
    <3>4. CASE i # 1
      <4>1. i - 1 \in DOMAIN rest /\ que[i] = rest[i - 1] /\ i - 1 < k - 1
        BY <1>7, <1>11, <2>1, <3>4
      <4>2. Precedes(d, que[i], que[k]) /\ que[i] \in Jobs /\ que[i] # j
        BY <1>9, <1>10, <3>1, <4>1
      <4> QED
        BY <1>4, <1>12, <3>2, <4>2 DEF Precedes
    <3> QED
      BY <3>3, <3>4
  <2>2. CASE ~ head
    <3>1. i \in DOMAIN rest /\ que[i] = rest[i]
      BY <1>7, <1>11, <2>2
    <3>2. que[i] \in Jobs /\ que[i] # j
      BY <1>9, <3>1
    <3>3. CASE k = Len(rest) + 1
      <4>1. e.prio[que[k]] = 1 /\ e.prio[que[i]] \in 1 .. 101
        BY <1>4, <1>11, <1>12, <2>0, <2>2, <3>2, <3>3
      <4> QED
        BY <4>1, EndsPrecede
    <3>4. CASE k # Len(rest) + 1
      <4>1. k \in DOMAIN rest /\ que[k] = rest[k]
        BY <1>7, <1>11, <2>2, <3>4
      <4>2. Precedes(d, que[i], que[k]) /\ que[k] \in Jobs /\ que[k] # j
        BY <1>9, <1>10, <3>1, <4>1
      <4> QED
        BY <1>4, <1>12, <3>2, <4>2 DEF Precedes
    <3> QED
      BY <3>3, <3>4
  <2> QED
    BY <2>1, <2>2
<1>17. Priorities(e)
  <2>1. \A x \in Jobs : d.prio[x] \in 1 .. 101
    BY DEF Tidy, Priorities
  <2>2. ASSUME NEW x \in Jobs
        PROVE  pri[x] = d.prio[x] \/ pri[x] = 101 \/ pri[x] = 1
    BY <1>4
  <2>3. 101 \in 1 .. 101 /\ 1 \in 1 .. 101
    OBVIOUS
  <2> QED
    BY <1>12, <2>1, <2>2, <2>3 DEF Priorities
<1>18. Fresh(e)
  BY <1>12, <1>13, SameMask DEF Tidy, Fresh
<1>19. Filed(e)
  <2>1. d.files \subseteq Jobs
    BY DEF Tables
  <2> QED
    BY <1>12, <1>13, <2>1 DEF Tidy, Filed
<1>20. Counted(e, sure)
  <2>1. \A dest : QueuedFor(e, dest) = QueuedFor(d, dest)
    BY <1>12, <1>13 DEF QueuedFor
  <2> QED
    BY <1>12, <2>1 DEF Tidy, Counted
<1> QED
  BY <1>12, <1>14, <1>15, <1>16, <1>17, <1>18, <1>19, <1>20 DEF Tidy

\* After a mount the masks of the jobs for the printer are brought up to date.
LEMMA MountsTidy ==
  ASSUME NEW d \in Tables, NEW g, NEW sure, sure \subseteq Dests,
         Tidy(d, sure), NEW p \in Printers, Mounts(d, g, p)
  PROVE  Tidy(g, sure)
PROOF
<1>1. /\ g.queue = d.queue /\ g.prio = d.prio /\ g.files = d.files
      /\ g.count = d.count /\ g.jdest = d.jdest /\ g.accepting = d.accepting
      /\ \A q \in Printers : q # p => g.mounted[q] = d.mounted[q]
      /\ MasksFollow(d, g, p) /\ ReasonsFollow(d, g, p)
  BY DEF Mounts
<1>2. \A j \in Jobs : Queued(g, j) <=> Queued(d, j)
  BY <1>1 DEF ReasonsFollow, Queued
<1>3. \A i \in DOMAIN d.queue : d.queue[i] \in Jobs
  BY DEF Tables
<1>4. Listed(g) /\ Distinct(g)
  BY <1>1, <1>2, <1>3 DEF Tidy, Listed, Distinct
<1>5. NeverLate \/ NeverRushed => Ordered(g)
  BY <1>1 DEF Tidy, Ordered, Precedes
<1>6. Priorities(g)
  BY <1>1 DEF Tidy, Priorities
<1>7. Fresh(g)
  <2> SUFFICES ASSUME NEW j \in Jobs, Queued(g, j)
               PROVE  g.notnow[j] = Mask(g, j)
    BY DEF Fresh
  <2>1. Queued(d, j) /\ d.notnow[j] = Mask(d, j)
    BY <1>2 DEF Tidy, Fresh
  <2>2. d.jdest[j] \in Dests
    BY DEF Tables
  <2>3. MembersOf(d.jdest[j]) \subseteq Printers
    BY <2>2, MembersArePrinters
  <2>4. \A q \in Printers : q # p => (HasMedia(g, q, j) <=> HasMedia(d, q, j))
    BY <1>1 DEF HasMedia
  <2>5. g.notnow[j] = IF ~ Covers(d.jdest[j], p) THEN d.notnow[j]
                      ELSE IF HasMedia(g, p, j) THEN d.notnow[j] \ {p}
                      ELSE d.notnow[j] \cup {p}
    BY <1>1, <2>1 DEF MasksFollow
  <2> QED
    BY <1>1, <2>1, <2>3, <2>4, <2>5 DEF Mask, Covers
<1>8. Filed(g)
  <2>1. d.files \subseteq Jobs
    BY DEF Tables
  <2> QED
    BY <1>1, <1>2, <2>1 DEF Tidy, Filed
<1>9. Counted(g, sure)
  <2>1. \A dest : QueuedFor(g, dest) = QueuedFor(d, dest)
    BY <1>1, <1>2 DEF QueuedFor
  <2> QED
    BY <1>1, <2>1 DEF Tidy, Counted
<1> QED
  BY <1>1, <1>4, <1>5, <1>6, <1>7, <1>8, <1>9 DEF Tidy

\* The files of a job that is turned away go.
LEMMA FilesTidy ==
  ASSUME NEW d \in Tables, NEW e, NEW sure, sure \subseteq Dests,
         Tidy(d, sure), OnlyFiles(d, e), NEW j \in Jobs,
         e.files = d.files \ {j},
         NeverLate \/ AlwaysOpen => ~ Queued(d, j)
  PROVE  Tidy(e, sure)
PROOF
<1>1. /\ e.queue = d.queue /\ e.prio = d.prio
      /\ e.count = d.count /\ e.jdest = d.jdest /\ e.notnow = d.notnow
      /\ e.mounted = d.mounted /\ e.accepting = d.accepting
      /\ e.jstatus = d.jstatus
  BY DEF OnlyFiles
<1>2. \A i \in Jobs : Queued(e, i) <=> Queued(d, i)
  BY <1>1 DEF Queued
<1>3. \A i \in DOMAIN d.queue : d.queue[i] \in Jobs
  BY DEF Tables
<1>4. Listed(e) /\ Distinct(e)
  BY <1>1, <1>2, <1>3 DEF Tidy, Listed, Distinct
<1>5. NeverLate \/ NeverRushed => Ordered(e)
  BY <1>1 DEF Tidy, Ordered, Precedes
<1>6. Priorities(e)
  BY <1>1 DEF Tidy, Priorities
<1>7. Fresh(e)
  BY <1>1, <1>2, SameMask DEF Tidy, Fresh
<1>8. Filed(e)
  <2>1. d.files \subseteq Jobs
    BY DEF Tables
  <2> QED
    BY <1>2, <2>1 DEF Tidy, Filed
<1>9. Counted(e, sure)
  <2>1. \A dest : QueuedFor(e, dest) = QueuedFor(d, dest)
    BY <1>1, <1>2 DEF QueuedFor
  <2> QED
    BY <1>1, <2>1 DEF Tidy, Counted
<1> QED
  BY <1>1, <1>4, <1>5, <1>6, <1>7, <1>8, <1>9 DEF Tidy

\* ppop accept, reject, and the requests to pause and resume a group
LEMMA GatedTidy ==
  ASSUME NEW d \in Tables, NEW e, NEW sure, sure \subseteq Dests,
         Tidy(d, sure), NEW w, Gated(d, e, w)
  PROVE  Tidy(e, sure)
PROOF
<1>1. CASE \E a \in SUBSET Dests :
             /\ e = [d EXCEPT !.accepting = a]
             /\ "reject" \notin Ops => d.accepting \subseteq a
  <2>1. PICK a \in SUBSET Dests :
             /\ e = [d EXCEPT !.accepting = a]
             /\ "reject" \notin Ops => d.accepting \subseteq a
    BY <1>1
  <2>2. AlwaysOpen => a = Dests
    BY <2>1 DEF AlwaysOpen, Tidy
  <2>3. /\ e.queue = d.queue /\ e.prio = d.prio /\ e.files = d.files
        /\ e.count = d.count /\ e.jdest = d.jdest /\ e.notnow = d.notnow
        /\ e.mounted = d.mounted /\ e.jstatus = d.jstatus /\ e.accepting = a
    BY <2>1 DEF Tables
  <2>5. \A x : QueuedFor(e, x) = QueuedFor(d, x)
    BY <2>3 DEF QueuedFor, Queued
  <2>6. Listed(e) /\ Distinct(e) /\ Priorities(e) /\ Filed(e)
    BY <2>3 DEF Tidy, Listed, Distinct, Priorities, Filed, Queued
  <2>7. NeverLate \/ NeverRushed => Ordered(e)
    BY <2>3 DEF Tidy, Ordered, Precedes
  <2>8. Fresh(e)
    BY <2>3, SameMask DEF Tidy, Fresh, Queued
  <2>9. Counted(e, sure)
    BY <2>3, <2>5 DEF Tidy, Counted
  <2> QED
    BY <2>2, <2>3, <2>6, <2>7, <2>8, <2>9 DEF Tidy
<1>2. CASE \E h \in SUBSET Groups : e = [d EXCEPT !.heldGroups = h]
  <2>1. Kept(d, e)
    BY <1>2 DEF Tables, Kept, Queued
  <2> QED
    BY <2>1, KeptTidy
<1> QED
  BY <1>1, <1>2 DEF Gated

---------------------------------------------------------------------------
(* The events *)

\* The job of a pprdrv is queued.
LEMMA HeldJobQueued ==
  ASSUME NEW d, NEW r, NEW lost, NEW owed, Sound(d, r, lost, owed),
         NEW p \in d.pids
  PROVE  d.job[p] \in Jobs /\ Queued(d, d.job[p]) /\ p \in Printers
PROOF
<1>1. d.job[p] \in Jobs /\ p \in Printers
  BY RunningJobs DEF Sound
<1>2. p # STATUS_NONE
  BY <1>1, StatusRange
<1> QED
  BY <1>1, <1>2 DEF Sound, Exclusive, Queued

\* A job that prints is queued.
LEMMA PrintsQueued ==
  ASSUME NEW d \in Tables, NEW j \in Jobs, d.jstatus[j] \in d.pids
  PROVE  Queued(d, j)
PROOF
<1>1. d.jstatus[j] \in Printers
  BY DEF Tables
<1> QED
  BY <1>1, StatusRange DEF Queued

\* The end of a pprdrv.
LEMMA ExitedTidy ==
  ASSUME NEW d, NEW r \in SUBSET Jobs, NEW lost, NEW owed,
         Sound(d, r, lost, owed), NEW sure, sure \subseteq Dests,
         Tidy(d, sure),
         NEW e, NEW y, Exited(d, e, y)
  PROVE  Tidy(e, sure)
PROOF
<1>1. d \in Tables /\ Entries(d)
  BY DEF Sound
<1>2. PICK p \in d.pids, c \in ExitCodes :
        \/ e = Die(d)
        \/ \E f, g \in Tables :
             /\ Disposed(d, f, p, c)
             /\ Settled(f, g, p, PrnStatusAfter(d, p, c))
             /\ \/ e = g /\ g.status[p] # PRNSTATUS_IDLE
                \/ Looked(g, e, p)
  BY DEF Exited
<1> DEFINE j == d.job[p]
<1>3. j \in Jobs /\ Queued(d, j)
  BY HeldJobQueued
<1>4. CASE e = Die(d)
  <2>1. Kept(d, e)
    BY <1>1, <1>4 DEF Die, Tables, Kept, Queued
  <2> QED
    BY <1>1, <2>1, KeptTidy
<1>5. ASSUME NEW f \in Tables, NEW g \in Tables, Disposed(d, f, p, c),
             Settled(f, g, p, PrnStatusAfter(d, p, c)),
             e = g \/ Looked(g, e, p)
      PROVE  Tidy(e, sure)
  <2>1. Tidy(f, sure)
    <3>1. CASE Leaves(d, f, p)
      <4>1. Removed(d, f, j)
        BY <3>1 DEF Leaves, Removed
      <4> QED
        BY <1>1, <1>3, <4>1, RemovedTidy
    <3>2. CASE Stays(d, f, p, c, d.jstatus[j])
      <4>1. Kept(d, f)
        BY <1>3, <3>2, StaysKept DEF Queued
      <4> QED
        BY <1>1, <4>1, KeptTidy
    <3>3. CASE Keeps(d, f, p, c)
      <4>1. PICK h \in Tables : /\ Stays(d, h, p, c, JobStatusAfter(d, p, c))
                                /\ Starts(h, f)
        BY <3>3 DEF Keeps
      <4>2. JobStatusAfter(d, p, c) # STATUS_NONE
        BY DEF JobStatusAfter
      <4>3. Kept(d, h) /\ Kept(h, f)
        BY <1>3, <4>1, <4>2, StaysKept, StartsKept
      <4> QED
        BY <1>1, <4>3, KeptTwice, KeptTidy
    <3> QED
      BY <1>5, <3>1, <3>2, <3>3 DEF Disposed
  <2>2. Kept(f, g) /\ (e = g \/ Kept(g, e))
    BY <1>5, ChangedKept, LookedKept
  <2>3. Tidy(g, sure)
    BY <2>1, <2>2, KeptTidy
  <2> QED
    BY <2>2, <2>3, KeptTidy
<1> QED
  BY <1>2, <1>4, <1>5

\* Every event that is not about ppr.
LEMMA ServedTidy ==
  ASSUME NEW d, NEW r \in SUBSET Jobs, NEW lost, NEW owed,
         Sound(d, r, lost, owed), NEW sure, sure \subseteq Dests,
         Tidy(d, sure),
         NEW e, NEW w, NEW v, NEW y \in SUBSET Jobs, Served(d, e, w, v, y)
  PROVE  Tidy(e, sure)
PROOF
<1>1. d \in Tables /\ Entries(d)
  BY DEF Sound
<1>2. ASSUME NEW g, Kept(d, g), g = e \/ Kept(g, e)
      PROVE  Tidy(e, sure)
  BY <1>1, <1>2, KeptTidy, KeptTwice
<1>3. CASE Alike(d, e)
  BY <1>1, <1>3, ChangedKept, KeptTidy
<1>4. CASE Woken(d, e)
  BY <1>2, <1>4, ChangedKept, LookedKept DEF Woken
<1>5. CASE Stopped(d, e)
  BY <1>2, <1>5, ChangedKept DEF Stopped
<1>6. CASE Started(d, e)
  BY <1>2, <1>6, ChangedKept, LookedKept DEF Started
<1>7. CASE Held(d, e)
  <2>1. PICK j \in Jobs :
          /\ \/ d.jstatus[j] \in {STATUS_WAITING, STATUS_WAITING4MEDIA,
                                  STATUS_CANCEL}
             \/ d.jstatus[j] \in d.pids
          /\ Becomes(d, e, j, STATUS_HELD) \/ Becomes(d, e, j, STATUS_SEIZING)
    BY <1>7 DEF Held
  <2>2. Queued(d, j)
    BY <1>1, <2>1, PrintsQueued DEF Queued
  <2>3. Kept(d, e)
    BY <2>1, <2>2, BecomesKept
  <2> QED
    BY <1>1, <2>3, KeptTidy
<1>8. CASE Released(d, e)
  <2>1. PICK j \in Jobs, g \in Tables :
          /\ d.jstatus[j] \in {STATUS_HELD, STATUS_ARRESTED}
          /\ Refreshed(d, g, j, d.jdest[j], STATUS_WAITING)
          /\ SamePlaces(d, g) /\ g.prio[j] = d.prio[j]
          /\ Offered(g, e, j)
    BY <1>8 DEF Released
  <2>2. Queued(d, j) /\ Queued(g, j)
    BY <2>1 DEF Queued, Refreshed
  <2>3. Tidy(g, sure)
    BY <1>1, <2>1, <2>2, RefreshedTidy
  <2> QED
    BY <2>1, <2>3, LookedKept, KeptTidy
<1>9. CASE Canceled(d, e, y)
  <2>1. PICK j \in y :
          \/ d.jstatus[j] \in d.pids /\ Becomes(d, e, j, STATUS_CANCEL)
          \/ d.jstatus[j] = STATUS_SEIZING /\ Becomes(d, e, j, STATUS_CANCEL)
          \/ Queued(d, j) /\ Dequeued(d, e, j)
    BY <1>9 DEF Canceled, Withdrawn
  <2>2. CASE Queued(d, j) /\ Dequeued(d, e, j)
    <3>1. Removed(d, e, j)
      BY <2>2 DEF Dequeued, Removed
    <3> QED
      BY <1>1, <2>2, <3>1, RemovedTidy
  <2>3. CASE ~ (Queued(d, j) /\ Dequeued(d, e, j))
    <3>1. Becomes(d, e, j, STATUS_CANCEL) /\ Queued(d, j)
      BY <1>1, <2>1, <2>3, PrintsQueued DEF Queued
    <3>2. Kept(d, e)
      BY <3>1, BecomesKept
    <3> QED
      BY <1>1, <3>2, KeptTidy
  <2> QED
    BY <2>2, <2>3
<1>10. CASE Moved(d, e)
  <2>1. /\ ~ NeverMoved
        /\ \E j \in Jobs, to \in Dests, g \in Tables :
             MovedTo(d, g, j, to) /\ Offered(g, e, j)
    BY <1>10 DEF Moved, NeverMoved
  <2>2. PICK j \in Jobs, to \in Dests, g \in Tables :
          MovedTo(d, g, j, to) /\ Offered(g, e, j)
    BY <2>1
  <2> DEFINE s == IF d.jstatus[j] = STATUS_STRANDED
                    THEN STATUS_WAITING ELSE d.jstatus[j]
  <2>3. Refreshed(d, g, j, to, s) /\ SamePlaces(d, g) /\ g.prio[j] = d.prio[j]
    BY <2>2 DEF MovedTo
  <2>4. Queued(g, j) <=> Queued(d, j)
    BY <2>3 DEF Queued, Refreshed
  <2> HIDE DEF s
  <2>5. Tidy(g, sure)
    BY <1>1, <2>1, <2>3, <2>4, RefreshedTidy
  <2> QED
    BY <2>2, <2>5, LookedKept, KeptTidy
<1>11. CASE Rushed(d, e)
  BY <1>1, <1>11, RushTidy DEF Rushed, NeverRushed
<1>12. CASE Mounted(d, e)
  <2>1. PICK p \in Printers, g \in Tables :
          Mounts(d, g, p) /\ (e = g \/ Looked(g, e, p))
    BY <1>12 DEF Mounted
  <2>2. Tidy(g, sure)
    BY <1>1, <2>1, MountsTidy
  <2> QED
    BY <2>1, <2>2, LookedKept, KeptTidy
<1>13. CASE Gated(d, e, v)
  BY <1>1, <1>13, GatedTidy
<1>14. CASE Exited(d, e, y)
  BY <1>14, ExitedTidy
<1>15. CASE e = d
  BY <1>15
<1>16. CASE \E p : Looked(d, e, p)
  BY <1>1, <1>16, LookedKept, KeptTidy
<1> QED
  BY <1>3, <1>4, <1>5, <1>6, <1>7, <1>8, <1>9, <1>10, <1>11, <1>12, <1>13,
     <1>14, <1>15, <1>16 DEF Served, Attended

\* ppr announces a job.
LEMMA SubmittedTidy ==
  ASSUME NEW d, NEW r \in SUBSET Jobs, NEW lost, NEW owed,
         Sound(d, r, lost, owed), NEW sure, sure \subseteq Dests,
         Tidy(d, sure),
         NeverLate => r = {},
         NEW e, NEW s, NEW x, NEW y, Submitted(d, e, r, s, x, y)
  PROVE  Tidy(e, sure) /\ (NeverLate => s = {})
PROOF
<1>1. d \in Tables /\ Entries(d)
  BY DEF Sound
<1>2. PICK j \in Jobs, st \in Arrivals :
        /\ ~ Queued(d, j)
        /\ s = IF st = STATUS_RECEIVING THEN r \cup {j} ELSE r
        /\ \/ OnlyFiles(d, e) /\ e.files = d.files \ {j}
           \/ \E g \in Tables : Entered(d, g, j, st) /\ Offered(g, e, j)
  BY DEF Submitted
<1>3. NeverLate => s = {}
  BY <1>2 DEF NeverLate
<1>4. Tidy(e, sure)
  <2>1. CASE OnlyFiles(d, e) /\ e.files = d.files \ {j}
    BY <1>1, <1>2, <2>1, FilesTidy
  <2>2. ASSUME NEW g \in Tables, Entered(d, g, j, st), Offered(g, e, j)
        PROVE  Tidy(e, sure)
    <3>1. st # STATUS_NONE
      BY InstanceAssumption
    <3>2. Tidy(g, sure)
      BY <1>1, <1>2, <2>2, <3>1, EnteredTidy
    <3> QED
      BY <2>2, <3>2, LookedKept, KeptTidy
  <2> QED
    BY <1>2, <2>1, <2>2
<1> QED
  BY <1>3, <1>4

\* ppr has sent the rest of a job.
LEMMA ReloadedTidy ==
  ASSUME NEW d, NEW r \in SUBSET Jobs, NEW lost, NEW owed,
         Sound(d, r, lost, owed), NEW sure, sure \subseteq Dests,
         Tidy(d, sure),
         NeverLate => r = {}, NEW e, NEW s, Reloaded(d, e, r, s)
  PROVE  Tidy(e, sure) /\ (NeverLate => s = {})
PROOF
<1>1. d \in Tables /\ Entries(d)
  BY DEF Sound
<1>2. PICK j \in r :
        /\ s = r \ {j}
        /\ \/ /\ JobDest[j] \notin d.accepting \/ ~ Queued(d, j)
                   \/ d.jdest[j] # JobDest[j]
              /\ OnlyFiles(d, e)
              /\ e.files = IF d.jdest[j] = JobDest[j] THEN d.files \ {j}
                                                      ELSE d.files
           \/ /\ Queued(d, j)
              /\ \E g \in Tables :
                   /\ Refreshed(d, g, j, d.jdest[j], STATUS_WAITING)
                   /\ SamePlaces(d, g) /\ g.prio[j] = JobPriority[j]
                   /\ g.never[j] = {} /\ g.pass[j] = FirstPass(d.jdest[j])
                   /\ Offered(g, e, j)
  BY DEF Reloaded
<1>3. ~ NeverLate /\ j \in Jobs
  OBVIOUS
<1>4. Tidy(e, sure)
  <2>1. CASE /\ JobDest[j] \notin d.accepting \/ ~ Queued(d, j)
                  \/ d.jdest[j] # JobDest[j]
             /\ OnlyFiles(d, e)
             /\ e.files = IF d.jdest[j] = JobDest[j] THEN d.files \ {j}
                                                     ELSE d.files
    <3>1. CASE d.jdest[j] = JobDest[j]
      <4>1. AlwaysOpen => ~ Queued(d, j)
        <5>1. JobDest[j] \in Dests
          BY <1>3, JobsAssumption
        <5> QED
          BY <2>1, <3>1, <5>1 DEF Tidy
      <4> QED
        BY <1>1, <1>3, <2>1, <3>1, <4>1, FilesTidy
    <3>2. CASE d.jdest[j] # JobDest[j]
      <4>1. Kept(d, e)
        BY <2>1, <3>2 DEF OnlyFiles, Kept, Queued
      <4> QED
        BY <1>1, <4>1, KeptTidy
    <3> QED
      BY <3>1, <3>2
  <2>2. ASSUME Queued(d, j), NEW g \in Tables,
               Refreshed(d, g, j, d.jdest[j], STATUS_WAITING),
               SamePlaces(d, g), g.prio[j] = JobPriority[j],
               Offered(g, e, j)
        PROVE  Tidy(e, sure)
    <3>1. Queued(g, j)
      BY <2>2 DEF Queued, Refreshed
    <3>2. NeverRushed => d.prio[j] = JobPriority[j]
      BY <1>3 DEF Tidy, Priorities
    <3>3. Tidy(g, sure)
      BY <1>1, <1>3, <2>2, <3>1, <3>2, RefreshedTidy
    <3> QED
      BY <2>2, <3>3, LookedKept, KeptTidy
  <2> QED
    BY <1>2, <2>1, <2>2
<1> QED
  BY <1>3, <1>4

---------------------------------------------------------------------------
(* The specification *)

\* The inductive invariant of the queue.
QueueInv ==
  /\ IndInv /\ Asked
  /\ Tidy(pprd, Dests)
  /\ NeverLate => recv = {}

\* The queue of a fresh installation is empty.
LEMMA InitTidy == Init => Tidy(pprd, Dests)
PROOF
<1> SUFFICES ASSUME Init PROVE Tidy(pprd, Dests)
  OBVIOUS
<1> DEFINE d == InitTables
<1>1. /\ d.queue = << >> /\ d.prio = JobPriority /\ d.files = {}
      /\ d.accepting = Dests
      /\ \A x \in Dests : d.count[x] = 0
      /\ \A j \in Jobs : d.jstatus[j] = STATUS_NONE
  BY DEF InitTables
<1> HIDE DEF d
<1>2. \A j \in Jobs : ~ Queued(d, j)
  BY <1>1 DEF Queued
<1>3. DOMAIN d.queue = {}
  BY <1>1
<1>4. Listed(d) /\ Distinct(d) /\ Ordered(d)
  BY <1>3 DEF Listed, Distinct, Ordered
<1>5. Priorities(d)
  <2>1. \A j \in Jobs : JobPriority[j] \in 1 .. 101
    BY JobsAssumption
  <2> QED
    BY <1>1, <2>1 DEF Priorities
<1>6. Fresh(d) /\ Filed(d)
  BY <1>1, <1>2 DEF Fresh, Filed
<1>7. Counted(d, Dests)
  <2>1. \A x : QueuedFor(d, x) = {}
    BY <1>2 DEF QueuedFor
  <2> QED
    BY <1>1, <2>1, FS_EmptySet DEF Counted
<1>8. Tidy(d, Dests)
  BY <1>1, <1>4, <1>5, <1>6, <1>7 DEF Tidy
<1> QED
  BY <1>8 DEF Init, d

\* Every event keeps the queue in order.
LEMMA QueueInvariance == Spec => []QueueInv
PROOF
<1>1. Init => Tidy(pprd, Dests) /\ recv = {}
  BY InitTidy DEF Init
<1>2. ASSUME IndInv, IndInv', Asked, [Next]_vars, Tidy(pprd, Dests),
             NeverLate => recv = {}
      PROVE  Tidy(pprd', Dests) /\ (NeverLate => recv' = {})
  <2>1. /\ Sound(pprd, recv, {}, 0) /\ recv \in SUBSET Jobs
        /\ excused' \in SUBSET Jobs
    BY <1>2 DEF IndInv
  <2>2. CASE UNCHANGED vars
    BY <1>2, <2>2 DEF vars
  <2>3. CASE EventDoes
    <3>1. CASE /\ Served(pprd, pprd', Pending(todo), Pending(todo'), excused')
               /\ recv' = recv
      BY <1>2, <2>1, <3>1, ServedTidy
    <3>2. CASE Submitted(pprd, pprd', recv, recv', excused, excused')
      BY <1>2, <2>1, <3>2, SubmittedTidy
    <3>3. CASE Reloaded(pprd, pprd', recv, recv')
      BY <1>2, <2>1, <3>3, ReloadedTidy
    <3> QED
      BY <2>3, <3>1, <3>2, <3>3 DEF EventDoes
  <2> QED
    BY <1>2, <2>2, <2>3, Steps
<1>3. Init /\ IndInv /\ Asked => QueueInv
  BY <1>1 DEF QueueInv
<1>4. QueueInv /\ IndInv' /\ Asked' /\ [Next]_vars => QueueInv'
  BY <1>2 DEF QueueInv
<1> QED
  BY <1>3, <1>4, Invariance, AskedHolds, PTL DEF Spec

---------------------------------------------------------------------------
(* The theorems *)

\* The cached `notnow' mask of every queued job always agrees with what is
\* mounted on the printers of its destination, whatever commands are sent:
\* mounting, moving, releasing and reloading all bring it up to date.
THEOREM MasksAreFresh == Spec => []NotNowFresh
PROOF
<1>1. QueueInv => NotNowFresh
  BY DEF QueueInv, Tidy, Fresh, Mask, NotNowFresh
<1> QED
  BY <1>1, QueueInvariance, PTL

\* The queue array holds every queued job once, most urgent first and in the
\* order of submission among equals, if ppr announces only complete jobs or
\* nobody rushes jobs.  (A job that is rushed while it is being received gets
\* its old priority back when it is reloaded, but keeps its place.)
THEOREM QueueIsOrdered ==
  ASSUME NeverLate \/ NeverRushed
  PROVE  Spec => []QueueOrder
PROOF
<1>1. QueueInv => QueueOrder
  BY DEF QueueInv, Tidy, Listed, Distinct, Ordered, Precedes, QueueOrder
<1> QED
  BY <1>1, QueueInvariance, PTL

\* The spool files of a job exist as long as its queue entry, if ppr announces
\* only complete jobs or no destination rejects jobs.  (The files of a job
\* whose destination has begun to reject while it was received are deleted
\* and its entry stays.)
THEOREM FilesGoWithEntries ==
  ASSUME NeverLate \/ AlwaysOpen
  PROVE  Spec => []FilesMatchQueue
PROOF
<1>1. QueueInv => FilesMatchQueue
  BY DEF QueueInv, Tidy, Filed, FilesMatchQueue
<1> QED
  BY <1>1, QueueInvariance, PTL

\* job_count of a destination is the number of jobs queued for it, as long as
\* no job is moved.  (ppop_move() does not carry the count over.)
THEOREM JobsAreCounted ==
  ASSUME NeverMoved
  PROVE  Spec => []JobCounts
PROOF
<1>1. QueueInv => JobCounts
  BY DEF QueueInv, Tidy, Counted, JobCounts
<1> QED
  BY <1>1, QueueInvariance, PTL

---------------------------------------------------------------------------
(* Jobs that every printer has refused *)

\* The statuses of a queued job that no pprdrv has in its hands.
Resting == {STATUS_WAITING, STATUS_HELD, STATUS_WAITING4MEDIA,
            STATUS_ARRESTED, STATUS_STRANDED, STATUS_RECEIVING}

\* Only printers of its destination have refused job j, and in the third pass
\* over a group (there is no fourth) all of them have.
Refused(d, j) ==
  LET all == MembersOf(d.jdest[j])
  IN  /\ d.never[j] \subseteq all
      /\ IsGroup(d.jdest[j]) =>
           d.pass[j] <= 2 \/ (d.pass[j] = 3 /\ d.never[j] = all)

\* Only members of the destination have refused the job of a running pprdrv,
\* not including its own printer, in one of the two first passes.
Attempts(d, p) ==
  LET j == d.job[p]
  IN  /\ Covers(d.jobdest[p], p)
      /\ d.jdest[j] = d.jobdest[p] =>
           /\ d.never[j] \subseteq MembersOf(d.jobdest[p])
           /\ p \notin d.never[j]
           /\ IsGroup(d.jobdest[p]) => d.pass[j] <= 2

GivenUp(d, j) ==
  /\ d.never[j] = MembersOf(d.jdest[j])
  /\ IsGroup(d.jdest[j]) => d.pass[j] = 3

Refusals(d) ==
  /\ \A j \in Jobs : d.jstatus[j] \in Resting => Refused(d, j)
  /\ \A p \in d.pids : Attempts(d, p)
  /\ \A j \in Jobs : d.jstatus[j] = STATUS_STRANDED => GivenUp(d, j)

\* What does not touch the masks and gives nobody up.
LEMMA FrameRefusals ==
  ASSUME NEW d, NEW e, Refusals(d), e.never = d.never, e.pass = d.pass,
         e.jdest = d.jdest, e.pids = d.pids, e.job = d.job,
         e.jobdest = d.jobdest,
         \A j \in Jobs : e.jstatus[j] \in Resting =>
           /\ d.jstatus[j] \in Resting
           /\ e.jstatus[j] = STATUS_STRANDED => d.jstatus[j] = STATUS_STRANDED
  PROVE  Refusals(e)
PROOF
<1>1. /\ \A j : Refused(e, j) <=> Refused(d, j)
      /\ \A j : GivenUp(e, j) <=> GivenUp(d, j)
      /\ \A p : Attempts(e, p) <=> Attempts(d, p)
  BY DEF Refused, GivenUp, Attempts
<1>2. STATUS_STRANDED \in Resting
  BY DEF Resting
<1> QED
  BY <1>1, <1>2 DEF Refusals

\* Starting jobs: a printer that has refused the job is not tried.
LEMMA StartsRefusals ==
  ASSUME NEW d \in Tables, NEW e, Refusals(d), Starts(d, e)
  PROVE  Refusals(e)
PROOF
<1>1. /\ e.never = d.never /\ e.pass = d.pass /\ e.jdest = d.jdest
  BY DEF Starts, SameJobs, SameEntries
<1>2. CASE SameHands(d, e) /\ e.jstatus = d.jstatus
  BY <1>1, <1>2, FrameRefusals DEF SameHands
<1>3. ASSUME NEW p \in Printers, NEW j \in Jobs, Begins(d, e, p, j)
      PROVE  Refusals(e)
  <2>1. /\ d.jstatus[j] = STATUS_WAITING /\ Covers(d.jdest[j], p)
        /\ p \notin d.never[j]
        /\ e.pids = d.pids \cup {p}
        /\ \A i \in Jobs : e.jstatus[i] = IF i = j THEN p ELSE d.jstatus[i]
        /\ e.job[p] = j /\ e.jobdest[p] = d.jdest[j]
        /\ \A q \in Printers \ {p} :
             e.job[q] = d.job[q] /\ e.jobdest[q] = d.jobdest[q]
    BY <1>3 DEF Begins, Fits, Suitable
  <2>2. p \notin Resting /\ d.pids \subseteq Printers
    BY StatusRange DEF Resting, Tables
  <2>3. /\ \A i : Refused(e, i) <=> Refused(d, i)
        /\ \A i : GivenUp(e, i) <=> GivenUp(d, i)
    BY <1>1 DEF Refused, GivenUp
  <2>4. Refused(d, j)
    BY <2>1 DEF Refusals, Resting
  <2>5. Attempts(e, p)
    <3>1. d.never[j] # MembersOf(d.jdest[j])
      BY <2>1 DEF Covers
    <3> QED
      BY <1>1, <2>1, <2>4, <3>1 DEF Attempts, Refused
  <2>6. ASSUME NEW q \in d.pids, q # p
        PROVE  Attempts(e, q)
    <3>1. Attempts(d, q)
      BY DEF Refusals
    <3> QED
      BY <1>1, <2>1, <2>2, <2>6, <3>1 DEF Attempts
  <2>7. p # STATUS_STRANDED
    BY StatusRange
  <2> QED
    BY <2>1, <2>2, <2>3, <2>5, <2>6, <2>7 DEF Refusals
<1> QED
  BY <1>2, <1>3 DEF Starts

\* Changes of a printer's status and of wait reasons.
LEMMA ChangedRefusals ==
  ASSUME NEW d, NEW e, Refusals(d)
  PROVE  /\ \A p, s : Changed(d, e, p, s) => Refusals(e)
         /\ \A p, s : Settled(d, e, p, s) => Refusals(e)
         /\ \A p : Idled(d, e, p) => Refusals(e)
         /\ Alike(d, e) => Refusals(e)
         /\ \A p : Mounts(d, e, p) => Refusals(e)
         /\ OnlyFiles(d, e) => Refusals(e)
PROOF
<1>1. ASSUME SameHands(d, e), e.never = d.never, e.pass = d.pass,
             e.jdest = d.jdest, NEW p, ReasonsFollow(d, e, p)
      PROVE  Refusals(e)
  <2>1. \A j \in Jobs : e.jstatus[j] \in Resting =>
          /\ d.jstatus[j] \in Resting
          /\ e.jstatus[j] = STATUS_STRANDED => d.jstatus[j] = STATUS_STRANDED
    BY <1>1 DEF ReasonsFollow, Resting
  <2> QED
    BY <1>1, <2>1, FrameRefusals DEF SameHands
<1>2. ASSUME SameHands(d, e), e.never = d.never, e.pass = d.pass,
             e.jdest = d.jdest, e.jstatus = d.jstatus
      PROVE  Refusals(e)
  BY <1>2, FrameRefusals DEF SameHands
<1>3. \A p, s : Changed(d, e, p, s) => Refusals(e)
  BY <1>1 DEF Changed, SameJobs, SameEntries
<1>4. \A p, s : Settled(d, e, p, s) => Refusals(e)
  BY <1>2 DEF Settled, SameJobs, SameEntries
<1>5. \A p : Idled(d, e, p) => Refusals(e)
  BY <1>2 DEF Idled, SameJobs, SameEntries
<1>6. Alike(d, e) => Refusals(e)
  BY <1>2 DEF Alike, SameJobs, SameEntries
<1>7. \A p : Mounts(d, e, p) => Refusals(e)
  BY <1>1 DEF Mounts
<1>8. OnlyFiles(d, e) => Refusals(e)
  BY <1>2 DEF OnlyFiles
<1> QED
  BY <1>3, <1>4, <1>5, <1>6, <1>7, <1>8

\* A printer looks for work, or a job is offered to the printers.
LEMMA LookedRefusals ==
  ASSUME NEW d \in Tables, NEW e, Refusals(d)
  PROVE  /\ \A p : Looked(d, e, p) => Refusals(e)
         /\ \A j : Offered(d, e, j) => Refusals(e)
PROOF
  BY StartsRefusals DEF Looked, Offered

\* Only the status of a job changes, and not to one of those it may rest in
\* (a job that waits may be held).
LEMMA BecomesRefusals ==
  ASSUME NEW d, NEW e, Refusals(d), NEW j \in Jobs, NEW s, s # STATUS_STRANDED,
         Becomes(d, e, j, s), s \in Resting => d.jstatus[j] \in Resting
  PROVE  Refusals(e)
PROOF
<1>1. \A i \in Jobs : e.jstatus[i] \in Resting =>
        /\ d.jstatus[i] \in Resting
        /\ e.jstatus[i] = STATUS_STRANDED => d.jstatus[i] = STATUS_STRANDED
  BY DEF Becomes
<1> QED
  BY <1>1, FrameRefusals DEF Becomes, SameJobs, SameEntries

\* The entry of a job is brought up to date: it keeps its masks, or they are
\* cleared for a first pass over the printers.
LEMMA RenewedRefusals ==
  ASSUME NEW d \in Tables, Exclusive(d), NEW g, Refusals(d), NEW j \in Jobs,
         OnlyEntry(d, g, j), g.jstatus[j] # STATUS_STRANDED,
         \/ g.never[j] = {} /\ g.pass[j] = FirstPass(g.jdest[j])
         \/ /\ g.never[j] = d.never[j] /\ g.pass[j] = d.pass[j]
            /\ g.jdest[j] = d.jdest[j] /\ d.jstatus[j] \in Resting
  PROVE  Refusals(g)
PROOF
<1>1. /\ g.pids = d.pids /\ g.job = d.job /\ g.jobdest = d.jobdest
      /\ \A i \in Jobs : i # j =>
           /\ g.jstatus[i] = d.jstatus[i] /\ g.jdest[i] = d.jdest[i]
           /\ g.never[i] = d.never[i] /\ g.pass[i] = d.pass[i]
  BY DEF OnlyEntry, SameHands
<1>2. ASSUME NEW i \in Jobs, i # j
      PROVE  /\ Refused(g, i) <=> Refused(d, i)
             /\ GivenUp(g, i) <=> GivenUp(d, i)
  BY <1>1, <1>2 DEF Refused, GivenUp
<1>3. ASSUME g.never[j] = {}, g.pass[j] = FirstPass(g.jdest[j])
      PROVE  Refused(g, j) /\ \A p \in d.pids : d.job[p] = j =>
                                (Attempts(d, p) => Attempts(g, p))
  <2>1. g.pass[j] <= 2
    BY <1>3 DEF FirstPass
  <2> QED
    BY <1>1, <1>3, <2>1 DEF Refused, Attempts
<1>4. ASSUME g.never[j] = d.never[j], g.pass[j] = d.pass[j],
             g.jdest[j] = d.jdest[j], d.jstatus[j] \in Resting
      PROVE  Refused(g, j) /\ \A p \in d.pids : d.job[p] = j =>
                                (Attempts(d, p) => Attempts(g, p))
  BY <1>1, <1>4 DEF Refused, Attempts, Refusals
<1>5. Refused(g, j) /\ \A p \in d.pids : d.job[p] = j =>
                         (Attempts(d, p) => Attempts(g, p))
  BY <1>3, <1>4
<1>6. ASSUME NEW p \in d.pids
      PROVE  Attempts(g, p)
  <2>1. d.job[p] \in Jobs /\ Attempts(d, p)
    BY RunningJobs DEF Refusals
  <2>2. CASE d.job[p] # j
    BY <1>1, <2>1, <2>2 DEF Attempts
  <2> QED
    BY <1>5, <2>1, <2>2
<1> QED
  BY <1>1, <1>2, <1>5, <1>6 DEF Refusals

\* A job that no pprdrv has leaves the queue.
LEMMA GoneRefusals ==
  ASSUME NEW d \in Tables, Exclusive(d), NEW e, Refusals(d), NEW j \in Jobs,
         e.pids \subseteq d.pids, e.job = d.job, e.jobdest = d.jobdest,
         \A p \in e.pids : d.job[p] # j,
         e.jstatus[j] \notin Resting,
         \A i \in Jobs : i # j =>
           /\ e.jstatus[i] = d.jstatus[i] /\ e.jdest[i] = d.jdest[i]
           /\ e.never[i] = d.never[i] /\ e.pass[i] = d.pass[i]
  PROVE  Refusals(e)
PROOF
<1>1. ASSUME NEW i \in Jobs, i # j
      PROVE  /\ Refused(e, i) <=> Refused(d, i)
             /\ GivenUp(e, i) <=> GivenUp(d, i)
  BY <1>1 DEF Refused, GivenUp
<1>2. ASSUME NEW p \in e.pids
      PROVE  Attempts(e, p)
  <2>1. p \in d.pids /\ d.job[p] # j
    OBVIOUS
  <2>2. d.job[p] \in Jobs /\ Attempts(d, p)
    BY <2>1, RunningJobs DEF Refusals
  <2> QED
    BY <2>1, <2>2 DEF Attempts
<1>3. STATUS_STRANDED \in Resting
  BY DEF Resting
<1> QED
  BY <1>1, <1>2, <1>3 DEF Refusals

\* A pprdrv ends and its job stays: its printer may have refused it.
LEMMA StaysRefusals ==
  ASSUME NEW d \in Tables, Exclusive(d), NEW e, Refusals(d), NEW p \in d.pids,
         NEW c, Stays(d, e, p, c, JobStatusAfter(d, p, c)),
         d.jdest[d.job[p]] = d.jobdest[p]
  PROVE  Refusals(e)
PROOF
<1> DEFINE j == d.job[p]
           all == MembersOf(d.jdest[j])
           s == JobStatusAfter(d, p, c)
<1>1. j \in Jobs /\ Attempts(d, p)
  BY RunningJobs DEF Refusals
<1>2. /\ d.never[j] \subseteq all /\ p \notin d.never[j] /\ p \in all
      /\ IsGroup(d.jdest[j]) => d.pass[j] <= 2
  BY <1>1 DEF Attempts, Covers
<1>3. d.pass[j] \in Nat
  BY <1>1 DEF Tables
<1>4. ~ IsGroup(d.jdest[j]) => all = {p}
  BY <1>2 DEF MembersOf
<1>5. /\ e.pids = d.pids \ {p} /\ e.job = d.job /\ e.jobdest = d.jobdest
      /\ e.jdest = d.jdest /\ e.jstatus[j] = s
      /\ \A i \in Jobs : i # j =>
           /\ e.jstatus[i] = d.jstatus[i]
           /\ e.never[i] = d.never[i] /\ e.pass[i] = d.pass[i]
  BY DEF Stays
<1>6. Refused(e, j) /\ (s = STATUS_STRANDED => GivenUp(e, j))
  <2>1. CASE c # "incapable"
    <3>1. e.never[j] = d.never[j] /\ e.pass[j] = d.pass[j]
      BY <2>1 DEF Stays
    <3>2. s # STATUS_STRANDED
      BY <2>1 DEF JobStatusAfter
    <3> QED
      BY <1>2, <1>5, <3>1, <3>2 DEF Refused
  <2>2. CASE c = "incapable" /\ ~ IsGroup(d.jdest[j])
    <3>1. e.never[j] = d.never[j] \cup {p}
      BY <2>2 DEF Stays
    <3> QED
      BY <1>2, <1>4, <1>5, <2>2, <3>1 DEF Refused, GivenUp
  <2>3. CASE c = "incapable" /\ IsGroup(d.jdest[j]) /\ ~ AllRefused(d, p)
    <3>1. e.never[j] = d.never[j] \cup {p} /\ e.pass[j] = d.pass[j]
      BY <2>3 DEF Stays
    <3>2. s # STATUS_STRANDED
      BY <2>3 DEF JobStatusAfter, Stranded
    <3> QED
      BY <1>2, <1>5, <2>3, <3>1, <3>2 DEF Refused
  <2>4. CASE c = "incapable" /\ IsGroup(d.jdest[j]) /\ AllRefused(d, p)
    <3>1. d.never[j] \cup {p} = all
      BY <2>4 DEF AllRefused
    <3>2. e.pass[j] = d.pass[j] + 1
      BY <2>4 DEF Stays
    <3>3. CASE d.pass[j] + 1 > 2
      <4>1. Stranded(d, p)
        BY <2>4, <3>3 DEF Stranded
      <4>2. e.never[j] = d.never[j] \cup {p}
        BY <2>4, <4>1 DEF Stays
      <4>3. e.pass[j] = 3
        BY <1>2, <1>3, <2>4, <3>2, <3>3
      <4> QED
        BY <1>5, <3>1, <4>2, <4>3 DEF Refused, GivenUp
    <3>4. CASE ~ (d.pass[j] + 1 > 2)
      <4>1. ~ Stranded(d, p)
        BY <2>4, <3>4 DEF Stranded
      <4>2. e.never[j] = {}
        BY <2>4, <4>1 DEF Stays
      <4>3. s # STATUS_STRANDED
        BY <4>1 DEF JobStatusAfter
      <4>4. e.pass[j] <= 2
        BY <1>3, <3>2, <3>4
      <4> QED
        BY <1>5, <4>2, <4>3, <4>4 DEF Refused
    <3> QED
      BY <3>3, <3>4
  <2> QED
    BY <2>1, <2>2, <2>3, <2>4
<1>7. ASSUME NEW i \in Jobs, i # j
      PROVE  /\ Refused(e, i) <=> Refused(d, i)
             /\ GivenUp(e, i) <=> GivenUp(d, i)
  BY <1>5, <1>7 DEF Refused, GivenUp
<1>8. ASSUME NEW q \in e.pids
      PROVE  Attempts(e, q)
  <2>1. q \in d.pids /\ d.job[q] # j
    BY <1>5 DEF Exclusive
  <2>2. d.job[q] \in Jobs /\ Attempts(d, q)
    BY <2>1, RunningJobs DEF Refusals
  <2> QED
    BY <1>5, <2>1, <2>2 DEF Attempts
<1> HIDE DEF s, j
<1>9. ASSUME NEW i \in Jobs, e.jstatus[i] \in Resting
      PROVE  Refused(e, i)
  BY <1>5, <1>6, <1>7, <1>9 DEF Refusals
<1>10. ASSUME NEW i \in Jobs, e.jstatus[i] = STATUS_STRANDED
       PROVE  GivenUp(e, i)
  BY <1>5, <1>6, <1>7, <1>10 DEF Refusals
<1> QED
  BY <1>8, <1>9, <1>10 DEF Refusals

\* The end of a pprdrv.
LEMMA ExitedRefusals ==
  ASSUME NEW d, NEW r, NEW lost, NEW owed,
         Sound(d, r, lost, owed), Refusals(d),
         NEW e, NEW y, Exited(d, e, y)
  PROVE  Refusals(e)
PROOF
<1>1. d \in Tables /\ Exclusive(d)
  BY DEF Sound
<1>2. PICK p \in d.pids, c \in ExitCodes :
        \/ e = Die(d)
        \/ \E f, g \in Tables :
             /\ Disposed(d, f, p, c)
             /\ Settled(f, g, p, PrnStatusAfter(d, p, c))
             /\ \/ e = g /\ g.status[p] # PRNSTATUS_IDLE
                \/ Looked(g, e, p)
  BY DEF Exited
<1> DEFINE j == d.job[p]
<1>3. j \in Jobs /\ \A q \in d.pids \ {p} : d.job[q] # j
  BY <1>1, RunningJobs DEF Exclusive
<1>4. CASE e = Die(d)
  <2>1. /\ e.never = d.never /\ e.pass = d.pass /\ e.jdest = d.jdest
        /\ e.pids = d.pids /\ e.job = d.job /\ e.jobdest = d.jobdest
        /\ e.jstatus = d.jstatus
    BY <1>1, <1>4 DEF Die, Tables
  <2> QED
    BY <2>1, FrameRefusals
<1>5. ASSUME NEW f \in Tables, NEW g \in Tables, Disposed(d, f, p, c),
             Settled(f, g, p, PrnStatusAfter(d, p, c)),
             e = g \/ Looked(g, e, p)
      PROVE  Refusals(e)
  <2>1. Refusals(f)
    <3>1. CASE Leaves(d, f, p)
      <4>1. /\ f.pids = d.pids \ {p} /\ f.job = d.job /\ f.jobdest = d.jobdest
            /\ f.jstatus[j] \notin Resting
            /\ \A i \in Jobs : i # j =>
                 /\ f.jstatus[i] = d.jstatus[i] /\ f.jdest[i] = d.jdest[i]
                 /\ f.never[i] = d.never[i] /\ f.pass[i] = d.pass[i]
        BY <3>1 DEF Leaves, Resting
      <4> HIDE DEF j
      <4> QED
        BY <1>1, <1>3, <4>1, GoneRefusals
    <3>2. CASE /\ Stays(d, f, p, c, d.jstatus[j])
               /\ d.jstatus[j] \in {STATUS_CANCEL, STATUS_SEIZING}
      <4>1. /\ f.pids = d.pids \ {p} /\ f.job = d.job /\ f.jobdest = d.jobdest
            /\ f.jstatus[j] \notin Resting
            /\ \A i \in Jobs : i # j =>
                 /\ f.jstatus[i] = d.jstatus[i] /\ f.jdest[i] = d.jdest[i]
                 /\ f.never[i] = d.never[i] /\ f.pass[i] = d.pass[i]
        BY <3>2 DEF Stays, Resting
      <4> HIDE DEF j
      <4> QED
        BY <1>1, <1>3, <4>1, GoneRefusals
    <3>3. CASE Keeps(d, f, p, c) /\ d.jdest[d.job[p]] = d.jobdest[p]
      <4>1. PICK h \in Tables : /\ Stays(d, h, p, c, JobStatusAfter(d, p, c))
                                /\ Starts(h, f)
        BY <3>3 DEF Keeps
      <4>2. Refusals(h)
        BY <1>1, <3>3, <4>1, StaysRefusals
      <4> QED
        BY <4>1, <4>2, StartsRefusals
    <3> QED
      BY <1>5, <3>1, <3>2, <3>3 DEF Disposed
  <2>2. Refusals(g)
    BY <1>5, <2>1, ChangedRefusals
  <2> QED
    BY <1>5, <2>2, LookedRefusals
<1> QED
  BY <1>2, <1>4, <1>5

\* Every event that is not about ppr.
LEMMA ServedRefusals ==
  ASSUME NEW d, NEW r, NEW lost, NEW owed,
         Sound(d, r, lost, owed), Refusals(d), NEW e, NEW w, NEW v,
         NEW y \in SUBSET Jobs, Served(d, e, w, v, y)
  PROVE  Refusals(e)
PROOF
<1>1. d \in Tables /\ Exclusive(d)
  BY DEF Sound
<1>2. CASE Alike(d, e)
  BY <1>2, ChangedRefusals
<1>3. CASE Woken(d, e)
  BY <1>3, ChangedRefusals, LookedRefusals DEF Woken
<1>4. CASE Stopped(d, e)
  BY <1>4, ChangedRefusals DEF Stopped
<1>5. CASE Started(d, e)
  BY <1>5, ChangedRefusals, LookedRefusals DEF Started
<1>6. CASE Held(d, e)
  <2>1. PICK j \in Jobs :
          \/ /\ d.jstatus[j] \in {STATUS_WAITING, STATUS_WAITING4MEDIA}
             /\ Becomes(d, e, j, STATUS_HELD)
          \/ Becomes(d, e, j, STATUS_SEIZING)
    BY <1>6 DEF Held
  <2>2. /\ STATUS_SEIZING \notin Resting
        /\ {STATUS_WAITING, STATUS_WAITING4MEDIA} \subseteq Resting
    BY DEF Resting
  <2> QED
    BY <2>1, <2>2, BecomesRefusals
<1>7. CASE Released(d, e)
  <2>1. PICK j \in Jobs, g \in Tables :
          /\ d.jstatus[j] \in {STATUS_HELD, STATUS_ARRESTED}
          /\ Refreshed(d, g, j, d.jdest[j], STATUS_WAITING)
          /\ g.never[j] = d.never[j] /\ g.pass[j] = d.pass[j]
          /\ Offered(g, e, j)
    BY <1>7 DEF Released
  <2>2. /\ OnlyEntry(d, g, j) /\ g.jdest[j] = d.jdest[j]
        /\ g.jstatus[j] # STATUS_STRANDED
        /\ d.jstatus[j] \in Resting
    BY <2>1 DEF Refreshed, Resting
  <2>3. Refusals(g)
    BY <1>1, <2>1, <2>2, RenewedRefusals
  <2> QED
    BY <2>1, <2>3, LookedRefusals
<1>8. CASE Canceled(d, e, y)
  <2>1. PICK j \in y :
          \/ Becomes(d, e, j, STATUS_CANCEL)
          \/ /\ d.jstatus[j] < 0
             /\ d.jstatus[j] \notin {STATUS_CANCEL, STATUS_SEIZING}
             /\ Dequeued(d, e, j)
    BY <1>8 DEF Canceled, Withdrawn
  <2>2. CASE Becomes(d, e, j, STATUS_CANCEL)
    <3>1. STATUS_CANCEL \notin Resting
      BY DEF Resting
    <3> QED
      BY <2>2, <3>1, BecomesRefusals
  <2>3. CASE /\ d.jstatus[j] < 0
             /\ d.jstatus[j] \notin {STATUS_CANCEL, STATUS_SEIZING}
             /\ Dequeued(d, e, j)
    <3>1. ASSUME NEW p \in d.pids, d.job[p] = j
          PROVE  FALSE
      <4>1. d.jstatus[j] = p
        BY <2>3, <3>1 DEF Sound, Exclusive
      <4>2. p \in Printers
        BY <1>1, RunningJobs
      <4> QED
        BY <2>3, <4>1, <4>2, StatusRange
    <3>2. /\ e.pids = d.pids /\ e.job = d.job /\ e.jobdest = d.jobdest
          /\ e.jstatus[j] \notin Resting
          /\ \A i \in Jobs : i # j =>
               /\ e.jstatus[i] = d.jstatus[i] /\ e.jdest[i] = d.jdest[i]
               /\ e.never[i] = d.never[i] /\ e.pass[i] = d.pass[i]
      BY <2>3 DEF Dequeued, SameHands, Resting
    <3> QED
      BY <1>1, <3>1, <3>2, GoneRefusals
  <2> QED
    BY <2>1, <2>2, <2>3
<1>9. CASE Moved(d, e)
  <2>1. PICK j \in Jobs, to \in Dests, g \in Tables :
          MovedTo(d, g, j, to) /\ Offered(g, e, j)
    BY <1>9 DEF Moved
  <2>2. /\ OnlyEntry(d, g, j) /\ g.jdest[j] = to
        /\ g.jstatus[j] # STATUS_STRANDED
        /\ g.never[j] = {} /\ g.pass[j] = FirstPass(to)
    BY <2>1 DEF MovedTo, Refreshed
  <2>3. Refusals(g)
    BY <1>1, <2>2, RenewedRefusals
  <2> QED
    BY <2>1, <2>3, LookedRefusals
<1>10. CASE Rushed(d, e)
  <2>1. /\ e.never = d.never /\ e.pass = d.pass /\ e.jdest = d.jdest
        /\ e.pids = d.pids /\ e.job = d.job /\ e.jobdest = d.jobdest
        /\ e.jstatus = d.jstatus
    BY <1>1, <1>10 DEF Rushed, RushJob, Tables
  <2> QED
    BY <2>1, FrameRefusals
<1>11. CASE Mounted(d, e)
  BY <1>11, ChangedRefusals, LookedRefusals DEF Mounted
<1>12. CASE Gated(d, e, v)
  <2>1. /\ e.never = d.never /\ e.pass = d.pass /\ e.jdest = d.jdest
        /\ e.pids = d.pids /\ e.job = d.job /\ e.jobdest = d.jobdest
        /\ e.jstatus = d.jstatus
    BY <1>1, <1>12 DEF Gated, Tables
  <2> QED
    BY <2>1, FrameRefusals
<1>13. CASE Exited(d, e, y)
  BY <1>13, ExitedRefusals
<1>14. CASE e = d
  BY <1>14
<1>15. CASE \E p : Looked(d, e, p)
  BY <1>1, <1>15, LookedRefusals
<1> QED
  BY <1>2, <1>3, <1>4, <1>5, <1>6, <1>7, <1>8, <1>9, <1>10, <1>11, <1>12,
     <1>13, <1>14, <1>15 DEF Served, Attended

\* ppr announces a job, or has sent the rest of it.
LEMMA SubmittedRefusals ==
  ASSUME NEW d, NEW r \in SUBSET Jobs, NEW lost, NEW owed,
         Sound(d, r, lost, owed), Refusals(d),
         NEW e, NEW s, NEW x, NEW y,
         Submitted(d, e, r, s, x, y) \/ Reloaded(d, e, r, s)
  PROVE  Refusals(e)
PROOF
<1>1. d \in Tables /\ Exclusive(d)
  BY DEF Sound
<1>2. ASSUME NEW j \in Jobs, NEW g \in Tables, NEW t, t # STATUS_STRANDED,
             Refreshed(d, g, j, d.jdest[j], t),
             g.never[j] = {}, g.pass[j] = FirstPass(d.jdest[j]),
             Offered(g, e, j)
      PROVE  Refusals(e)
  <2>1. /\ OnlyEntry(d, g, j) /\ g.jdest[j] = d.jdest[j]
        /\ g.jstatus[j] # STATUS_STRANDED
    BY <1>2 DEF Refreshed
  <2>2. Refusals(g)
    BY <1>1, <1>2, <2>1, RenewedRefusals
  <2> QED
    BY <1>2, <2>2, LookedRefusals
<1>3. CASE Submitted(d, e, r, s, x, y)
  <2>1. PICK j \in Jobs, st \in Arrivals :
          \/ OnlyFiles(d, e)
          \/ \E g \in Tables : Entered(d, g, j, st) /\ Offered(g, e, j)
    BY <1>3 DEF Submitted
  <2>2. st # STATUS_STRANDED
    BY InstanceAssumption
  <2> QED
    BY <1>2, <2>1, <2>2, ChangedRefusals DEF Entered
<1>4. CASE Reloaded(d, e, r, s)
  <2>1. PICK j \in r :
          \/ OnlyFiles(d, e)
          \/ \E g \in Tables :
               /\ Refreshed(d, g, j, d.jdest[j], STATUS_WAITING)
               /\ g.never[j] = {} /\ g.pass[j] = FirstPass(d.jdest[j])
               /\ Offered(g, e, j)
    BY <1>4 DEF Reloaded
  <2> QED
    BY <1>2, <2>1, ChangedRefusals
<1> QED
  BY <1>3, <1>4

\* The inductive invariant of refusals.
RefusalsInv == Refusals(pprd)

\* A job is given up only when every printer of its destination has said that
\* it can not print it, twice if it is a group, whatever commands are sent
\* and in whatever order the pprdrv's of several printers end.
THEOREM GivenUpOnlyByAll == Spec => []StrandedByAll
PROOF
<1>1. Init => RefusalsInv
  <2>1. ASSUME Init
        PROVE  /\ pprd.pids = {}
               /\ \A j \in Jobs : pprd.jstatus[j] = STATUS_NONE
    BY <2>1 DEF Init, InitTables
  <2> QED
    BY <2>1 DEF Refusals, Resting, RefusalsInv
<1>2. ASSUME IndInv, IndInv', Asked, [Next]_vars, Refusals(pprd)
      PROVE  Refusals(pprd')
  <2>1. /\ Sound(pprd, recv, {}, 0) /\ recv \in SUBSET Jobs
        /\ excused' \in SUBSET Jobs
    BY <1>2 DEF IndInv
  <2>2. CASE UNCHANGED vars
    BY <1>2, <2>2 DEF vars
  <2>3. CASE EventDoes
    BY <1>2, <2>1, <2>3, ServedRefusals, SubmittedRefusals DEF EventDoes
  <2> QED
    BY <1>2, <2>2, <2>3, Steps
<1>3. RefusalsInv /\ IndInv /\ IndInv' /\ Asked /\ [Next]_vars
        => RefusalsInv'
  BY <1>2 DEF RefusalsInv
<1>4. RefusalsInv => StrandedByAll
  BY DEF Refusals, GivenUp, StrandedByAll, RefusalsInv
<1> QED
  BY <1>1, <1>3, <1>4, Invariance, AskedHolds, PTL DEF Spec

---------------------------------------------------------------------------
(* No printer idle beside a job it could print *)

\* A job that waits for media really does: every printer of its destination
\* that nobody has stopt lacks some.
Reasons(d) ==
  \A j \in Jobs : d.jstatus[j] = STATUS_WAITING4MEDIA => Lacking(d, j)

\* No printer is idle beside a job that waits for it, except those in x, which
\* are still to look for work.  Jobs that a reload has put aside are another
\* matter.
Work(d, x, aside) ==
  \A p \in Printers \ x, j \in Jobs \ aside :
    d.status[p] = PRNSTATUS_IDLE => ~ Fits(d, p, j)

\* Printers that are down stay down.
StaysDown(d, e) ==
  \A q \in Printers : d.status[q] >= PRNSTATUS_DELIBERATELY_DOWN =>
                        e.status[q] >= PRNSTATUS_DELIBERATELY_DOWN

\* Nothing that matters to the printers has happened to a job not in x.
Others(d, e, x) ==
  /\ e.heldGroups = d.heldGroups
  /\ \A i \in Jobs \ x :
       /\ e.jstatus[i] = d.jstatus[i] /\ e.jdest[i] = d.jdest[i]
       /\ e.never[i] = d.never[i] /\ e.notnow[i] = d.notnow[i]

\* Members of the destination of a job are printers.
LEMMA JobMembers ==
  ASSUME NEW d \in Tables, NEW j \in Jobs, NEW p, Covers(d.jdest[j], p)
  PROVE  p \in Printers
PROOF
<1>1. d.jdest[j] \in Dests
  BY DEF Tables
<1> QED
  BY <1>1, MembersArePrinters DEF Covers

\* Printers may look for work later than they need to.
LEMMA MoreToLook ==
  ASSUME NEW d, NEW x, NEW y, NEW aside, Work(d, x, aside), x \subseteq y
  PROVE  Work(d, y, aside)
PROOF
  BY DEF Work

\* No new reason to wait, and no printer has come up.
LEMMA SameReasons ==
  ASSUME NEW d \in Tables, NEW e, Reasons(d), NEW x,
         Others(d, e, x), StaysDown(d, e),
         \A j \in x \cap Jobs : e.jstatus[j] = STATUS_WAITING4MEDIA
                                  => Lacking(e, j)
  PROVE  Reasons(e)
PROOF
<1> SUFFICES ASSUME NEW i \in Jobs, e.jstatus[i] = STATUS_WAITING4MEDIA,
                    i \notin x
             PROVE  Lacking(e, i)
  BY DEF Reasons
<1>1. /\ e.jdest[i] = d.jdest[i] /\ e.notnow[i] = d.notnow[i]
      /\ d.jstatus[i] = STATUS_WAITING4MEDIA
  BY DEF Others
<1>2. Lacking(d, i)
  BY <1>1 DEF Reasons
<1>3. \A p \in MembersOf(d.jdest[i]) : p \in Printers
  BY JobMembers DEF Covers
<1> QED
  BY <1>1, <1>2, <1>3 DEF Lacking, StaysDown

\* No job but those in x waits that did not, and no printer has become idle.
LEMMA SameWork ==
  ASSUME NEW d, NEW e, NEW w, NEW aside,
         Work(d, w, aside), NEW x, Others(d, e, x),
         \A p \in Printers : e.status[p] = PRNSTATUS_IDLE =>
                               p \in w \/ d.status[p] = PRNSTATUS_IDLE,
         \A j \in x \cap Jobs : e.jstatus[j] # STATUS_WAITING
  PROVE  Work(e, w, aside)
PROOF
<1> SUFFICES ASSUME NEW p \in Printers \ w, NEW i \in Jobs \ aside,
                    e.status[p] = PRNSTATUS_IDLE, Fits(e, p, i)
             PROVE  FALSE
  BY DEF Work
<1>1. i \notin x
  BY DEF Fits
<1>2. Fits(d, p, i)
  BY <1>1 DEF Fits, Suitable, Others
<1> QED
  BY <1>2 DEF Work

\* Starting jobs takes them and the printers away.
LEMMA StartsLess ==
  ASSUME NEW d \in Tables, NEW e, Starts(d, e)
  PROVE  /\ StaysDown(d, e)
         /\ \A p \in Printers : e.status[p] = PRNSTATUS_IDLE =>
              d.status[p] = PRNSTATUS_IDLE
         /\ \A p \in Printers, j \in Jobs : Fits(e, p, j) => Fits(d, p, j)
         /\ \E x : /\ Others(d, e, x)
                   /\ \A j \in x \cap Jobs : e.jstatus[j] \in Printers
PROOF
<1>1. /\ e.jdest = d.jdest /\ e.never = d.never /\ e.notnow = d.notnow
      /\ e.heldGroups = d.heldGroups
  BY DEF Starts, SameJobs, SameEntries
<1>2. CASE SameHands(d, e) /\ e.jstatus = d.jstatus
             /\ \A p \in Printers : StillOrStarves(d, e, p)
  <2>1. Others(d, e, {})
    BY <1>1, <1>2 DEF Others
  <2>2. StaysDown(d, e)
    BY <1>2 DEF StaysDown, StillOrStarves, PRNSTATUS_DELIBERATELY_DOWN
  <2>3. \A p \in Printers : e.status[p] = PRNSTATUS_IDLE =>
          d.status[p] = PRNSTATUS_IDLE
    BY <1>2 DEF StillOrStarves
  <2>4. \A p \in Printers, j \in Jobs : Fits(e, p, j) => Fits(d, p, j)
    BY <1>1, <1>2 DEF Fits, Suitable
  <2> QED
    BY <2>1, <2>2, <2>3, <2>4
<1>3. ASSUME NEW p \in Printers, NEW j \in Jobs, Begins(d, e, p, j)
      PROVE  /\ StaysDown(d, e)
             /\ \A q \in Printers : e.status[q] = PRNSTATUS_IDLE =>
                  d.status[q] = PRNSTATUS_IDLE
             /\ \A q \in Printers, i \in Jobs : Fits(e, q, i) => Fits(d, q, i)
             /\ Others(d, e, {j}) /\ e.jstatus[j] \in Printers
  <2>1. /\ d.status[p] = PRNSTATUS_IDLE
        /\ e.status[p] = PRNSTATUS_PRINTING
        /\ \A i \in Jobs : e.jstatus[i] = IF i = j THEN p ELSE d.jstatus[i]
        /\ \A q \in Printers \ {p} : StillOrStarves(d, e, q)
    BY <1>3 DEF Begins
  <2>2. StaysDown(d, e)
    BY <2>1 DEF StaysDown, StillOrStarves, PRNSTATUS_DELIBERATELY_DOWN
  <2>3. \A q \in Printers : e.status[q] = PRNSTATUS_IDLE =>
          d.status[q] = PRNSTATUS_IDLE
    BY <2>1 DEF StillOrStarves
  <2>4. p # STATUS_WAITING
    BY StatusRange
  <2>5. \A q \in Printers, i \in Jobs : Fits(e, q, i) => Fits(d, q, i)
    BY <1>1, <2>1, <2>4 DEF Fits, Suitable
  <2>6. Others(d, e, {j}) /\ e.jstatus[j] \in Printers
    BY <1>1, <2>1 DEF Others
  <2> QED
    BY <2>2, <2>3, <2>5, <2>6
<1>4. CASE \E p \in Printers, j \in Jobs : Begins(d, e, p, j)
  <2>1. PICK p \in Printers, j \in Jobs : Begins(d, e, p, j)
    BY <1>4
  <2>2. Others(d, e, {j}) /\ \A i \in {j} \cap Jobs : e.jstatus[i] \in Printers
    BY <1>3, <2>1
  <2> QED
    BY <1>3, <2>1, <2>2
<1> QED
  BY <1>2, <1>4 DEF Starts

\* Starting jobs makes no work and no reason to wait.
LEMMA StartsWork ==
  ASSUME NEW d \in Tables, NEW e, Reasons(d), Starts(d, e)
  PROVE  /\ Reasons(e)
         /\ \A w, aside : Work(d, w, aside) => Work(e, w, aside)
PROOF
<1>1. Reasons(e)
  <2>1. PICK x : /\ Others(d, e, x)
                 /\ \A j \in x \cap Jobs : e.jstatus[j] \in Printers
    BY StartsLess
  <2>2. STATUS_WAITING4MEDIA \notin Printers
    BY StatusRange
  <2> QED
    BY <2>1, <2>2, StartsLess, SameReasons
<1>2. \A w, aside : Work(d, w, aside) => Work(e, w, aside)
  BY StartsLess DEF Work
<1> QED
  BY <1>1, <1>2

\* A printer looks for work and is idle afterwards only if there is none.
LEMMA LookedWork ==
  ASSUME NEW d \in Tables, NEW e, Reasons(d), NEW p \in Printers,
         NEW w, NEW aside, Work(d, w \cup {p}, aside), Looked(d, e, p)
  PROVE  Reasons(e) /\ Work(e, w, aside)
PROOF
<1>1. Starts(d, e) /\ (e.status[p] = PRNSTATUS_IDLE =>
                         e = d /\ \A j \in Jobs : ~ Fits(d, p, j))
  BY DEF Looked
<1>2. Reasons(e) /\ Work(e, w \cup {p}, aside)
  BY <1>1, StartsWork
<1> QED
  BY <1>1, <1>2 DEF Work

\* A job is offered to its printers, and waits only if none of them is idle.
LEMMA OfferedWork ==
  ASSUME NEW d \in Tables, NEW g \in Tables, NEW e, Reasons(d),
         NEW w, NEW aside,
         Work(d, w, aside), NEW j \in Jobs, Others(d, g, {j}),
         g.status = d.status,
         g.jstatus[j] = STATUS_WAITING4MEDIA => Lacking(g, j),
         Offered(g, e, j)
  PROVE  Reasons(e) /\ Work(e, w, aside)
PROOF
<1>1. /\ Starts(g, e)
      /\ e.jstatus[j] = STATUS_WAITING =>
           \A q \in Printers : e.status[q] = PRNSTATUS_IDLE => ~ Fits(g, q, j)
  BY DEF Offered
<1>2. Reasons(g)
  BY SameReasons DEF StaysDown
<1>3. Reasons(e)
  BY <1>1, <1>2, StartsWork
<1>4. ASSUME NEW p \in Printers \ w, NEW i \in Jobs \ aside,
             e.status[p] = PRNSTATUS_IDLE, Fits(e, p, i)
      PROVE  FALSE
  <2>1. Fits(g, p, i) /\ g.status[p] = PRNSTATUS_IDLE
    BY <1>1, <1>4, StartsLess
  <2>2. CASE i = j
    BY <1>1, <1>4, <2>1, <2>2 DEF Fits
  <2>3. CASE i # j
    <3>1. Fits(d, p, i)
      BY <2>1, <2>3 DEF Fits, Suitable, Others
    <3> QED
      BY <2>1, <3>1 DEF Work
  <2> QED
    BY <2>2, <2>3
<1> QED
  BY <1>3, <1>4 DEF Work

\* The wait reasons of the jobs for p have been brought up to date after a
\* change to p.  A job that waited for media and does not now can only be
\* printed by p.
LEMMA FollowedWork ==
  ASSUME NEW d \in Tables, NEW e, NEW p \in Printers, Reasons(d),
         NEW w, NEW aside, Work(d, w, aside), ReasonsFollow(d, e, p),
         e.jdest = d.jdest, e.never = d.never, e.heldGroups = d.heldGroups,
         \A q \in Printers \ {p} : e.status[q] = d.status[q],
         \A j \in Jobs : /\ e.notnow[j] \ {p} = d.notnow[j] \ {p}
                         /\ ~ Covers(d.jdest[j], p) =>
                              e.notnow[j] = d.notnow[j]
  PROVE  Reasons(e) /\ Work(e, w \cup {p}, aside)
PROOF
<1>1. ASSUME NEW j \in Jobs, e.jstatus[j] = STATUS_WAITING4MEDIA
      PROVE  Lacking(e, j)
  <2>1. CASE Covers(d.jdest[j], p)
    BY <1>1, <2>1 DEF ReasonsFollow
  <2>2. CASE ~ Covers(d.jdest[j], p)
    <3>1. Lacking(d, j)
      BY <1>1, <2>2 DEF ReasonsFollow, Reasons
    <3>2. \A q \in MembersOf(d.jdest[j]) : q \in Printers \ {p}
      BY <2>2, JobMembers DEF Covers
    <3> QED
      BY <2>2, <3>1, <3>2 DEF Lacking
  <2> QED
    BY <2>1, <2>2
<1>2. ASSUME NEW q \in Printers \ (w \cup {p}), NEW j \in Jobs \ aside,
             e.status[q] = PRNSTATUS_IDLE, Fits(e, q, j)
      PROVE  FALSE
  <2>1. /\ e.jstatus[j] = STATUS_WAITING /\ Covers(d.jdest[j], q)
        /\ d.jdest[j] \notin d.heldGroups /\ q \notin e.notnow[j]
        /\ q \notin d.never[j]
    BY <1>2 DEF Fits, Suitable
  <2>2. q \notin d.notnow[j] /\ d.status[q] = PRNSTATUS_IDLE
    BY <1>2, <2>1
  <2>3. d.jstatus[j] \in {STATUS_WAITING, STATUS_WAITING4MEDIA}
    BY <2>1 DEF ReasonsFollow
  <2>4. d.jstatus[j] # STATUS_WAITING4MEDIA
    <3> SUFFICES ASSUME Lacking(d, j) PROVE FALSE
      BY DEF Reasons
    <3> QED
      BY <2>1, <2>2 DEF Lacking, Covers, PRNSTATUS_DELIBERATELY_DOWN
  <2>5. Fits(d, q, j)
    BY <2>1, <2>2, <2>3, <2>4 DEF Fits, Suitable
  <2> QED
    BY <1>2, <2>2, <2>5 DEF Work
<1> QED
  BY <1>1, <1>2 DEF Reasons, Work

\* A printer that is not idle does not need to look for work.
LEMMA NotIdleWork ==
  ASSUME NEW e, NEW p, NEW w, NEW aside, Work(e, w \cup {p}, aside),
         e.status[p] # PRNSTATUS_IDLE
  PROVE  Work(e, w, aside)
PROOF
  BY DEF Work

\* A command changes the status of a printer.
LEMMA ChangedWork ==
  ASSUME NEW d \in Tables, NEW e, NEW p \in Printers, NEW s, Reasons(d),
         NEW w, NEW aside, Work(d, w, aside), Changed(d, e, p, s)
  PROVE  /\ Reasons(e) /\ Work(e, w \cup {p}, aside)
         /\ s # PRNSTATUS_IDLE => Work(e, w, aside)
PROOF
<1>1. /\ e.jdest = d.jdest /\ e.never = d.never
      /\ e.heldGroups = d.heldGroups /\ e.notnow = d.notnow
      /\ ReasonsFollow(d, e, p)
      /\ \A q \in Printers \ {p} : e.status[q] = d.status[q]
      /\ e.status[p] = s
  BY DEF Changed, SameJobs, SameEntries
<1>2. Reasons(e) /\ Work(e, w \cup {p}, aside)
  BY <1>1, FollowedWork
<1> QED
  BY <1>1, <1>2, NotIdleWork

\* Media are mounted on a printer.
LEMMA MountsWork ==
  ASSUME NEW d \in Tables, NEW e, NEW p \in Printers, Reasons(d),
         NEW w, NEW aside, Work(d, w, aside), Mounts(d, e, p)
  PROVE  Reasons(e) /\ Work(e, w \cup {p}, aside)
PROOF
<1>1. /\ e.jdest = d.jdest /\ e.never = d.never
      /\ e.heldGroups = d.heldGroups /\ e.status = d.status
      /\ ReasonsFollow(d, e, p) /\ MasksFollow(d, e, p)
  BY DEF Mounts
<1>2. ASSUME NEW j \in Jobs
      PROVE  /\ e.notnow[j] \ {p} = d.notnow[j] \ {p}
             /\ ~ Covers(d.jdest[j], p) => e.notnow[j] = d.notnow[j]
  BY <1>1 DEF MasksFollow
<1> QED
  BY <1>1, <1>2, FollowedWork

\* The status of a printer that was not idle changes without a command; no
\* printer comes up again so.
LEMMA SettledWork ==
  ASSUME NEW d \in Tables, NEW e, NEW p \in Printers, NEW s, Reasons(d),
         NEW w, NEW aside,
         Work(d, w, aside), SameJobs(d, e), e.jstatus = d.jstatus,
         \A q \in Printers : e.status[q] = IF q = p THEN s ELSE d.status[q],
         d.status[p] >= PRNSTATUS_DELIBERATELY_DOWN => s = PRNSTATUS_STOPT
  PROVE  /\ Reasons(e) /\ Work(e, w \cup {p}, aside)
         /\ s # PRNSTATUS_IDLE => Work(e, w, aside)
PROOF
<1>1. Others(d, e, {})
  BY DEF Others, SameJobs, SameEntries
<1>2. StaysDown(d, e)
  BY DEF StaysDown, PRNSTATUS_DELIBERATELY_DOWN
<1>3. Reasons(e)
  BY <1>1, <1>2, SameReasons
<1>4. Work(d, w \cup {p}, aside)
  BY MoreToLook
<1>5. Work(e, w \cup {p}, aside)
  BY <1>1, <1>4, SameWork
<1> QED
  BY <1>3, <1>5, NotIdleWork

\* A job goes, or gets a status in which it does not wait.
LEMMA AsideWork ==
  ASSUME NEW d \in Tables, NEW e, NEW j, Reasons(d), NEW w, NEW aside,
         Work(d, w, aside),
         Others(d, e, {j}), StaysDown(d, e),
         \A p \in Printers : e.status[p] = PRNSTATUS_IDLE =>
                               d.status[p] = PRNSTATUS_IDLE,
         e.jstatus[j] \notin {STATUS_WAITING, STATUS_WAITING4MEDIA}
  PROVE  Reasons(e) /\ Work(e, w, aside)
PROOF
<1>1. Reasons(e)
  BY SameReasons
<1>2. Work(e, w, aside)
  BY SameWork
<1> QED
  BY <1>1, <1>2

\* The end of a pprdrv: its job is offered to the other printers, and its
\* printer looks for work.
LEMMA ExitedWork ==
  ASSUME NEW d, NEW r, NEW lost, NEW owed,
         Sound(d, r, lost, owed), Reasons(d), NEW w, NEW aside,
         Work(d, w, aside),
         NEW e, NEW y, Exited(d, e, y)
  PROVE  Reasons(e) /\ Work(e, w, aside)
PROOF
<1>1. d \in Tables /\ Exclusive(d) /\ Drivers(d, lost)
  BY DEF Sound
<1>2. PICK p \in d.pids, c \in ExitCodes :
        \/ e = Die(d)
        \/ \E f, g \in Tables :
             /\ Disposed(d, f, p, c)
             /\ Settled(f, g, p, PrnStatusAfter(d, p, c))
             /\ \/ e = g /\ g.status[p] # PRNSTATUS_IDLE
                \/ Looked(g, e, p)
  BY DEF Exited
<1> DEFINE j == d.job[p]
           s == PrnStatusAfter(d, p, c)
<1>3. j \in Jobs /\ p \in Printers /\ d.status[p] \in Busy
  BY <1>1, RunningJobs DEF Drivers
<1>4. CASE e = Die(d)
  <2>1. Others(d, e, {}) /\ e.status = d.status
    BY <1>1, <1>4 DEF Die, Tables, Others
  <2>2. Reasons(e)
    BY <1>1, <2>1, SameReasons DEF StaysDown
  <2>3. Work(e, w, aside)
    BY <2>1, SameWork
  <2> QED
    BY <2>2, <2>3
<1>5. ASSUME NEW f \in Tables, NEW g \in Tables, Disposed(d, f, p, c),
             Settled(f, g, p, s),
             \/ e = g /\ g.status[p] # PRNSTATUS_IDLE
             \/ Looked(g, e, p)
      PROVE  Reasons(e) /\ Work(e, w, aside)
  <2>1. Reasons(f) /\ Work(f, w, aside) /\ f.status[p] = d.status[p]
    <3>1. CASE Leaves(d, f, p)
      <4>1. /\ Others(d, f, {j}) /\ f.status = d.status
            /\ f.jstatus[j] \notin {STATUS_WAITING, STATUS_WAITING4MEDIA}
        BY <3>1 DEF Leaves, Others
      <4> QED
        BY <1>1, <4>1, AsideWork DEF StaysDown
    <3>2. CASE /\ Stays(d, f, p, c, d.jstatus[j])
               /\ d.jstatus[j] \in {STATUS_CANCEL, STATUS_SEIZING}
      <4>1. /\ Others(d, f, {j}) /\ f.status = d.status
            /\ f.jstatus[j] \notin {STATUS_WAITING, STATUS_WAITING4MEDIA}
        BY <3>2 DEF Stays, Others
      <4> QED
        BY <1>1, <4>1, AsideWork DEF StaysDown
    <3>3. CASE Keeps(d, f, p, c)
      <4>1. PICK h \in Tables :
              /\ Stays(d, h, p, c, JobStatusAfter(d, p, c))
              /\ Starts(h, f)
              /\ f.jstatus[j] = STATUS_WAITING =>
                   \A q \in Printers : f.status[q] = PRNSTATUS_IDLE =>
                                         ~ Fits(h, q, j)
        BY <3>3 DEF Keeps
      <4>2. Offered(h, f, j)
        BY <4>1 DEF Offered
      <4>3. /\ Others(d, h, {j}) /\ h.status = d.status
            /\ h.jstatus[j] # STATUS_WAITING4MEDIA
        BY <4>1 DEF Stays, Others, JobStatusAfter
      <4>4. Reasons(f) /\ Work(f, w, aside)
        BY <1>1, <1>3, <4>2, <4>3, OfferedWork
      <4>5. f.status[p] = d.status[p]
        BY <1>3, <4>1, <4>3, StartsIdle
      <4> QED
        BY <4>4, <4>5
    <3> QED
      BY <1>5, <3>1, <3>2, <3>3 DEF Disposed
  <2>2. d.status[p] >= PRNSTATUS_DELIBERATELY_DOWN => s = PRNSTATUS_STOPT
    BY <1>3 DEF PrnStatusAfter, PRNSTATUS_DELIBERATELY_DOWN
  <2>3. /\ SameJobs(f, g) /\ g.jstatus = f.jstatus /\ g.status[p] = s
        /\ \A q \in Printers : g.status[q] = IF q = p THEN s ELSE f.status[q]
    BY <1>3, <1>5 DEF Settled
  <2> HIDE DEF s
  <2>4. /\ Reasons(g) /\ Work(g, w \cup {p}, aside)
        /\ s # PRNSTATUS_IDLE => Work(g, w, aside)
    BY <1>3, <2>1, <2>2, <2>3, SettledWork
  <2>5. CASE Looked(g, e, p)
    BY <1>3, <2>4, <2>5, LookedWork
  <2> QED
    BY <1>5, <2>3, <2>4, <2>5
<1> QED
  BY <1>2, <1>4, <1>5

\* Nobody holds jobs.
NeverHeld == "hold" \notin Ops

\* ppop accept, reject, and the requests to pause and resume a group: the
\* members of a group that is resumed are to look for work.
LEMMA GatedWork ==
  ASSUME NEW d \in Tables, NEW e, Reasons(d), NEW w, NEW v, w \subseteq v,
         NEW aside, Work(d, w, aside), Gated(d, e, v)
  PROVE  Reasons(e) /\ Work(e, v, aside)
PROOF
<1>1. /\ e.jstatus = d.jstatus /\ e.jdest = d.jdest /\ e.never = d.never
      /\ e.notnow = d.notnow /\ e.status = d.status
  BY DEF Gated, Tables
<1>2. Reasons(e)
  BY <1>1 DEF Reasons, Lacking
<1>3. \/ e.heldGroups = d.heldGroups
      \/ \A g \in Groups \ e.heldGroups :
           g \in d.heldGroups => MembersOf(g) \subseteq v
  BY DEF Gated, Tables
<1>4. ASSUME NEW p \in Printers \ v, NEW j \in Jobs \ aside,
             e.status[p] = PRNSTATUS_IDLE, Fits(e, p, j)
      PROVE  FALSE
  <2>1. d.heldGroups \subseteq Groups
    BY DEF Tables
  <2>2. d.jdest[j] \notin d.heldGroups
    BY <1>1, <1>3, <1>4, <2>1 DEF Fits, Suitable, Covers
  <2>3. Fits(d, p, j)
    BY <1>1, <1>4, <2>2 DEF Fits, Suitable
  <2> QED
    BY <1>1, <1>4, <2>3 DEF Work
<1> QED
  BY <1>2, <1>4 DEF Work

\* A request to cancel a job.
LEMMA CanceledWork ==
  ASSUME NEW d, NEW r, NEW lost, NEW owed,
         Sound(d, r, lost, owed), NEW e, Reasons(d), NEW w,
         NEW aside, Work(d, w, aside), NEW y \in SUBSET Jobs, Canceled(d, e, y)
  PROVE  Reasons(e) /\ Work(e, w, aside)
PROOF
<1>1. d \in Tables /\ Drivers(d, lost)
  BY DEF Sound
<1>2. PICK j \in y :
        \/ \E q \in Printers, from \in {PRNSTATUS_PRINTING, PRNSTATUS_SEIZING} :
             Withdrawn(d, e, j, q, from)
        \/ Dequeued(d, e, j)
  <2>1. d.pids \subseteq Printers
    BY <1>1 DEF Tables
  <2>2. \A j \in Jobs : HadJob(d, j) \subseteq Printers
    BY DEF HadJob
  <2> QED
    BY <2>1, <2>2 DEF Canceled
<1>3. ASSUME NEW q \in Printers,
             NEW from \in {PRNSTATUS_PRINTING, PRNSTATUS_SEIZING},
             Withdrawn(d, e, j, q, from)
      PROVE  Reasons(e) /\ Work(e, w, aside)
  <2>1. /\ Becomes(d, e, j, STATUS_CANCEL)
        /\ \A p \in Printers :
             e.status[p] = IF p = q /\ d.status[p] = from
                             THEN PRNSTATUS_CANCELING ELSE d.status[p]
    BY <1>3 DEF Withdrawn
  <2>2. /\ Others(d, e, {j})
        /\ e.jstatus[j] \notin {STATUS_WAITING, STATUS_WAITING4MEDIA}
    BY <2>1 DEF Becomes, Others, SameJobs, SameEntries
  <2>3. StaysDown(d, e)
    BY <2>1 DEF StaysDown, PRNSTATUS_DELIBERATELY_DOWN
  <2>4. \A p \in Printers : e.status[p] = PRNSTATUS_IDLE =>
                              d.status[p] = PRNSTATUS_IDLE
    BY <2>1
  <2> QED
    BY <1>1, <2>2, <2>3, <2>4, AsideWork
<1>4. CASE Dequeued(d, e, j)
  <2>1. /\ Others(d, e, {j}) /\ e.status = d.status
        /\ e.jstatus[j] \notin {STATUS_WAITING, STATUS_WAITING4MEDIA}
    BY <1>4 DEF Dequeued, Others
  <2> QED
    BY <1>1, <2>1, AsideWork DEF StaysDown
<1> QED
  BY <1>2, <1>3, <1>4

\* The entry of a job is brought up to date and the job is offered.
LEMMA RefreshedWork ==
  ASSUME NEW d \in Tables, NEW g \in Tables, NEW e, Reasons(d), NEW w,
         NEW aside, Work(d, w, aside), NEW j \in Jobs, NEW dest, NEW s,
         Refreshed(d, g, j, dest, s), Offered(g, e, j)
  PROVE  Reasons(e) /\ Work(e, w, aside)
PROOF
<1>1. /\ Others(d, g, {j}) /\ g.status = d.status
      /\ g.jstatus[j] = STATUS_WAITING4MEDIA => Lacking(g, j)
  BY DEF Refreshed, OnlyEntry, Others
<1> QED
  BY <1>1, OfferedWork

\* Every event that is not about ppr.
LEMMA ServedWork ==
  ASSUME NeverHeld, NEW d, NEW r, NEW lost, NEW owed,
         Sound(d, r, lost, owed), Reasons(d),
         NEW w, NEW aside, Work(d, w, aside), NEW e, NEW v,
         NEW y \in SUBSET Jobs, Served(d, e, w, v, y)
  PROVE  Reasons(e) /\ Work(e, v, aside)
PROOF
<1>1. d \in Tables
  BY DEF Sound
<1>2. ASSUME w \subseteq v
      PROVE  Work(d, v, aside)
  BY <1>2, MoreToLook
<1>3. CASE w \subseteq v /\ Alike(d, e)
  <2>1. Others(d, e, {}) /\ e.status = d.status
    BY <1>3 DEF Alike, Others, SameJobs, SameEntries
  <2>2. Reasons(e)
    BY <1>1, <2>1, SameReasons DEF StaysDown
  <2>3. Work(e, v, aside)
    BY <1>2, <1>3, <2>1, SameWork
  <2> QED
    BY <2>2, <2>3
<1>4. CASE w \subseteq v /\ Woken(d, e)
  <2>1. PICK p \in Printers, g \in Tables :
          /\ d.status[p] \in {PRNSTATUS_FAULT, PRNSTATUS_ENGAGED,
                              PRNSTATUS_STARVED}
          /\ Idled(d, g, p) /\ Looked(g, e, p)
    BY <1>4 DEF Woken
  <2>2. d.status[p] >= PRNSTATUS_DELIBERATELY_DOWN =>
          PRNSTATUS_IDLE = PRNSTATUS_STOPT
    BY <2>1 DEF PRNSTATUS_DELIBERATELY_DOWN
  <2>3. Reasons(g) /\ Work(g, v \cup {p}, aside)
    BY <1>1, <1>2, <1>4, <2>1, <2>2, SettledWork DEF Idled
  <2> QED
    BY <2>1, <2>3, LookedWork
<1>5. CASE w \subseteq v /\ Stopped(d, e)
  <2>1. PICK p \in Printers, s \in {PRNSTATUS_STOPT, PRNSTATUS_STOPPING,
                                    PRNSTATUS_HALTING} : Changed(d, e, p, s)
    BY <1>5 DEF Stopped
  <2>2. s # PRNSTATUS_IDLE /\ Work(d, v, aside)
    BY <1>2, <1>5
  <2> QED
    BY <1>1, <2>1, <2>2, ChangedWork
<1>6. CASE w \subseteq v /\ Started(d, e)
  <2>1. PICK p \in Printers :
          \/ \E g \in Tables : /\ Changed(d, g, p, PRNSTATUS_IDLE)
                               /\ Looked(g, e, p)
          \/ \E s \in {PRNSTATUS_PRINTING} : Changed(d, e, p, s)
    BY <1>6 DEF Started
  <2>2. ASSUME NEW g \in Tables, Changed(d, g, p, PRNSTATUS_IDLE),
               Looked(g, e, p)
        PROVE  Reasons(e) /\ Work(e, v, aside)
    <3>1. Reasons(g) /\ Work(g, v \cup {p}, aside)
      BY <1>1, <1>2, <1>6, <2>2, ChangedWork
    <3> QED
      BY <2>2, <3>1, LookedWork
  <2>3. ASSUME NEW s \in {PRNSTATUS_PRINTING}, Changed(d, e, p, s)
        PROVE  Reasons(e) /\ Work(e, v, aside)
    <3>1. s # PRNSTATUS_IDLE /\ Work(d, v, aside)
      BY <1>2, <1>6
    <3> QED
      BY <1>1, <2>3, <3>1, ChangedWork
  <2> QED
    BY <2>1, <2>2, <2>3
<1>7. ~ Held(d, e)
  BY DEF Held, NeverHeld
<1>8. CASE w \subseteq v /\ Released(d, e)
  BY <1>1, <1>2, <1>8, RefreshedWork DEF Released
<1>9. CASE w \subseteq v /\ Canceled(d, e, y)
  BY <1>2, <1>9, CanceledWork
<1>10. CASE w \subseteq v /\ Moved(d, e)
  <2>1. PICK j \in Jobs, to \in Dests, g \in Tables :
          MovedTo(d, g, j, to) /\ Offered(g, e, j)
    BY <1>10 DEF Moved
  <2>2. \E s : Refreshed(d, g, j, to, s)
    BY <2>1 DEF MovedTo
  <2> QED
    BY <1>1, <1>2, <1>10, <2>1, <2>2, RefreshedWork
<1>11. CASE w \subseteq v /\ Rushed(d, e)
  <2>1. Others(d, e, {}) /\ e.status = d.status
    BY <1>1, <1>11 DEF Rushed, RushJob, Others, Tables
  <2>2. Reasons(e)
    BY <1>1, <2>1, SameReasons DEF StaysDown
  <2>3. Work(e, v, aside)
    BY <1>2, <1>11, <2>1, SameWork
  <2> QED
    BY <2>2, <2>3
<1>12. CASE w \subseteq v /\ Mounted(d, e)
  <2>1. PICK p \in Printers, g \in Tables :
          /\ Mounts(d, g, p)
          /\ \/ e = g /\ g.status[p] # PRNSTATUS_IDLE
             \/ Looked(g, e, p)
    BY <1>12 DEF Mounted
  <2>2. Reasons(g) /\ Work(g, v \cup {p}, aside)
    BY <1>1, <1>2, <1>12, <2>1, MountsWork
  <2> QED
    BY <2>1, <2>2, NotIdleWork, LookedWork
<1>13. CASE w \subseteq v /\ Gated(d, e, v)
  BY <1>1, <1>13, GatedWork
<1>14. CASE w \subseteq v /\ Exited(d, e, y)
  BY <1>2, <1>14, ExitedWork
<1>15. ASSUME NEW p \in Printers, w \subseteq v \cup {p},
              \/ e = d /\ d.status[p] # PRNSTATUS_IDLE
              \/ Looked(d, e, p)
       PROVE  Reasons(e) /\ Work(e, v, aside)
  <2>1. Work(d, v \cup {p}, aside)
    BY <1>15, MoreToLook
  <2> QED
    BY <1>1, <1>15, <2>1, NotIdleWork, LookedWork
<1> QED
  BY <1>3, <1>4, <1>5, <1>6, <1>7, <1>8, <1>9, <1>10, <1>11, <1>12, <1>13,
     <1>14, <1>15 DEF Served, Attended

\* ppr announces a job, or has sent the rest of it.
LEMMA SubmittedWork ==
  ASSUME NEW d, NEW r \in SUBSET Jobs, NEW lost, NEW owed,
         Sound(d, r, lost, owed), Reasons(d),
         NEW w, NEW aside, Work(d, w, aside), NEW e, NEW s, NEW x, NEW y,
         Submitted(d, e, r, s, x, y) \/ Reloaded(d, e, r, s)
  PROVE  Reasons(e) /\ Work(e, w, aside)
PROOF
<1>1. d \in Tables
  BY DEF Sound
<1>2. CASE OnlyFiles(d, e)
  <2>1. Others(d, e, {}) /\ e.status = d.status
    BY <1>2 DEF OnlyFiles, Others
  <2>2. Reasons(e)
    BY <1>1, <2>1, SameReasons DEF StaysDown
  <2>3. Work(e, w, aside)
    BY <2>1, SameWork
  <2> QED
    BY <2>2, <2>3
<1>3. CASE Submitted(d, e, r, s, x, y)
  <2>1. PICK j \in Jobs, st \in Arrivals :
          \/ OnlyFiles(d, e)
          \/ \E g \in Tables : Entered(d, g, j, st) /\ Offered(g, e, j)
    BY <1>3 DEF Submitted
  <2> QED
    BY <1>1, <1>2, <2>1, RefreshedWork DEF Entered
<1>4. CASE Reloaded(d, e, r, s)
  <2>1. PICK j \in r :
          \/ OnlyFiles(d, e)
          \/ \E g \in Tables :
               /\ Refreshed(d, g, j, d.jdest[j], STATUS_WAITING)
               /\ Offered(g, e, j)
    BY <1>4 DEF Reloaded
  <2> QED
    BY <1>1, <1>2, <2>1, RefreshedWork
<1> QED
  BY <1>3, <1>4

\* The inductive invariant of the printers at work.
WorkInv == Reasons(pprd) /\ Work(pprd, Pending(todo), {})

\* When pprd goes back to select() no printer is left idle beside a job that
\* it could print, if nobody holds jobs.  (ppop_hold_release() turns a printer
\* that is stopping into one that is seizing without a look at the wait
\* reasons, so a job that waited because of the stop goes on waiting when the
\* printer becomes idle instead.)
THEOREM PrintersFindWork ==
  ASSUME NeverHeld
  PROVE  Spec => []WorkConserving
PROOF
<1>1. Init => WorkInv
  <2>1. ASSUME Init
        PROVE  \A j \in Jobs : pprd.jstatus[j] = STATUS_NONE
    BY <2>1 DEF Init, InitTables
  <2> QED
    BY <2>1 DEF WorkInv, Reasons, Work, Fits
<1>2. ASSUME IndInv, IndInv', Asked, [Next]_vars, WorkInv
      PROVE  WorkInv'
  <2>1. /\ Sound(pprd, recv, {}, 0) /\ recv \in SUBSET Jobs
        /\ excused' \in SUBSET Jobs
        /\ Reasons(pprd) /\ Work(pprd, Pending(todo), {})
    BY <1>2 DEF IndInv, WorkInv
  <2>2. CASE UNCHANGED vars
    BY <1>2, <2>2 DEF vars, WorkInv, Pending
  <2>3. CASE EventDoes
    <3>1. Reasons(pprd') /\ Work(pprd', Pending(todo'), {})
      <4>1. CASE Served(pprd, pprd', Pending(todo), Pending(todo'), excused')
        BY <2>1, <4>1, ServedWork
      <4>2. CASE /\ Pending(todo) \subseteq Pending(todo')
                 /\ \/ Submitted(pprd, pprd', recv, recv', excused, excused')
                    \/ Reloaded(pprd, pprd', recv, recv')
        <5>1. Reasons(pprd') /\ Work(pprd', Pending(todo), {})
          BY <2>1, <4>2, SubmittedWork
        <5> QED
          BY <4>2, <5>1, MoreToLook
      <4> QED
        BY <2>3, <4>1, <4>2 DEF EventDoes
    <3> QED
      BY <3>1 DEF WorkInv
  <2> QED
    BY <1>2, <2>2, <2>3, Steps
<1>3. WorkInv /\ QueueInv => WorkConserving
  <2> SUFFICES ASSUME WorkInv, QueueInv, Waits,
                      NEW p \in Printers, NEW j \in Jobs,
                      pprd.status[p] = PRNSTATUS_IDLE, CanPrint(pprd, p, j)
               PROVE  FALSE
    BY DEF WorkConserving
  <2>1. Pending(todo) = {}
    BY DEF Waits, Pending
  <2>2. Queued(pprd, j) /\ Fresh(pprd)
    BY DEF CanPrint, Queued, QueueInv, Tidy
  <2>3. p \notin pprd.notnow[j]
    BY <2>2 DEF Fresh, Mask, CanPrint
  <2>4. pprd.jstatus[j] # STATUS_WAITING4MEDIA
    <3> SUFFICES ASSUME Lacking(pprd, j) PROVE FALSE
      BY DEF WorkInv, Reasons
    <3> QED
      BY <2>3 DEF Lacking, CanPrint, Covers, PRNSTATUS_DELIBERATELY_DOWN
  <2>5. Fits(pprd, p, j)
    BY <2>3, <2>4 DEF Fits, Suitable, CanPrint
  <2> QED
    BY <2>1, <2>5 DEF WorkInv, Work
<1>4. WorkInv /\ IndInv /\ IndInv' /\ Asked /\ [Next]_vars => WorkInv'
  BY <1>2
<1> QED
  BY <1>1, <1>3, <1>4, Invariance, AskedHolds, QueueInvariance, PTL DEF Spec
===========================================================================
