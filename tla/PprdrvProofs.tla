---------------------------- MODULE PprdrvProofs ----------------------------
(***************************************************************************)
(* Proofs about pprdrv, for any jobs, any size of the pipes and any number *)
(* of things that go wrong: pprdrv leaves no process behind, its exit code *)
(* blames who is to blame, and it says EXIT_PRINTED only of a job all of   *)
(* which was delivered.                                                    *)
(*                                                                         *)
(* First come recursive functions and Keep; then the program of a job,     *)
(* RealMain, as a word of a simple language (Program); then the invariant  *)
(* Inv, in two parts that are handled apart: Sound is about the processes, *)
(* Conserved about the paper, which with what is in the pipes and in the   *)
(* rest of the program makes up all that was to be sent.  There is a lemma *)
(* for each action.  The first theorems follow from Inv; then comes the    *)
(* contract, since every action has to be looked at again for it.          *)
(***************************************************************************)
EXTENDS Pprdrv, FiniteSetTheorems, SequenceTheorems, TLAPS

---------------------------------------------------------------------------
(* Recursive functions on numbers *)

\* The natural numbers are the least set with 0 and the successors of its
\* members.  If k were missing, n |-> n - 1 would map the numbers up to k
\* that are missing into those that are less than k, one to one: there is one
\* less of them.
LEMMA Induction ==
  ASSUME NEW S, 0 \in S, \A n \in Nat : n \in S => n + 1 \in S
  PROVE  Nat \subseteq S
<1> SUFFICES ASSUME NEW k \in Nat, k \notin S PROVE FALSE OBVIOUS
<1> DEFINE D == {n \in 0 .. k : n \notin S}
           T == D \ {k}
           f == [n \in D |-> n - 1]
<1>1. IsFiniteSet(D)
  <2>1. IsFiniteSet(0 .. k) BY FS_Interval
  <2>2. D \in SUBSET (0 .. k) OBVIOUS
  <2> HIDE DEF D
  <2> QED BY <2>1, <2>2, FS_Subset
<1>2. k \in D OBVIOUS
<1>3. \A n \in D : n \in Nat /\ n - 1 \in T
  <2> TAKE n \in D
  <2>1. n \in Nat /\ n <= k /\ n \notin S /\ n # 0 OBVIOUS
  <2>2. n - 1 \in Nat /\ (n - 1) + 1 = n BY <2>1
  <2>3. n - 1 \notin S BY <2>1, <2>2
  <2> QED BY <2>1, <2>2, <2>3
<1>4. f \in [D -> T] BY <1>3
<1>5. \A x, y \in D : x # y => f[x] # f[y] BY <1>3
<1> HIDE DEF D, f
<1>6. IsFiniteSet(T) /\ Cardinality(T) = Cardinality(D) - 1
  BY <1>1, <1>2, FS_RemoveElement
<1>7. Cardinality(T) < Cardinality(D)
  BY <1>1, <1>6, FS_CardinalityType
<1> HIDE DEF T
<1>8. \E x, y \in D : x # y /\ f[x] = f[y]
  BY <1>1, <1>4, <1>6, <1>7, FS_PigeonHole
<1> QED BY <1>5, <1>8

\* A function that is defined step by step, its value at i by what g[i] makes
\* of its value at i - 1.
LEMMA Steps ==
  ASSUME NEW V, NEW a \in V, NEW n \in Nat, NEW g \in [1 .. n -> [V -> V]]
  PROVE  \E f \in [0 .. n -> V] :
           f[0] = a /\ \A i \in 1 .. n : f[i] = g[i][f[i - 1]]
<1> DEFINE P(k) == \E f \in [0 .. k -> V] :
                     f[0] = a /\ \A i \in 1 .. k : f[i] = g[i][f[i - 1]]
           S == {k \in Nat : k <= n => P(k)}
<1>1. 0 \in S
  <2>1. [x \in 0 .. 0 |-> a] \in [0 .. 0 -> V] OBVIOUS
  <2> DEFINE f == [x \in 0 .. 0 |-> a]
  <2>2. f[0] = a /\ \A i \in 1 .. 0 : f[i] = g[i][f[i - 1]] OBVIOUS
  <2>3. P(0)
    <3> HIDE DEF f
    <3> QED BY <2>1, <2>2 DEF f
  <2> QED BY <2>3
<1>2. ASSUME NEW k \in Nat, k \in S PROVE k + 1 \in S
  <2> SUFFICES ASSUME k + 1 <= n PROVE P(k + 1) OBVIOUS
  <2>1. PICK f \in [0 .. k -> V] :
          f[0] = a /\ \A i \in 1 .. k : f[i] = g[i][f[i - 1]]
    BY <1>2
  <2> DEFINE h == [x \in 0 .. k + 1 |-> IF x = k + 1 THEN g[k + 1][f[k]]
                                        ELSE f[x]]
  <2>2. g[k + 1] \in [V -> V] /\ f[k] \in V OBVIOUS
  <2>3. h \in [0 .. k + 1 -> V] BY <2>2
  <2>4. h[0] = a BY <2>1
  <2>5. \A i \in 1 .. k + 1 : h[i] = g[i][h[i - 1]]
    <3> TAKE i \in 1 .. k + 1
    <3>1. CASE i = k + 1 BY <3>1
    <3>2. CASE i # k + 1
      <4>1. i \in 1 .. k /\ i - 1 \in 0 .. k /\ i - 1 # k + 1 BY <3>2
      <4> QED BY <4>1, <2>1
    <3> QED BY <3>1, <3>2
  <2> QED BY <2>3, <2>4, <2>5
<1> HIDE DEF S
<1>3. Nat \subseteq S BY <1>1, <1>2, Induction
<1> QED BY <1>3 DEF S

\* f is such a function.
Stepwise(V, a, n, g, f) ==
  f \in [0 .. n -> V] /\ f[0] = a /\ \A i \in 1 .. n : f[i] = g[i][f[i - 1]]

\* There is one.
LEMMA StepsUp ==
  ASSUME NEW V, NEW a \in V, NEW n \in Nat, NEW g \in [1 .. n -> [V -> V]]
  PROVE  \E f : Stepwise(V, a, n, g, f)
<1>1. \E f \in [0 .. n -> V] :
        f[0] = a /\ \A i \in 1 .. n : f[i] = g[i][f[i - 1]]
  BY Steps
<1> QED BY <1>1 DEF Stepwise

---------------------------------------------------------------------------
(* What Keep() keeps *)

\* The recursion of Keep().
KeptUp(s, S, f) ==
  f = [n \in 0 .. Len(s) |->
         IF n = 0 THEN << >>
         ELSE IF s[n] \in S THEN Append(f[n - 1], s[n]) ELSE f[n - 1]]

\* It is well defined.
LEMMA KeepIs ==
  ASSUME NEW A, NEW S, NEW s \in Seq(A)
  PROVE  \E f \in [0 .. Len(s) -> Seq(S)] :
           KeptUp(s, S, f) /\ Keep(s, S) = f[Len(s)]
<1> DEFINE next(q, i) == IF s[i] \in S THEN Append(q, s[i]) ELSE q
           g == [i \in 1 .. Len(s) |-> [q \in Seq(S) |-> next(q, i)]]
<1>1. \A i \in 1 .. Len(s) : \A q \in Seq(S) : next(q, i) \in Seq(S) OBVIOUS
<1>2. g \in [1 .. Len(s) -> [Seq(S) -> Seq(S)]] BY <1>1
<1>3. << >> \in Seq(S) /\ Len(s) \in Nat OBVIOUS
<1> HIDE DEF g
<1>4. PICK f \in [0 .. Len(s) -> Seq(S)] :
        f[0] = << >> /\ \A i \in 1 .. Len(s) : f[i] = g[i][f[i - 1]]
  <2> DEFINE V == Seq(S)
             n == Len(s)
             e == << >>
  <2>1. g \in [1 .. n -> [V -> V]] /\ e \in V /\ n \in Nat BY <1>2, <1>3
  <2> HIDE DEF V, n, e
  <2>2. \E f \in [0 .. n -> V] :
          f[0] = e /\ \A i \in 1 .. n : f[i] = g[i][f[i - 1]]
    BY <2>1, Steps
  <2> QED BY <2>2 DEF V, n, e
<1>5. \A i \in 1 .. Len(s) : f[i] = next(f[i - 1], i)
  <2> TAKE i \in 1 .. Len(s)
  <2>1. i - 1 \in 0 .. Len(s) BY <1>3
  <2>2. f[i - 1] \in Seq(S) BY <2>1
  <2>3. f[i] = g[i][f[i - 1]] BY <1>4
  <2> QED BY <2>2, <2>3 DEF g
<1>6. \A n \in 0 .. Len(s) : n # 0 => n \in 1 .. Len(s) BY <1>3
<1>7. KeptUp(s, S, f)
  <2> HIDE DEF next
  <2>1. f = [n \in 0 .. Len(s) |-> IF n = 0 THEN << >> ELSE next(f[n - 1], n)]
    <3>1. \A n \in 0 .. Len(s) :
            f[n] = IF n = 0 THEN << >> ELSE next(f[n - 1], n)
      BY <1>4, <1>5, <1>6
    <3> QED BY <3>1
  <2> QED BY <2>1 DEF KeptUp, next
<1> DEFINE h == CHOOSE e : KeptUp(s, S, e)
<1>8. Keep(s, S) = h[Len(s)] BY DEF Keep, KeptUp
<1>9. KeptUp(s, S, h) BY <1>7
<1> HIDE DEF h
<1>10. h \in [0 .. Len(s) -> Seq(S)]
  <2> DEFINE T == {n \in Nat : n <= Len(s) => h[n] \in Seq(S)}
  <2>1. \A n \in 0 .. Len(s) :
          h[n] = IF n = 0 THEN << >> ELSE next(h[n - 1], n)
    BY <1>9 DEF KeptUp
  <2>2. 0 \in T
    <3>1. 0 \in 0 .. Len(s) BY <1>3
    <3>2. h[0] = << >> BY <2>1, <3>1
    <3> HIDE DEF next
    <3> QED BY <1>3, <3>2
  <2>3. \A n \in Nat : n \in T => n + 1 \in T
    <3> TAKE n \in Nat
    <3> SUFFICES ASSUME n \in T, n + 1 <= Len(s) PROVE h[n + 1] \in Seq(S)
      OBVIOUS
    <3>1. h[n] \in Seq(S) BY <1>3
    <3>2. n + 1 \in 0 .. Len(s) /\ n + 1 \in 1 .. Len(s) /\ (n + 1) - 1 = n
      BY <1>3
    <3>3. h[n + 1] = next(h[n], n + 1) BY <2>1, <3>2
    <3> HIDE DEF T, next
    <3> QED BY <3>1, <3>2, <3>3, <1>1
  <2> HIDE DEF T
  <2>4. Nat \subseteq T BY <2>2, <2>3, Induction
  <2>5. \A n \in 0 .. Len(s) : h[n] \in Seq(S) BY <2>4, <1>3 DEF T
  <2>6. DOMAIN h = 0 .. Len(s) /\ h = [n \in DOMAIN h |-> h[n]]
    BY <1>9 DEF KeptUp
  <2> QED BY <2>5, <2>6
<1> QED BY <1>8, <1>9, <1>10

\* It keeps members of S.
LEMMA KeepType ==
  ASSUME NEW A, NEW S, NEW s \in Seq(A)
  PROVE  Keep(s, S) \in Seq(S)
<1>1. PICK f \in [0 .. Len(s) -> Seq(S)] : Keep(s, S) = f[Len(s)]
  BY KeepIs
<1>2. Len(s) \in Nat OBVIOUS
<1> QED BY <1>1, <1>2

\* Nothing is kept of nothing, and a single thing is kept or not.
LEMMA KeepSmall ==
  ASSUME NEW S
  PROVE  /\ Keep(<< >>, S) = << >>
         /\ \A x : Keep(<<x>>, S) = IF x \in S THEN <<x>> ELSE << >>
<1>1. Keep(<< >>, S) = << >>
  <2> DEFINE e == << >>
  <2>1. e \in Seq(S) OBVIOUS
  <2>2. Len(e) = 0 OBVIOUS
  <2> HIDE DEF e
  <2>3. PICK f \in [0 .. Len(e) -> Seq(S)] :
          KeptUp(e, S, f) /\ Keep(e, S) = f[Len(e)]
    BY <2>1, KeepIs
  <2>4. f[0] = << >> BY <2>2, <2>3 DEF KeptUp
  <2> QED BY <2>2, <2>3, <2>4 DEF e
<1>2. ASSUME NEW x PROVE Keep(<<x>>, S) = IF x \in S THEN <<x>> ELSE << >>
  <2> DEFINE e == <<x>>
             A == {x}
  <2>1. e \in Seq(A) OBVIOUS
  <2>2. Len(e) = 1 /\ e[1] = x OBVIOUS
  <2> HIDE DEF e, A
  <2>3. PICK f \in [0 .. Len(e) -> Seq(S)] :
          KeptUp(e, S, f) /\ Keep(e, S) = f[Len(e)]
    BY <2>1, KeepIs
  <2>4. f[0] = << >> BY <2>2, <2>3 DEF KeptUp
  <2>5. f[1] = IF x \in S THEN Append(f[0], x) ELSE f[0]
    BY <2>2, <2>3 DEF KeptUp
  <2>6. Append(<< >>, x) = <<x>> OBVIOUS
  <2> QED BY <2>2, <2>3, <2>4, <2>5, <2>6 DEF e
<1> QED BY <1>1, <1>2

\* What is kept of two sequences is kept of each.
LEMMA KeepConcat ==
  ASSUME NEW A, NEW S, NEW s \in Seq(A), NEW t \in Seq(A)
  PROVE  Keep(s \o t, S) = Keep(s, S) \o Keep(t, S)
<1> DEFINE u == s \o t
           m == Len(s)
<1>a. u \in Seq(A) OBVIOUS
<1>1. /\ Len(u) = m + Len(t) /\ m \in Nat /\ Len(t) \in Nat
      /\ \A i \in 1 .. m : u[i] = s[i]
      /\ \A i \in 1 .. Len(t) : u[m + i] = t[i]
  OBVIOUS
<1> HIDE DEF u, m
<1>2. PICK f \in [0 .. Len(u) -> Seq(S)] :
        KeptUp(u, S, f) /\ Keep(u, S) = f[Len(u)]
  BY <1>a, KeepIs
<1>3. PICK g \in [0 .. Len(s) -> Seq(S)] :
        KeptUp(s, S, g) /\ Keep(s, S) = g[Len(s)]
  BY KeepIs
<1>4. PICK h \in [0 .. Len(t) -> Seq(S)] :
        KeptUp(t, S, h) /\ Keep(t, S) = h[Len(t)]
  BY KeepIs
<1>5. \A i \in Nat : i <= m => f[i] = g[i]
  <2> DEFINE T == {i \in Nat : i <= m => f[i] = g[i]}
  <2>1. 0 \in T
    <3>1. f[0] = << >> /\ g[0] = << >> BY <1>1, <1>2, <1>3 DEF KeptUp
    <3> QED BY <3>1
  <2>2. \A i \in Nat : i \in T => i + 1 \in T
    <3> TAKE i \in Nat
    <3> SUFFICES ASSUME i \in T, i + 1 <= m PROVE f[i + 1] = g[i + 1]
      OBVIOUS
    <3>1. f[i] = g[i] BY <1>1
    <3>2. /\ i + 1 \in 1 .. m /\ i + 1 \in 0 .. Len(u) /\ i + 1 \in 0 .. Len(s)
          /\ i + 1 # 0 /\ (i + 1) - 1 = i
      BY <1>1 DEF m
    <3>3. f[i + 1] = IF u[i + 1] \in S THEN Append(f[i], u[i + 1]) ELSE f[i]
      BY <3>2, <1>2 DEF KeptUp
    <3>4. g[i + 1] = IF s[i + 1] \in S THEN Append(g[i], s[i + 1]) ELSE g[i]
      BY <3>2, <1>3 DEF KeptUp
    <3>5. u[i + 1] = s[i + 1] BY <1>1, <3>2
    <3> HIDE DEF T
    <3> QED BY <3>1, <3>3, <3>4, <3>5
  <2> HIDE DEF T
  <2>3. Nat \subseteq T BY <2>1, <2>2, Induction
  <2> QED BY <2>3 DEF T
<1>6. \A i \in Nat : i <= Len(t) => f[m + i] = g[m] \o h[i]
  <2> DEFINE E(i) == f[m + i] = g[m] \o h[i]
             T == {i \in Nat : i <= Len(t) => E(i)}
  <2>1. 0 \in T
    <3>1. h[0] = << >> BY <1>1, <1>4 DEF KeptUp
    <3>2. f[m] = g[m] /\ g[m] \in Seq(S) BY <1>1, <1>5 DEF m
    <3>3. g[m] \o << >> = g[m] BY <3>2
    <3> QED BY <1>1, <3>1, <3>2, <3>3
  <2>2. \A i \in Nat : i \in T => i + 1 \in T
    <3> TAKE i \in Nat
    <3>0. i + 1 <= Len(t) => i <= Len(t) BY <1>1
    <3> SUFFICES ASSUME i + 1 <= Len(t), E(i) PROVE E(i + 1)
      <4> HIDE DEF E
      <4> QED BY <3>0
    <3>2. /\ i + 1 \in 1 .. Len(t) /\ i + 1 \in 0 .. Len(t)
          /\ i \in 0 .. Len(t)
          /\ m + (i + 1) \in 0 .. Len(u) /\ m + (i + 1) # 0
          /\ i + 1 # 0 /\ (i + 1) - 1 = i /\ (m + (i + 1)) - 1 = m + i
          /\ m \in 0 .. Len(s)
      BY <1>1 DEF m
    <3>3. f[m + (i + 1)] = IF u[m + (i + 1)] \in S
                             THEN Append(f[m + i], u[m + (i + 1)])
                             ELSE f[m + i]
      BY <3>2, <1>2 DEF KeptUp
    <3>4. h[i + 1] = IF t[i + 1] \in S THEN Append(h[i], t[i + 1]) ELSE h[i]
      BY <3>2, <1>4 DEF KeptUp
    <3>5. u[m + (i + 1)] = t[i + 1] BY <1>1, <3>2
    <3>6. g[m] \in Seq(S) /\ h[i] \in Seq(S) BY <3>2
    <3>7. \A a, b \in Seq(S), x \in S : Append(a \o b, x) = a \o Append(b, x)
      <4> TAKE a, b \in Seq(S), x \in S
      <4>1. <<x>> \in Seq(S) /\ a \o b \in Seq(S) OBVIOUS
      <4>2. (a \o b) \o <<x>> = a \o (b \o <<x>>)
        BY <4>1, ConcatAssociative
      <4>3. Append(a \o b, x) = (a \o b) \o <<x>> /\ Append(b, x) = b \o <<x>>
        BY <4>1, AppendIsConcat
      <4> QED BY <4>2, <4>3
    <3>8. t[i + 1] \in S =>
            Append(g[m] \o h[i], t[i + 1]) = g[m] \o Append(h[i], t[i + 1])
      BY <3>6, <3>7
    <3> HIDE DEF T
    <3> QED BY <3>3, <3>4, <3>5, <3>8
  <2> HIDE DEF T
  <2>3. Nat \subseteq T BY <2>1, <2>2, Induction
  <2> QED BY <2>3 DEF T
<1>7. f[m + Len(t)] = g[m] \o h[Len(t)] BY <1>1, <1>6
<1> QED BY <1>1, <1>2, <1>3, <1>4, <1>7 DEF u, m

\* What is kept of a sequence is kept of its head and of its tail.
LEMMA KeepHead ==
  ASSUME NEW A, NEW S, NEW s \in Seq(A), s # << >>
  PROVE  Keep(s, S) = (IF Head(s) \in S THEN <<Head(s)>> ELSE << >>)
                        \o Keep(Tail(s), S)
<1>1. Head(s) \in A /\ Tail(s) \in Seq(A) /\ s = <<Head(s)>> \o Tail(s)
  OBVIOUS
<1>2. <<Head(s)>> \in Seq(A) BY <1>1
<1>3. Keep(<<Head(s)>> \o Tail(s), S) = Keep(<<Head(s)>>, S) \o Keep(Tail(s), S)
  BY <1>1, <1>2, KeepConcat
<1>4. Keep(<<Head(s)>>, S) = IF Head(s) \in S THEN <<Head(s)>> ELSE << >>
  BY KeepSmall
<1> QED BY <1>1, <1>3, <1>4

\* What is kept when something is appended.
LEMMA KeepAppend ==
  ASSUME NEW A, NEW S, NEW s \in Seq(A), NEW x \in A
  PROVE  Keep(Append(s, x), S) =
           Keep(s, S) \o (IF x \in S THEN <<x>> ELSE << >>)
<1>1. <<x>> \in Seq(A) OBVIOUS
<1>2. Append(s, x) = s \o <<x>> BY AppendIsConcat
<1>3. Keep(s \o <<x>>, S) = Keep(s, S) \o Keep(<<x>>, S)
  BY <1>1, KeepConcat
<1>4. Keep(<<x>>, S) = IF x \in S THEN <<x>> ELSE << >> BY KeepSmall
<1> QED BY <1>2, <1>3, <1>4

---------------------------------------------------------------------------
(* What FlattenSeq() puts together *)

\* The recursion of FlattenSeq(), with values in L.
FlatUp(s, n, h) ==
  /\ FlattenSeq(s) = h[n] /\ h[1] = s[1]
  /\ \A i \in 2 .. n : h[i] = h[i - 1] \o s[i]
Flattened(s, n, L) == \E h \in [1 .. n -> L] : FlatUp(s, n, h)

\* It is well defined.
LEMMA FlattenSteps ==
  ASSUME NEW L, NEW W, NEW s, NEW n \in Nat, Len(s) = n, n # 0,
         s[1] \in L, \A i \in 2 .. n : s[i] \in W,
         \A a \in L, b \in W : a \o b \in L
  PROVE  Flattened(s, n, L)
<1> DEFINE Flat(f) == f = [i \in 1 .. Len(s) |->
                             IF i = 1 THEN s[i] ELSE f[i - 1] \o s[i]]
           g == [i \in 1 .. n - 1 |-> [q \in L |-> q \o s[i + 1]]]
<1>1. \A i \in 1 .. n - 1 : i + 1 \in 2 .. n OBVIOUS
<1>2. g \in [1 .. n - 1 -> [L -> L]] BY <1>1
<1>3. n - 1 \in Nat OBVIOUS
<1> HIDE DEF g
<1>4. PICK e \in [0 .. n - 1 -> L] :
        e[0] = s[1] /\ \A i \in 1 .. n - 1 : e[i] = g[i][e[i - 1]]
  <2> DEFINE m == n - 1
             a == s[1]
  <2>1. g \in [1 .. m -> [L -> L]] /\ a \in L /\ m \in Nat BY <1>2, <1>3
  <2> HIDE DEF m, a
  <2>2. \E f \in [0 .. m -> L] :
          f[0] = a /\ \A i \in 1 .. m : f[i] = g[i][f[i - 1]]
    <3>1. \E f : Stepwise(L, a, m, g, f) BY <2>1, StepsUp
    <3> QED BY <3>1 DEF Stepwise
  <2> QED BY <2>2 DEF m, a
<1>5. \A i \in 1 .. n - 1 : e[i] = e[i - 1] \o s[i + 1]
  <2> TAKE i \in 1 .. n - 1
  <2>1. e[i - 1] \in L OBVIOUS
  <2> QED BY <2>1, <1>4 DEF g
<1> DEFINE d == [i \in 1 .. n |-> e[i - 1]]
<1>6. Flat(d)
  <2>1. \A i \in 1 .. n : d[i] = IF i = 1 THEN s[i] ELSE d[i - 1] \o s[i]
    <3> TAKE i \in 1 .. n
    <3>1. CASE i = 1 BY <3>1, <1>4
    <3>2. CASE i # 1
      <4>1. i - 1 \in 1 .. n - 1 /\ i - 1 \in 1 .. n /\ (i - 1) + 1 = i
        BY <3>2
      <4>2. e[i - 1] = e[(i - 1) - 1] \o s[i] BY <4>1, <1>5
      <4>3. d[i] = e[i - 1] /\ d[i - 1] = e[(i - 1) - 1] BY <4>1
      <4> HIDE DEF d
      <4> QED BY <3>2, <4>2, <4>3
    <3> QED BY <3>1, <3>2
  <2>2. DOMAIN d = 1 .. n OBVIOUS
  <2>3. d = [i \in 1 .. n |-> d[i]] OBVIOUS
  <2> HIDE DEF d
  <2> QED BY <2>1, <2>3
<1> HIDE DEF d
<1> DEFINE h == CHOOSE f : Flat(f)
<1>7. FlattenSeq(s) = h[Len(s)] BY DEF FlattenSeq
<1>8. Flat(h) BY <1>6
<1> HIDE DEF h
<1>9. \A i \in 1 .. n : h[i] = IF i = 1 THEN s[i] ELSE h[i - 1] \o s[i]
  BY <1>8
<1> DEFINE T == {i \in Nat : i < n => h[i + 1] \in L}
<1>10. 0 \in T
  <2>1. 1 \in 1 .. n OBVIOUS
  <2>2. h[1] = s[1] BY <2>1, <1>9
  <2> QED BY <2>2
<1>11. \A i \in Nat : i \in T => i + 1 \in T
  <2> TAKE i \in Nat
  <2> SUFFICES ASSUME i \in T, i + 1 < n PROVE h[(i + 1) + 1] \in L OBVIOUS
  <2>1. h[i + 1] \in L OBVIOUS
  <2>2. /\ (i + 1) + 1 \in 2 .. n /\ (i + 1) + 1 \in 1 .. n
        /\ (i + 1) + 1 # 1 /\ ((i + 1) + 1) - 1 = i + 1
    OBVIOUS
  <2>3. h[(i + 1) + 1] = h[i + 1] \o s[(i + 1) + 1] BY <1>9, <2>2
  <2> HIDE DEF T
  <2> QED BY <2>1, <2>2, <2>3
<1> HIDE DEF T
<1>12. Nat \subseteq T BY <1>10, <1>11, Induction
<1>13. \A i \in 1 .. n : h[i] \in L
  <2> TAKE i \in 1 .. n
  <2>1. i - 1 \in Nat /\ i - 1 < n /\ (i - 1) + 1 = i OBVIOUS
  <2>2. i - 1 \in T BY <1>12, <2>1
  <2>3. h[(i - 1) + 1] \in L BY <2>1, <2>2 DEF T
  <2> QED BY <2>1, <2>3
<1>14. h \in [1 .. n -> L]
  <2>1. DOMAIN h = 1 .. n /\ h = [i \in DOMAIN h |-> h[i]] BY <1>8
  <2> QED BY <1>13, <2>1
<1>15. h[1] = s[1] /\ \A i \in 2 .. n : h[i] = h[i - 1] \o s[i]
  <2>1. 1 \in 1 .. n /\ \A i \in 2 .. n : i \in 1 .. n /\ i # 1 OBVIOUS
  <2> QED BY <1>9, <2>1
<1> QED BY <1>7, <1>14, <1>15 DEF Flattened, FlatUp

\* If the first sequence is in L, and stays there when one of those in W is
\* put behind it, then so is what the first and others in W make.
LEMMA FlattenIn ==
  ASSUME NEW L, NEW W, NEW s, NEW n \in Nat, Len(s) = n, n # 0,
         s[1] \in L, \A i \in 2 .. n : s[i] \in W,
         \A a \in L, b \in W : a \o b \in L
  PROVE  FlattenSeq(s) \in L
<1>1. PICK h \in [1 .. n -> L] : FlatUp(s, n, h)
  BY FlattenSteps DEF Flattened
<1>2. n \in 1 .. n OBVIOUS
<1>3. h[n] \in L BY <1>2
<1> QED BY <1>1, <1>3 DEF FlatUp

---------------------------------------------------------------------------
(* The programs of pprdrv *)

\* The steps of a program: those that may be anywhere, those of a program for
\* a job, and all of them.
PlainNames ==
  Blocks \cup {"again", "handshake", "signal", "usr1", "ctrld", "pjlstart",
               "pjlend"}
RunNames ==
  PlainNames \cup {"launch", "rip", "ripeof", "ripwait0", "ripwait",
                   "ripscreen", "shut", "drain", "reap"}
Names == RunNames \cup {"main", "epipe", "ripverdict", "ifault", "verdict"}

Acts == Names \X Int
PlainSteps == PlainNames \X Int
RunSteps == RunNames \X Int

\* What may come behind what: interface_close() and rip_stop() are carried
\* out as a whole, and the interface is started only when there is none.
Follows(a, b) ==
  /\ a = "shut" => b = "drain"
  /\ a = "drain" => b \in {"reap", "ifault"}
  /\ a = "reap" => b \in {"launch", "ripverdict", "verdict"}
  /\ b \in {"launch", "ripverdict", "verdict"} => a = "reap"
  /\ b \in {"reap", "ifault"} => a = "drain"
  /\ a = "ripeof" => b = "ripwait0"
  /\ a = "ripwait0" => b = "ripwait"
  /\ a = "ripwait" <=> b = "ripscreen"
  /\ a \notin {"main", "epipe", "ripverdict", "ifault", "verdict"}
  /\ b \notin {"main", "epipe"}

Flow(t) == \A i \in 1 .. Len(t) - 1 : Follows(t[i][1], t[i + 1][1])

\* Every RIP is waited for before the next one is started.
ScreenAhead(t, i) ==
  \E k \in 1 .. Len(t) : /\ k > i /\ t[k][1] = "ripscreen"
                         /\ \A m \in i + 1 .. k - 1 : t[m][1] # "rip"
Ripped(t) == \A i \in 1 .. Len(t) : t[i][1] = "rip" => ScreenAhead(t, i)

\* Parts of a program, and its beginning.
Firsts == {"launch", "reap", "ripscreen"}
Lasts == {"shut", "drain", "reap", "ripeof", "ripwait0", "ripwait"}
Parts ==
  {t \in Seq(RunSteps) :
     /\ Flow(t) /\ Ripped(t)
     /\ t # << >> => /\ t[1][1] \notin Firsts
                     /\ t[Len(t)][1] \notin Lasts}
Leads ==
  {t \in Seq(RunSteps) :
     /\ Flow(t) /\ Ripped(t)
     /\ t # << >> /\ t[1][1] = "launch"
     /\ t[Len(t)][1] \notin Lasts}

\* Two programs one behind the other.
LEMMA FlowConcat ==
  ASSUME NEW s \in Seq(Acts), NEW t \in Seq(Acts), Flow(s), Flow(t),
         s # << >> /\ t # << >> => Follows(s[Len(s)][1], t[1][1])
  PROVE  Flow(s \o t)
<1> DEFINE u == s \o t
           m == Len(s)
<1>1. /\ Len(u) = m + Len(t) /\ m \in Nat /\ Len(t) \in Nat
      /\ \A i \in 1 .. m : u[i] = s[i]
      /\ \A i \in m + 1 .. m + Len(t) : u[i] = t[i - m]
      /\ (m # 0 => s # << >>) /\ (Len(t) # 0 => t # << >>)
  OBVIOUS
<1> HIDE DEF u
<1>2. ASSUME NEW i \in 1 .. Len(u) - 1 PROVE Follows(u[i][1], u[i + 1][1])
  <2>1. CASE i + 1 <= m
    <3>1. i \in 1 .. m - 1 /\ i \in 1 .. m /\ i + 1 \in 1 .. m BY <1>1, <2>1
    <3>2. Follows(s[i][1], s[i + 1][1]) BY <3>1 DEF Flow
    <3> QED BY <1>1, <3>1, <3>2
  <2>2. CASE i = m
    <3>1. /\ i \in 1 .. m /\ i + 1 \in m + 1 .. m + Len(t)
          /\ (i + 1) - m = 1 /\ s # << >> /\ t # << >>
      BY <1>1, <2>2
    <3>2. u[i] = s[m] /\ u[i + 1] = t[1] BY <1>1, <2>2, <3>1
    <3> QED BY <3>1, <3>2
  <2>3. CASE i > m
    <3>1. /\ i \in m + 1 .. m + Len(t) /\ i + 1 \in m + 1 .. m + Len(t)
          /\ i - m \in 1 .. Len(t) - 1 /\ (i + 1) - m = (i - m) + 1
      BY <1>1, <2>3
    <3>2. Follows(t[i - m][1], t[(i - m) + 1][1]) BY <3>1 DEF Flow
    <3> QED BY <1>1, <3>1, <3>2
  <2> QED BY <1>1, <2>1, <2>2, <2>3
<1> QED BY <1>2 DEF Flow, u

\* The same of RIPs: a RIP is waited for in its own part of a program.
LEMMA RippedConcat ==
  ASSUME NEW s \in Seq(Acts), NEW t \in Seq(Acts), Ripped(s), Ripped(t)
  PROVE  Ripped(s \o t)
<1> DEFINE u == s \o t
           m == Len(s)
<1>1. /\ Len(u) = m + Len(t) /\ m \in Nat /\ Len(t) \in Nat
      /\ \A i \in 1 .. m : u[i] = s[i]
      /\ \A i \in m + 1 .. m + Len(t) : u[i] = t[i - m]
  OBVIOUS
<1> HIDE DEF u
<1>2. ASSUME NEW i \in 1 .. Len(u), u[i][1] = "rip" PROVE ScreenAhead(u, i)
  <2>1. CASE i <= m
    <3>1. i \in 1 .. m BY <1>1, <2>1
    <3>2. ScreenAhead(s, i) BY <1>1, <1>2, <3>1 DEF Ripped
    <3>3. PICK k \in 1 .. m : /\ k > i /\ s[k][1] = "ripscreen"
                              /\ \A n \in i + 1 .. k - 1 : s[n][1] # "rip"
      BY <3>2 DEF ScreenAhead
    <3>4. k \in 1 .. Len(u) /\ u[k][1] = "ripscreen" BY <1>1, <3>3
    <3>5. \A n \in i + 1 .. k - 1 : n \in 1 .. m BY <1>1, <3>3
    <3>6. \A n \in i + 1 .. k - 1 : u[n][1] # "rip" BY <1>1, <3>3, <3>5
    <3> QED BY <3>3, <3>4, <3>6 DEF ScreenAhead
  <2>2. CASE i > m
    <3> DEFINE x == i - m
    <3>1. i \in m + 1 .. m + Len(t) /\ x \in 1 .. Len(t) /\ x + m = i
      BY <1>1, <2>2
    <3>2. u[i] = t[x] BY <1>1, <3>1
    <3>3. ScreenAhead(t, x)
      <4> HIDE DEF x
      <4> QED BY <1>2, <3>1, <3>2 DEF Ripped
    <3> HIDE DEF x
    <3>4. PICK k \in 1 .. Len(t) : /\ k > x /\ t[k][1] = "ripscreen"
                                   /\ \A n \in x + 1 .. k - 1 : t[n][1] # "rip"
      BY <3>3 DEF ScreenAhead
    <3>5. /\ m + k \in 1 .. Len(u) /\ m + k \in m + 1 .. m + Len(t)
          /\ (m + k) - m = k /\ m + k > i
      BY <1>1, <3>1, <3>4
    <3>6. u[m + k][1] = "ripscreen" BY <1>1, <3>4, <3>5
    <3>7. \A n \in i + 1 .. (m + k) - 1 :
            n \in m + 1 .. m + Len(t) /\ n - m \in x + 1 .. k - 1
      BY <1>1, <3>1, <3>4
    <3>8. \A n \in i + 1 .. (m + k) - 1 : u[n][1] # "rip"
      BY <1>1, <3>4, <3>7
    <3> QED BY <3>5, <3>6, <3>8 DEF ScreenAhead
  <2> QED BY <1>1, <2>1, <2>2
<1> QED BY <1>2 DEF Ripped, u

\* What a plain step is, a step of a file is, and what that is a program has.
LEMMA StepSets == PlainSteps \subseteq RunSteps /\ RunSteps \subseteq Acts
BY DEF PlainSteps, RunSteps, Acts, RunNames, Names

\* Parts make parts, and behind a beginning a beginning.
LEMMA PartsConcat ==
  /\ \A s, t \in Parts : s \o t \in Parts
  /\ \A s \in Leads, t \in Parts : s \o t \in Leads
<1>1. ASSUME NEW s \in Parts \cup Leads, NEW t \in Parts
      PROVE  /\ s \o t \in Seq(RunSteps) /\ Flow(s \o t) /\ Ripped(s \o t)
             /\ s = << >> => s \o t = t
             /\ t = << >> => s \o t = s
             /\ s # << >> /\ t # << >> =>
                  /\ s \o t # << >> /\ (s \o t)[1] = s[1]
                  /\ (s \o t)[Len(s \o t)] = t[Len(t)]
  <2>1. /\ s \in Seq(RunSteps) /\ t \in Seq(RunSteps)
        /\ Flow(s) /\ Flow(t) /\ Ripped(s) /\ Ripped(t)
        /\ s # << >> => s[Len(s)][1] \notin Lasts
        /\ t # << >> => t[1][1] \notin Firsts
    BY DEF Parts, Leads
  <2>2. s \in Seq(Acts) /\ t \in Seq(Acts)
    BY <2>1, StepSets, SeqMonotonic
  <2>3. ASSUME s # << >>, t # << >> PROVE Follows(s[Len(s)][1], t[1][1])
    <3>1. s[Len(s)] \in RunSteps /\ t[1] \in RunSteps BY <2>1, <2>3
    <3>2. s[Len(s)][1] \in RunNames /\ t[1][1] \in RunNames
      BY <3>1 DEF RunSteps
    <3> QED BY <2>1, <2>3, <3>2
         DEF Follows, Firsts, Lasts, RunNames, PlainNames, Blocks, Data
  <2>4. Flow(s \o t) BY <2>1, <2>2, <2>3, FlowConcat
  <2>5. Ripped(s \o t) BY <2>1, <2>2, RippedConcat
  <2>6. s \o t \in Seq(RunSteps) BY <2>1
  <2>7. ASSUME s # << >>, t # << >>
        PROVE  /\ s \o t # << >> /\ (s \o t)[1] = s[1]
               /\ (s \o t)[Len(s \o t)] = t[Len(t)]
    BY <2>1, <2>7
  <2>8. (s = << >> => s \o t = t) /\ (t = << >> => s \o t = s) BY <2>1
  <2> QED BY <2>4, <2>5, <2>6, <2>7, <2>8
<1>2. ASSUME NEW s \in Parts, NEW t \in Parts PROVE s \o t \in Parts
  <2>1. CASE s = << >> \/ t = << >> BY <1>1, <2>1
  <2>2. CASE s # << >> /\ t # << >>
    <3>1. /\ s[1][1] \notin Firsts
          /\ t[Len(t)][1] \notin Lasts
      BY <2>2 DEF Parts
    <3> QED BY <1>1, <2>2, <3>1 DEF Parts
  <2> QED BY <2>1, <2>2
<1>3. ASSUME NEW s \in Leads, NEW t \in Parts PROVE s \o t \in Leads
  <2>1. CASE t = << >> BY <1>1, <2>1
  <2>2. CASE t # << >>
    <3>1. /\ s # << >> /\ s[1][1] = "launch"
          /\ t[Len(t)][1] \notin Lasts
      BY <2>2 DEF Parts, Leads
    <3> QED BY <1>1, <2>2, <3>1 DEF Leads
  <2> QED BY <2>1, <2>2
<1> QED BY <1>2, <1>3

\* Steps that may be anywhere make a part.
LEMMA PlainParts == \A t \in Seq(PlainSteps) : t \in Parts
<1> TAKE t \in Seq(PlainSteps)
<1>1. t \in Seq(RunSteps) BY StepSets, SeqMonotonic
<1>2. \A i \in 1 .. Len(t) : t[i][1] \in PlainNames
  <2>1. \A i \in 1 .. Len(t) : t[i] \in PlainSteps OBVIOUS
  <2> QED BY <2>1 DEF PlainSteps
<1>3. \A a, b \in PlainNames : Follows(a, b)
  BY DEF Follows, PlainNames, Blocks, Data
<1>4. \A a \in PlainNames : a \notin Firsts /\ a \notin Lasts /\ a # "rip"
  BY DEF PlainNames, Blocks, Data, Firsts, Lasts
<1>5. Len(t) \in Nat OBVIOUS
<1>6. Flow(t)
  <2>1. \A i \in 1 .. Len(t) - 1 : i \in 1 .. Len(t) /\ i + 1 \in 1 .. Len(t)
    BY <1>5
  <2> QED BY <2>1, <1>2, <1>3 DEF Flow
<1>7. Ripped(t) BY <1>2, <1>4 DEF Ripped
<1>8. t # << >> => 1 \in 1 .. Len(t) /\ Len(t) \in 1 .. Len(t) OBVIOUS
<1> QED BY <1>1, <1>2, <1>4, <1>6, <1>7, <1>8 DEF Parts

\* Steps without arguments.
LEMMA OpsAre ==
  /\ \A a : Ops(<<a>>) = <<Op(a)>>
  /\ \A a, b : Ops(<<a, b>>) = <<Op(a), Op(b)>>
  /\ \A a, b, c : Ops(<<a, b, c>>) = <<Op(a), Op(b), Op(c)>>
  /\ \A a, b, c, d : Ops(<<a, b, c, d>>) = <<Op(a), Op(b), Op(c), Op(d)>>
BY DEF Ops

\* An interface that is replaced.
LEMMA ReplacePart ==
  <<Op("shut"), Op("drain"), Op("reap"), Op("launch")>> \in Parts
<1> DEFINE t == <<Op("shut"), Op("drain"), Op("reap"), Op("launch")>>
<1>1. t \in Seq(RunSteps) BY DEF RunSteps, RunNames, Op
<1>2. /\ Len(t) = 4 /\ t # << >> /\ t[1][1] = "shut" /\ t[2][1] = "drain"
      /\ t[3][1] = "reap" /\ t[4][1] = "launch"
  BY DEF Op
<1> HIDE DEF t
<1>3. Flow(t)
  <2>1. \A i \in 1 .. 4 - 1 : i = 1 \/ i = 2 \/ i = 3 OBVIOUS
  <2>2. 1 + 1 = 2 /\ 2 + 1 = 3 /\ 3 + 1 = 4 OBVIOUS
  <2> QED BY <1>2, <2>1, <2>2 DEF Flow, Follows
<1>4. \A i \in 1 .. 4 : i = 1 \/ i = 2 \/ i = 3 \/ i = 4 OBVIOUS
<1>5. Ripped(t) BY <1>2, <1>4 DEF Ripped
<1> QED BY <1>1, <1>2, <1>3, <1>5 DEF Parts, Firsts, Lasts, t

\* Sequences end to end, place by place.
LEMMA Joined ==
  ASSUME NEW S, NEW s \in Seq(S), NEW t \in Seq(S)
  PROVE  /\ s \o t \in Seq(S) /\ Len(s \o t) = Len(s) + Len(t)
         /\ Len(s) \in Nat /\ Len(t) \in Nat
         /\ \A i \in 1 .. Len(s) : (s \o t)[i] = s[i]
         /\ \A i \in 1 .. Len(t) : (s \o t)[Len(s) + i] = t[i]
OBVIOUS

\* What is sent through a RIP.
LEMMA RipPart ==
  ASSUME NEW t \in Seq(PlainSteps)
  PROVE  (<<Op("rip")>> \o t)
           \o <<Op("ripeof"), Op("ripwait0"), Op("ripwait"), Op("ripscreen")>>
             \in Parts
<1> DEFINE r == <<Op("rip")>>
           w == <<Op("ripeof"), Op("ripwait0"), Op("ripwait"), Op("ripscreen")>>
           u == (r \o t) \o w
           n == Len(t)
<1>1. t \in Seq(RunSteps) BY StepSets, SeqMonotonic
<1>2. r \in Seq(RunSteps) /\ w \in Seq(RunSteps)
  BY DEF RunSteps, RunNames, Op
<1>3. u \in Seq(RunSteps)
  <2> HIDE DEF r, w
  <2> QED BY <1>1, <1>2
<1>4. /\ n \in Nat /\ Len(u) = n + 5
      /\ u[1] = r[1]
      /\ u[n + 2] = w[1] /\ u[n + 3] = w[2] /\ u[n + 4] = w[3]
      /\ u[n + 5] = w[4]
      /\ \A i \in 2 .. n + 1 : u[i] = t[i - 1]
  <2>1. Len(r) = 1 /\ Len(w) = 4 OBVIOUS
  <2> DEFINE q == r \o t
  <2> HIDE DEF r, w, u
  <2>2. /\ q \in Seq(RunSteps) /\ Len(q) = 1 + n /\ n \in Nat
        /\ \A i \in 1 .. 1 : q[i] = r[i]
        /\ \A i \in 1 .. n : q[1 + i] = t[i]
    <3>1. /\ r \o t \in Seq(RunSteps) /\ Len(r \o t) = Len(r) + Len(t)
          /\ Len(r) \in Nat /\ Len(t) \in Nat
          /\ \A i \in 1 .. Len(r) : (r \o t)[i] = r[i]
          /\ \A i \in 1 .. Len(t) : (r \o t)[Len(r) + i] = t[i]
      BY <1>1, <1>2, Joined
    <3> HIDE DEF q
    <3> QED BY <2>1, <3>1 DEF q
  <2> HIDE DEF q, n
  <2>3. /\ Len(q \o w) = Len(q) + 4
        /\ \A i \in 1 .. Len(q) : (q \o w)[i] = q[i]
        /\ \A i \in 1 .. 4 : (q \o w)[Len(q) + i] = w[i]
    <3>0. q \in Seq(RunSteps) /\ w \in Seq(RunSteps) BY <1>2, <2>2
    <3>1. /\ Len(q \o w) = Len(q) + Len(w)
          /\ \A i \in 1 .. Len(q) : (q \o w)[i] = q[i]
          /\ \A i \in 1 .. Len(w) : (q \o w)[Len(q) + i] = w[i]
      BY <3>0, Joined
    <3> QED BY <2>1, <3>1
  <2>4. u = q \o w BY DEF u, q
  <2>5. \A i \in 1 .. n + 1 : u[i] = q[i] BY <2>2, <2>3, <2>4
  <2>6. \A i \in 1 .. 4 : u[(n + 1) + i] = w[i] BY <2>2, <2>3, <2>4
  <2>7. /\ u[n + 2] = w[1] /\ u[n + 3] = w[2] /\ u[n + 4] = w[3]
        /\ u[n + 5] = w[4]
    <3>1. /\ (n + 1) + 1 = n + 2 /\ (n + 1) + 2 = n + 3
          /\ (n + 1) + 3 = n + 4 /\ (n + 1) + 4 = n + 5
      BY <2>2
    <3> QED BY <2>6, <3>1
  <2>8. \A i \in 2 .. n + 1 : u[i] = t[i - 1]
    <3> TAKE i \in 2 .. n + 1
    <3>1. i - 1 \in 1 .. n /\ 1 + (i - 1) = i /\ i \in 1 .. n + 1 BY <2>2
    <3> QED BY <2>2, <2>5, <3>1
  <2>9. u[1] = r[1] /\ Len(u) = n + 5 BY <2>2, <2>3, <2>4, <2>5
  <2> QED BY <2>2, <2>7, <2>8, <2>9
<1>5. \A i \in 1 .. n : t[i][1] \in PlainNames
  <2>1. \A i \in 1 .. n : t[i] \in PlainSteps OBVIOUS
  <2> QED BY <2>1 DEF PlainSteps
<1>6. \A a \in PlainNames :
        /\ a # "rip" /\ Follows("rip", a) /\ Follows(a, "ripeof")
        /\ \A b \in PlainNames : Follows(a, b)
  BY DEF Follows, PlainNames, Blocks, Data
<1>7. /\ u[1][1] = "rip" /\ u[n + 2][1] = "ripeof" /\ u[n + 3][1] = "ripwait0"
      /\ u[n + 4][1] = "ripwait" /\ u[n + 5][1] = "ripscreen"
  BY <1>4 DEF Op
<1> HIDE DEF u, n
<1>8. \A i \in 2 .. n + 1 : i - 1 \in 1 .. n /\ u[i][1] \in PlainNames
  BY <1>4, <1>5
<1>9. Flow(u)
  <2> SUFFICES ASSUME NEW i \in 1 .. Len(u) - 1
               PROVE  Follows(u[i][1], u[i + 1][1])
    BY DEF Flow
  <2>1. CASE i = 1
    <3>1. CASE n = 0
      <4>1. i + 1 = n + 2 BY <2>1, <3>1
      <4> QED BY <2>1, <4>1, <1>7 DEF Follows
    <3>2. CASE n # 0
      <4>1. i + 1 \in 2 .. n + 1 BY <1>4, <2>1, <3>2
      <4> QED BY <2>1, <4>1, <1>6, <1>7, <1>8
    <3> QED BY <3>1, <3>2
  <2>2. CASE i \in 2 .. n
    <3>1. i \in 2 .. n + 1 /\ i + 1 \in 2 .. n + 1 BY <1>4, <2>2
    <3> QED BY <3>1, <1>6, <1>8
  <2>3. CASE i = n + 1 /\ i # 1
    <3>1. i \in 2 .. n + 1 /\ i + 1 = n + 2 BY <1>4, <2>3
    <3> QED BY <3>1, <1>6, <1>7, <1>8
  <2>4. CASE i = n + 2 \/ i = n + 3 \/ i = n + 4
    <3>1. (n + 2) + 1 = n + 3 /\ (n + 3) + 1 = n + 4 /\ (n + 4) + 1 = n + 5
      BY <1>4
    <3> QED BY <2>4, <3>1, <1>7 DEF Follows
  <2> QED BY <1>4, <2>1, <2>2, <2>3, <2>4
<1>10. Ripped(u)
  <2> SUFFICES ASSUME NEW i \in 1 .. Len(u), u[i][1] = "rip"
               PROVE  ScreenAhead(u, i)
    BY DEF Ripped
  <2>1. \A m \in 2 .. n + 4 : u[m][1] # "rip"
    <3>1. \A m \in 2 .. n + 4 :
            m \in 2 .. n + 1 \/ m = n + 2 \/ m = n + 3 \/ m = n + 4
      BY <1>4
    <3> QED BY <3>1, <1>6, <1>7, <1>8
  <2>2. i = 1
    <3>1. i \in 2 .. n + 4 \/ i = 1 \/ i = n + 5 BY <1>4
    <3> QED BY <3>1, <1>7, <2>1
  <2>3. \A m \in i + 1 .. (n + 5) - 1 : m \in 2 .. n + 4 BY <2>2, <1>4
  <2>4. n + 5 \in 1 .. Len(u) /\ n + 5 > i BY <1>4, <2>2
  <2> QED BY <2>1, <2>3, <2>4, <1>7 DEF ScreenAhead
<1>11. u # << >> BY <1>3, <1>4
<1> QED BY <1>3, <1>4, <1>7, <1>9, <1>10, <1>11 DEF Parts, Firsts, Lasts, u

\* A function on the first numbers is a sequence.
LEMMA FirstNumbers ==
  ASSUME NEW S, NEW n \in Int, NEW f \in [1 .. n -> S]
  PROVE  f \in Seq(S) /\ Len(f) = IF n < 0 THEN 0 ELSE n
<1>1. CASE n >= 0
  <2>1. n \in Nat BY <1>1
  <2> QED BY <2>1, <1>1
<1>2. CASE n < 0
  <2>1. 1 .. n = 1 .. 0 BY <1>2
  <2>2. f \in [1 .. 0 -> S] BY <2>1
  <2>3. f \in Seq(S) /\ Len(f) = 0 BY <2>2
  <2> QED BY <1>2, <2>3
<1> QED BY <1>1, <1>2

PageSteps == {"page"} \X Int

\* Pages are sent for a sheet, and nothing else.
LEMMA SheetSteps ==
  ASSUME NEW j \in Orders, NEW sheet, NEW last
  PROVE  CopySheet(j, sheet, last) \in Seq(PageSteps)
<1> DEFINE file == [i \in 1 .. j.pages |->
                      IF j.pageorder = -1 THEN j.pages + 1 - i ELSE i]
           table == MakePagetable(j)
           n == Len(table)
           places == [m \in 1 .. j.pagefactor |-> PageNumber(j, sheet, m - 1)]
           A == {places[m] : m \in 1 .. j.pagefactor}
           K == IF last /\ j.sigsheets = 0 THEN 0 .. n - 1 ELSE Int \ {-1}
           sent == Keep(places, K)
           index(k) == IF CurrentJobDirection(j) = 1 THEN k ELSE n - k - 1
           page(i) == IF index(sent[i]) \in 0 .. n - 1
                        THEN table[index(sent[i]) + 1] ELSE 0
<1>1. /\ j.pages \in Nat /\ j.pagefactor \in Nat /\ j.mask \in SUBSET Nat
  BY OrdersAssumption DEF Shapes
<1>2. file \in Seq(Int)
  <2>1. file \in [1 .. j.pages -> Int] BY <1>1
  <2> HIDE DEF file
  <2> QED BY <1>1, <2>1, FirstNumbers
<1>3. table \in Seq(j.mask)
  <2>1. Keep(file, j.mask) \in Seq(j.mask)
    <3> HIDE DEF file
    <3> QED BY <1>2, KeepType
  <2> QED BY <2>1 DEF MakePagetable
<1>4. places \in Seq(A)
  <2>1. places \in [1 .. j.pagefactor -> A] OBVIOUS
  <2>2. j.pagefactor \in Int BY <1>1
  <2> HIDE DEF places, A
  <2> QED BY <2>1, <2>2, FirstNumbers
<1>5. CopySheet(j, sheet, last) = [i \in DOMAIN sent |-> <<"page", page(i)>>]
  BY DEF CopySheet
<1> HIDE DEF file, table, places, A
<1>6. n \in Nat /\ \A i \in 1 .. n : table[i] \in Int
  <2>1. \A i \in 1 .. n : table[i] \in j.mask BY <1>3
  <2> QED BY <1>1, <1>3, <2>1
<1>7. sent \in Seq(K) BY <1>4, KeepType
<1>8. K \subseteq Int BY <1>6
<1> HIDE DEF sent, K, n
<1>9. Len(sent) \in Nat /\ DOMAIN sent = 1 .. Len(sent) BY <1>7
<1>10. \A i \in DOMAIN sent : page(i) \in Int
  <2> TAKE i \in DOMAIN sent
  <2>1. CASE index(sent[i]) \in 0 .. n - 1
    <3>1. index(sent[i]) + 1 \in 1 .. n BY <2>1, <1>6
    <3> HIDE DEF index
    <3> QED BY <2>1, <3>1, <1>6
  <2>2. CASE index(sent[i]) \notin 0 .. n - 1 BY <2>2
  <2> QED BY <2>1, <2>2
<1> HIDE DEF page
<1>11. \A i \in DOMAIN sent : <<"page", page(i)>> \in PageSteps
  BY <1>10 DEF PageSteps
<1> QED BY <1>5, <1>9, <1>11

\* For the script section too.
LEMMA PagesSteps ==
  ASSUME NEW j \in Orders, NEW more
  PROVE  CopyPages(j, more) \in Seq(PageSteps)
<1> DEFINE n == SheetCount(j)
           sheet(i) == IF PrintDirection(j) = -1 THEN n - i ELSE i - 1
           s == [i \in 1 .. n |-> CopySheet(j, sheet(i), more = 0 /\ i = n)]
           L == Seq(PageSteps)
<1>1. n \in Int
  <2>1. /\ j.pagefactor \in Nat \ {0} /\ j.sigsheets \in Nat
        /\ j.N \in Nat \ {0} /\ j.pages \in Nat /\ j.mask \subseteq 1 .. j.pages
    BY OrdersAssumption DEF Shapes
  <2>2. Cardinality(j.mask) \in Nat
    <3>1. IsFiniteSet(1 .. j.pages) BY <2>1, FS_Interval
    <3>2. IsFiniteSet(j.mask) BY <2>1, <3>1, FS_Subset
    <3> QED BY <3>2, FS_CardinalityType
  <2>3. ASSUME NEW a \in Nat, NEW b \in Nat \ {0} PROVE RoundedUp(a, b) \in Int
    <3>1. a + b - 1 \in Int BY <2>3
    <3> QED BY <3>1 DEF RoundedUp
  <2>4. CASE j.sigsheets = 0 BY <2>1, <2>2, <2>3, <2>4
          DEF SheetCount, PagemaskCount
  <2>5. CASE j.sigsheets # 0
    <3> DEFINE b == j.N * 2 * j.sigsheets
               a == RoundedUp(Cardinality(j.mask), b)
               c == (j.N * 2) \div j.pagefactor
    <3>1. b \in Nat \ {0} BY <2>1, <2>5
    <3>2. c \in Int BY <2>1
    <3>3. a \in Int
      <4> HIDE DEF b
      <4> QED BY <2>2, <2>3, <3>1
    <3>4. n = a * j.sigsheets * c
      BY <2>5 DEF SheetCount, PagemaskCount
    <3> HIDE DEF a, c
    <3> QED BY <2>1, <3>2, <3>3, <3>4
  <2> QED BY <2>4, <2>5
<1>2. s \in [1 .. n -> L] BY SheetSteps
<1>3. CopyPages(j, more) = FlattenSeq(s) BY DEF CopyPages
<1> HIDE DEF n, s
<1>4. s \in Seq(L) BY <1>1, <1>2, FirstNumbers
<1>5. CASE Len(s) = 0
  <2>1. s = << >> BY <1>4, <1>5
  <2> QED BY <1>3, <1>5, <2>1 DEF FlattenSeq
<1>6. CASE Len(s) # 0
  <2>1. Len(s) \in Nat /\ s[1] \in L /\ \A i \in 2 .. Len(s) : s[i] \in L
    BY <1>4, <1>6
  <2>2. \A a \in L, b \in L : a \o b \in L OBVIOUS
  <2> HIDE DEF L
  <2>3. FlattenSeq(s) \in L BY <1>6, <2>1, <2>2, FlattenIn
  <2> QED BY <1>3, <2>3 DEF L
<1> QED BY <1>5, <1>6

\* A file is sent with steps that may be anywhere.
LEMMA DocumentSteps ==
  ASSUME NEW j \in Orders, NEW nth \in Int
  PROVE  Document(j, nth) \in Seq(PlainSteps)
<1> DEFINE method == SelectCopiesMethod(j)
           script == [i \in 1 .. method.passes |->
                        CopyPages(j, method.passes - i)]
           raw == [i \in 1 .. j.pages |-> <<"page", i>>]
           L == Seq(PageSteps)
<1>1. j.pages \in Nat /\ j.copies \in Int BY OrdersAssumption DEF Shapes
<1>2. method.passes \in Nat \ {0} /\ method.auto \in Int
  <2>1. j.copies < 2 \/ j.copies \in Nat \ {0} BY <1>1
  <2> QED BY <1>1, <2>1 DEF SelectCopiesMethod
<1>3. PageSteps \subseteq PlainSteps
  BY DEF PageSteps, PlainSteps, PlainNames, Blocks, Data
<1>4. raw \in L
  <2>1. raw \in [1 .. j.pages -> PageSteps] BY <1>1 DEF PageSteps
  <2> HIDE DEF raw
  <2> QED BY <1>1, <2>1, FirstNumbers
<1>5. CopyPages(j, -1) \in L BY PagesSteps
<1>6. FlattenSeq(script) \in L
  <2> DEFINE n == method.passes
  <2>1. script \in [1 .. n -> L] BY PagesSteps
  <2>2. n \in Nat /\ n # 0 BY <1>2
  <2> HIDE DEF script, L, n
  <2>3. Len(script) = n BY <2>1, <2>2, FirstNumbers
  <2>4. script[1] \in L /\ \A i \in 2 .. n : script[i] \in L BY <2>1, <2>2
  <2>5. \A a \in L, b \in L : a \o b \in L BY DEF L
  <2> QED BY <2>2, <2>3, <2>4, <2>5, FlattenIn
<1>7. \A t \in L : t \in Seq(PlainSteps) BY <1>3, SeqMonotonic
<1>8. /\ <<"again", 0>> \in PlainSteps /\ <<"doc", method.auto>> \in PlainSteps
  BY <1>2 DEF PlainSteps, PlainNames, Blocks, Data
<1> DEFINE body == IF ~ j.script THEN raw
                   ELSE IF nth > 1
                     THEN CopyPages(j, -1) \o << <<"again", 0>> >>
                   ELSE FlattenSeq(script)
<1>9. Document(j, nth) = << <<"doc", method.auto>> >> \o body
  BY DEF Document
<1> HIDE DEF script, raw, L, method
<1>10. body \in Seq(PlainSteps)
  <2>1. CopyPages(j, -1) \in Seq(PlainSteps) BY <1>5, <1>7
  <2>2. CopyPages(j, -1) \o << <<"again", 0>> >> \in Seq(PlainSteps)
    BY <2>1, <1>8
  <2> QED BY <2>2, <1>4, <1>6, <1>7
<1> HIDE DEF body
<1>11. << <<"doc", method.auto>> >> \in Seq(PlainSteps) BY <1>8
<1> QED BY <1>9, <1>10, <1>11

FileTypes == {"flag", "postscript", "transparent", "barbar"}

\* There is a file, and each has its type and is sent so.
LEMMA FilesAre ==
  ASSUME NEW j \in Orders
  PROVE  Files(j) \in Seq(FileTypes \X Seq(PlainSteps)) /\ Files(j) # << >>
<1> DEFINE F == FileTypes \X Seq(PlainSteps)
           flag == << <<"flag", << <<"flag", 0>> >> >> >>
           raw == << <<j.kind, << <<"raw", 0>> >> >> >>
           docs == SelectCopiesMethod(j).docs
           doc == [i \in 1 .. docs |-> <<"postscript", Document(j, i)>>]
           first == IF "first" \in j.flags THEN flag ELSE << >>
           body == IF j.kind # "postscript" THEN raw ELSE doc
           last == IF "last" \in j.flags THEN flag ELSE << >>
<1>1. j.kind \in FileTypes /\ j.copies \in Int
  BY OrdersAssumption DEF Shapes, FileTypes
<1>2. <<"flag", 0>> \in PlainSteps /\ <<"raw", 0>> \in PlainSteps
  BY DEF PlainSteps, PlainNames, Blocks, Data
<1>3. << <<"flag", 0>> >> \in Seq(PlainSteps)
      /\ << <<"raw", 0>> >> \in Seq(PlainSteps)
  BY <1>2
<1>4. flag \in Seq(F)
  <2>1. <<"flag", << <<"flag", 0>> >> >> \in F BY <1>3 DEF FileTypes
  <2> HIDE DEF F
  <2> QED BY <2>1
<1>5. raw \in Seq(F) /\ raw # << >>
  <2>1. <<j.kind, << <<"raw", 0>> >> >> \in F BY <1>1, <1>3
  <2> HIDE DEF F
  <2> QED BY <2>1
<1>6. doc \in Seq(F) /\ doc # << >>
  <2>1. docs \in Nat \ {0}
    <3>1. j.copies < 2 \/ j.copies \in Nat \ {0} BY <1>1
    <3> QED BY <1>1, <3>1 DEF SelectCopiesMethod
  <2>2. \A i \in 1 .. docs : <<"postscript", Document(j, i)>> \in F
    <3>1. \A i \in 1 .. docs : Document(j, i) \in Seq(PlainSteps)
      BY <2>1, DocumentSteps
    <3> QED BY <3>1 DEF FileTypes
  <2>3. doc \in [1 .. docs -> F] BY <2>2
  <2> HIDE DEF doc, F, docs
  <2>4. doc \in Seq(F) /\ Len(doc) = docs BY <2>1, <2>3, FirstNumbers
  <2> QED BY <2>1, <2>4
<1>7. Files(j) = (first \o body) \o last BY DEF Files
<1> HIDE DEF flag, raw, doc, F
<1>8. first \in Seq(F) /\ body \in Seq(F) /\ last \in Seq(F) /\ body # << >>
  BY <1>4, <1>5, <1>6
<1> HIDE DEF first, body, last
<1>9. (first \o body) \o last \in Seq(F) BY <1>8
<1>10. (first \o body) \o last # << >>
  <2>1. Len((first \o body) \o last) = Len(first) + Len(body) + Len(last)
    BY <1>8
  <2>2. Len(body) # 0 /\ Len(body) \in Nat /\ Len(first) \in Nat
        /\ Len(last) \in Nat
    BY <1>8
  <2>3. Len(<< >>) = 0 OBVIOUS
  <2> QED BY <2>1, <2>2, <2>3
<1> QED BY <1>7, <1>9, <1>10 DEF F

\* What is sent for a file: the interface is started, or what separates it
\* from the file before is sent, ...
StartPart(j, iteration) ==
  IF iteration = 1 THEN StartInterface(j)
  ELSE IF j.jobbreak = "signal" THEN SignalJobbreak
  ELSE IF j.jobbreak = "newinterface" THEN InterfaceClose \o StartInterface(j)
  ELSE << >>

\* ... it goes through a RIP ...
Ripping(j, type) == j.rip /\ type \in {"flag", "postscript"}
RipBefore(j, type) == IF Ripping(j, type) THEN Ops(<<"rip">>) ELSE << >>
RipBehind(j, type) ==
  IF Ripping(j, type) THEN Ops(<<"ripeof", "ripwait0", "ripwait", "ripscreen">>)
  ELSE << >>

\* ... and the printer is told where it begins and ends.
Before(j, type, iteration) ==
  IF type = "transparent" THEN << >>
  ELSE IF j.jobbreak = "control-d"
    THEN IF iteration = 1 /\ IsPostScript(j, type) THEN Ops(<<"eot">>)
         ELSE << >>
  ELSE IF j.jobbreak \in {"pjl", "signal/pjl"} THEN Ops(<<"pjl">>)
  ELSE << >>
Behind(j, type) ==
  IF type = "transparent" THEN << >>
  ELSE IF j.jobbreak = "control-d" /\ IsPostScript(j, type)
    THEN Ops(IF j.feedback THEN <<"eot", "ctrld">> ELSE <<"eot">>)
  ELSE IF j.jobbreak \in {"pjl", "signal/pjl"}
    THEN (IF ~ IsPostScript(j, type) THEN << >>
          ELSE IF j.jobbreak = "pjl" THEN Ops(<<"eot">>)
          ELSE SignalJobbreak)
         \o Ops(IF j.feedback THEN <<"eoj", "pjlstart", "pjlend", "uel">>
                ELSE <<"eoj", "uel">>)
  ELSE << >>

\* job_start() is what comes before the file.
LEMMA StartIs ==
  ASSUME NEW j, NEW type, NEW i
  PROVE  /\ JobStart(j, type, i) =
              (StartPart(j, i) \o Before(j, type, i)) \o RipBefore(j, type)
         /\ JobEnd(j, type) = RipBehind(j, type) \o Behind(j, type)
BY DEF JobStart, JobEnd, StartPart, Before, Behind, RipBefore, RipBehind,
       Ripping

\* The steps of which these are made.
LEMMA PlainOps ==
  /\ \A a \in PlainNames : Op(a) \in PlainSteps
  /\ \A a \in {"handshake", "signal", "usr1", "eot", "pjl", "ctrld", "eoj",
               "uel", "pjlstart", "pjlend"} :
       a \in PlainNames
BY DEF Op, PlainSteps, PlainNames, Blocks

\* Short sequences of plain steps.
LEMMA PlainTuples ==
  ASSUME NEW a \in PlainNames, NEW b \in PlainNames,
         NEW c \in PlainNames, NEW d \in PlainNames
  PROVE  /\ Ops(<<a>>) \in Seq(PlainSteps)
         /\ Ops(<<a, b>>) \in Seq(PlainSteps)
         /\ Ops(<<a, b, c>>) \in Seq(PlainSteps)
         /\ Ops(<<a, b, c, d>>) \in Seq(PlainSteps)
<1> DEFINE w == Op(a)
           x == Op(b)
           y == Op(c)
           z == Op(d)
<1>1. /\ w \in PlainSteps /\ x \in PlainSteps
      /\ y \in PlainSteps /\ z \in PlainSteps
  BY PlainOps
<1>2. /\ Ops(<<a>>) = <<w>> /\ Ops(<<a, b>>) = <<w, x>>
      /\ Ops(<<a, b, c>>) = <<w, x, y>> /\ Ops(<<a, b, c, d>>) = <<w, x, y, z>>
  BY OpsAre
<1> HIDE DEF w, x, y, z
<1>3. /\ <<w>> \in Seq(PlainSteps) /\ <<w, x>> \in Seq(PlainSteps)
      /\ <<w, x, y>> \in Seq(PlainSteps) /\ <<w, x, y, z>> \in Seq(PlainSteps)
  BY <1>1
<1> QED BY <1>2, <1>3

\* Tuples end to end.
LEMMA Tuples ==
  ASSUME NEW a, NEW b
  PROVE  <<a>> \o <<b>> = <<a, b>>
<1> DEFINE S == {a, b}
           u == <<a>> \o <<b>>
           v == <<a, b>>
<1>1. <<a>> \in Seq(S) /\ <<b>> \in Seq(S) /\ v \in Seq(S) OBVIOUS
<1>2. /\ u \in Seq(S) /\ Len(u) = 2 /\ u[1] = a /\ u[2] = b BY <1>1
<1>3. Len(v) = 2 /\ v[1] = a /\ v[2] = b OBVIOUS
<1>4. \A i \in 1 .. 2 : i = 1 \/ i = 2 OBVIOUS
<1> HIDE DEF u, v, S
<1>5. u = v BY <1>1, <1>2, <1>3, <1>4, SeqEqual
<1> QED BY <1>5 DEF u, v

\* Three steps and one more.
MakeFour(a, b, c, d) == <<a, b, c>> \o <<d>> = <<a, b, c, d>>

\* They are four steps.
LEMMA FourMade ==
  ASSUME NEW a, NEW b, NEW c, NEW d
  PROVE  MakeFour(a, b, c, d)
<1> DEFINE S == {a, b, c, d}
           u == <<a, b, c>> \o <<d>>
           v == <<a, b, c, d>>
<1>1. <<a, b, c>> \in Seq(S) /\ <<d>> \in Seq(S) /\ v \in Seq(S) OBVIOUS
<1>2. /\ u \in Seq(S) /\ Len(u) = 4
      /\ u[1] = a /\ u[2] = b /\ u[3] = c /\ u[4] = d
  BY <1>1
<1>3. Len(v) = 4 /\ v[1] = a /\ v[2] = b /\ v[3] = c /\ v[4] = d OBVIOUS
<1>4. \A i \in 1 .. 4 : i = 1 \/ i = 2 \/ i = 3 \/ i = 4 OBVIOUS
<1> HIDE DEF u, v, S
<1>5. u = v BY <1>1, <1>2, <1>3, <1>4, SeqEqual
<1> QED BY <1>5 DEF u, v, MakeFour

\* interface_close() and one more step.
LEMMA ClosingSteps ==
  ASSUME NEW e
  PROVE  <<Op("shut"), Op("drain"), Op("reap")>> \o <<e>>
           = <<Op("shut"), Op("drain"), Op("reap"), e>>
<1> DEFINE a == Op("shut")
           b == Op("drain")
           c == Op("reap")
<1> HIDE DEF a, b, c
<1>1. MakeFour(a, b, c, e) BY FourMade
<1> QED BY <1>1 DEF MakeFour, a, b, c

\* What job_start() and job_end() write for the jobbreak protocols.
LEMMA BetweenParts ==
  ASSUME NEW j, NEW type, NEW i
  PROVE  Before(j, type, i) \in Seq(PlainSteps)
         /\ Behind(j, type) \in Seq(PlainSteps)
<1>1. Before(j, type, i) \in Seq(PlainSteps)
  <2>1. Ops(<<"eot">>) \in Seq(PlainSteps) /\ Ops(<<"pjl">>) \in Seq(PlainSteps)
    BY PlainOps, PlainTuples
  <2> QED BY <2>1 DEF Before
<1>2. Behind(j, type) \in Seq(PlainSteps)
  <2> DEFINE n == << >>
             a == Ops(<<"eot", "ctrld">>)
             b == Ops(<<"eot">>)
             s == SignalJobbreak
             c == Ops(<<"eoj", "pjlstart", "pjlend", "uel">>)
             d == Ops(<<"eoj", "uel">>)
  <2>1. /\ a \in Seq(PlainSteps) /\ b \in Seq(PlainSteps)
        /\ c \in Seq(PlainSteps) /\ d \in Seq(PlainSteps)
        /\ s \in Seq(PlainSteps) /\ n \in Seq(PlainSteps)
    <3>1. a \in Seq(PlainSteps) BY PlainOps, PlainTuples
    <3>2. b \in Seq(PlainSteps) BY PlainOps, PlainTuples
    <3>3. c \in Seq(PlainSteps) BY PlainOps, PlainTuples
    <3>4. d \in Seq(PlainSteps) BY PlainOps, PlainTuples
    <3>5. s \in Seq(PlainSteps) BY PlainOps, PlainTuples DEF SignalJobbreak
    <3>6. n \in Seq(PlainSteps) OBVIOUS
    <3> QED BY <3>1, <3>2, <3>3, <3>4, <3>5, <3>6
  <2>2. Behind(j, type) \in {n, a, b, n \o c, n \o d, b \o c, b \o d,
                             s \o c, s \o d}
    BY DEF Behind
  <2>3. \A x, y \in Seq(PlainSteps) : x \o y \in Seq(PlainSteps) OBVIOUS
  <2> HIDE DEF n, a, b, c, d, s
  <2>4. /\ n \o c \in Seq(PlainSteps) /\ n \o d \in Seq(PlainSteps)
        /\ b \o c \in Seq(PlainSteps) /\ b \o d \in Seq(PlainSteps)
        /\ s \o c \in Seq(PlainSteps) /\ s \o d \in Seq(PlainSteps)
    BY <2>1, <2>3
  <2> QED BY <2>1, <2>2, <2>4
<1> QED BY <1>1, <1>2

\* The interface is started first, and later only in the place of another.
LEMMA StartParts ==
  ASSUME NEW j, NEW i
  PROVE  StartPart(j, i) \in IF i = 1 THEN Leads ELSE Parts
<1>1. << >> \in Parts
  <2>1. << >> \in Seq(PlainSteps) OBVIOUS
  <2> QED BY <2>1, PlainParts
<1>2. Ops(<<"handshake">>) \in Parts /\ SignalJobbreak \in Parts
  <2>1. Ops(<<"handshake">>) \in Seq(PlainSteps) BY PlainOps, PlainTuples
  <2>2. SignalJobbreak \in Seq(PlainSteps)
    BY PlainOps, PlainTuples DEF SignalJobbreak
  <2> QED BY <2>1, <2>2, PlainParts
<1>3. \E t \in Parts : StartInterface(j) = <<Op("launch")>> \o t
  <2>1. CASE j.jobbreak \in {"signal", "signal/pjl"}
    <3>1. StartInterface(j) = <<Op("launch"), Op("handshake")>>
      BY <2>1, OpsAre DEF StartInterface
    <3>2. <<Op("launch")>> \o <<Op("handshake")>>
            = <<Op("launch"), Op("handshake")>>
      BY Tuples
    <3>3. Ops(<<"handshake">>) = <<Op("handshake")>> BY OpsAre
    <3> QED BY <3>1, <3>2, <3>3, <1>2
  <2>2. CASE ~ j.jobbreak \in {"signal", "signal/pjl"}
    <3>1. StartInterface(j) = <<Op("launch")>>
      BY <2>2, OpsAre DEF StartInterface
    <3>2. <<Op("launch")>> \o << >> = <<Op("launch")>> OBVIOUS
    <3> QED BY <3>1, <3>2, <1>1
  <2> QED BY <2>1, <2>2
<1>4. PICK t \in Parts : StartInterface(j) = <<Op("launch")>> \o t BY <1>3
<1>5. <<Op("launch")>> \in Leads
  <2> DEFINE l == <<Op("launch")>>
  <2>1. l \in Seq(RunSteps) BY DEF RunSteps, RunNames, Op
  <2>2. Len(l) = 1 /\ l[1][1] = "launch" /\ l # << >> BY DEF Op
  <2> HIDE DEF l
  <2>3. Flow(l) BY <2>2 DEF Flow
  <2>4. Ripped(l)
    <3>1. \A x \in 1 .. 1 : x = 1 OBVIOUS
    <3> QED BY <2>2, <3>1 DEF Ripped
  <2> QED BY <2>1, <2>2, <2>3, <2>4 DEF Leads, Lasts, l
<1>6. StartInterface(j) \in Leads BY <1>4, <1>5, PartsConcat
<1>7. InterfaceClose \o StartInterface(j) \in Parts
  <2> DEFINE c == <<Op("shut"), Op("drain"), Op("reap")>>
             l == <<Op("launch")>>
             r == <<Op("shut"), Op("drain"), Op("reap"), Op("launch")>>
  <2>1. InterfaceClose = c BY OpsAre DEF InterfaceClose
  <2>2. c \in Seq(RunSteps) /\ l \in Seq(RunSteps)
    BY DEF RunSteps, RunNames, Op
  <2>3. c \o l = r BY ClosingSteps
  <2>4. t \in Seq(RunSteps) BY DEF Parts
  <2> HIDE DEF c, l
  <2>5. c \o (l \o t) = (c \o l) \o t BY <2>2, <2>4, ConcatAssociative
  <2>6. r \o t \in Parts BY ReplacePart, PartsConcat
  <2> HIDE DEF r
  <2> QED BY <1>4, <2>1, <2>3, <2>5, <2>6 DEF l
<1> QED BY <1>1, <1>2, <1>6, <1>7 DEF StartPart

\* The ends of two sequences put together.
LEMMA ConcatEnds ==
  ASSUME NEW S, NEW s \in Seq(S), NEW t \in Seq(S)
  PROVE  /\ s # << >> => s \o t # << >> /\ (s \o t)[1] = s[1]
         /\ t # << >> => /\ s \o t # << >>
                         /\ (s \o t)[Len(s \o t)] = t[Len(t)]
<1>1. /\ Len(s) \in Nat /\ Len(t) \in Nat /\ Len(s \o t) = Len(s) + Len(t)
      /\ s \o t \in Seq(S)
  OBVIOUS
<1>2. \A u \in Seq(S) : u # << >> <=> Len(u) # 0 OBVIOUS
<1>3. \A i \in 1 .. Len(s) + Len(t) :
        (s \o t)[i] = IF i <= Len(s) THEN s[i] ELSE t[i - Len(s)]
  BY ConcatProperties
<1>4. ASSUME s # << >> PROVE s \o t # << >> /\ (s \o t)[1] = s[1]
  <2>1. 1 \in 1 .. Len(s) + Len(t) /\ 1 <= Len(s) BY <1>1, <1>2, <1>4
  <2> QED BY <1>1, <1>2, <1>3, <2>1
<1>5. ASSUME t # << >> PROVE /\ s \o t # << >>
                             /\ (s \o t)[Len(s \o t)] = t[Len(t)]
  <2> DEFINE n == Len(s) + Len(t)
  <2>1. n \in 1 .. n /\ ~ n <= Len(s) /\ n - Len(s) = Len(t)
    BY <1>1, <1>2, <1>5
  <2> QED BY <1>1, <1>2, <1>3, <2>1
<1> QED BY <1>4, <1>5

\* A file between rip_start() and rip_stop(), if there is a RIP.
LEMMA RipParts ==
  ASSUME NEW j, NEW type, NEW body \in Seq(PlainSteps)
  PROVE  (RipBefore(j, type) \o body) \o RipBehind(j, type) \in Parts
<1>1. CASE ~ Ripping(j, type)
  <2>1. << >> \o body = body /\ body \o << >> = body OBVIOUS
  <2>2. RipBefore(j, type) = << >> /\ RipBehind(j, type) = << >>
    BY <1>1 DEF RipBefore, RipBehind
  <2> QED BY <2>1, <2>2, PlainParts
<1>2. CASE Ripping(j, type)
  <2>1. RipBefore(j, type) = <<Op("rip")>> BY <1>2, OpsAre DEF RipBefore
  <2>2. RipBehind(j, type) = <<Op("ripeof"), Op("ripwait0"), Op("ripwait"),
                               Op("ripscreen")>>
    BY <1>2, OpsAre DEF RipBehind
  <2> QED BY <2>1, <2>2, RipPart
<1> QED BY <1>1, <1>2

\* What is sent for one file.
FileSteps(j, file, i) ==
  (JobStart(j, file[1], i) \o file[2]) \o JobEnd(j, file[1])

\* The steps of one file, with those before and behind it.
LEMMA FileParts ==
  ASSUME NEW j, NEW type, NEW body \in Seq(PlainSteps), NEW i
  PROVE  FileSteps(j, <<type, body>>, i) \in IF i = 1 THEN Leads ELSE Parts
<1> DEFINE s == StartPart(j, i)
           b == Before(j, type, i)
           r == RipBefore(j, type)
           q == RipBehind(j, type)
           e == Behind(j, type)
           mid == (r \o body) \o q
<1>1. FileSteps(j, <<type, body>>, i) = (((s \o b) \o r) \o body) \o (q \o e)
  BY StartIs DEF FileSteps
<1>2. s \in IF i = 1 THEN Leads ELSE Parts BY StartParts
<1>3. b \in Seq(PlainSteps) /\ e \in Seq(PlainSteps) BY BetweenParts
<1>4. b \in Parts /\ e \in Parts BY <1>3, PlainParts
<1>5. mid \in Parts BY RipParts
<1>6. r \in Seq(RunSteps) /\ q \in Seq(RunSteps)
  <2>1. /\ Op("rip") \in RunSteps /\ Op("ripscreen") \in RunSteps
        /\ Op("ripeof") \in RunSteps /\ Op("ripwait0") \in RunSteps
        /\ Op("ripwait") \in RunSteps
    BY DEF Op, RunSteps, RunNames
  <2> DEFINE u == Op("rip")
             w == Op("ripeof")
             x == Op("ripwait0")
             y == Op("ripwait")
             z == Op("ripscreen")
  <2>4. r \in {<< >>, <<u>>} /\ q \in {<< >>, <<w, x, y, z>>}
    BY OpsAre DEF RipBefore, RipBehind
  <2> HIDE DEF u, w, x, y, z, r, q
  <2>5. <<u>> \in Seq(RunSteps) /\ <<w, x, y, z>> \in Seq(RunSteps)
    BY <2>1 DEF u, w, x, y, z
  <2>6. << >> \in Seq(RunSteps) OBVIOUS
  <2> QED BY <2>4, <2>5, <2>6
<1>7. body \in Seq(RunSteps) /\ s \in Seq(RunSteps) /\ b \in Seq(RunSteps)
      /\ e \in Seq(RunSteps)
  <2>1. body \in Seq(RunSteps) BY StepSets, SeqMonotonic
  <2>2. s \in Seq(RunSteps) BY <1>2 DEF Parts, Leads
  <2> QED BY <2>1, <2>2, <1>4 DEF Parts
<1> HIDE DEF s, b, r, q, e
<1>8. (((s \o b) \o r) \o body) \o (q \o e) = ((s \o b) \o mid) \o e
  <2> DEFINE sb == s \o b
             rb == r \o body
             x == sb \o rb
             R == Seq(RunSteps)
  <2>1. sb \in R BY <1>7
  <2>2. rb \in R BY <1>6, <1>7
  <2>3. \A u, v, w \in R : u \o (v \o w) = (u \o v) \o w
    BY ConcatAssociative
  <2> HIDE DEF sb
  <2>4. (sb \o r) \o body = sb \o rb
    <3> HIDE DEF R
    <3> QED BY <1>6, <1>7, <2>1, <2>3 DEF R
  <2> HIDE DEF rb
  <2>5. x \in R BY <2>1, <2>2
  <2> HIDE DEF x
  <2>6. x \o (q \o e) = (x \o q) \o e
    <3> HIDE DEF R
    <3> QED BY <1>6, <1>7, <2>5, <2>3 DEF R
  <2>7. (sb \o rb) \o q = sb \o (rb \o q)
    <3> HIDE DEF R
    <3> QED BY <1>6, <2>1, <2>2, <2>3 DEF R
  <2> QED BY <2>4, <2>6, <2>7 DEF sb, rb, x
<1> HIDE DEF mid
<1>9. s \o b \in IF i = 1 THEN Leads ELSE Parts BY <1>2, <1>4, PartsConcat
<1>10. (s \o b) \o mid \in IF i = 1 THEN Leads ELSE Parts
  BY <1>5, <1>9, PartsConcat
<1>11. ((s \o b) \o mid) \o e \in IF i = 1 THEN Leads ELSE Parts
  BY <1>4, <1>10, PartsConcat
<1> QED BY <1>1, <1>8, <1>11

\* A program: it is in order, and for a job it begins with the interface and
\* ends with the exit code.
Program(t) == t \in Seq(Acts) /\ Flow(t) /\ Ripped(t)

\* real_main(): the steps follow each other as they should, every RIP is
\* waited for, an interface is started first and the verdict comes last.
LEMMA RealMainIs ==
  ASSUME NEW j \in Orders
  PROVE  /\ Program(RealMain(j)) /\ RealMain(j) # << >>
         /\ RealMain(j)[1][1] = "launch"
         /\ RealMain(j)[Len(RealMain(j))][1] = "verdict"
<1> DEFINE files == Files(j)
           s == [i \in DOMAIN files |-> FileSteps(j, files[i], i)]
           lead == FlattenSeq(s)
           end == <<Op("shut"), Op("drain"), Op("reap"), Op("verdict")>>
<1>1. files \in Seq(FileTypes \X Seq(PlainSteps)) /\ files # << >>
  BY FilesAre
<1> HIDE DEF files
<1>2. /\ Len(files) \in Nat /\ Len(files) # 0 /\ DOMAIN files = 1 .. Len(files)
      /\ \A i \in 1 .. Len(files) :
           files[i] \in FileTypes \X Seq(PlainSteps)
  BY <1>1
<1>3. \A i \in 1 .. Len(files) :
        FileSteps(j, files[i], i) \in IF i = 1 THEN Leads ELSE Parts
  <2> TAKE i \in 1 .. Len(files)
  <2>1. PICK type \in FileTypes, body \in Seq(PlainSteps) :
          files[i] = <<type, body>>
    BY <1>2
  <2> QED BY <2>1, FileParts
<1>4. lead \in Leads
  <2> DEFINE n == Len(files)
  <2>1. n \in Nat /\ n # 0 BY <1>2
  <2>2. \A i \in 1 .. n : s[i] \in IF i = 1 THEN Leads ELSE Parts
    BY <1>2, <1>3
  <2>3. s \in [1 .. n -> Leads \cup Parts]
    <3>1. s = [i \in 1 .. n |-> s[i]] BY <1>2
    <3> HIDE DEF s
    <3> QED BY <2>2, <3>1
  <2> HIDE DEF s, n
  <2>4. Len(s) = n BY <2>1, <2>3, FirstNumbers
  <2>5. s[1] \in Leads BY <2>1, <2>2
  <2>6. \A i \in 2 .. n : s[i] \in Parts
    <3>1. \A i \in 2 .. n : i \in 1 .. n /\ i # 1 BY <2>1
    <3> QED BY <2>2, <3>1
  <2>7. \A a \in Leads, b \in Parts : a \o b \in Leads BY PartsConcat
  <2> QED BY <2>1, <2>4, <2>5, <2>6, <2>7, FlattenIn
<1>5. RealMain(j) = (lead \o InterfaceClose) \o Ops(<<"verdict">>)
  BY DEF RealMain, FileSteps, files
<1> HIDE DEF s, lead
<1>6. /\ lead \in Seq(Acts) /\ Flow(lead) /\ Ripped(lead)
      /\ lead # << >> /\ lead[1][1] = "launch"
      /\ lead[Len(lead)][1] \in RunNames \ Lasts
  <2>1. lead \in Seq(RunSteps) BY <1>4 DEF Leads
  <2>2. lead \in Seq(Acts) BY <2>1, StepSets, SeqMonotonic
  <2>3. lead # << >> BY <1>4 DEF Leads
  <2>4. lead[Len(lead)] \in RunSteps BY <2>1, <2>3
  <2>5. lead[Len(lead)][1] \in RunNames BY <2>4 DEF RunSteps
  <2> QED BY <1>4, <2>2, <2>5 DEF Leads
<1>7. end \in Seq(Acts) BY DEF Acts, Names, RunNames, Op
<1>8. /\ Len(end) = 4 /\ end # << >> /\ end[1][1] = "shut"
      /\ end[2][1] = "drain" /\ end[3][1] = "reap" /\ end[4][1] = "verdict"
  BY DEF Op
<1>9. RealMain(j) = lead \o end
  <2> DEFINE c == <<Op("shut"), Op("drain"), Op("reap")>>
             v == <<Op("verdict")>>
  <2>1. InterfaceClose = c /\ Ops(<<"verdict">>) = v
    BY OpsAre DEF InterfaceClose
  <2>2. c \in Seq(Acts) /\ v \in Seq(Acts) BY DEF Acts, Names, RunNames, Op
  <2>3. c \o v = end BY ClosingSteps
  <2> HIDE DEF c, v, end
  <2>4. (lead \o c) \o v = lead \o (c \o v)
    BY ONLY <1>6, <2>2, ConcatAssociative
  <2> QED BY <1>5, <2>1, <2>3, <2>4
<1> HIDE DEF end
<1>10. Flow(end)
  <2>1. \A i \in 1 .. 4 - 1 : i = 1 \/ i = 2 \/ i = 3 OBVIOUS
  <2>2. 1 + 1 = 2 /\ 2 + 1 = 3 /\ 3 + 1 = 4 OBVIOUS
  <2> QED BY <1>8, <2>1, <2>2 DEF Flow, Follows
<1>11. Ripped(end)
  <2>1. \A i \in 1 .. 4 : i = 1 \/ i = 2 \/ i = 3 \/ i = 4 OBVIOUS
  <2> QED BY <1>8, <2>1 DEF Ripped
<1>12. Follows(lead[Len(lead)][1], end[1][1])
  BY <1>6, <1>8 DEF Follows, Lasts, RunNames, PlainNames, Blocks, Data
<1>13. Flow(lead \o end) BY <1>6, <1>7, <1>10, <1>12, FlowConcat
<1>14. Ripped(lead \o end) BY <1>6, <1>7, <1>11, RippedConcat
<1>15. /\ lead \o end \in Seq(Acts) /\ lead \o end # << >>
       /\ (lead \o end)[1] = lead[1]
       /\ (lead \o end)[Len(lead \o end)] = end[4]
  <2>1. lead \o end \in Seq(Acts) BY <1>6, <1>7
  <2>2. lead \in Seq(Acts) /\ lead # << >> BY <1>6
  <2>3. lead \o end # << >> /\ (lead \o end)[1] = lead[1]
    BY <1>7, <2>2, ConcatEnds
  <2>4. (lead \o end)[Len(lead \o end)] = end[Len(end)]
    <3>1. end # << >> BY <1>8
    <3> QED BY <1>7, <2>2, <3>1, ConcatEnds
  <2> QED BY <1>8, <2>1, <2>3, <2>4
<1> QED BY <1>6, <1>8, <1>9, <1>13, <1>14, <1>15 DEF Program

---------------------------------------------------------------------------
(* The invariant.  v is a state of pprdrv, i and r are the interface and the *)
(* RIP, b what is in the pipe from them and f what has gone wrong.           *)

Messages == {"error", "ghost", "ctrld", "start", "end"}

FactNames ==
  {"incapable", "launch", "handshake", "rip", "hasty", "interface", "quit",
   "error", "ghost", "operator", "ignored", "file", "setup", "slow"}

ExitCodes ==
  InterfaceCodes \cup {"none", "incapable"}

Drivers ==
  [todo : Seq(Acts), phase : {"run", "due", "asleep", "intr"},
   intpid : BOOLEAN, died : BOOLEAN, nofault : BOOLEAN,
   rippid : BOOLEAN, rdied : BOOLEAN, rnofault : BOOLEAN,
   icode : InterfaceCodes \cup {"none"}, rcode : RipCodes \cup {"none"},
   riping : BOOLEAN, usr1 : BOOLEAN, term : BOOLEAN, wend : BOOLEAN,
   dcount : Int, err : BOOLEAN, ghost : BOOLEAN, seen : BOOLEAN,
   active : BOOLEAN, killed : SUBSET {"interface", "rip"},
   verdict : ExitCodes]

Interfaces ==
  [state : {"none", "up", "closed", "dead"}, in : Seq(Acts), eof : BOOLEAN,
   asked : BOOLEAN, owes : Seq({"ctrld", "start", "end"}),
   code : InterfaceCodes \cup {"none"}]

RipStates == [state : {"none", "up", "dead"}, in : Seq(Acts), eof : BOOLEAN]

\* The step that comes next, and the one that comes last.
Now(v) == v.todo[1][1]
Final(t) == t[Len(t)][1]
EndsIn(v, name) == v.todo # << >> /\ Final(v.todo) = name
NowIn(v, names) == v.todo # << >> /\ Now(v) \in names

\* What pprdrv knows of its children is what has become of them.
Children(v, i, r) ==
  /\ v.intpid <=> i.state \in {"up", "closed"}
  /\ v.died => i.state = "dead"
  /\ i.state = "dead" => v.icode = i.code
  /\ i.code = "none" <=> i.state \in {"none", "up"}
  /\ i.state # "up" => i.in = << >>
  /\ i.eof => v.nofault
  /\ i.state = "none" => r.state = "none"
  /\ r.state = "up" => v.rippid /\ v.riping
  /\ r.state # "up" => r.in = << >>
  /\ v.rdied => r.state = "dead"
  /\ r.eof => v.rnofault

\* Where pprdrv is in its program says what its children are doing.
Places(v, i, r, b) ==
  /\ v.verdict # "none" => v.todo = << >> /\ v.phase = "run"
  /\ NowIn(v, {"main"}) => i.state = "none" /\ r.state = "none" /\ b = << >>
  /\ i.state = "none" /\ v.todo # << >> => Now(v) \in {"main", "launch"}
  /\ NowIn(v, {"launch"}) => i.state \in {"none", "dead"}
  /\ NowIn(v, {"verdict", "ripverdict"}) => i.state = "dead"
  /\ NowIn(v, {"launch", "reap", "verdict", "ripverdict"}) =>
       i.state # "up" /\ r.state # "up" /\ b = << >>
  /\ NowIn(v, {"ripscreen"}) => r.state = "dead"
  /\ i.eof /\ v.todo # << >> =>
       \/ Now(v) \in {"shut", "drain", "reap", "launch", "verdict",
                      "ripverdict", "ifault"}
       \/ Now(v) = "ripscreen" /\ Final(v.todo) = "ripverdict"
  /\ r.eof /\ v.riping /\ v.todo # << >> =>
       \/ Now(v) \in {"ripwait0", "ripwait", "ripscreen"}
       \/ Final(v.todo) \in {"ifault", "ripverdict"}

\* After a fault the program is another.
Modes(v, i, r, f) ==
  /\ EndsIn(v, "ifault") =>
       /\ \A k \in 1 .. Len(v.todo) : v.todo[k][1] \in {"drain", "ifault"}
       /\ i.state = "dead" /\ (v.icode = "printed" => "hasty" \in f)
  /\ EndsIn(v, "ripverdict") =>
       /\ \A k \in 1 .. Len(v.todo) :
            v.todo[k][1] \in {"ripscreen", "shut", "drain", "reap",
                              "ripverdict"}
       /\ r.state = "dead" /\ v.rnofault /\ v.rcode \notin {"none", "ok"}
       /\ v.rcode = "killed" => "rip" \in f
       /\ Now(v) # "ripscreen" => v.rcode = "quit"
  /\ v.killed # {} =>
       /\ v.rnofault \/ "rip" \notin v.killed
       /\ v.todo = << >> \/ Final(v.todo) \in {"ifault", "ripverdict"}

\* What pprdrv goes by has happened.
Reasons(v, i, r, b, f) ==
  /\ v.err => "error" \in f
  /\ v.ghost => "ghost" \in f
  /\ \A k \in 1 .. Len(b) : b[k] \in {"error", "ghost"} => b[k] \in f
  /\ v.term => "operator" \in f
  /\ i.code \notin {"none", "printed"} => "interface" \in f
  /\ v.icode \notin {"none", "printed"} => "interface" \in f
  /\ i.code = "printed" /\ ~ i.eof => "hasty" \in f
  /\ r.state = "up" /\ i.state \in {"closed", "dead"} => f # {}
  /\ v.rcode = "quit" => "quit" \in f
  /\ v.rcode = "segv" => "rip" \in f
  /\ v.rcode = "killed" => "rip" \in f \/ "rip" \in v.killed
  /\ v.rcode = "pipe" => f # {}
  /\ v.rdied /\ ~ v.rnofault =>
       /\ v.rcode \notin {"none", "ok"}
       /\ v.rcode = "killed" => "rip" \in f
  /\ v.killed # {} => f # {}
  /\ v.riping /\ r.state # "up" /\ ~ r.eof => f # {}
  /\ NowIn(v, {"epipe"}) => f # {}

\* An exit code has its reason.
Just(code, v, f) ==
  /\ code \notin {"none", "printed"} => f # {}
  /\ code = "joberr" =>
       \/ f \cap {"error", "rip", "quit", "file", "setup", "slow"} # {}
       \/ v.icode = "joberr"
  /\ code = "signal" => "operator" \in f \/ v.icode = "signal"
  /\ code = "engaged" => v.icode = "engaged"
  /\ code = "incapable" => "incapable" \in f
  /\ code = "starved" =>
       f \cap {"launch", "setup"} # {} \/ v.icode = "starved"
  /\ code = "noretry" =>
       \/ f \cap {"launch", "handshake", "hasty", "file", "setup"} # {}
       \/ v.icode \in {"core", "noretry"}
       \/ "ghost" \in f /\ v.rcode = "quit"

\* Nobody is left behind.
Alone(v, i, r) ==
  /\ i.state \in {"up", "closed"} => "interface" \in v.killed
  /\ r.state = "up" => "rip" \in v.killed \/ i.state = "dead"

Typed(v, i, r, b, f) ==
  /\ v \in Drivers /\ i \in Interfaces /\ r \in RipStates
  /\ b \in Seq(Messages) /\ f \in SUBSET FactNames

Sound(v, i, r, b, f) ==
  /\ Typed(v, i, r, b, f) /\ Program(v.todo)
  /\ Children(v, i, r) /\ Places(v, i, r, b) /\ Modes(v, i, r, f)
  /\ Reasons(v, i, r, b, f) /\ Just(v.verdict, v, f)
  /\ v.verdict # "none" => Alone(v, i, r)

\* All that was to be put on paper is there, on its way or still to be sent,
\* unless something was lost that will be known, or will be excused, or the
\* program has no end.
Lost == {"segv", "killed", "pipe"}
Loops(t) == \E k \in 1 .. Len(t) : t[k][1] = "again"
Whole(v, i, r, f, p, j) ==
  \/ Loops(v.todo)
  \/ f \cap {"hasty", "quit", "ignored"} # {}
  \/ i.code \notin {"none", "printed"}
  \/ v.rcode \in Lost
  \/ ((p \o DataOf(i.in)) \o DataOf(r.in)) \o DataOf(v.todo)
       = DataOf(RealMain(j))

Conserved(v, i, r, b, f, p, j) ==
  /\ p \in Seq(Acts)
  /\ "error" \in f => v.err \/ \E k \in 1 .. Len(b) : b[k] = "error"
  /\ ~ v.riping => v.rcode \notin Lost
  /\ NowIn(v, {"main"}) => p = << >> /\ ~ v.riping
  /\ EndsIn(v, "verdict") =>
       /\ v.riping => ScreenAhead(v.todo, 0)
       /\ r.state = "up" => v.rcode \notin Lost
       /\ Loops(RealMain(j)) => Loops(v.todo)
       /\ Whole(v, i, r, f, p, j)

\* Faults leave what pprdrv knows of its children and of the printer.
Knows(v, w) ==
  /\ w.intpid = v.intpid /\ w.nofault = v.nofault
  /\ w.rippid = v.rippid /\ w.rdied = v.rdied
  /\ w.icode = v.icode /\ w.rcode = v.rcode /\ w.riping = v.riping
  /\ w.term = v.term /\ w.err = v.err /\ w.ghost = v.ghost

\* rip_cancel() and kill_interface().
LEMMA CancelIs ==
  ASSUME NEW v \in Drivers
  PROVE  LET w == RipCancel(v)
         IN  /\ w \in Drivers /\ Knows(v, w)
             /\ w.died = v.died /\ w.todo = v.todo /\ w.phase = v.phase
             /\ w.verdict = v.verdict
             /\ w.rnofault = (v.rnofault \/ v.rippid)
             /\ w.killed = v.killed \cup (IF v.rippid THEN {"rip"} ELSE {})
<1>1. CASE v.rippid
  <2> DEFINE w == [v EXCEPT !.rnofault = TRUE, !.killed = @ \cup {"rip"}]
  <2>1. /\ w \in Drivers /\ Knows(v, w)
        /\ w.died = v.died /\ w.todo = v.todo /\ w.phase = v.phase
        /\ w.verdict = v.verdict /\ w.rnofault = TRUE
        /\ w.killed = v.killed \cup {"rip"}
    BY DEF Drivers, Knows
  <2>2. RipCancel(v) = w BY <1>1 DEF RipCancel
  <2> HIDE DEF w
  <2> QED BY <1>1, <2>1, <2>2
<1>2. CASE ~ v.rippid
  <2>1. RipCancel(v) = v BY <1>2 DEF RipCancel
  <2>2. v.rnofault \in BOOLEAN BY DEF Drivers
  <2> QED BY <1>2, <2>1, <2>2 DEF Knows
<1> QED BY <1>1, <1>2

\* kill_interface() kills the RIP too.
LEMMA KillIs ==
  ASSUME NEW v \in Drivers
  PROVE  LET w == KillInterface(v)
         IN  /\ w \in Drivers /\ Knows(v, w)
             /\ w.died = v.died /\ w.todo = v.todo /\ w.phase = v.phase
             /\ w.verdict = v.verdict
             /\ w.rnofault = (v.rnofault \/ (v.intpid /\ v.rippid))
             /\ w.killed = v.killed
                  \cup (IF v.intpid THEN {"interface"} ELSE {})
                  \cup (IF v.intpid /\ v.rippid THEN {"rip"} ELSE {})
<1> DEFINE u == RipCancel(v)
<1>1. /\ u \in Drivers /\ Knows(v, u)
      /\ u.died = v.died /\ u.todo = v.todo /\ u.phase = v.phase
      /\ u.verdict = v.verdict
      /\ u.rnofault = (v.rnofault \/ v.rippid)
      /\ u.killed = v.killed \cup (IF v.rippid THEN {"rip"} ELSE {})
  BY CancelIs
<1>2. KillInterface(v) = IF v.intpid
                           THEN [u EXCEPT !.killed = @ \cup {"interface"}]
                           ELSE v
  BY DEF KillInterface
<1> HIDE DEF u
<1>3. v.intpid \in BOOLEAN /\ v.rippid \in BOOLEAN /\ v.rnofault \in BOOLEAN
  BY DEF Drivers
<1>4. CASE v.intpid
  <2> DEFINE w == [u EXCEPT !.killed = @ \cup {"interface"}]
  <2>1. /\ w \in Drivers /\ Knows(u, w)
        /\ w.died = u.died /\ w.todo = u.todo /\ w.phase = u.phase
        /\ w.verdict = u.verdict /\ w.rnofault = u.rnofault
        /\ w.killed = u.killed \cup {"interface"}
    BY <1>1 DEF Drivers, Knows
  <2>2. KillInterface(v) = w BY <1>2, <1>4
  <2> HIDE DEF w
  <2> QED BY <1>1, <1>3, <1>4, <2>1, <2>2 DEF Knows
<1>5. CASE ~ v.intpid
  <2>1. KillInterface(v) = v BY <1>2, <1>5
  <2> QED BY <1>3, <1>5, <2>1 DEF Knows
<1> QED BY <1>4, <1>5

\* hooked_exit().
LEMMA ExitIs ==
  ASSUME NEW v \in Drivers, NEW code \in ExitCodes
  PROVE  LET w == HookedExit(v, code)
         IN  /\ w \in Drivers /\ Knows(v, w)
             /\ w.died = v.died /\ w.todo = << >> /\ w.phase = "run"
             /\ w.verdict = code
             /\ w.rnofault = (v.rnofault \/ (v.intpid /\ v.rippid))
             /\ w.killed = v.killed
                  \cup (IF v.intpid THEN {"interface"} ELSE {})
                  \cup (IF v.intpid /\ v.rippid THEN {"rip"} ELSE {})
<1> DEFINE u == KillInterface(v)
           w == [Turn(u, << >>) EXCEPT !.verdict = code]
<1>1. HookedExit(v, code) = w BY DEF HookedExit
<1>2. /\ u \in Drivers /\ Knows(v, u)
      /\ u.died = v.died
      /\ u.rnofault = (v.rnofault \/ (v.intpid /\ v.rippid))
      /\ u.killed = v.killed
           \cup (IF v.intpid THEN {"interface"} ELSE {})
           \cup (IF v.intpid /\ v.rippid THEN {"rip"} ELSE {})
  BY KillIs
<1> HIDE DEF u
<1>3. /\ w \in Drivers /\ Knows(u, w) /\ w.died = u.died /\ w.todo = << >>
      /\ w.phase = "run" /\ w.verdict = code /\ w.rnofault = u.rnofault
      /\ w.killed = u.killed
  <2> DEFINE e == << >>
  <2>1. e \in Seq(Acts) OBVIOUS
  <2> HIDE DEF e
  <2>2. [Turn(u, e) EXCEPT !.verdict = code] \in Drivers
    BY <1>2, <2>1 DEF Drivers, Turn
  <2>3. w = [Turn(u, e) EXCEPT !.verdict = code] BY DEF e
  <2>4. /\ Knows(u, w) /\ w.died = u.died /\ w.todo = e
        /\ w.phase = "run" /\ w.verdict = code /\ w.rnofault = u.rnofault
        /\ w.killed = u.killed
    BY <1>2, <2>3 DEF Drivers, Knows, Turn
  <2> HIDE DEF w
  <2> QED BY <2>2, <2>3, <2>4 DEF e
<1> HIDE DEF w
<1> QED BY <1>1, <1>2, <1>3 DEF Knows

\* interface_fault_check().
LEMMA InterfaceFaultIs ==
  ASSUME NEW v \in Drivers
  PROVE  LET w == InterfaceFault(v)
         IN  /\ w \in Drivers /\ Knows(v, w)
             /\ w.died = FALSE /\ w.todo = <<Op("drain"), Op("ifault")>>
             /\ w.phase = "run" /\ w.verdict = v.verdict
             /\ w.rnofault = (v.rnofault \/ v.rippid)
             /\ w.killed = v.killed \cup (IF v.rippid THEN {"rip"} ELSE {})
<1> DEFINE u == RipCancel(v)
           t == <<Op("drain"), Op("ifault")>>
           w == [Turn(u, t) EXCEPT !.wend = FALSE, !.died = FALSE]
<1>1. InterfaceFault(v) = w BY OpsAre DEF InterfaceFault
<1>2. /\ u \in Drivers /\ Knows(v, u) /\ u.verdict = v.verdict
      /\ u.rnofault = (v.rnofault \/ v.rippid)
      /\ u.killed = v.killed \cup (IF v.rippid THEN {"rip"} ELSE {})
  BY CancelIs
<1>3. t \in Seq(Acts) BY DEF Acts, Names, RunNames, Op
<1> HIDE DEF u, t
<1>4. /\ w \in Drivers /\ Knows(u, w) /\ w.died = FALSE /\ w.todo = t
      /\ w.phase = "run" /\ w.verdict = u.verdict /\ w.rnofault = u.rnofault
      /\ w.killed = u.killed
  <2> DEFINE z == [u EXCEPT !.todo = t, !.phase = "run"]
  <2>1. w = [z EXCEPT !.wend = FALSE, !.died = FALSE] BY DEF Turn
  <2>2. z \in Drivers BY <1>2, <1>3 DEF Drivers
  <2>3. /\ Knows(u, z) /\ z.todo = t /\ z.phase = "run"
        /\ z.verdict = u.verdict /\ z.rnofault = u.rnofault
        /\ z.killed = u.killed
    BY <1>2 DEF Drivers, Knows
  <2> HIDE DEF w, z
  <2>4. w \in Drivers
    <3>1. [z EXCEPT !.wend = FALSE, !.died = FALSE] \in Drivers
      BY <2>2 DEF Drivers
    <3> QED BY <2>1, <3>1
  <2>5. /\ Knows(z, w) /\ w.died = FALSE /\ w.todo = z.todo
        /\ w.phase = z.phase /\ w.verdict = z.verdict
        /\ w.rnofault = z.rnofault /\ w.killed = z.killed
    BY <2>1, <2>2 DEF Drivers, Knows
  <2> QED BY <2>3, <2>4, <2>5 DEF Knows
<1> HIDE DEF w
<1> QED BY <1>1, <1>2, <1>4 DEF Knows, t

\* rip_fault_check().
RipFaultSteps ==
  <<Op("ripscreen"), Op("shut"), Op("drain"), Op("reap"), Op("ripverdict")>>

\* rip_fault_check().
LEMMA RipFaultIs ==
  ASSUME NEW v \in Drivers
  PROVE  LET w == RipFault(v)
         IN  /\ w \in Drivers /\ Knows(v, w)
             /\ w.died = v.died /\ w.todo = RipFaultSteps
             /\ w.phase = "run" /\ w.verdict = v.verdict
             /\ w.rnofault = TRUE /\ w.killed = v.killed
<1> DEFINE t == (Ops(<<"ripscreen">>) \o InterfaceClose) \o Ops(<<"ripverdict">>)
           w == [Turn(v, RipFaultSteps) EXCEPT !.rnofault = TRUE]
<1>1. t = RipFaultSteps
  <2>1. t = (<<Op("ripscreen")>> \o <<Op("shut"), Op("drain"), Op("reap")>>)
              \o <<Op("ripverdict")>>
    BY OpsAre DEF InterfaceClose
  <2>2. \A a, b, c, d, e : (<<a>> \o <<b, c, d>>) \o <<e>> = <<a, b, c, d, e>>
    <3> TAKE a, b, c, d, e
    <3> DEFINE S == {a, b, c, d, e}
               s == (<<a>> \o <<b, c, d>>) \o <<e>>
               u == <<a, b, c, d, e>>
    <3>1. /\ <<a>> \in Seq(S) /\ <<b, c, d>> \in Seq(S) /\ <<e>> \in Seq(S)
          /\ u \in Seq(S)
      OBVIOUS
    <3>2. /\ s \in Seq(S) /\ Len(s) = 5 /\ s[1] = a /\ s[2] = b /\ s[3] = c
          /\ s[4] = d /\ s[5] = e
      BY <3>1
    <3>3. /\ Len(u) = 5 /\ u[1] = a /\ u[2] = b /\ u[3] = c /\ u[4] = d
          /\ u[5] = e
      OBVIOUS
    <3>4. \A k \in 1 .. 5 : k = 1 \/ k = 2 \/ k = 3 \/ k = 4 \/ k = 5 OBVIOUS
    <3> HIDE DEF s, u, S
    <3>5. s = u BY <3>1, <3>2, <3>3, <3>4, SeqEqual
    <3> QED BY <3>5 DEF s, u
  <2> QED BY <2>1, <2>2 DEF RipFaultSteps
<1>2. RipFault(v) = w BY <1>1 DEF RipFault
<1>3. RipFaultSteps \in Seq(Acts)
  BY DEF RipFaultSteps, Acts, Names, RunNames, Op
<1>4. /\ w \in Drivers /\ Knows(v, w) /\ w.died = v.died
      /\ w.todo = RipFaultSteps
      /\ w.phase = "run" /\ w.verdict = v.verdict /\ w.rnofault = TRUE
      /\ w.killed = v.killed
  BY <1>3 DEF Drivers, Knows, Turn
<1> HIDE DEF w
<1> QED BY <1>2, <1>4

\* What faults put in the place of the program is one.
LEMMA SmallPrograms ==
  /\ Program(<< >>)
  /\ Program(<<Op("drain"), Op("ifault")>>)
  /\ Program(RipFaultSteps)
<1>1. Program(<< >>)
  <2> DEFINE t == << >>
  <2>1. t \in Seq(Acts) /\ Len(t) = 0 OBVIOUS
  <2> HIDE DEF t
  <2>2. Program(t) BY <2>1 DEF Program, Flow, Ripped
  <2> QED BY <2>2 DEF t
<1>2. Program(<<Op("drain"), Op("ifault")>>)
  <2> DEFINE t == <<Op("drain"), Op("ifault")>>
  <2>1. t \in Seq(Acts) BY DEF Acts, Names, RunNames, Op
  <2>2. Len(t) = 2 /\ t[1][1] = "drain" /\ t[2][1] = "ifault" BY DEF Op
  <2>3. \A k \in 1 .. 2 : k = 1 \/ k = 2 OBVIOUS
  <2>4. \A k \in 1 .. 2 - 1 : k = 1 /\ k + 1 = 2 OBVIOUS
  <2> HIDE DEF t
  <2>5. Program(t)
    BY <2>1, <2>2, <2>3, <2>4 DEF Program, Flow, Follows, Ripped
  <2> QED BY <2>5 DEF t
<1>3. Program(RipFaultSteps)
  <2> DEFINE t == RipFaultSteps
  <2>1. t \in Seq(Acts) BY DEF Acts, Names, RunNames, Op, RipFaultSteps
  <2>2. /\ Len(t) = 5 /\ t[1][1] = "ripscreen" /\ t[2][1] = "shut"
        /\ t[3][1] = "drain" /\ t[4][1] = "reap" /\ t[5][1] = "ripverdict"
    BY DEF Op, RipFaultSteps
  <2> HIDE DEF t
  <2>3. \A k \in 1 .. 5 : k = 1 \/ k = 2 \/ k = 3 \/ k = 4 \/ k = 5 OBVIOUS
  <2>4. \A k \in 1 .. 5 - 1 : k = 1 \/ k = 2 \/ k = 3 \/ k = 4 OBVIOUS
  <2>5. 1 + 1 = 2 /\ 2 + 1 = 3 /\ 3 + 1 = 4 /\ 4 + 1 = 5 OBVIOUS
  <2>6. Flow(t) BY <2>2, <2>4, <2>5 DEF Flow, Follows
  <2>7. Ripped(t) BY <2>2, <2>3 DEF Ripped
  <2> QED BY <2>1, <2>6, <2>7 DEF Program, t
<1> QED BY <1>1, <1>2, <1>3

\* pprdrv exits with a code for which there is a reason.
LEMMA ExitKeeps ==
  ASSUME NEW v, NEW i, NEW r, NEW b, NEW f, NEW code \in ExitCodes,
         Sound(v, i, r, b, f), v.verdict = "none",
         code \notin {"none", "printed"}, Just(code, v, f)
  PROVE  Sound(HookedExit(v, code), i, r, b, f)
<1> DEFINE w == HookedExit(v, code)
<1>1. Typed(v, i, r, b, f) /\ v \in Drivers BY DEF Sound, Typed
<1>2. /\ w \in Drivers /\ Knows(v, w)
      /\ w.died = v.died /\ w.todo = << >> /\ w.phase = "run"
      /\ w.verdict = code
      /\ w.rnofault = (v.rnofault \/ (v.intpid /\ v.rippid))
      /\ w.killed = v.killed
           \cup (IF v.intpid THEN {"interface"} ELSE {})
           \cup (IF v.intpid /\ v.rippid THEN {"rip"} ELSE {})
  BY <1>1, ExitIs
<1> HIDE DEF w
<1>3. Typed(w, i, r, b, f) BY <1>1, <1>2 DEF Typed
<1>4. Program(w.todo) BY <1>2, SmallPrograms
<1>5. Children(w, i, r) BY <1>2 DEF Sound, Children, Knows
<1>6. Places(w, i, r, b) BY <1>2 DEF Places, NowIn
<1>7. Modes(w, i, r, f) BY <1>2 DEF Sound, Modes, EndsIn
<1>8. Reasons(w, i, r, b, f) BY <1>2 DEF Sound, Reasons, Just, Knows, NowIn
<1>9. Just(w.verdict, w, f) BY <1>2 DEF Just, Knows
<1>10. Alone(w, i, r)
  <2>1. v.intpid \in BOOLEAN /\ v.rippid \in BOOLEAN /\ i \in Interfaces
    BY <1>1 DEF Drivers, Typed
  <2>2. i.state \in {"none", "up", "closed", "dead"} BY <2>1 DEF Interfaces
  <2>3. /\ v.intpid <=> i.state \in {"up", "closed"}
        /\ i.state = "none" => r.state = "none"
        /\ r.state = "up" => v.rippid
    BY DEF Sound, Children
  <2>4. ASSUME v.intpid PROVE Alone(w, i, r)
    <3>1. "interface" \in w.killed BY <1>2, <2>4
    <3>2. v.rippid => "rip" \in w.killed BY <1>2, <2>4
    <3> QED BY <2>3, <3>1, <3>2 DEF Alone
  <2>5. ASSUME ~ v.intpid PROVE Alone(w, i, r)
    BY <2>2, <2>3, <2>5 DEF Alone
  <2> QED BY <2>4, <2>5
<1> QED BY <1>3, <1>4, <1>5, <1>6, <1>7, <1>8, <1>9, <1>10 DEF Sound, w

\* The interface has died before it was told to end.
LEMMA InterfaceFaultKeeps ==
  ASSUME NEW v, NEW i, NEW r, NEW b, NEW f,
         Sound(v, i, r, b, f), v.verdict = "none", v.died, ~ v.nofault
  PROVE  Sound(InterfaceFault(v), i, r, b, f)
<1> DEFINE w == InterfaceFault(v)
           t == <<Op("drain"), Op("ifault")>>
<1>1. Typed(v, i, r, b, f) /\ v \in Drivers BY DEF Sound, Typed
<1>2. /\ w \in Drivers /\ Knows(v, w)
      /\ w.died = FALSE /\ w.todo = t
      /\ w.phase = "run" /\ w.verdict = v.verdict
      /\ w.rnofault = (v.rnofault \/ v.rippid)
      /\ w.killed = v.killed \cup (IF v.rippid THEN {"rip"} ELSE {})
  BY <1>1, InterfaceFaultIs
<1> HIDE DEF w
<1>3. t # << >> /\ Len(t) = 2 /\ t[1][1] = "drain" /\ t[2][1] = "ifault"
  BY DEF Op
<1>4. Program(w.todo) BY <1>2, SmallPrograms
<1>5. \A k \in 1 .. 2 : k = 1 \/ k = 2 OBVIOUS
<1> HIDE DEF t
<1>6. /\ i.state = "dead" /\ ~ i.eof /\ v.icode = i.code /\ i.code # "none"
      /\ (i.code = "printed" => "hasty" \in f) /\ f # {}
  BY DEF Sound, Children, Reasons
<1>7. Typed(w, i, r, b, f) BY <1>1, <1>2 DEF Typed
<1>8. Children(w, i, r) BY <1>2 DEF Sound, Children, Knows
<1>9. Places(w, i, r, b) BY <1>2, <1>3, <1>6 DEF Places, NowIn, Now, Final
<1>10. Modes(w, i, r, f)
  BY <1>2, <1>3, <1>5, <1>6 DEF Sound, Modes, EndsIn, Final, Now, Knows
<1>11. Reasons(w, i, r, b, f)
  BY <1>2, <1>3, <1>6 DEF Sound, Reasons, Knows, NowIn, Now
<1>12. Just(w.verdict, w, f) /\ w.verdict = "none" BY <1>2 DEF Just
<1> QED BY <1>4, <1>7, <1>8, <1>9, <1>10, <1>11, <1>12 DEF Sound, w

\* The RIP has died before it was told to end.
LEMMA RipFaultKeeps ==
  ASSUME NEW v, NEW i, NEW r, NEW b, NEW f,
         Sound(v, i, r, b, f), v.verdict = "none", v.rdied, ~ v.rnofault
  PROVE  Sound(RipFault(v), i, r, b, f)
<1> DEFINE w == RipFault(v)
           t == RipFaultSteps
<1>1. Typed(v, i, r, b, f) /\ v \in Drivers BY DEF Sound, Typed
<1>2. /\ w \in Drivers /\ Knows(v, w)
      /\ w.died = v.died /\ w.todo = t
      /\ w.phase = "run" /\ w.verdict = v.verdict
      /\ w.rnofault = TRUE /\ w.killed = v.killed
  BY <1>1, RipFaultIs
<1> HIDE DEF w
<1>3. /\ t # << >> /\ Len(t) = 5 /\ t[1][1] = "ripscreen" /\ t[2][1] = "shut"
      /\ t[3][1] = "drain" /\ t[4][1] = "reap" /\ t[5][1] = "ripverdict"
  BY DEF Op, RipFaultSteps
<1>4. Program(w.todo) BY <1>2, SmallPrograms
<1>5. \A k \in 1 .. 5 : k = 1 \/ k = 2 \/ k = 3 \/ k = 4 \/ k = 5 OBVIOUS
<1> HIDE DEF t
<1>6. r.state = "dead" /\ v.rcode \notin {"none", "ok"}
      /\ (v.rcode = "killed" => "rip" \in f)
  BY DEF Sound, Children, Reasons
<1>7. Typed(w, i, r, b, f) BY <1>1, <1>2 DEF Typed
<1>8. Children(w, i, r) BY <1>2 DEF Sound, Children, Knows
<1>9. Places(w, i, r, b)
  <2>1. i.state # "none" BY <1>6 DEF Sound, Children
  <2> QED BY <1>2, <1>3, <1>6, <2>1 DEF Places, NowIn, Now, Final
<1>10. Modes(w, i, r, f)
  BY <1>2, <1>3, <1>5, <1>6 DEF Sound, Modes, EndsIn, Final, Now, Knows
<1>11. Reasons(w, i, r, b, f)
  BY <1>2, <1>3, <1>6 DEF Sound, Reasons, Knows, NowIn, Now
<1>12. Just(w.verdict, w, f) /\ w.verdict = "none" BY <1>2 DEF Just
<1> QED BY <1>4, <1>7, <1>8, <1>9, <1>10, <1>11, <1>12 DEF Sound, w

---------------------------------------------------------------------------
(* What several steps have in common *)

\* A program without its first step.
LEMMA TailIs ==
  ASSUME NEW t, Program(t), t # << >>
  PROVE  /\ Program(Tail(t)) /\ t[1] \in Acts
         /\ Head(t) = t[1]
         /\ Len(t) \in Nat /\ Len(Tail(t)) = Len(t) - 1
         /\ \A k \in 1 .. Len(Tail(t)) :
              k + 1 \in 1 .. Len(t) /\ Tail(t)[k] = t[k + 1]
         /\ Tail(t) # << >> => /\ Follows(t[1][1], Tail(t)[1][1])
                               /\ Final(Tail(t)) = Final(t)
         /\ Tail(t) = << >> => Final(t) = t[1][1] /\ Len(t) = 1
<1> DEFINE u == Tail(t)
<1>1. t \in Seq(Acts) /\ Flow(t) /\ Ripped(t) BY DEF Program
<1>2. /\ u \in Seq(Acts) /\ t[1] \in Acts /\ Len(t) \in Nat /\ Len(t) # 0
      /\ Len(u) = Len(t) - 1 /\ Head(t) = t[1]
      /\ \A k \in 1 .. Len(u) : u[k] = t[k + 1]
      /\ (u = << >> <=> Len(u) = 0)
  <2>1. t \in Seq(Acts) /\ t # << >> BY <1>1
  <2>2. u \in Seq(Acts) /\ Len(t) \in Nat /\ Len(t) # 0 BY <2>1
  <2>3. t[1] \in Acts /\ Head(t) = t[1] BY <2>1
  <2>4. Len(u) = Len(t) - 1 /\ \A k \in 1 .. Len(u) : u[k] = t[k + 1] BY <2>1
  <2> HIDE DEF u
  <2>5. u = << >> <=> Len(u) = 0 BY <2>2
  <2> QED BY <2>2, <2>3, <2>4, <2>5
<1> HIDE DEF u
<1>3. \A k \in 1 .. Len(u) : k + 1 \in 1 .. Len(t) BY <1>2
<1>4. Flow(u)
  <2> SUFFICES ASSUME NEW k \in 1 .. Len(u) - 1
               PROVE  Follows(u[k][1], u[k + 1][1])
    BY DEF Flow
  <2>1. /\ k \in 1 .. Len(u) /\ k + 1 \in 1 .. Len(u)
        /\ k + 1 \in 1 .. Len(t) - 1
    BY <1>2
  <2>2. Follows(t[k + 1][1], t[(k + 1) + 1][1]) BY <1>1, <2>1 DEF Flow
  <2> QED BY <1>2, <2>1, <2>2
<1>5. Ripped(u)
  <2> SUFFICES ASSUME NEW i \in 1 .. Len(u), u[i][1] = "rip"
               PROVE  ScreenAhead(u, i)
    BY DEF Ripped
  <2>1. i + 1 \in 1 .. Len(t) /\ t[i + 1][1] = "rip" BY <1>2, <1>3
  <2>2. ScreenAhead(t, i + 1) BY <1>1, <2>1 DEF Ripped
  <2>3. PICK k \in 1 .. Len(t) :
          /\ k > i + 1 /\ t[k][1] = "ripscreen"
          /\ \A m \in (i + 1) + 1 .. k - 1 : t[m][1] # "rip"
    BY <2>2 DEF ScreenAhead
  <2> DEFINE q == k - 1
  <2>4. q \in 1 .. Len(u) /\ q > i /\ q + 1 = k BY <1>2, <2>3
  <2>5. \A m \in i + 1 .. q - 1 :
          m \in 1 .. Len(u) /\ m + 1 \in (i + 1) + 1 .. k - 1
    BY <1>2, <2>3, <2>4
  <2> HIDE DEF q
  <2>6. u[q][1] = "ripscreen" BY <1>2, <2>3, <2>4
  <2>7. \A m \in i + 1 .. q - 1 : u[m][1] # "rip" BY <1>2, <2>3, <2>5
  <2> QED BY <2>4, <2>6, <2>7 DEF ScreenAhead
<1>6. ASSUME u # << >>
      PROVE  Follows(t[1][1], u[1][1]) /\ Final(u) = Final(t)
  <2>1. /\ 1 \in 1 .. Len(t) - 1 /\ 1 \in 1 .. Len(u)
        /\ Len(u) \in 1 .. Len(u) /\ Len(u) + 1 = Len(t)
    BY <1>2, <1>6
  <2>2. Follows(t[1][1], t[1 + 1][1]) BY <1>1, <2>1 DEF Flow
  <2>3. u[1] = t[1 + 1] /\ u[Len(u)] = t[Len(t)] BY <1>2, <2>1
  <2> QED BY <2>2, <2>3 DEF Final
<1>7. ASSUME u = << >> PROVE Final(t) = t[1][1] /\ Len(t) = 1
  <2>1. Len(t) = 1 BY <1>2, <1>7
  <2> QED BY <2>1 DEF Final
<1> QED BY <1>2, <1>3, <1>4, <1>5, <1>6, <1>7 DEF Program, u

\* After its last step there is nothing in a program.
LEMMA LastSteps ==
  ASSUME NEW t, Program(t), t # << >>,
         t[1][1] \in {"main", "epipe", "ripverdict", "ifault", "verdict"}
  PROVE  Tail(t) = << >> /\ Final(t) = t[1][1] /\ Len(t) = 1
BY TailIs DEF Follows

\* pprdrv goes on, and what it knows is the same or less.
Less(v, w) ==
  /\ w \in Drivers
  /\ w.intpid = v.intpid /\ w.rippid = v.rippid
  /\ w.icode = v.icode /\ w.rcode = v.rcode
  /\ w.err = v.err /\ w.ghost = v.ghost /\ w.killed = v.killed
  /\ v.nofault => w.nofault
  /\ v.rnofault => w.rnofault
  /\ w.died => v.died
  /\ w.rdied => v.rdied
  /\ w.term => v.term
  /\ w.riping => v.riping
  /\ v.verdict = "none" /\ w.verdict = "none"

\* pprdrv is where it was: the processes are as they should be.
LEMMA SameKeeps ==
  ASSUME NEW v, NEW w, NEW i, NEW r, NEW b, NEW f, Sound(v, i, r, b, f),
         Less(v, w), w.todo = v.todo, r.state = "up" => w.riping = v.riping
  PROVE  Sound(w, i, r, b, f)
<1>1. Typed(w, i, r, b, f) /\ Program(w.todo) BY DEF Sound, Typed, Less
<1>2. Children(w, i, r) BY DEF Sound, Children, Less
<1>3. Places(w, i, r, b) BY DEF Sound, Places, Less, NowIn, Now
<1>4. Modes(w, i, r, f) BY DEF Sound, Modes, Less, EndsIn, Now
<1>5. Reasons(w, i, r, b, f) BY DEF Sound, Reasons, Less, NowIn, Now
<1>6. Just(w.verdict, w, f) /\ w.verdict = "none" BY DEF Just, Less
<1> QED BY <1>1, <1>2, <1>3, <1>4, <1>5, <1>6 DEF Sound

\* pprdrv is where it was: nothing is lost.
LEMMA SameConserves ==
  ASSUME NEW v, NEW w, NEW i, NEW r, NEW b, NEW f, NEW p, NEW j,
         Conserved(v, i, r, b, f, p, j),
         Less(v, w), w.todo = v.todo, ~ w.riping => w.rcode \notin Lost
  PROVE  Conserved(w, i, r, b, f, p, j)
BY DEF Conserved, Less, Whole, NowIn, Now, EndsIn

\* A step is done.  The places for which something must be so: the RIP has
\* ended when its exit code is looked at, and the code is not one that makes
\* pprdrv exit when it goes on; all has been read when feedback_drain() is
\* done; the interface has ended when interface_close() is done.
Walkable ==
  (PlainNames \ {"again"})
    \cup {"rip", "ripeof", "ripwait0", "ripwait", "ripscreen", "shut", "drain",
          "reap"}

\* A step is done: the processes are as they should be.
LEMMA StepKeeps ==
  ASSUME NEW v, NEW w, NEW i, NEW r, NEW b, NEW f, Sound(v, i, r, b, f),
         Less(v, w), NowIn(v, Walkable), w.todo = Tail(v.todo),
         r.state = "up" => w.riping = v.riping,
         Now(v) = "ripwait" => r.state = "dead",
         Now(v) = "ripscreen" => v.rcode \notin Lost,
         Now(v) = "ripscreen" => ~ w.riping,
         Now(v) = "drain" =>
           i.state # "up" /\ r.state # "up" /\ b = << >>,
         Now(v) = "reap" => i.state = "dead"
  PROVE  Sound(w, i, r, b, f)
<1> DEFINE t == v.todo
           u == w.todo
           a == Now(v)
           c == Now(w)
<1>1. /\ Program(t) /\ t # << >> /\ a = t[1][1] /\ c = u[1][1]
      /\ a \in Walkable /\ u = Tail(t)
  BY DEF Sound, NowIn, Now
<1>2. /\ Program(u)
      /\ Len(t) \in Nat /\ Len(u) = Len(t) - 1
      /\ \A k \in 1 .. Len(u) : k + 1 \in 1 .. Len(t) /\ u[k] = t[k + 1]
      /\ u # << >> => Follows(a, c) /\ Final(u) = Final(t)
  BY <1>1, TailIs
<1>3. a # "main" /\ a # "launch"
  BY <1>1 DEF Walkable, PlainNames, Blocks, Data
<1>4. Typed(w, i, r, b, f) BY DEF Sound, Typed, Less
<1>5. Children(w, i, r) BY DEF Sound, Children, Less
<1>6. Places(w, i, r, b)
  <2>1. u # << >> => c # "main" /\ (c = "launch" => a = "reap")
                     /\ (c \in {"verdict", "ripverdict"} => a = "reap")
                     /\ (c = "reap" => a = "drain")
                     /\ (c = "ripscreen" => a = "ripwait")
    BY <1>2 DEF Follows
  <2>2. i.state # "none" BY <1>1, <1>3 DEF Sound, Places
  <2>3. a = "reap" => i.state # "up" /\ r.state # "up" /\ b = << >>
    BY <1>1 DEF Sound, Places, NowIn
  <2>4. ASSUME i.eof, u # << >>
        PROVE  \/ c \in {"shut", "drain", "reap", "launch", "verdict",
                         "ripverdict", "ifault"}
               \/ c = "ripscreen" /\ Final(u) = "ripverdict"
    <3>1. \/ a \in {"shut", "drain", "reap", "launch", "verdict",
                    "ripverdict", "ifault"}
          \/ a = "ripscreen" /\ Final(t) = "ripverdict"
      BY <1>1, <2>4 DEF Sound, Places
    <3>2. CASE a # "ripscreen" BY <1>2, <1>3, <2>4, <3>1, <3>2 DEF Follows
    <3>3. CASE a = "ripscreen"
      <4>1. EndsIn(v, "ripverdict") BY <1>1, <3>1, <3>3 DEF EndsIn
      <4>2. 1 \in 1 .. Len(u)
        <5>1. u \in Seq(Acts) BY <1>2 DEF Program
        <5> HIDE DEF u
        <5> QED BY <2>4, <5>1
      <4>3. 1 + 1 \in 1 .. Len(t) /\ c = t[1 + 1][1] BY <1>1, <1>2, <4>2
      <4>4. c \in {"ripscreen", "shut", "drain", "reap", "ripverdict"}
        BY <4>1, <4>3 DEF Sound, Modes
      <4> QED BY <2>1, <2>4, <3>3, <4>4
    <3> QED BY <3>2, <3>3
  <2>5. ASSUME r.eof, w.riping, u # << >>
        PROVE  \/ c \in {"ripwait0", "ripwait", "ripscreen"}
               \/ Final(u) \in {"ifault", "ripverdict"}
    <3>1. v.riping BY <2>5 DEF Less
    <3>2. \/ a \in {"ripwait0", "ripwait", "ripscreen"}
          \/ Final(t) \in {"ifault", "ripverdict"}
      BY <1>1, <2>5, <3>1 DEF Sound, Places
    <3> QED BY <1>2, <2>5, <3>2 DEF Follows
  <2>6. w.verdict = "none" BY DEF Less
  <2> HIDE DEF u, c, a, t
  <2> QED BY <2>1, <2>2, <2>3, <2>4, <2>5, <2>6 DEF Places, NowIn, u, c, a
<1>7. Modes(w, i, r, f)
  <2>1. \A name \in {"ifault", "ripverdict"} :
          EndsIn(w, name) => EndsIn(v, name)
    BY <1>1, <1>2 DEF EndsIn
  <2>2. /\ w.icode = v.icode /\ w.rcode = v.rcode /\ w.killed = v.killed
        /\ (v.rnofault => w.rnofault)
    BY DEF Less
  <2>3. ASSUME EndsIn(w, "ifault")
        PROVE  /\ \A k \in 1 .. Len(u) : u[k][1] \in {"drain", "ifault"}
               /\ i.state = "dead" /\ (w.icode = "printed" => "hasty" \in f)
    BY <1>2, <2>1, <2>2, <2>3 DEF Sound, Modes
  <2>4. ASSUME EndsIn(w, "ripverdict")
        PROVE  /\ \A k \in 1 .. Len(u) :
                    u[k][1] \in {"ripscreen", "shut", "drain", "reap",
                                 "ripverdict"}
               /\ r.state = "dead" /\ w.rnofault
               /\ w.rcode \notin {"none", "ok"}
               /\ w.rcode = "killed" => "rip" \in f
               /\ c # "ripscreen" => w.rcode = "quit"
    <3>1. /\ \A k \in 1 .. Len(t) :
               t[k][1] \in {"ripscreen", "shut", "drain", "reap", "ripverdict"}
          /\ r.state = "dead" /\ v.rnofault /\ v.rcode \notin {"none", "ok"}
          /\ (v.rcode = "killed" => "rip" \in f)
          /\ (a # "ripscreen" => v.rcode = "quit")
      BY <2>1, <2>4 DEF Sound, Modes
    <3>2. v.rcode \in RipCodes \cup {"none"} BY DEF Sound, Typed, Drivers
    <3>3. w.rcode = "quit" BY <2>2, <3>1, <3>2 DEF RipCodes, Lost
    <3> QED BY <1>2, <2>2, <3>1, <3>3
  <2>5. w.killed # {} =>
          /\ w.rnofault \/ "rip" \notin w.killed
          /\ u = << >> \/ Final(u) \in {"ifault", "ripverdict"}
    BY <1>1, <1>2, <2>2 DEF Sound, Modes
  <2> QED BY <2>3, <2>4, <2>5 DEF Modes
<1>8. Reasons(w, i, r, b, f)
  <2>1. ~ NowIn(w, {"epipe"}) \/ f # {}
    <3>1. CASE ~ NowIn(w, {"epipe"}) BY <3>1
    <3>2. CASE NowIn(w, {"epipe"})
      <4>1. Follows(a, "epipe") BY <1>2, <3>2 DEF NowIn
      <4> QED BY <4>1 DEF Follows
    <3> QED BY <3>1, <3>2
  <2> QED BY <2>1 DEF Sound, Reasons, Less
<1>9. Just(w.verdict, w, f) /\ w.verdict = "none" BY DEF Just, Less
<1> QED BY <1>2, <1>4, <1>5, <1>6, <1>7, <1>8, <1>9 DEF Sound

\* What of a step is for the paper.
Sheet(x) == IF x[1] \in Data THEN <<x>> ELSE << >>

\* What is for the paper in a sequence, from either of its ends.
LEMMA DataIs ==
  /\ DataOf(<< >>) = << >>
  /\ \A s \in Seq(Acts) : DataOf(s) \in Seq(Acts)
  /\ \A x \in Acts : Sheet(x) \in Seq(Acts)
  /\ \A s \in Seq(Acts) :
       s # << >> => DataOf(s) = Sheet(Head(s)) \o DataOf(Tail(s))
  /\ \A s \in Seq(Acts), x \in Acts :
       DataOf(Append(s, x)) = DataOf(s) \o Sheet(x)
<1> DEFINE D == Data \X Int
<1>1. \A x \in Acts : x \in D <=> x[1] \in Data BY DEF Acts
<1>2. \A x \in D : x \in Acts
  BY DEF Acts, Data, Names, RunNames, PlainNames, Blocks
<1> HIDE DEF D
<1>3. \A s : DataOf(s) = Keep(s, D) BY DEF DataOf, D
<1>4. DataOf(<< >>) = << >> BY <1>3, KeepSmall
<1>5. \A s \in Seq(Acts) : DataOf(s) \in Seq(Acts)
  <2> TAKE s \in Seq(Acts)
  <2>1. Keep(s, D) \in Seq(D) BY KeepType
  <2>2. D \subseteq Acts BY <1>2
  <2>3. Keep(s, D) \in Seq(Acts) BY <2>1, <2>2, SeqMonotonic
  <2> QED BY <1>3, <2>3
<1>6. \A x \in Acts : Sheet(x) \in Seq(Acts) BY DEF Sheet
<1>7. \A x \in Acts : Sheet(x) = IF x \in D THEN <<x>> ELSE << >>
  BY <1>1 DEF Sheet
<1>8. ASSUME NEW s \in Seq(Acts), s # << >>
      PROVE  DataOf(s) = Sheet(Head(s)) \o DataOf(Tail(s))
  <2>1. Head(s) \in Acts BY <1>8
  <2>2. Keep(s, D) = (IF Head(s) \in D THEN <<Head(s)>> ELSE << >>)
                       \o Keep(Tail(s), D)
    BY <1>8, KeepHead
  <2> QED BY <1>3, <1>7, <2>1, <2>2
<1>9. ASSUME NEW s \in Seq(Acts), NEW x \in Acts
      PROVE  DataOf(Append(s, x)) = DataOf(s) \o Sheet(x)
  <2>1. Keep(Append(s, x), D)
          = Keep(s, D) \o (IF x \in D THEN <<x>> ELSE << >>)
    BY KeepAppend
  <2> QED BY <1>3, <1>7, <2>1
<1> QED BY <1>4, <1>5, <1>6, <1>8, <1>9

\* What is still ahead when a step is done.
LEMMA TailAhead ==
  ASSUME NEW t, Program(t), t # << >>
  PROVE  /\ ScreenAhead(t, 0) /\ t[1][1] # "ripscreen" =>
              ScreenAhead(Tail(t), 0)
         /\ t[1][1] = "rip" => ScreenAhead(Tail(t), 0)
         /\ t[1][1] # "again" => (Loops(Tail(t)) <=> Loops(t))
         /\ t[1][1] \notin Data => DataOf(Tail(t)) = DataOf(t)
<1> DEFINE u == Tail(t)
<1>1. /\ Program(u) /\ Program(t)
      /\ Len(t) \in Nat /\ Len(u) = Len(t) - 1 /\ Head(t) = t[1]
      /\ \A k \in 1 .. Len(u) : k + 1 \in 1 .. Len(t) /\ u[k] = t[k + 1]
  BY TailIs
<1> HIDE DEF u
<1>2. \A k \in 1 .. Len(t) :
        k # 1 => k - 1 \in 1 .. Len(u) /\ (k - 1) + 1 = k /\ u[k - 1] = t[k]
  <2> TAKE k \in 1 .. Len(t)
  <2> SUFFICES ASSUME k # 1
               PROVE  k - 1 \in 1 .. Len(u) /\ (k - 1) + 1 = k
                      /\ u[k - 1] = t[k]
    OBVIOUS
  <2>1. k - 1 \in 1 .. Len(u) /\ (k - 1) + 1 = k BY <1>1
  <2> QED BY <1>1, <2>1
<1>3. ASSUME NEW n \in {0, 1}, ScreenAhead(t, n), t[1][1] # "ripscreen"
      PROVE  ScreenAhead(u, 0)
  <2>1. PICK k \in 1 .. Len(t) :
          /\ k > n /\ t[k][1] = "ripscreen"
          /\ \A m \in n + 1 .. k - 1 : t[m][1] # "rip"
    BY <1>3 DEF ScreenAhead
  <2>2. k # 1 BY <1>3, <2>1
  <2> DEFINE q == k - 1
  <2>3. q \in 1 .. Len(u) /\ q > 0 /\ u[q][1] = "ripscreen"
    BY <1>1, <1>2, <2>1, <2>2
  <2>4. \A m \in 0 + 1 .. q - 1 : m \in 1 .. Len(u) /\ m + 1 \in n + 1 .. k - 1
    BY <1>1, <2>1
  <2> HIDE DEF q
  <2>5. \A m \in 0 + 1 .. q - 1 : u[m][1] # "rip" BY <1>1, <2>1, <2>4
  <2> QED BY <2>3, <2>5 DEF ScreenAhead
<1>4. t[1][1] = "rip" => ScreenAhead(t, 1)
  <2>1. t \in Seq(Acts) /\ Ripped(t) BY DEF Program
  <2>2. 1 \in 1 .. Len(t) BY <2>1
  <2> QED BY <2>1, <2>2 DEF Ripped
<1>5. ASSUME t[1][1] # "again" PROVE Loops(u) <=> Loops(t)
  <2>1. Loops(u) => Loops(t) BY <1>1 DEF Loops
  <2>2. ASSUME Loops(t) PROVE Loops(u)
    <3>1. PICK k \in 1 .. Len(t) : t[k][1] = "again" BY <2>2 DEF Loops
    <3>2. k # 1 BY <1>5, <3>1
    <3> QED BY <1>2, <3>1, <3>2 DEF Loops
  <2> QED BY <2>1, <2>2
<1>6. ASSUME t[1][1] \notin Data PROVE DataOf(u) = DataOf(t)
  <2>1. t \in Seq(Acts) /\ u \in Seq(Acts) BY <1>1 DEF Program
  <2>2. Sheet(Head(t)) = << >> BY <1>1, <1>6 DEF Sheet
  <2>3. DataOf(t) = << >> \o DataOf(u) BY <2>1, <2>2, DataIs DEF u
  <2>4. DataOf(u) \in Seq(Acts) BY <2>1, DataIs
  <2> QED BY <2>3, <2>4
<1> QED BY <1>3, <1>4, <1>5, <1>6 DEF u

\* A step is done that was not a write: nothing is lost.
LEMMA StepConserves ==
  ASSUME NEW v, NEW w, NEW i, NEW r, NEW b, NEW f, NEW p, NEW j,
         Program(v.todo), Conserved(v, i, r, b, f, p, j),
         Less(v, w), NowIn(v, Walkable \ Data), w.todo = Tail(v.todo),
         ~ w.riping => w.rcode \notin Lost,
         Now(v) = "ripscreen" => ~ w.riping
  PROVE  Conserved(w, i, r, b, f, p, j)
<1> DEFINE t == v.todo
           u == w.todo
<1>1. /\ t # << >> /\ t[1][1] = Now(v) /\ Now(v) \notin Data
      /\ Now(v) \in Walkable /\ u = Tail(t)
  BY DEF NowIn, Now
<1>2. Now(v) # "again" /\ Now(v) # "main"
  BY <1>1 DEF Walkable, PlainNames, Blocks, Data
<1>3. /\ ScreenAhead(t, 0) /\ Now(v) # "ripscreen" => ScreenAhead(u, 0)
      /\ (Loops(u) <=> Loops(t))
      /\ DataOf(u) = DataOf(t)
  BY <1>1, <1>2, TailAhead
<1>4. /\ EndsIn(w, "verdict") => EndsIn(v, "verdict")
      /\ ~ NowIn(w, {"main"})
  BY <1>1, TailIs DEF EndsIn, NowIn, Now, Follows
<1> HIDE DEF t, u
<1>5. /\ w.rcode = v.rcode /\ w.err = v.err /\ (w.riping => v.riping)
  BY DEF Less
<1>6. /\ p \in Seq(Acts)
      /\ ("error" \in f => w.err \/ \E k \in 1 .. Len(b) : b[k] = "error")
  BY <1>5 DEF Conserved
<1>7. ASSUME EndsIn(w, "verdict")
      PROVE  /\ w.riping => ScreenAhead(w.todo, 0)
             /\ r.state = "up" => w.rcode \notin Lost
             /\ Loops(RealMain(j)) => Loops(w.todo)
             /\ Whole(w, i, r, f, p, j)
  BY <1>1, <1>3, <1>4, <1>5, <1>7 DEF Conserved, Whole, t, u
<1> QED BY <1>4, <1>6, <1>7 DEF Conserved

\* fault_check().
LEMMA FaultKeeps ==
  ASSUME NEW v, NEW i, NEW r, NEW b, NEW f,
         Sound(v, i, r, b, f), v.verdict = "none"
  PROVE  Sound(FaultCheck(v), i, r, b, f)
<1>1. CASE v.term
  <2>1. "operator" \in f BY <1>1 DEF Sound, Reasons
  <2>2. Just("signal", v, f) BY <2>1 DEF Just
  <2>3. "signal" \in ExitCodes BY DEF ExitCodes, InterfaceCodes
  <2>4. Sound(HookedExit(v, "signal"), i, r, b, f) BY <2>2, <2>3, ExitKeeps
  <2> QED BY <1>1, <2>4 DEF FaultCheck
<1>2. CASE ~ v.term /\ v.died /\ ~ v.nofault
  <2>1. Sound(InterfaceFault(v), i, r, b, f) BY <1>2, InterfaceFaultKeeps
  <2> QED BY <1>2, <2>1 DEF FaultCheck
<1>3. CASE ~ v.term /\ ~ (v.died /\ ~ v.nofault) /\ v.rdied /\ ~ v.rnofault
  <2>1. Sound(RipFault(v), i, r, b, f) BY <1>3, RipFaultKeeps
  <2>2. FaultCheck(v) = RipFault(v) BY <1>3 DEF FaultCheck
  <2> QED BY <2>1, <2>2
<1>4. CASE ~ v.term /\ ~ (v.died /\ ~ v.nofault) /\ ~ (v.rdied /\ ~ v.rnofault)
  <2>1. FaultCheck(v) = v BY <1>4 DEF FaultCheck
  <2> QED BY <2>1
<1> QED BY <1>1, <1>2, <1>3, <1>4

\* After a fault pprdrv will not say that the job is printed.
LEMMA TurnConserves ==
  ASSUME NEW v, NEW w, NEW i, NEW r, NEW b, NEW f, NEW p, NEW j,
         Conserved(v, i, r, b, f, p, j), Knows(v, w),
         ~ EndsIn(w, "verdict"), ~ NowIn(w, {"main"})
  PROVE  Conserved(w, i, r, b, f, p, j)
BY DEF Conserved, Knows

\* hooked_exit() does not say that the job is printed.
LEMMA ExitConserves ==
  ASSUME NEW v \in Drivers, NEW i, NEW r, NEW b, NEW f, NEW p, NEW j,
         NEW code \in ExitCodes, Conserved(v, i, r, b, f, p, j)
  PROVE  Conserved(HookedExit(v, code), i, r, b, f, p, j)
<1> DEFINE w == HookedExit(v, code)
<1>1. Knows(v, w) /\ w.todo = << >> BY ExitIs
<1> HIDE DEF w
<1>2. ~ EndsIn(w, "verdict") /\ ~ NowIn(w, {"main"})
  BY <1>1 DEF EndsIn, NowIn
<1> QED BY <1>1, <1>2, TurnConserves DEF w

\* Nor does fault_check().
LEMMA FaultConserves ==
  ASSUME NEW v \in Drivers, NEW i, NEW r, NEW b, NEW f, NEW p, NEW j,
         Conserved(v, i, r, b, f, p, j)
  PROVE  Conserved(FaultCheck(v), i, r, b, f, p, j)
<1>1. Conserved(HookedExit(v, "signal"), i, r, b, f, p, j)
  <2>1. "signal" \in ExitCodes BY DEF ExitCodes, InterfaceCodes
  <2> QED BY <2>1, ExitConserves
<1>2. Conserved(InterfaceFault(v), i, r, b, f, p, j)
  <2> DEFINE w == InterfaceFault(v)
             t == <<Op("drain"), Op("ifault")>>
  <2>1. Knows(v, w) /\ w.todo = t BY InterfaceFaultIs
  <2>2. Len(t) = 2 /\ t[1][1] = "drain" /\ t[2][1] = "ifault" BY DEF Op
  <2> HIDE DEF w, t
  <2>3. ~ EndsIn(w, "verdict") /\ ~ NowIn(w, {"main"})
    BY <2>1, <2>2 DEF EndsIn, NowIn, Final, Now
  <2> QED BY <2>1, <2>3, TurnConserves DEF w
<1>3. Conserved(RipFault(v), i, r, b, f, p, j)
  <2> DEFINE w == RipFault(v)
             t == RipFaultSteps
  <2>1. Knows(v, w) /\ w.todo = t BY RipFaultIs
  <2>2. Len(t) = 5 /\ t[1][1] = "ripscreen" /\ t[5][1] = "ripverdict"
    BY DEF Op, RipFaultSteps
  <2> HIDE DEF w, t
  <2>3. ~ EndsIn(w, "verdict") /\ ~ NowIn(w, {"main"})
    BY <2>1, <2>2 DEF EndsIn, NowIn, Final, Now
  <2> QED BY <2>1, <2>3, TurnConserves DEF w
<1> QED BY <1>1, <1>2, <1>3 DEF FaultCheck

\* The exit code of a fault, if it has one at once.
LEMMA FaultVerdict ==
  ASSUME NEW v \in Drivers
  PROVE  FaultCheck(v).verdict \in {v.verdict, "signal"}
<1>1. HookedExit(v, "signal").verdict = "signal"
  <2>1. "signal" \in ExitCodes BY DEF ExitCodes, InterfaceCodes
  <2> QED BY <2>1, ExitIs
<1>2. InterfaceFault(v).verdict = v.verdict BY InterfaceFaultIs
<1>3. RipFault(v).verdict = v.verdict BY RipFaultIs
<1> QED BY <1>1, <1>2, <1>3 DEF FaultCheck

\* Something is put into the pipes or taken out, or a pipe is closed.
LEMMA PipesKeep ==
  ASSUME NEW v, NEW i, NEW r, NEW k \in Interfaces, NEW q \in RipStates,
         NEW b, NEW f, Sound(v, i, r, b, f),
         k.state = i.state, k.code = i.code,
         i.state # "up" => k.in = << >>,
         i.eof => k.eof,
         k.eof => \/ i.eof
                  \/ v.nofault /\ (v.todo = << >> \/ NowIn(v, {"drain"})),
         q.state = r.state, r.state # "up" => q.in = << >>,
         r.eof => q.eof,
         q.eof =>
           r.eof \/ (v.rnofault /\ (v.todo = << >> \/ NowIn(v, {"ripwait0"})))
  PROVE  Sound(v, k, q, b, f)
<1>1. Typed(v, k, q, b, f) /\ Program(v.todo) BY DEF Sound, Typed
<1>2. Children(v, k, q) BY DEF Sound, Children
<1>3. Places(v, k, q, b) BY DEF Sound, Places, NowIn
<1>4. Modes(v, k, q, f) BY DEF Sound, Modes
<1>5. Reasons(v, k, q, b, f) BY DEF Sound, Reasons
<1>6. v.verdict # "none" => Alone(v, k, q) BY DEF Sound, Alone
<1> QED BY <1>1, <1>2, <1>3, <1>4, <1>5, <1>6 DEF Sound

\* Something else goes wrong.
LEMMA FactsKeep ==
  ASSUME NEW v, NEW i, NEW r, NEW b, NEW f, Sound(v, i, r, b, f),
         NEW g \in SUBSET FactNames, f \subseteq g
  PROVE  Sound(v, i, r, b, g)
<1>1. Typed(v, i, r, b, g) /\ Program(v.todo) BY DEF Sound, Typed
<1>2. Modes(v, i, r, g) BY DEF Sound, Modes
<1>3. Reasons(v, i, r, b, g) BY DEF Sound, Reasons
<1>4. Just(v.verdict, v, g) BY DEF Sound, Just
<1> QED BY <1>1, <1>2, <1>3, <1>4 DEF Sound

\* Something goes wrong that loses nothing.
LEMMA FactsConserve ==
  ASSUME NEW v, NEW i, NEW r, NEW b, NEW f, NEW p, NEW j,
         Conserved(v, i, r, b, f, p, j),
         NEW g \in SUBSET FactNames, f \subseteq g,
         "error" \in g => "error" \in f
  PROVE  Conserved(v, i, r, b, g, p, j)
BY DEF Conserved, Whole

\* A message is sent to pprdrv.
LEMMA MessageKeeps ==
  ASSUME NEW v, NEW i, NEW r, NEW b, NEW f, Sound(v, i, r, b, f),
         NEW m \in Messages, m \in {"error", "ghost"} => m \in f,
         i.state = "up" \/ r.state = "up"
  PROVE  Sound(v, i, r, Append(b, m), f)
<1> DEFINE c == Append(b, m)
<1>1. b \in Seq(Messages) BY DEF Sound, Typed
<1>2. /\ c \in Seq(Messages) /\ Len(c) = Len(b) + 1 /\ c[Len(b) + 1] = m
      /\ Len(b) \in Nat /\ \A k \in 1 .. Len(b) : c[k] = b[k]
  BY <1>1
<1> HIDE DEF c
<1>3. Typed(v, i, r, c, f) BY <1>2 DEF Sound, Typed
<1>4. Places(v, i, r, c) BY DEF Sound, Places, NowIn
<1>5. \A k \in 1 .. Len(c) : c[k] \in {"error", "ghost"} => c[k] \in f
  <2>1. \A k \in 1 .. Len(c) : k \in 1 .. Len(b) \/ k = Len(b) + 1 BY <1>2
  <2>2. \A k \in 1 .. Len(b) : b[k] \in {"error", "ghost"} => b[k] \in f
    BY DEF Sound, Reasons
  <2> QED BY <1>2, <2>1, <2>2
<1>6. Reasons(v, i, r, c, f) BY <1>5 DEF Sound, Reasons
<1> QED BY <1>3, <1>4, <1>6 DEF Sound, c

\* A message that is not about an error loses nothing.
LEMMA MessageConserves ==
  ASSUME NEW v, NEW i, NEW r, NEW b \in Seq(Messages), NEW f, NEW p, NEW j,
         Conserved(v, i, r, b, f, p, j), NEW m \in Messages
  PROVE  Conserved(v, i, r, Append(b, m), f, p, j)
<1> DEFINE c == Append(b, m)
<1>1. /\ Len(c) = Len(b) + 1 /\ Len(b) \in Nat
      /\ \A k \in 1 .. Len(b) : c[k] = b[k] /\ k \in 1 .. Len(c)
  OBVIOUS
<1> HIDE DEF c
<1>2. (\E k \in 1 .. Len(b) : b[k] = "error")
        => \E k \in 1 .. Len(c) : c[k] = "error"
  BY <1>1
<1> QED BY <1>2 DEF Conserved, c

\* feedback_reader(): what it hears leaves the rest as it is.
Hears(v, w) ==
  /\ w.todo = v.todo /\ w.verdict = v.verdict /\ w.killed = v.killed
  /\ w.intpid = v.intpid /\ w.died = v.died /\ w.nofault = v.nofault
  /\ w.rippid = v.rippid /\ w.rdied = v.rdied /\ w.rnofault = v.rnofault
  /\ w.icode = v.icode /\ w.rcode = v.rcode /\ w.riping = v.riping
  /\ w.term = v.term

\* feedback_reader(), one message.
LEMMA ReadIs ==
  ASSUME NEW v \in Drivers, NEW m \in Messages
  PROVE  /\ ReadMessage(v, m) \in Drivers /\ Hears(v, ReadMessage(v, m))
         /\ ReadMessage(v, m).err = (v.err \/ m = "error")
         /\ ReadMessage(v, m).ghost = (v.ghost \/ m = "ghost")
<1> DEFINE w == ReadMessage(v, m)
<1>0. v.err \in BOOLEAN /\ v.ghost \in BOOLEAN BY DEF Drivers
<1>1. CASE m = "error"
  <2> DEFINE x == [v EXCEPT !.err = TRUE]
  <2>1. w = x BY <1>1 DEF ReadMessage
  <2>2. x \in Drivers /\ Hears(v, x) /\ x.err = TRUE /\ x.ghost = v.ghost
    BY DEF Drivers, Hears
  <2> HIDE DEF x, w
  <2> QED BY <1>0, <1>1, <2>1, <2>2 DEF w
<1>2. CASE m = "ghost"
  <2> DEFINE x == [v EXCEPT !.ghost = TRUE]
  <2>1. w = x BY <1>2 DEF ReadMessage
  <2>2. x \in Drivers /\ Hears(v, x) /\ x.ghost = TRUE /\ x.err = v.err
    BY DEF Drivers, Hears
  <2> HIDE DEF x, w
  <2> QED BY <1>0, <1>2, <2>1, <2>2 DEF w
<1>3. CASE m = "ctrld"
  <2> DEFINE x == [v EXCEPT !.dcount = @ - 1]
  <2>1. w = x BY <1>3 DEF ReadMessage
  <2>2. v.dcount - 1 \in Int BY DEF Drivers
  <2>3. x \in Drivers BY <2>2 DEF Drivers
  <2>4. Hears(v, x) /\ x.ghost = v.ghost /\ x.err = v.err
    BY DEF Drivers, Hears
  <2> HIDE DEF x, w
  <2> QED BY <1>0, <1>3, <2>1, <2>3, <2>4 DEF w
<1>4. CASE m = "start"
  <2> DEFINE x == [v EXCEPT !.seen = TRUE, !.active = TRUE]
  <2>1. w = x BY <1>4 DEF ReadMessage
  <2>2. x \in Drivers /\ Hears(v, x) /\ x.ghost = v.ghost /\ x.err = v.err
    BY DEF Drivers, Hears
  <2> HIDE DEF x, w
  <2> QED BY <1>0, <1>4, <2>1, <2>2 DEF w
<1>5. CASE m = "end"
  <2> DEFINE x == [v EXCEPT !.active = FALSE]
  <2>1. w = x BY <1>5 DEF ReadMessage
  <2>2. x \in Drivers /\ Hears(v, x) /\ x.ghost = v.ghost /\ x.err = v.err
    BY DEF Drivers, Hears
  <2> HIDE DEF x, w
  <2> QED BY <1>0, <1>5, <2>1, <2>2 DEF w
<1> QED BY <1>1, <1>2, <1>3, <1>4, <1>5 DEF Messages

\* Its recursion, and what it makes of the first n messages.
ReadUp(v, s, f) ==
  f = [n \in 0 .. Len(s) |->
         IF n = 0 THEN v ELSE ReadMessage(f[n - 1], s[n])]

Heard(v, w, s, n) ==
  /\ w \in Drivers /\ Hears(v, w)
  /\ w.err = (v.err \/ \E k \in 1 .. n : s[k] = "error")
  /\ w.ghost = (v.ghost \/ \E k \in 1 .. n : s[k] = "ghost")

\* feedback_reader(), one message more.
LEMMA HeardNext ==
  ASSUME NEW v \in Drivers, NEW w, NEW s \in Seq(Messages), NEW n \in Nat,
         n + 1 <= Len(s), Heard(v, w, s, n)
  PROVE  Heard(v, ReadMessage(w, s[n + 1]), s, n + 1)
<1> DEFINE m == s[n + 1]
           x == ReadMessage(w, m)
<1>1. m \in Messages BY ElementOfSeq
<1>2. w \in Drivers BY DEF Heard
<1> HIDE DEF m
<1>3. /\ x \in Drivers /\ Hears(w, x)
      /\ x.err = (w.err \/ m = "error") /\ x.ghost = (w.ghost \/ m = "ghost")
  BY <1>1, <1>2, ReadIs
<1> HIDE DEF x
<1>4. \A name : (\E k \in 1 .. n + 1 : s[k] = name)
                  <=> (\E k \in 1 .. n : s[k] = name) \/ m = name
  <2>1. \A k \in 1 .. n + 1 : k \in 1 .. n \/ k = n + 1 OBVIOUS
  <2>2. n + 1 \in 1 .. n + 1 /\ \A k \in 1 .. n : k \in 1 .. n + 1 OBVIOUS
  <2> QED BY <2>1, <2>2 DEF m
<1>5. Hears(v, x) BY <1>3 DEF Heard, Hears
<1>6. /\ x.err = (v.err \/ \E k \in 1 .. n + 1 : s[k] = "error")
      /\ x.ghost = (v.ghost \/ \E k \in 1 .. n + 1 : s[k] = "ghost")
  <2>1. /\ w.err = (v.err \/ \E k \in 1 .. n : s[k] = "error")
        /\ w.ghost = (v.ghost \/ \E k \in 1 .. n : s[k] = "ghost")
    BY DEF Heard
  <2>2. v.err \in BOOLEAN /\ v.ghost \in BOOLEAN BY DEF Drivers
  <2> QED BY <1>3, <1>4, <2>1, <2>2
<1> QED BY <1>3, <1>5, <1>6 DEF Heard, x, m

\* feedback_reader(): a PostScript error is noted if it is in the pipe.
LEMMA FeedbackIs ==
  ASSUME NEW v \in Drivers, NEW s \in Seq(Messages)
  PROVE  Heard(v, FeedbackReader(v, s), s, Len(s))
<1> DEFINE g == [i \in 1 .. Len(s) |-> [x \in Drivers |-> ReadMessage(x, s[i])]]
<1>1. \A i \in 1 .. Len(s) : s[i] \in Messages OBVIOUS
<1>2. g \in [1 .. Len(s) -> [Drivers -> Drivers]] BY <1>1, ReadIs
<1>3. Len(s) \in Nat OBVIOUS
<1> HIDE DEF g
<1>4. PICK f \in [0 .. Len(s) -> Drivers] :
        f[0] = v /\ \A i \in 1 .. Len(s) : f[i] = g[i][f[i - 1]]
  <2> DEFINE n == Len(s)
             D == Drivers
  <2>1. g \in [1 .. n -> [D -> D]] /\ n \in Nat /\ v \in D BY <1>2, <1>3
  <2> HIDE DEF n, D
  <2>2. \E f : Stepwise(D, v, n, g, f) BY ONLY <2>1, StepsUp
  <2> QED BY <2>2 DEF n, D, Stepwise
<1>5. \A i \in 1 .. Len(s) : f[i] = ReadMessage(f[i - 1], s[i])
  <2> TAKE i \in 1 .. Len(s)
  <2>1. i - 1 \in 0 .. Len(s) BY <1>3
  <2>2. f[i - 1] \in Drivers BY <2>1
  <2>3. f[i] = g[i][f[i - 1]] BY <1>4
  <2> QED BY <2>2, <2>3 DEF g
<1>6. \A n \in 0 .. Len(s) : n # 0 => n \in 1 .. Len(s) BY <1>3
<1>7. ReadUp(v, s, f)
  <2>1. \A n \in 0 .. Len(s) :
          f[n] = IF n = 0 THEN v ELSE ReadMessage(f[n - 1], s[n])
    BY <1>4, <1>5, <1>6
  <2> QED BY <2>1 DEF ReadUp
<1> DEFINE h == CHOOSE e : ReadUp(v, s, e)
<1>8. FeedbackReader(v, s) = h[Len(s)] BY DEF FeedbackReader, ReadUp
<1>9. ReadUp(v, s, h) BY <1>7
<1> HIDE DEF h
<1>10. \A n \in 0 .. Len(s) :
         h[n] = IF n = 0 THEN v ELSE ReadMessage(h[n - 1], s[n])
  BY <1>9 DEF ReadUp
<1> DEFINE T == {n \in Nat : n <= Len(s) => Heard(v, h[n], s, n)}
<1>11. 0 \in T
  <2>1. 0 \in 0 .. Len(s) BY <1>3
  <2>2. h[0] = v BY <1>10, <2>1
  <2>3. v.err \in BOOLEAN /\ v.ghost \in BOOLEAN BY DEF Drivers
  <2>4. \A k \in 1 .. 0 : FALSE OBVIOUS
  <2>5. Heard(v, v, s, 0) BY <2>3, <2>4 DEF Heard, Hears
  <2> QED BY <2>2, <2>5
<1>12. \A n \in Nat : n \in T => n + 1 \in T
  <2> TAKE n \in Nat
  <2> SUFFICES ASSUME n \in T, n + 1 <= Len(s)
               PROVE  Heard(v, h[n + 1], s, n + 1)
    OBVIOUS
  <2>1. Heard(v, h[n], s, n) BY <1>3
  <2>2. n + 1 \in 0 .. Len(s) /\ n + 1 # 0 /\ (n + 1) - 1 = n BY <1>3
  <2>3. h[n + 1] = ReadMessage(h[n], s[n + 1]) BY <1>10, <2>2
  <2> HIDE DEF T
  <2> QED BY <2>1, <2>3, HeardNext
<1> HIDE DEF T
<1>13. Nat \subseteq T BY <1>11, <1>12, Induction
<1> QED BY <1>3, <1>8, <1>13 DEF T

\* All that is in the pipe is read.
LEMMA FeedbackKeeps ==
  ASSUME NEW v, NEW i, NEW r, NEW b, NEW f,
         Sound(v, i, r, b, f), v.verdict = "none"
  PROVE  Sound(FeedbackReader(v, b), i, r, << >>, f)
<1> DEFINE w == FeedbackReader(v, b)
           e == << >>
<1>1. v \in Drivers /\ b \in Seq(Messages) /\ Typed(v, i, r, b, f)
  BY DEF Sound, Typed
<1>2. Heard(v, w, b, Len(b)) BY <1>1, FeedbackIs
<1> HIDE DEF w
<1>3. w \in Drivers /\ Hears(v, w) BY <1>2 DEF Heard
<1>4. (w.err => "error" \in f) /\ (w.ghost => "ghost" \in f)
  <2>1. /\ v.err => "error" \in f
        /\ v.ghost => "ghost" \in f
        /\ \A k \in 1 .. Len(b) : b[k] \in {"error", "ghost"} => b[k] \in f
    BY DEF Sound, Reasons
  <2> QED BY <1>2, <2>1 DEF Heard
<1>5. e \in Seq(Messages) /\ Len(e) = 0 OBVIOUS
<1> HIDE DEF e
<1>6. Typed(w, i, r, e, f) /\ Program(w.todo)
  BY <1>1, <1>3, <1>5 DEF Typed, Sound, Hears
<1>7. Children(w, i, r) BY <1>3 DEF Sound, Children, Hears
<1>8. Places(w, i, r, e)
  <2>1. Places(v, i, r, b) BY DEF Sound
  <2> QED BY <1>3, <2>1 DEF Places, Hears, NowIn, Now, e
<1>9. Modes(w, i, r, f) BY <1>3 DEF Sound, Modes, Hears, EndsIn, Now
<1>10. Reasons(w, i, r, e, f)
  BY <1>3, <1>4, <1>5 DEF Sound, Reasons, Hears, NowIn, Now
<1>11. Just(w.verdict, w, f) /\ w.verdict = "none" BY <1>3 DEF Just, Hears
<1> QED BY <1>6, <1>7, <1>8, <1>9, <1>10, <1>11 DEF Sound, w, e

\* feedback_reader() forgets no PostScript error.
LEMMA FeedbackConserves ==
  ASSUME NEW v, NEW i, NEW r, NEW b, NEW f, NEW p, NEW j,
         Sound(v, i, r, b, f), v.verdict = "none",
         Conserved(v, i, r, b, f, p, j)
  PROVE  Conserved(FeedbackReader(v, b), i, r, << >>, f, p, j)
<1> DEFINE w == FeedbackReader(v, b)
           e == << >>
<1>1. v \in Drivers /\ b \in Seq(Messages) BY DEF Sound, Typed
<1>2. Heard(v, w, b, Len(b)) BY <1>1, FeedbackIs
<1> HIDE DEF w
<1>3. Hears(v, w) BY <1>2 DEF Heard
<1>4. "error" \in f => w.err BY <1>2 DEF Heard, Conserved
<1> HIDE DEF e
<1>5. /\ p \in Seq(Acts) /\ (~ w.riping => w.rcode \notin Lost)
      /\ (NowIn(w, {"main"}) => p = << >> /\ ~ w.riping)
  BY <1>3 DEF Conserved, Hears, NowIn, Now
<1>6. EndsIn(w, "verdict") =>
        /\ w.riping => ScreenAhead(w.todo, 0)
        /\ r.state = "up" => w.rcode \notin Lost
        /\ Loops(RealMain(j)) => Loops(w.todo)
        /\ Whole(w, i, r, f, p, j)
  BY <1>3 DEF Conserved, Hears, EndsIn, Whole
<1> QED BY <1>4, <1>5, <1>6 DEF Conserved, w, e

---------------------------------------------------------------------------
(* The steps *)

Inv ==
  /\ job \in Orders
  /\ Sound(drv, intf, rip, fb, facts)
  /\ Conserved(drv, intf, rip, fb, facts, paper, job)

\* pprdrv is at a step only if it has not ended.
LEMMA AtIs ==
  ASSUME Inv, NEW name, At(name)
  PROVE  /\ drv.verdict = "none" /\ drv.todo # << >>
         /\ Now(drv) = name /\ NowIn(drv, {name})
<1>1. drv.todo # << >> /\ Program(drv.todo) BY DEF Inv, Sound, At
<1>2. Head(drv.todo) = drv.todo[1] BY <1>1, TailIs
<1>3. drv.verdict = "none" BY <1>1 DEF Inv, Sound, Places
<1> QED BY <1>1, <1>2, <1>3 DEF At, NowIn, Now

\* A pprdrv that has ended does nothing.
LEMMA NotEnded ==
  ASSUME Inv, drv.todo # << >> \/ drv.phase # "run"
  PROVE  drv.verdict = "none"
BY DEF Inv, Sound, Places

\* The same of the places where it writes and where it waits.
LEMMA AmongIs ==
  ASSUME Inv, NEW names, drv.todo # << >>, Head(drv.todo)[1] \in names
  PROVE  drv.verdict = "none" /\ NowIn(drv, names) /\ At(Now(drv))
<1>1. drv.todo # << >> /\ Program(drv.todo) BY DEF Inv, Sound
<1>2. Head(drv.todo) = drv.todo[1] BY <1>1, TailIs
<1>3. drv.verdict = "none" BY <1>1 DEF Inv, Sound, Places
<1> QED BY <1>1, <1>2, <1>3 DEF NowIn, Now, At

\* A step of pprdrv alone.
LEMMA Walked ==
  ASSUME Inv, NoTrouble, UNCHANGED <<job, children>>,
         Sound(drv', intf, rip, fb, facts),
         Conserved(drv', intf, rip, fb, facts, paper, job)
  PROVE  Inv'
BY DEF Inv, NoTrouble, children

\* select() is about to be called, or has been left.
LEMMA PhaseLess ==
  ASSUME NEW v \in Drivers, v.verdict = "none",
         NEW phase \in {"run", "due", "asleep", "intr"}
  PROVE  /\ Less(v, [v EXCEPT !.phase = phase])
         /\ [v EXCEPT !.phase = phase].todo = v.todo
         /\ [v EXCEPT !.phase = phase].riping = v.riping
<1> DEFINE w == [v EXCEPT !.phase = phase]
<1>1. w \in Drivers BY DEF Drivers
<1>2. Less(v, w) BY <1>1 DEF Less, Drivers
<1>3. w.todo = v.todo /\ w.riping = v.riping BY DEF Drivers
<1> QED BY <1>2, <1>3

\* The next step of the program.
LEMMA AdvanceLess ==
  ASSUME NEW v \in Drivers, v.verdict = "none", v.todo # << >>
  PROVE  /\ Less(v, Advance(v)) /\ Advance(v).todo = Tail(v.todo)
         /\ Advance(v).riping = v.riping
<1> DEFINE t == Tail(v.todo)
           w == [v EXCEPT !.todo = t, !.phase = "run"]
<1>1. t \in Seq(Acts)
  <2>1. v.todo \in Seq(Acts) BY DEF Drivers
  <2> QED BY <2>1
<1>2. Advance(v) = w BY DEF Advance
<1> HIDE DEF t
<1>3. w \in Drivers BY <1>1 DEF Drivers
<1>4. Less(v, w) BY <1>3 DEF Less, Drivers
<1>5. w.todo = t /\ w.riping = v.riping BY DEF Drivers
<1> HIDE DEF w
<1> QED BY <1>2, <1>4, <1>5 DEF t

\* pprdrv is about to sleep, or wakes up.
LEMMA Phased ==
  ASSUME Inv, drv.verdict = "none",
         NEW phase \in {"run", "due", "asleep", "intr"}
  PROVE  /\ Sound([drv EXCEPT !.phase = phase], intf, rip, fb, facts)
         /\ Conserved([drv EXCEPT !.phase = phase], intf, rip, fb, facts,
                      paper, job)
<1> DEFINE w == [drv EXCEPT !.phase = phase]
<1>1. drv \in Drivers BY DEF Inv, Sound, Typed
<1>2. Less(drv, w) /\ w.todo = drv.todo /\ w.riping = drv.riping
  BY <1>1, PhaseLess
<1> HIDE DEF w
<1>3. Sound(w, intf, rip, fb, facts) BY <1>2, SameKeeps DEF Inv
<1>4. ~ w.riping => w.rcode \notin Lost BY <1>2 DEF Inv, Conserved, Less
<1>5. Conserved(w, intf, rip, fb, facts, paper, job)
  BY <1>2, <1>4, SameConserves DEF Inv
<1> QED BY <1>3, <1>5 DEF w

\* A fault, or none.
LEMMA Faulted ==
  ASSUME Inv, drv.verdict = "none"
  PROVE  /\ Sound(FaultCheck(drv), intf, rip, fb, facts)
         /\ Conserved(FaultCheck(drv), intf, rip, fb, facts, paper, job)
<1>1. drv \in Drivers BY DEF Inv, Sound, Typed
<1> QED BY <1>1, FaultKeeps, FaultConserves DEF Inv

\* pprdrv exits, and there is a reason.
LEMMA Exited ==
  ASSUME Inv, drv.verdict = "none", NEW code \in ExitCodes,
         code \notin {"none", "printed"}, Just(code, drv, facts)
  PROVE  /\ Sound(HookedExit(drv, code), intf, rip, fb, facts)
         /\ Conserved(HookedExit(drv, code), intf, rip, fb, facts, paper, job)
<1>1. drv \in Drivers BY DEF Inv, Sound, Typed
<1> QED BY <1>1, ExitKeeps, ExitConserves DEF Inv

\* A step that is not a write is done.
LEMMA Advanced ==
  ASSUME Inv, NEW w, Less(drv, w), w.todo = Tail(drv.todo),
         NowIn(drv, Walkable \ Data),
         w.riping = drv.riping, Now(drv) # "ripscreen",
         Now(drv) = "ripwait" => rip.state = "dead",
         Now(drv) = "drain" =>
           intf.state # "up" /\ rip.state # "up" /\ fb = << >>,
         Now(drv) = "reap" => intf.state = "dead"
  PROVE  /\ Sound(w, intf, rip, fb, facts)
         /\ Conserved(w, intf, rip, fb, facts, paper, job)
<1>1. NowIn(drv, Walkable) BY DEF NowIn
<1>2. Sound(w, intf, rip, fb, facts) BY <1>1, StepKeeps DEF Inv
<1>3. ~ w.riping => w.rcode \notin Lost BY DEF Inv, Conserved, Less
<1>4. Program(drv.todo) BY DEF Inv, Sound
<1>5. Conserved(w, intf, rip, fb, facts, paper, job)
  BY <1>3, <1>4, StepConserves DEF Inv
<1> QED BY <1>2, <1>5

\* select().
LEMMA SleepKeeps == ASSUME Inv, Sleep PROVE Inv'
<1>1. drv.verdict = "none"
  <2>1. drv.phase = "due" BY DEF Sleep
  <2> QED BY <2>1 DEF Inv, Sound, Places
<1>2. drv' = [drv EXCEPT !.phase = "asleep"] /\ NoTrouble
      /\ UNCHANGED <<job, children>>
  BY DEF Sleep
<1> QED BY <1>1, <1>2, Phased, Walked

\* The end of start_interface().
LEMMA HandshakeKeeps == ASSUME Inv, Handshake PROVE Inv'
<1>1. /\ drv.verdict = "none" /\ drv.todo # << >>
      /\ Now(drv) = "handshake" /\ NowIn(drv, {"handshake"})
  BY AtIs DEF Handshake
<1>2. /\ drv' = FaultCheck(drv) \/ drv' = Advance(drv)
      /\ NoTrouble /\ UNCHANGED <<job, children>>
  BY DEF Handshake
<1>3. drv \in Drivers BY DEF Inv, Sound, Typed
<1>4. NowIn(drv, Walkable \ Data)
  BY <1>1 DEF NowIn, Walkable, PlainNames, Data
<1>5. /\ Sound(Advance(drv), intf, rip, fb, facts)
      /\ Conserved(Advance(drv), intf, rip, fb, facts, paper, job)
  BY <1>1, <1>3, <1>4, AdvanceLess, Advanced
<1>6. /\ Sound(FaultCheck(drv), intf, rip, fb, facts)
      /\ Conserved(FaultCheck(drv), intf, rip, fb, facts, paper, job)
  BY <1>1, Faulted
<1> QED BY <1>2, <1>5, <1>6, Walked

\* printer_flush(): its fault_check().
LEMMA FlushCheckKeeps == ASSUME Inv, FlushCheck PROVE Inv'
<1>1. drv.verdict = "none" BY AmongIs DEF FlushCheck, AtBlock
<1>2. /\ drv' = FaultCheck(drv) \/ drv' = [drv EXCEPT !.phase = "due"]
      /\ NoTrouble /\ UNCHANGED <<job, children>>
  BY DEF FlushCheck
<1>3. /\ Sound(FaultCheck(drv), intf, rip, fb, facts)
      /\ Conserved(FaultCheck(drv), intf, rip, fb, facts, paper, job)
  BY <1>1, Faulted
<1> QED BY <1>1, <1>2, <1>3, Phased, Walked

\* printer_flush(): select() has been left for nothing.
LEMMA FlushAgainKeeps == ASSUME Inv, FlushAgain PROVE Inv'
<1>1. drv.verdict = "none" BY AmongIs DEF FlushAgain, AtBlock
<1>2. /\ drv' = [drv EXCEPT !.phase = "run"]
      /\ NoTrouble /\ UNCHANGED <<job, children>>
  BY DEF FlushAgain
<1> QED BY <1>1, <1>2, Phased, Walked

\* What a wait may be for.
LEMMA WaitIs ==
  ASSUME Inv, AtWait
  PROVE  /\ drv.verdict = "none" /\ NowIn(drv, Waits) /\ At(Now(drv))
         /\ drv.todo # << >> /\ NowIn(drv, Walkable \ Data)
         /\ \A name : At(name) <=> Now(drv) = name
<1>1. drv.verdict = "none" /\ NowIn(drv, Waits) /\ At(Now(drv))
  BY AmongIs DEF AtWait
<1>2. NowIn(drv, Walkable \ Data)
  BY <1>1 DEF NowIn, Waits, Walkable, PlainNames, Data
<1> QED BY <1>1, <1>2 DEF NowIn, At

\* The condition of a loop that calls feedback_wait().
LEMMA WaitTestKeeps == ASSUME Inv, WaitTest PROVE Inv'
<1>1. /\ drv.verdict = "none" /\ drv.todo # << >> /\ NowIn(drv, Walkable \ Data)
      /\ Now(drv) \in Waits
      /\ \A name : At(name) <=> Now(drv) = name
  BY WaitIs DEF WaitTest, NowIn
<1>2. drv \in Drivers BY DEF Inv, Sound, Typed
<1>3. NoTrouble /\ UNCHANGED <<job, children>> BY DEF WaitTest
<1>4. CASE ~ Met(drv)
  <2>1. drv' = [drv EXCEPT !.phase = "due"] BY <1>4 DEF WaitTest
  <2> QED BY <1>1, <1>3, <2>1, Phased, Walked
<1>5. CASE Met(drv)
  <2>1. Head(drv.todo)[1] = Now(drv)
    <3>1. Program(drv.todo) BY DEF Inv, Sound
    <3> QED BY <1>1, <3>1, TailIs DEF Now
  <2>2. Now(drv) # "drain" /\ Now(drv) # "reap" /\ Now(drv) # "ripscreen"
    BY <1>1, <1>5, <2>1 DEF Met, Waits
  <2>3. Now(drv) = "ripwait" => rip.state = "dead"
    <3>1. Now(drv) = "ripwait" => drv.rdied BY <1>5, <2>1 DEF Met
    <3> QED BY <3>1 DEF Inv, Sound, Children
  <2>4. /\ Less(drv, Advance(drv)) /\ Advance(drv).todo = Tail(drv.todo)
        /\ Advance(drv).riping = drv.riping
    BY <1>1, <1>2, AdvanceLess
  <2>5. CASE At("pjlend")
    <3> DEFINE a == Advance(drv)
               w == [a EXCEPT !.seen = FALSE]
    <3>1. drv' = w BY <1>5, <2>5 DEF WaitTest
    <3>2. Less(drv, a) /\ a \in Drivers BY <2>4 DEF Less
    <3>3. a.todo = Tail(drv.todo) /\ a.riping = drv.riping BY <2>4
    <3> HIDE DEF a
    <3>4. w \in Drivers BY <3>2 DEF Drivers
    <3>5. Less(drv, w) BY <3>2, <3>4 DEF Less, Drivers
    <3>6. w.todo = a.todo /\ w.riping = a.riping BY <3>2 DEF Drivers
    <3> HIDE DEF w
    <3>7. /\ Sound(w, intf, rip, fb, facts)
          /\ Conserved(w, intf, rip, fb, facts, paper, job)
      BY <1>1, <2>2, <2>3, <3>3, <3>5, <3>6, Advanced
    <3> QED BY <1>3, <3>1, <3>7, Walked
  <2>6. CASE ~ At("pjlend")
    <3>1. drv' = Advance(drv) BY <1>5, <2>6 DEF WaitTest
    <3>2. /\ Sound(Advance(drv), intf, rip, fb, facts)
          /\ Conserved(Advance(drv), intf, rip, fb, facts, paper, job)
      BY <1>1, <2>2, <2>3, <2>4, Advanced
    <3> QED BY <1>3, <3>1, <3>2, Walked
  <2> QED BY <2>5, <2>6
<1> QED BY <1>4, <1>5

\* feedback_wait(): a signal has come.
LEMMA WaitInterruptedKeeps == ASSUME Inv, WaitInterrupted PROVE Inv'
<1>1. /\ drv.verdict = "none" /\ drv.todo # << >> /\ NowIn(drv, Walkable \ Data)
      /\ \A name : At(name) <=> Now(drv) = name
  BY WaitIs DEF WaitInterrupted
<1>2. drv \in Drivers BY DEF Inv, Sound, Typed
<1>3. NoTrouble /\ UNCHANGED <<job, children>> BY DEF WaitInterrupted
<1>4. /\ Sound(FaultCheck(drv), intf, rip, fb, facts)
      /\ Conserved(FaultCheck(drv), intf, rip, fb, facts, paper, job)
  BY <1>1, Faulted
<1>5. CASE Now(drv) = "ripwait0"
  <2>1. drv' = FaultCheck(drv) \/ drv' = Advance(drv)
    BY <1>1, <1>5 DEF WaitInterrupted
  <2>2. /\ Sound(Advance(drv), intf, rip, fb, facts)
        /\ Conserved(Advance(drv), intf, rip, fb, facts, paper, job)
    BY <1>1, <1>2, <1>5, AdvanceLess, Advanced
  <2> QED BY <1>3, <1>4, <2>1, <2>2, Walked
<1>6. CASE Now(drv) # "ripwait0"
  <2>1. \/ drv' = FaultCheck(drv) \/ drv' = [drv EXCEPT !.phase = "run"]
        \/ drv' = [drv EXCEPT !.phase = "due"]
    BY <1>1, <1>6 DEF WaitInterrupted
  <2> QED BY <1>1, <1>3, <1>4, <2>1, Phased, Walked
<1> QED BY <1>5, <1>6

\* feedback_drain().
LEMMA DrainedKeeps == ASSUME Inv, Drained PROVE Inv'
<1>1. /\ drv.verdict = "none" /\ drv.todo # << >>
      /\ Now(drv) = "drain" /\ NowIn(drv, {"drain"})
  BY AtIs DEF Drained
<1>2. /\ drv' = FaultCheck(drv) \/ drv' = Advance(drv)
      /\ NoTrouble /\ UNCHANGED <<job, children>>
      /\ intf.state # "up" /\ rip.state # "up" /\ fb = << >>
  BY DEF Drained, EndOfFeedback
<1>3. drv \in Drivers BY DEF Inv, Sound, Typed
<1>4. NowIn(drv, Walkable \ Data)
  BY <1>1 DEF NowIn, Walkable, PlainNames, Data
<1>5. /\ Sound(Advance(drv), intf, rip, fb, facts)
      /\ Conserved(Advance(drv), intf, rip, fb, facts, paper, job)
  BY <1>1, <1>2, <1>3, <1>4, AdvanceLess, Advanced
<1>6. /\ Sound(FaultCheck(drv), intf, rip, fb, facts)
      /\ Conserved(FaultCheck(drv), intf, rip, fb, facts, paper, job)
  BY <1>1, Faulted
<1> QED BY <1>2, <1>5, <1>6, Walked

\* Not after a fault.
LEMMA Ordinary ==
  ASSUME Inv, drv.todo # << >>,
         Now(drv) \notin {"drain", "ifault", "ripscreen", "shut", "reap",
                          "ripverdict"}
  PROVE  /\ ~ EndsIn(drv, "ifault") /\ ~ EndsIn(drv, "ripverdict")
         /\ drv.killed = {}
<1>1. drv.todo \in Seq(Acts) BY DEF Inv, Sound, Program
<1>2. 1 \in 1 .. Len(drv.todo) BY <1>1
<1>3. Modes(drv, intf, rip, facts) BY DEF Inv, Sound
<1>4. ~ EndsIn(drv, "ifault") /\ ~ EndsIn(drv, "ripverdict")
  BY <1>2, <1>3 DEF Modes, Now
<1>5. drv.killed = {} BY <1>3, <1>4 DEF Modes, EndsIn
<1> QED BY <1>4, <1>5

\* The interface did not end as it should.
LEMMA ScreenJust ==
  ASSUME Inv, InterfaceExitScreen(drv.icode) # "ok"
  PROVE  /\ InterfaceExitScreen(drv.icode) \in ExitCodes \ {"none", "printed"}
         /\ Just(InterfaceExitScreen(drv.icode), drv, facts)
<1> DEFINE c == drv.icode
<1>1. c \in {"killed", "weird", "core", "signal"}
  BY DEF InterfaceExitScreen
<1>2. "interface" \in facts BY <1>1 DEF Inv, Sound, Reasons
<1>3. InterfaceExitScreen(c) = IF c = "core" THEN "noretry"
                               ELSE IF c = "signal" THEN "signal" ELSE "prnerr"
  BY <1>1 DEF InterfaceExitScreen
<1> QED BY <1>1, <1>2, <1>3 DEF Just, ExitCodes, InterfaceCodes

\* interface_close(): the interface is dead.
LEMMA ReapKeeps == ASSUME Inv, Reap PROVE Inv'
<1>1. /\ drv.verdict = "none" /\ drv.todo # << >>
      /\ Now(drv) = "reap" /\ NowIn(drv, {"reap"})
  BY AtIs DEF Reap
<1>2. drv.died /\ NoTrouble /\ UNCHANGED <<job, children>> BY DEF Reap
<1>3. drv \in Drivers BY DEF Inv, Sound, Typed
<1>4. NowIn(drv, Walkable \ Data)
  BY <1>1 DEF NowIn, Walkable, PlainNames, Data
<1>5. intf.state = "dead" BY <1>2 DEF Inv, Sound, Children
<1>6. CASE InterfaceExitScreen(drv.icode) # "ok"
  <2> DEFINE code == InterfaceExitScreen(drv.icode)
  <2>1. drv' = HookedExit(drv, code) BY <1>6 DEF Reap
  <2>2. code \in ExitCodes \ {"none", "printed"} /\ Just(code, drv, facts)
    BY <1>6, ScreenJust
  <2> HIDE DEF code
  <2>3. /\ Sound(HookedExit(drv, code), intf, rip, fb, facts)
        /\ Conserved(HookedExit(drv, code), intf, rip, fb, facts, paper, job)
    BY <1>1, <2>2, Exited
  <2> QED BY <1>2, <2>1, <2>3, Walked
<1>7. CASE InterfaceExitScreen(drv.icode) = "ok"
  <2>1. drv' = Advance(drv) BY <1>7 DEF Reap
  <2>2. /\ Sound(Advance(drv), intf, rip, fb, facts)
        /\ Conserved(Advance(drv), intf, rip, fb, facts, paper, job)
    BY <1>1, <1>3, <1>4, <1>5, AdvanceLess, Advanced
  <2> QED BY <1>2, <2>1, <2>2, Walked
<1> QED BY <1>6, <1>7

\* The end of interface_fault_check().
LEMMA InterfaceVerdictKeeps == ASSUME Inv, InterfaceVerdict PROVE Inv'
<1>1. drv.verdict = "none" /\ drv.todo # << >> /\ Now(drv) = "ifault"
  BY AtIs DEF InterfaceVerdict
<1> DEFINE screened == InterfaceExitScreen(drv.icode)
           code == IF screened # "ok" THEN screened
                   ELSE IF drv.icode = "printed" THEN "noretry"
                   ELSE IF drv.err THEN "joberr"
                   ELSE drv.icode
<1>2. /\ drv' = HookedExit(drv, code) /\ NoTrouble
      /\ UNCHANGED <<job, children>>
  BY DEF InterfaceVerdict
<1>3. EndsIn(drv, "ifault")
  <2>1. Program(drv.todo) BY DEF Inv, Sound
  <2> QED BY <1>1, <2>1, LastSteps DEF EndsIn, Now
<1>4. intf.state = "dead" /\ (drv.icode = "printed" => "hasty" \in facts)
  BY <1>3 DEF Inv, Sound, Modes
<1>5. drv.icode \in InterfaceCodes
  <2>1. drv.icode = intf.code /\ intf.code # "none"
    BY <1>4 DEF Inv, Sound, Children
  <2>2. drv.icode \in InterfaceCodes \cup {"none"}
    BY DEF Inv, Sound, Typed, Drivers
  <2> QED BY <2>1, <2>2
<1>6. code \in ExitCodes \ {"none", "printed"} /\ Just(code, drv, facts)
  <2>1. CASE screened # "ok" BY <2>1, ScreenJust
  <2>2. CASE screened = "ok"
    <3>1. drv.icode \in {"printed", "prnerr", "noretry", "joberr", "engaged",
                         "starved"}
      BY <1>5, <2>2 DEF InterfaceExitScreen, InterfaceCodes
    <3>2. drv.icode # "printed" => "interface" \in facts
      BY <3>1 DEF Inv, Sound, Reasons
    <3>3. drv.err => "error" \in facts BY DEF Inv, Sound, Reasons
    <3>4. code = IF drv.icode = "printed" THEN "noretry"
                 ELSE IF drv.err THEN "joberr" ELSE drv.icode
      BY <2>2
    <3> HIDE DEF code, screened
    <3> QED BY <1>4, <3>1, <3>2, <3>3, <3>4
         DEF Just, ExitCodes, InterfaceCodes
  <2> QED BY <2>1, <2>2
<1> HIDE DEF code
<1>7. /\ Sound(HookedExit(drv, code), intf, rip, fb, facts)
      /\ Conserved(HookedExit(drv, code), intf, rip, fb, facts, paper, job)
  BY <1>1, <1>6, Exited
<1> QED BY <1>2, <1>7, Walked

\* The end of rip_fault_check().
LEMMA RipVerdictKeeps == ASSUME Inv, RipVerdict PROVE Inv'
<1>1. drv.verdict = "none" /\ drv.todo # << >> /\ Now(drv) = "ripverdict"
  BY AtIs DEF RipVerdict
<1> DEFINE code == IF drv.rcode = "quit" /\ drv.ghost THEN "noretry"
                   ELSE "joberr"
<1>2. /\ drv' = HookedExit(drv, code) /\ NoTrouble
      /\ UNCHANGED <<job, children>>
  BY DEF RipVerdict
<1>3. EndsIn(drv, "ripverdict")
  <2>1. Program(drv.todo) BY DEF Inv, Sound
  <2> QED BY <1>1, <2>1, LastSteps DEF EndsIn, Now
<1>4. drv.rcode = "quit" /\ "quit" \in facts
  BY <1>1, <1>3 DEF Inv, Sound, Modes, Reasons
<1>5. drv.ghost => "ghost" \in facts BY DEF Inv, Sound, Reasons
<1>6. code \in ExitCodes \ {"none", "printed"} /\ Just(code, drv, facts)
  BY <1>4, <1>5 DEF Just, ExitCodes, InterfaceCodes
<1> HIDE DEF code
<1>7. /\ Sound(HookedExit(drv, code), intf, rip, fb, facts)
      /\ Conserved(HookedExit(drv, code), intf, rip, fb, facts, paper, job)
  BY <1>1, <1>6, Exited
<1> QED BY <1>2, <1>7, Walked

\* printer_flush(), after EPIPE.
LEMMA EpipeKeeps == ASSUME Inv, Epipe PROVE Inv'
<1>1. drv.verdict = "none" /\ drv.todo # << >> /\ NowIn(drv, {"epipe"})
  BY AtIs DEF Epipe
<1>2. /\ drv' = FaultCheck(drv) \/ drv' = HookedExit(drv, "prnerr")
      /\ NoTrouble /\ UNCHANGED <<job, children>>
  BY DEF Epipe
<1>3. facts # {} BY <1>1 DEF Inv, Sound, Reasons
<1>4. "prnerr" \in ExitCodes /\ Just("prnerr", drv, facts)
  BY <1>3 DEF ExitCodes, InterfaceCodes, Just
<1>5. /\ Sound(HookedExit(drv, "prnerr"), intf, rip, fb, facts)
      /\ Conserved(HookedExit(drv, "prnerr"), intf, rip, fb, facts, paper, job)
  BY <1>1, <1>4, Exited
<1>6. /\ Sound(FaultCheck(drv), intf, rip, fb, facts)
      /\ Conserved(FaultCheck(drv), intf, rip, fb, facts, paper, job)
  BY <1>1, Faulted
<1> QED BY <1>2, <1>5, <1>6, Walked

\* pprdrv is given another program.
LEMMA TurnIs ==
  ASSUME NEW v \in Drivers, NEW t \in Seq(Acts), v.verdict = "none"
  PROVE  /\ Less(v, Turn(v, t)) /\ Turn(v, t).todo = t
         /\ Turn(v, t).phase = "run" /\ Turn(v, t).riping = v.riping
         /\ Turn(v, t).rnofault = v.rnofault /\ Knows(v, Turn(v, t))
<1> DEFINE w == Turn(v, t)
<1>1. w \in Drivers BY DEF Turn, Drivers
<1>2. /\ w.todo = t /\ w.phase = "run" /\ w.riping = v.riping
      /\ w.rnofault = v.rnofault
  BY DEF Turn, Drivers
<1>3. Less(v, w) BY <1>1 DEF Less, Turn, Drivers
<1>4. Knows(v, w) BY DEF Knows, Turn, Drivers
<1> QED BY <1>2, <1>3, <1>4

\* feedback_pjl_wait() has something to write before it goes on waiting.
LEMMA UelBefore ==
  ASSUME NEW t, Program(t), t # << >>, t[1][1] = "pjlend"
  PROVE  LET u == Ops(<<"uel">>) \o t
         IN  /\ Program(u) /\ u # << >> /\ Final(u) = Final(t)
             /\ u[1][1] = "uel"
             /\ (Loops(u) <=> Loops(t)) /\ DataOf(u) = DataOf(t)
             /\ ScreenAhead(t, 0) => ScreenAhead(u, 0)
<1> DEFINE c == <<Op("uel")>>
           u == c \o t
<1>1. Ops(<<"uel">>) \o t = u BY OpsAre
<1>2. c \in Seq(PlainSteps)
  <2>1. Op("uel") \in PlainSteps BY PlainOps
  <2> QED BY <2>1
<1>3. c \in Parts BY <1>2, PlainParts
<1>4. c \in Seq(Acts) /\ Flow(c) /\ Ripped(c)
  <2>1. c \in Seq(RunSteps) BY <1>3 DEF Parts
  <2> QED BY <1>3, <2>1, StepSets, SeqMonotonic DEF Parts
<1>5. Len(c) = 1 /\ c[1][1] = "uel" /\ c # << >> BY DEF Op
<1> HIDE DEF c
<1>6. t \in Seq(Acts) /\ Flow(t) /\ Ripped(t) BY DEF Program
<1>7. Follows(c[Len(c)][1], t[1][1]) BY <1>5 DEF Follows
<1>8. Program(u)
  BY <1>4, <1>6, <1>7, FlowConcat, RippedConcat DEF Program
<1>9. u # << >> /\ Final(u) = Final(t) /\ u[1] = c[1]
  BY <1>4, <1>5, <1>6, ConcatEnds DEF Final
<1>10. /\ Len(u) = 1 + Len(t) /\ Len(t) \in Nat
       /\ \A k \in 1 .. Len(t) : u[1 + k] = t[k]
  BY <1>4, <1>5, <1>6, Joined
<1> HIDE DEF u
<1>11. Tail(u) = t
  <2>1. /\ Len(Tail(u)) = Len(u) - 1 /\ Program(Tail(u))
        /\ \A k \in 1 .. Len(Tail(u)) : Tail(u)[k] = u[k + 1]
    BY <1>8, <1>9, TailIs
  <2> DEFINE r == Tail(u)
  <2>2. r \in Seq(Acts) BY <2>1 DEF Program
  <2>3. Len(r) = Len(t) BY <1>10, <2>1
  <2>4. \A k \in 1 .. Len(t) : r[k] = t[k] BY <1>10, <2>1, <2>3
  <2> HIDE DEF r
  <2>5. r = t BY <1>6, <2>2, <2>3, <2>4, SeqEqual
  <2> QED BY <2>5 DEF r
<1>12. (Loops(u) <=> Loops(t)) /\ DataOf(u) = DataOf(t)
  <2>1. u[1][1] \notin Data /\ u[1][1] # "again" BY <1>5, <1>9 DEF Data
  <2> QED BY <1>8, <1>9, <1>11, <2>1, TailAhead
<1>13. ASSUME ScreenAhead(t, 0) PROVE ScreenAhead(u, 0)
  <2>1. PICK k \in 1 .. Len(t) :
          /\ k > 0 /\ t[k][1] = "ripscreen"
          /\ \A m \in 0 + 1 .. k - 1 : t[m][1] # "rip"
    BY <1>13 DEF ScreenAhead
  <2> DEFINE q == 1 + k
  <2>2. q \in 1 .. Len(u) /\ q > 0 /\ u[q][1] = "ripscreen"
    BY <1>10, <2>1
  <2>3. ASSUME NEW m \in 0 + 1 .. q - 1 PROVE u[m][1] # "rip"
    <3>1. CASE m = 1 BY <1>5, <1>9, <3>1
    <3>2. CASE m # 1
      <4>1. m - 1 \in 0 + 1 .. k - 1 /\ m - 1 \in 1 .. Len(t)
            /\ 1 + (m - 1) = m
        BY <1>10, <2>1, <3>2
      <4>2. u[m] = t[m - 1] BY <1>10, <4>1
      <4> QED BY <2>1, <4>1, <4>2
    <3> QED BY <3>1, <3>2
  <2> HIDE DEF q
  <2> QED BY <2>2, <2>3 DEF ScreenAhead
<1>14. u[1][1] = "uel" BY <1>5, <1>9
<1> QED BY <1>1, <1>8, <1>9, <1>12, <1>13, <1>14

\* feedback_pjl_wait(): what it writes makes no difference.
LEMMA KeepAliveKeeps ==
  ASSUME NEW v, NEW i, NEW r, NEW b, NEW f, NEW p, NEW j,
         Sound(v, i, r, b, f), Conserved(v, i, r, b, f, p, j),
         v.verdict = "none", v.todo # << >>, Now(v) = "pjlend"
  PROVE  /\ Sound(KeepAlive(v), i, r, b, f)
         /\ Conserved(KeepAlive(v), i, r, b, f, p, j)
<1> DEFINE t == Ops(<<"uel">>) \o v.todo
           w == Turn(v, t)
<1>1. KeepAlive(v) = w BY DEF KeepAlive
<1>2. v \in Drivers /\ Program(v.todo) BY DEF Sound, Typed
<1>3. /\ Program(t) /\ t # << >> /\ Final(t) = Final(v.todo)
      /\ t[1][1] = "uel" /\ (Loops(t) <=> Loops(v.todo))
      /\ DataOf(t) = DataOf(v.todo)
      /\ (ScreenAhead(v.todo, 0) => ScreenAhead(t, 0))
  BY <1>2, UelBefore DEF Now
<1>4. t \in Seq(Acts) BY <1>3 DEF Program
<1> HIDE DEF t
<1>5. /\ Less(v, w) /\ w.todo = t /\ w.riping = v.riping
      /\ w.rnofault = v.rnofault /\ Knows(v, w)
  BY <1>2, <1>4, TurnIs
<1> HIDE DEF w
<1>6. Now(w) = "uel" /\ w.todo # << >> /\ Final(w.todo) = Final(v.todo)
  BY <1>3, <1>5 DEF Now
<1>7. ~ EndsIn(v, "ifault") /\ ~ EndsIn(v, "ripverdict") /\ v.killed = {}
  <2>1. v.todo \in Seq(Acts) BY <1>2 DEF Program
  <2>2. 1 \in 1 .. Len(v.todo) BY <2>1
  <2>3. Modes(v, i, r, f) BY DEF Sound
  <2>4. ~ EndsIn(v, "ifault") /\ ~ EndsIn(v, "ripverdict")
    BY <2>2, <2>3 DEF Modes, Now
  <2> QED BY <2>3, <2>4 DEF Modes, EndsIn
<1>8. i.state # "none" /\ ~ i.eof /\ ~ (r.eof /\ v.riping)
  <2>1. Places(v, i, r, b) BY DEF Sound
  <2> QED BY <1>7, <2>1 DEF Places, EndsIn
<1>9. Sound(w, i, r, b, f)
  <2>1. Typed(w, i, r, b, f) BY <1>5 DEF Sound, Typed, Less
  <2>2. Program(w.todo) BY <1>3, <1>5
  <2>3. Children(w, i, r) BY <1>5 DEF Sound, Children, Less
  <2>4. Places(w, i, r, b) BY <1>5, <1>6, <1>8 DEF Places, NowIn, Less
  <2>5. Modes(w, i, r, f) BY <1>5, <1>6, <1>7 DEF Modes, EndsIn, Less
  <2>6. Reasons(w, i, r, b, f)
    BY <1>5, <1>6 DEF Sound, Reasons, Less, NowIn
  <2>7. Just(w.verdict, w, f) /\ w.verdict = "none" BY <1>5 DEF Just, Less
  <2> QED BY <2>1, <2>2, <2>3, <2>4, <2>5, <2>6, <2>7 DEF Sound
<1>10. Conserved(w, i, r, b, f, p, j)
  <2>1. Whole(v, i, r, f, p, j) => Whole(w, i, r, f, p, j)
    BY <1>3, <1>5 DEF Whole, Less
  <2>2. ~ NowIn(w, {"main"}) BY <1>6 DEF NowIn
  <2>3. EndsIn(w, "verdict") => EndsIn(v, "verdict") BY <1>6 DEF EndsIn
  <2>4. EndsIn(w, "verdict") =>
          /\ w.riping => ScreenAhead(w.todo, 0)
          /\ r.state = "up" => w.rcode \notin Lost
          /\ Loops(RealMain(j)) => Loops(w.todo)
          /\ Whole(w, i, r, f, p, j)
    BY <1>3, <1>5, <2>1, <2>3 DEF Conserved, Less
  <2>5. /\ p \in Seq(Acts)
        /\ "error" \in f => w.err \/ \E k \in 1 .. Len(b) : b[k] = "error"
        /\ ~ w.riping => w.rcode \notin Lost
    BY <1>5 DEF Conserved, Less
  <2> QED BY <2>2, <2>4, <2>5 DEF Conserved
<1> QED BY <1>1, <1>9, <1>10

\* feedback_wait(): its time is over.
LEMMA WaitTimeoutKeeps == ASSUME Inv, WaitTimeout PROVE Inv'
<1>1. drv.verdict = "none" BY AtIs DEF WaitTimeout
<1>2. NoTrouble /\ UNCHANGED <<job, children>> BY DEF WaitTimeout
<1>3. CASE At("pjlend") /\ drv' = KeepAlive(drv)
  <2>1. drv.todo # << >> /\ Now(drv) = "pjlend" BY <1>3, AtIs
  <2>2. /\ Sound(KeepAlive(drv), intf, rip, fb, facts)
        /\ Conserved(KeepAlive(drv), intf, rip, fb, facts, paper, job)
    BY <1>1, <2>1, KeepAliveKeeps DEF Inv
  <2> QED BY <1>2, <1>3, <2>2, Walked
<1>4. CASE drv' = [drv EXCEPT !.phase = "run"]
  BY <1>1, <1>2, <1>4, Phased, Walked
<1> QED BY <1>3, <1>4 DEF WaitTimeout

\* pprdrv ends when it has nobody to kill.
LEMMA QuitKeeps ==
  ASSUME NEW v, NEW i, NEW r, NEW b, NEW f, Sound(v, i, r, b, f),
         v.verdict = "none", NEW code \in ExitCodes, code # "none",
         Just(code, v, f), Alone(v, i, r)
  PROVE  Sound([Turn(v, << >>) EXCEPT !.verdict = code], i, r, b, f)
<1> DEFINE e == << >>
           u == Turn(v, e)
           w == [u EXCEPT !.verdict = code]
<1>1. v \in Drivers /\ e \in Seq(Acts) BY DEF Sound, Typed
<1> HIDE DEF e
<1>2. /\ Less(v, u) /\ u.todo = e /\ u.phase = "run" /\ u.riping = v.riping
      /\ u.rnofault = v.rnofault /\ Knows(v, u)
  BY <1>1, TurnIs
<1>3. u \in Drivers BY <1>2 DEF Less
<1> HIDE DEF u
<1>4. w \in Drivers BY <1>3 DEF Drivers
<1>5. /\ w.todo = e /\ w.phase = "run" /\ w.rnofault = u.rnofault
      /\ Knows(u, w) /\ w.died = u.died /\ w.killed = u.killed
      /\ w.verdict = code
  BY <1>2, <1>3 DEF Knows, Drivers
<1> HIDE DEF w
<1>6. /\ w.todo = << >> /\ w.rnofault = v.rnofault /\ Knows(v, w)
      /\ (w.died => v.died) /\ w.killed = v.killed
  BY <1>2, <1>5 DEF Knows, Less, e
<1>7. Typed(w, i, r, b, f) BY <1>4 DEF Sound, Typed
<1>8. Program(w.todo) BY <1>6, SmallPrograms
<1>9. Children(w, i, r) BY <1>6 DEF Sound, Children, Knows
<1>10. Places(w, i, r, b) BY <1>5, <1>6 DEF Places, NowIn
<1>11. Modes(w, i, r, f) BY <1>6 DEF Sound, Modes, EndsIn
<1>12. Reasons(w, i, r, b, f) BY <1>6 DEF Sound, Reasons, Knows, NowIn
<1>13. Just(w.verdict, w, f) BY <1>5, <1>6 DEF Just, Knows
<1>14. Alone(w, i, r) BY <1>6 DEF Alone
<1> QED BY <1>7, <1>8, <1>9, <1>10, <1>11, <1>12, <1>13, <1>14
     DEF Sound, w, u, e

\* Of the paper nothing is promised then.
LEMMA QuitConserves ==
  ASSUME NEW v \in Drivers, NEW i, NEW r, NEW b, NEW f, NEW p, NEW j,
         v.verdict = "none", NEW code, Conserved(v, i, r, b, f, p, j)
  PROVE  Conserved([Turn(v, << >>) EXCEPT !.verdict = code], i, r, b, f, p, j)
<1> DEFINE e == << >>
           u == Turn(v, e)
           w == [u EXCEPT !.verdict = code]
<1>1. e \in Seq(Acts) OBVIOUS
<1> HIDE DEF e
<1>2. Less(v, u) /\ u.todo = e /\ Knows(v, u) BY <1>1, TurnIs
<1>3. u \in Drivers BY <1>2 DEF Less
<1> HIDE DEF u
<1>4. w.todo = e /\ Knows(u, w) BY <1>2, <1>3 DEF Knows, Drivers
<1> HIDE DEF w
<1>5. Knows(v, w) /\ w.todo = << >> BY <1>2, <1>4 DEF Knows, e
<1>6. ~ EndsIn(w, "verdict") /\ ~ NowIn(w, {"main"})
  BY <1>5 DEF EndsIn, NowIn
<1> QED BY <1>5, <1>6, TurnConserves DEF w, u, e

\* The end of real_main().
LEMMA VerdictKeeps == ASSUME Inv, Verdict PROVE Inv'
<1>1. /\ drv.verdict = "none" /\ drv.todo # << >>
      /\ Now(drv) = "verdict" /\ NowIn(drv, {"verdict"})
  BY AtIs DEF Verdict
<1> DEFINE code == IF drv.err THEN "joberr" ELSE drv.icode
           w == [Turn(drv, << >>) EXCEPT !.verdict = code]
<1>2. drv' = w /\ NoTrouble /\ UNCHANGED <<job, children>> BY DEF Verdict
<1>3. intf.state = "dead" /\ rip.state # "up"
  <2>1. Places(drv, intf, rip, fb) BY DEF Inv, Sound
  <2> QED BY <1>1, <2>1 DEF Places, NowIn
<1>4. drv.icode \in InterfaceCodes
  <2>1. drv.icode = intf.code /\ intf.code # "none"
    BY <1>3 DEF Inv, Sound, Children
  <2>2. drv.icode \in InterfaceCodes \cup {"none"}
    BY DEF Inv, Sound, Typed, Drivers
  <2> QED BY <2>1, <2>2
<1>5. code \in ExitCodes /\ code # "none" /\ Just(code, drv, facts)
  <2>1. drv.icode \in {"none", "printed"} \/ "interface" \in facts
    BY DEF Inv, Sound, Reasons
  <2>2. drv.err => "error" \in facts BY DEF Inv, Sound, Reasons
  <2> QED BY <1>4, <2>1, <2>2 DEF Just, ExitCodes, InterfaceCodes
<1>6. Alone(drv, intf, rip) BY <1>3 DEF Alone
<1>7. drv \in Drivers BY DEF Inv, Sound, Typed
<1> HIDE DEF code
<1>8. Sound(w, intf, rip, fb, facts) BY <1>1, <1>5, <1>6, QuitKeeps DEF Inv
<1>9. Conserved(w, intf, rip, fb, facts, paper, job)
  BY <1>1, <1>7, QuitConserves DEF Inv
<1> QED BY <1>2, <1>8, <1>9, Walked

\* rip_stop(): the exit code of the RIP, and a fault that goes before it.
LEMMA RipScreenKeeps == ASSUME Inv, RipScreen PROVE Inv'
<1>1. /\ drv.verdict = "none" /\ drv.todo # << >>
      /\ Now(drv) = "ripscreen" /\ NowIn(drv, {"ripscreen"})
  BY AtIs DEF RipScreen
<1> DEFINE v == [drv EXCEPT !.rdied = FALSE]
           screened == RipExitScreen(v.rcode)
           a == [Advance(v) EXCEPT !.riping = FALSE]
<1>2. /\ drv' = IF FaultCheck(v) # v THEN FaultCheck(v)
                ELSE IF screened # "ok" THEN HookedExit(v, screened)
                ELSE a
      /\ NoTrouble /\ UNCHANGED <<job, children>>
  BY DEF RipScreen
<1>3. drv \in Drivers BY DEF Inv, Sound, Typed
<1>4. v \in Drivers BY <1>3 DEF Drivers
<1>5. v.rdied = FALSE BY <1>3 DEF Drivers
<1>6. Less(drv, v) BY <1>1, <1>3, <1>4, <1>5 DEF Less, Drivers
<1>7. v.todo = drv.todo /\ v.riping = drv.riping /\ v.rcode = drv.rcode
      /\ v.verdict = "none"
  BY <1>1, <1>3 DEF Drivers
<1>8. screened = RipExitScreen(drv.rcode) BY <1>7
<1> HIDE DEF v, screened
<1>9. Sound(v, intf, rip, fb, facts) BY <1>6, <1>7, SameKeeps DEF Inv
<1>10. Conserved(v, intf, rip, fb, facts, paper, job)
  <2>1. ~ v.riping => v.rcode \notin Lost BY <1>7 DEF Inv, Conserved
  <2> QED BY <1>6, <1>7, <2>1, SameConserves DEF Inv
<1>11. /\ Sound(FaultCheck(v), intf, rip, fb, facts)
       /\ Conserved(FaultCheck(v), intf, rip, fb, facts, paper, job)
  BY <1>4, <1>7, <1>9, <1>10, FaultKeeps, FaultConserves
<1>12. ASSUME screened # "ok"
       PROVE  /\ Sound(HookedExit(v, screened), intf, rip, fb, facts)
              /\ Conserved(HookedExit(v, screened), intf, rip, fb, facts,
                           paper, job)
  <2>1. drv.rcode \in {"segv", "pipe", "killed"}
        /\ screened = IF drv.rcode = "segv" THEN "joberr" ELSE "prnerr"
    BY <1>8, <1>12 DEF RipExitScreen
  <2>2. /\ drv.rcode = "segv" => "rip" \in facts
        /\ drv.rcode \in {"pipe", "killed"} => facts # {}
    BY DEF Inv, Sound, Reasons
  <2>3. screened \in ExitCodes \ {"none", "printed"} /\ Just(screened, v, facts)
    BY <2>1, <2>2 DEF Just, ExitCodes, InterfaceCodes
  <2> QED BY <1>4, <1>7, <1>9, <1>10, <2>3, ExitKeeps, ExitConserves
<1>13. ASSUME screened = "ok"
       PROVE  /\ Sound(a, intf, rip, fb, facts)
              /\ Conserved(a, intf, rip, fb, facts, paper, job)
  <2>1. v.rcode \notin Lost
    BY <1>7, <1>8, <1>13 DEF RipExitScreen, Lost
  <2> DEFINE u == Advance(v)
  <2>2. Less(v, u) /\ u.todo = Tail(v.todo) /\ u.riping = v.riping
    BY <1>1, <1>4, <1>7, AdvanceLess
  <2>3. u \in Drivers BY <2>2 DEF Less
  <2> HIDE DEF u
  <2> DEFINE w == [u EXCEPT !.riping = FALSE]
  <2>4. a = w BY DEF u
  <2> HIDE DEF a
  <2>5. w \in Drivers BY <2>3 DEF Drivers
  <2>6. w.riping = FALSE /\ w.todo = u.todo /\ w.rcode = u.rcode
    BY <2>3 DEF Drivers
  <2>7. Less(v, w) BY <2>2, <2>3, <2>5, <2>6 DEF Less, Drivers
  <2> HIDE DEF w
  <2>8. NowIn(v, {"ripscreen"}) /\ Now(v) = "ripscreen"
    BY <1>1, <1>7 DEF NowIn, Now
  <2>9. NowIn(v, Walkable) /\ NowIn(v, Walkable \ Data)
    BY <2>8 DEF NowIn, Walkable, Data
  <2>10. rip.state = "dead" BY <1>1 DEF Inv, Sound, Places
  <2>11. Sound(w, intf, rip, fb, facts)
    BY <1>9, <2>1, <2>2, <2>6, <2>7, <2>8, <2>9, <2>10, StepKeeps
  <2>12. w.rcode \notin Lost BY <2>1, <2>7 DEF Less
  <2>13. Program(v.todo) BY <1>9 DEF Sound
  <2>14. Conserved(w, intf, rip, fb, facts, paper, job)
    BY <1>10, <2>2, <2>6, <2>7, <2>9, <2>12, <2>13, StepConserves
  <2> QED BY <2>4, <2>11, <2>14
<1> HIDE DEF a
<1> QED BY <1>2, <1>11, <1>12, <1>13, Walked

\* printer_flush(): EPIPE.
LEMMA FlushBrokenKeeps == ASSUME Inv, FlushBroken PROVE Inv'
<1> DEFINE t == <<Op("epipe")>>
           w == Turn(drv, t)
<1>1. drv.verdict = "none" /\ NowIn(drv, Blocks)
  BY AmongIs DEF FlushBroken, AtBlock
<1>2. /\ drv' = w /\ NoTrouble /\ UNCHANGED <<job, children>> /\ ReaderGone
  BY OpsAre DEF FlushBroken
<1>3. drv \in Drivers BY DEF Inv, Sound, Typed
<1>4. t \in Seq(Acts) BY DEF Acts, Names, Op
<1>5. t # << >> /\ Len(t) = 1 /\ t[1][1] = "epipe" BY DEF Op
<1>6. Program(t)
  <2>1. \A k \in 1 .. 1 : k = 1 OBVIOUS
  <2>2. \A k \in 1 .. 1 - 1 : FALSE OBVIOUS
  <2> HIDE DEF t
  <2> QED BY <1>4, <1>5, <2>1, <2>2 DEF Program, Flow, Ripped
<1> HIDE DEF t
<1>7. /\ Less(drv, w) /\ w.todo = t /\ w.riping = drv.riping
      /\ w.rnofault = drv.rnofault /\ Knows(drv, w)
  BY <1>1, <1>3, <1>4, TurnIs
<1> HIDE DEF w
<1>8. drv.todo # << >> /\ Now(drv) \in Blocks BY <1>1 DEF NowIn
<1>9. ~ EndsIn(drv, "ifault") /\ ~ EndsIn(drv, "ripverdict")
      /\ drv.killed = {}
  BY <1>8, Ordinary DEF Blocks, Data
<1>10. /\ intf.state # "none" /\ ~ intf.eof
       /\ ~ (rip.eof /\ drv.riping)
  <2>1. Places(drv, intf, rip, fb) BY DEF Inv, Sound
  <2> QED BY <1>8, <1>9, <2>1 DEF Places, EndsIn, Blocks, Data
<1>11. facts # {}
  <2>1. CASE drv.riping
    <3>1. rip.state # "up" BY <1>2, <2>1 DEF ReaderGone
    <3> QED BY <1>10, <2>1, <3>1 DEF Inv, Sound, Reasons
  <2>2. CASE ~ drv.riping
    <3>1. intf.state # "up" BY <1>2, <2>2 DEF ReaderGone
    <3>2. intf.code # "none" BY <1>10, <3>1 DEF Inv, Sound, Children
    <3> QED BY <1>10, <3>2 DEF Inv, Sound, Reasons
  <2> QED BY <2>1, <2>2
<1>12. Now(w) = "epipe" /\ Final(w.todo) = "epipe" /\ w.todo # << >>
  BY <1>5, <1>7 DEF Now, Final
<1>13. Sound(w, intf, rip, fb, facts)
  <2>1. Typed(w, intf, rip, fb, facts) BY <1>7 DEF Inv, Sound, Typed, Less
  <2>2. Program(w.todo) BY <1>6, <1>7
  <2>3. Children(w, intf, rip) BY <1>7 DEF Inv, Sound, Children, Less
  <2>4. Places(w, intf, rip, fb)
    BY <1>7, <1>10, <1>12 DEF Places, NowIn, Less
  <2>5. Modes(w, intf, rip, facts)
    BY <1>7, <1>9, <1>12 DEF Modes, EndsIn, Less
  <2>6. Reasons(w, intf, rip, fb, facts)
    BY <1>7, <1>11 DEF Inv, Sound, Reasons, Less
  <2>7. Just(w.verdict, w, facts) /\ w.verdict = "none"
    BY <1>7 DEF Just, Less
  <2> QED BY <2>1, <2>2, <2>3, <2>4, <2>5, <2>6, <2>7 DEF Sound
<1>14. Conserved(w, intf, rip, fb, facts, paper, job)
  <2>1. ~ EndsIn(w, "verdict") /\ ~ NowIn(w, {"main"})
    BY <1>12 DEF EndsIn, NowIn
  <2> QED BY <1>7, <2>1, TurnConserves DEF Inv
<1> QED BY <1>2, <1>13, <1>14, Walked

\* real_main() begins.
LEMMA BeginKeeps ==
  ASSUME Inv, At("main"), NoTrouble, UNCHANGED <<job, children>>,
         drv' = Turn(drv, RealMain(job))
  PROVE  Inv'
<1> DEFINE t == RealMain(job)
           w == Turn(drv, t)
<1>1. /\ drv.verdict = "none" /\ drv.todo # << >>
      /\ Now(drv) = "main" /\ NowIn(drv, {"main"})
  BY AtIs
<1>2. drv \in Drivers /\ job \in Orders BY DEF Inv, Sound, Typed
<1>3. /\ Program(t) /\ t # << >> /\ t[1][1] = "launch"
      /\ Final(t) = "verdict" /\ t \in Seq(Acts)
  BY <1>2, RealMainIs DEF Final, Program
<1> HIDE DEF t
<1>4. /\ Less(drv, w) /\ w.todo = t /\ w.riping = drv.riping
      /\ w.rnofault = drv.rnofault /\ Knows(drv, w)
  BY <1>1, <1>2, <1>3, TurnIs
<1> HIDE DEF w
<1>5. drv.killed = {} BY <1>1, Ordinary
<1>6. /\ intf.state = "none" /\ rip.state = "none" /\ fb = << >>
  <2>1. Places(drv, intf, rip, fb) BY DEF Inv, Sound
  <2> QED BY <1>1, <2>1 DEF Places
<1>7. ~ drv.riping /\ paper = << >> BY <1>1 DEF Inv, Conserved
<1>8. Now(w) = "launch" /\ w.todo # << >> /\ Final(w.todo) = "verdict"
  BY <1>3, <1>4 DEF Now
<1>9. Sound(w, intf, rip, fb, facts)
  <2>1. Typed(w, intf, rip, fb, facts) BY <1>4 DEF Inv, Sound, Typed, Less
  <2>2. Program(w.todo) BY <1>3, <1>4
  <2>3. Children(w, intf, rip) BY <1>4 DEF Inv, Sound, Children, Less
  <2>4. Places(w, intf, rip, fb)
    BY <1>4, <1>6, <1>7, <1>8 DEF Places, NowIn, Less
  <2>5. Modes(w, intf, rip, facts)
    BY <1>4, <1>5, <1>8 DEF Modes, EndsIn, Less
  <2>6. Reasons(w, intf, rip, fb, facts)
    BY <1>4, <1>7, <1>8 DEF Inv, Sound, Reasons, Less, NowIn
  <2>7. Just(w.verdict, w, facts) /\ w.verdict = "none"
    BY <1>4 DEF Just, Less
  <2> QED BY <2>1, <2>2, <2>3, <2>4, <2>5, <2>6, <2>7 DEF Sound
<1>10. intf.in = << >> /\ rip.in = << >>
  BY <1>6 DEF Inv, Sound, Children
<1>11. ((paper \o DataOf(intf.in)) \o DataOf(rip.in)) \o DataOf(w.todo)
         = DataOf(RealMain(job))
  <2>1. DataOf(<< >>) = << >> /\ DataOf(t) \in Seq(Acts) BY <1>3, DataIs
  <2>2. (<< >> \o << >>) \o << >> = << >> OBVIOUS
  <2>3. << >> \o DataOf(t) = DataOf(t) BY <2>1
  <2> QED BY <1>4, <1>7, <1>10, <2>1, <2>2, <2>3 DEF t
<1>12. Conserved(w, intf, rip, fb, facts, paper, job)
  <2>1. Whole(w, intf, rip, facts, paper, job) BY <1>11 DEF Whole
  <2>2. ~ NowIn(w, {"main"}) BY <1>8 DEF NowIn
  <2>3. /\ paper \in Seq(Acts)
        /\ "error" \in facts =>
             w.err \/ \E k \in 1 .. Len(fb) : fb[k] = "error"
        /\ ~ w.riping => w.rcode \notin Lost
    BY <1>4 DEF Inv, Conserved, Less
  <2> QED BY <1>4, <1>6, <1>7, <2>1, <2>2, <2>3 DEF Conserved, t
<1> QED BY <1>9, <1>12, Walked DEF w, t

\* real_main(): its program, or an exit because the printer is incapable.
LEMMA MainKeeps == ASSUME Inv, Main PROVE Inv'
<1>1. /\ drv.verdict = "none" /\ drv.todo # << >>
      /\ Now(drv) = "main" /\ NowIn(drv, {"main"})
  BY AtIs DEF Main
<1>2. CASE drv' = Turn(drv, RealMain(job)) /\ NoTrouble
  BY <1>2, BeginKeeps DEF Main
<1>3. CASE /\ drv' = [Turn(drv, << >>) EXCEPT !.verdict = "incapable"]
           /\ Trouble("incapable")
  <2> DEFINE g == facts \cup {"incapable"}
             w == [Turn(drv, << >>) EXCEPT !.verdict = "incapable"]
  <2>1. drv' = w /\ facts' = g /\ UNCHANGED <<job, intf, rip, fb, paper>>
    BY <1>3 DEF Main, Trouble, children
  <2>2. g \in SUBSET FactNames
    <3>1. facts \in SUBSET FactNames BY DEF Inv, Sound, Typed
    <3> QED BY <3>1 DEF FactNames
  <2>3. Sound(drv, intf, rip, fb, g) BY <2>2, FactsKeep DEF Inv
  <2>4. Conserved(drv, intf, rip, fb, g, paper, job)
    BY <2>2, FactsConserve DEF Inv
  <2>5. Just("incapable", drv, g) /\ "incapable" \in ExitCodes
    BY DEF Just, ExitCodes
  <2>6. Alone(drv, intf, rip)
    <3>1. Places(drv, intf, rip, fb) BY DEF Inv, Sound
    <3> QED BY <1>1, <3>1 DEF Places, Alone
  <2>7. drv \in Drivers BY DEF Inv, Sound, Typed
  <2> HIDE DEF g
  <2>8. Sound(w, intf, rip, fb, g) BY <1>1, <2>3, <2>5, <2>6, QuitKeeps
  <2>9. Conserved(w, intf, rip, fb, g, paper, job)
    BY <1>1, <2>4, <2>7, QuitConserves
  <2> HIDE DEF w
  <2> QED BY <2>1, <2>8, <2>9 DEF Inv
<1> QED BY <1>2, <1>3 DEF Main

\* Pages before a program.
LEMMA PagesBefore ==
  ASSUME NEW c \in Seq(PageSteps), NEW t, Program(t), t # << >>,
         t[1][1] = "again"
  PROVE  /\ Program(c \o t) /\ c \o t # << >> /\ Final(c \o t) = Final(t)
         /\ (c \o t)[1][1] \in {"page", "again"}
         /\ Loops(c \o t)
         /\ ScreenAhead(t, 0) => ScreenAhead(c \o t, 0)
<1> DEFINE u == c \o t
           n == Len(c)
<1>1. PageSteps \subseteq PlainSteps
  BY DEF PageSteps, PlainSteps, PlainNames, Blocks, Data
<1>2. c \in Seq(PlainSteps) BY <1>1, SeqMonotonic
<1>3. c \in Parts BY <1>2, PlainParts
<1>4. c \in Seq(Acts) /\ Flow(c) /\ Ripped(c)
  <2>1. c \in Seq(RunSteps) BY <1>3 DEF Parts
  <2> QED BY <1>3, <2>1, StepSets, SeqMonotonic DEF Parts
<1>5. t \in Seq(Acts) /\ Flow(t) /\ Ripped(t) BY DEF Program
<1>6. \A k \in 1 .. n : c[k][1] = "page"
  <2>1. \A k \in 1 .. n : c[k] \in PageSteps OBVIOUS
  <2> QED BY <2>1 DEF PageSteps
<1>7. c # << >> => Follows(c[Len(c)][1], t[1][1])
  <2>1. c # << >> => Len(c) \in 1 .. n OBVIOUS
  <2> QED BY <1>6, <2>1 DEF Follows
<1>8. Program(u)
  BY <1>4, <1>5, <1>7, FlowConcat, RippedConcat DEF Program
<1>9. u # << >> /\ Final(u) = Final(t) BY <1>4, <1>5, ConcatEnds DEF Final
<1>10. /\ Len(u) = n + Len(t) /\ n \in Nat /\ Len(t) \in Nat
       /\ \A k \in 1 .. n : u[k] = c[k]
       /\ \A k \in 1 .. Len(t) : u[n + k] = t[k]
  BY <1>4, <1>5, Joined
<1>11. 1 \in 1 .. Len(t) BY <1>5
<1> HIDE DEF u
<1>12. u[1][1] \in {"page", "again"}
  <2>1. CASE n = 0
    <3>1. n + 1 = 1 BY <2>1
    <3>2. u[1] = t[1] BY <1>10, <1>11, <3>1
    <3> QED BY <3>2
  <2>2. CASE n # 0
    <3>1. 1 \in 1 .. n BY <1>10, <2>2
    <3> QED BY <1>6, <1>10, <3>1
  <2> QED BY <2>1, <2>2
<1>13. Loops(u)
  <2>1. n + 1 \in 1 .. Len(u) BY <1>10, <1>11
  <2>2. u[n + 1] = t[1] BY <1>10, <1>11
  <2> QED BY <2>1, <2>2 DEF Loops
<1>14. ASSUME ScreenAhead(t, 0) PROVE ScreenAhead(u, 0)
  <2>1. PICK k \in 1 .. Len(t) :
          /\ k > 0 /\ t[k][1] = "ripscreen"
          /\ \A m \in 0 + 1 .. k - 1 : t[m][1] # "rip"
    BY <1>14 DEF ScreenAhead
  <2> DEFINE q == n + k
  <2>2. q \in 1 .. Len(u) /\ q > 0 /\ u[q][1] = "ripscreen"
    BY <1>10, <2>1
  <2>3. ASSUME NEW m \in 0 + 1 .. q - 1 PROVE u[m][1] # "rip"
    <3>1. CASE m <= n
      <4>1. m \in 1 .. n BY <1>10, <3>1
      <4> QED BY <1>6, <1>10, <4>1
    <3>2. CASE m > n
      <4>1. m - n \in 0 + 1 .. k - 1 /\ m - n \in 1 .. Len(t)
            /\ n + (m - n) = m
        BY <1>10, <2>1, <3>2
      <4>2. u[m] = t[m - n] BY <1>10, <4>1
      <4> QED BY <2>1, <4>1, <4>2
    <3> QED BY <1>10, <3>1, <3>2
  <2> HIDE DEF q
  <2> QED BY <2>2, <2>3 DEF ScreenAhead
<1> QED BY <1>8, <1>9, <1>12, <1>13, <1>14 DEF u

\* copy_pages() goes on without end.
LEMMA AgainKeeps == ASSUME Inv, Again PROVE Inv'
<1> DEFINE t == CopyPages(job, -1) \o drv.todo
           w == Turn(drv, t)
<1>1. /\ drv.verdict = "none" /\ drv.todo # << >>
      /\ Now(drv) = "again" /\ NowIn(drv, {"again"})
  BY AtIs DEF Again
<1>2. drv' = w /\ NoTrouble /\ UNCHANGED <<job, children>> BY DEF Again
<1>3. drv \in Drivers /\ job \in Orders /\ Program(drv.todo)
  BY DEF Inv, Sound, Typed
<1>4. /\ Program(t) /\ t # << >> /\ Final(t) = Final(drv.todo)
      /\ t[1][1] \in {"page", "again"} /\ Loops(t)
      /\ (ScreenAhead(drv.todo, 0) => ScreenAhead(t, 0))
  <2>1. CopyPages(job, -1) \in Seq(PageSteps) BY <1>3, PagesSteps
  <2> QED BY <1>1, <1>3, <2>1, PagesBefore DEF Now
<1>5. t \in Seq(Acts) BY <1>4 DEF Program
<1> HIDE DEF t
<1>6. /\ Less(drv, w) /\ w.todo = t /\ w.riping = drv.riping
      /\ w.rnofault = drv.rnofault /\ Knows(drv, w)
  BY <1>1, <1>3, <1>5, TurnIs
<1> HIDE DEF w
<1>7. ~ EndsIn(drv, "ifault") /\ ~ EndsIn(drv, "ripverdict")
      /\ drv.killed = {}
  BY <1>1, Ordinary
<1>8. intf.state # "none" /\ ~ intf.eof /\ ~ (rip.eof /\ drv.riping)
  <2>1. Places(drv, intf, rip, fb) BY DEF Inv, Sound
  <2> QED BY <1>1, <1>7, <2>1 DEF Places, EndsIn
<1>9. /\ Now(w) \in {"page", "again"} /\ w.todo # << >>
      /\ Final(w.todo) = Final(drv.todo)
  BY <1>4, <1>6 DEF Now
<1>10. Sound(w, intf, rip, fb, facts)
  <2>1. Typed(w, intf, rip, fb, facts) BY <1>6 DEF Inv, Sound, Typed, Less
  <2>2. Program(w.todo) BY <1>4, <1>6
  <2>3. Children(w, intf, rip) BY <1>6 DEF Inv, Sound, Children, Less
  <2>4. Places(w, intf, rip, fb)
    BY <1>6, <1>8, <1>9 DEF Places, NowIn, Less
  <2>5. Modes(w, intf, rip, facts)
    BY <1>1, <1>6, <1>7, <1>9 DEF Modes, EndsIn, Less
  <2>6. Reasons(w, intf, rip, fb, facts)
    BY <1>6, <1>9 DEF Inv, Sound, Reasons, Less, NowIn
  <2>7. Just(w.verdict, w, facts) /\ w.verdict = "none"
    BY <1>6 DEF Just, Less
  <2> QED BY <2>1, <2>2, <2>3, <2>4, <2>5, <2>6, <2>7 DEF Sound
<1>11. Conserved(w, intf, rip, fb, facts, paper, job)
  <2>1. Loops(w.todo) BY <1>4, <1>6
  <2>2. Whole(w, intf, rip, facts, paper, job) BY <2>1 DEF Whole
  <2>3. ~ NowIn(w, {"main"}) BY <1>9 DEF NowIn
  <2>4. EndsIn(w, "verdict") => EndsIn(drv, "verdict")
    BY <1>1, <1>9 DEF EndsIn
  <2>5. EndsIn(w, "verdict") =>
          /\ w.riping => ScreenAhead(w.todo, 0)
          /\ rip.state = "up" => w.rcode \notin Lost
    BY <1>4, <1>6, <2>4 DEF Inv, Conserved, Less
  <2>6. /\ paper \in Seq(Acts)
        /\ "error" \in facts =>
             w.err \/ \E k \in 1 .. Len(fb) : fb[k] = "error"
        /\ ~ w.riping => w.rcode \notin Lost
    BY <1>6 DEF Inv, Conserved, Less
  <2> QED BY <2>1, <2>2, <2>3, <2>5, <2>6 DEF Conserved
<1> QED BY <1>2, <1>10, <1>11, Walked

\* What is in the pipes is the same.
LEMMA PipesConserve ==
  ASSUME NEW v, NEW i, NEW r, NEW k, NEW q, NEW b, NEW f, NEW p, NEW j,
         Conserved(v, i, r, b, f, p, j),
         k.code = i.code, k.in = i.in, q.in = r.in, q.state = r.state
  PROVE  Conserved(v, k, q, b, f, p, j)
BY DEF Conserved, Whole

\* signal_jobbreak().
LEMMA SignalKeeps == ASSUME Inv, Signal PROVE Inv'
<1> DEFINE a == Advance(drv)
           w == [a EXCEPT !.usr1 = ~ drv.intpid]
           k == [intf EXCEPT !.asked = drv.intpid]
<1>1. /\ drv.verdict = "none" /\ drv.todo # << >>
      /\ Now(drv) = "signal" /\ NowIn(drv, {"signal"})
  BY AtIs DEF Signal
<1>2. drv' = w /\ intf' = k /\ NoTrouble /\ UNCHANGED <<job, rip, fb, paper>>
  BY DEF Signal
<1>3. drv \in Drivers /\ intf \in Interfaces /\ rip \in RipStates
  BY DEF Inv, Sound, Typed
<1>4. drv.intpid \in BOOLEAN BY <1>3 DEF Drivers
<1>5. Less(drv, a) /\ a.todo = Tail(drv.todo) /\ a.riping = drv.riping
  BY <1>1, <1>3, AdvanceLess
<1>6. a \in Drivers BY <1>5 DEF Less
<1> HIDE DEF a
<1>7. w \in Drivers
  <2> DEFINE on == ~ drv.intpid
  <2>1. on \in BOOLEAN BY <1>4
  <2> HIDE DEF on
  <2>2. [a EXCEPT !.usr1 = on] \in Drivers BY <1>6, <2>1 DEF Drivers
  <2> QED BY <2>2 DEF on
<1>8. Less(drv, w)
  <2>1. /\ w.intpid = a.intpid /\ w.rippid = a.rippid
        /\ w.icode = a.icode /\ w.rcode = a.rcode /\ w.err = a.err
        /\ w.ghost = a.ghost /\ w.killed = a.killed
        /\ w.nofault = a.nofault /\ w.rnofault = a.rnofault
        /\ w.died = a.died /\ w.rdied = a.rdied /\ w.term = a.term
        /\ w.riping = a.riping /\ w.verdict = a.verdict
    BY <1>6 DEF Drivers
  <2> HIDE DEF w
  <2> QED BY <1>5, <1>7, <2>1 DEF Less
<1>9. w.todo = a.todo /\ w.riping = a.riping BY <1>6 DEF Drivers
<1>10. k \in Interfaces BY <1>3, <1>4 DEF Interfaces
<1>11. /\ k.state = intf.state /\ k.code = intf.code /\ k.in = intf.in
       /\ k.eof = intf.eof
  BY <1>3 DEF Interfaces
<1> HIDE DEF w, k
<1>12. NowIn(drv, Walkable \ Data)
  BY <1>1 DEF NowIn, Walkable, PlainNames, Data
<1>13. /\ Sound(w, intf, rip, fb, facts)
       /\ Conserved(w, intf, rip, fb, facts, paper, job)
  BY <1>1, <1>5, <1>8, <1>9, <1>12, Advanced
<1>14. /\ intf.state # "up" => k.in = << >>
       /\ rip.state # "up" => rip.in = << >>
  BY <1>11 DEF Inv, Sound, Children
<1>15. Sound(w, k, rip, fb, facts)
  BY <1>3, <1>10, <1>11, <1>13, <1>14, PipesKeep
<1>16. Conserved(w, k, rip, fb, facts, paper, job)
  BY <1>11, <1>13, PipesConserve
<1> QED BY <1>2, <1>15, <1>16 DEF Inv, NoTrouble

\* interface_close().
LEMMA ShutKeeps == ASSUME Inv, Shut PROVE Inv'
<1> DEFINE a == Advance(drv)
           w == [a EXCEPT !.nofault = TRUE, !.wend = FALSE]
           k == [intf EXCEPT !.eof = TRUE]
<1>1. /\ drv.verdict = "none" /\ drv.todo # << >>
      /\ Now(drv) = "shut" /\ NowIn(drv, {"shut"})
  BY AtIs DEF Shut
<1>2. drv' = w /\ intf' = k /\ NoTrouble /\ UNCHANGED <<job, rip, fb, paper>>
  BY DEF Shut
<1>3. /\ drv \in Drivers /\ intf \in Interfaces /\ rip \in RipStates
      /\ Program(drv.todo)
  BY DEF Inv, Sound, Typed
<1>4. Less(drv, a) /\ a.todo = Tail(drv.todo) /\ a.riping = drv.riping
  BY <1>1, <1>3, AdvanceLess
<1>5. a \in Drivers BY <1>4 DEF Less
<1> HIDE DEF a
<1>6. w \in Drivers BY <1>5 DEF Drivers
<1>7. w.todo = a.todo /\ w.riping = a.riping /\ w.nofault = TRUE
  BY <1>5 DEF Drivers
<1>8. Less(drv, w) BY <1>4, <1>5, <1>6, <1>7 DEF Less, Drivers
<1>9. k \in Interfaces BY <1>3 DEF Interfaces
<1>10. /\ k.state = intf.state /\ k.code = intf.code /\ k.in = intf.in
       /\ k.eof = TRUE
  BY <1>3 DEF Interfaces
<1> HIDE DEF w, k
<1>11. NowIn(drv, Walkable \ Data)
  BY <1>1 DEF NowIn, Walkable, PlainNames, Data
<1>12. /\ Sound(w, intf, rip, fb, facts)
       /\ Conserved(w, intf, rip, fb, facts, paper, job)
  BY <1>1, <1>4, <1>7, <1>8, <1>11, Advanced
<1>13. /\ intf.state # "up" => k.in = << >>
       /\ rip.state # "up" => rip.in = << >>
  BY <1>10 DEF Inv, Sound, Children
<1>14. w.todo = << >> \/ NowIn(w, {"drain"})
  <2>1. drv.todo[1][1] = "shut" BY <1>1 DEF Now
  <2>2. Tail(drv.todo) # << >> => Tail(drv.todo)[1][1] = "drain"
    BY <1>1, <1>3, <2>1, TailIs DEF Follows
  <2> QED BY <1>4, <1>7, <2>2 DEF NowIn, Now
<1>15. Sound(w, k, rip, fb, facts)
  BY <1>3, <1>7, <1>9, <1>10, <1>12, <1>13, <1>14, PipesKeep
<1>16. Conserved(w, k, rip, fb, facts, paper, job)
  BY <1>10, <1>12, PipesConserve
<1> QED BY <1>2, <1>15, <1>16 DEF Inv, NoTrouble

\* rip_stop().
LEMMA RipEofKeeps == ASSUME Inv, RipEof PROVE Inv'
<1> DEFINE a == Advance(drv)
           w == [a EXCEPT !.rnofault = TRUE]
           q == [rip EXCEPT !.eof = TRUE]
<1>1. /\ drv.verdict = "none" /\ drv.todo # << >>
      /\ Now(drv) = "ripeof" /\ NowIn(drv, {"ripeof"})
  BY AtIs DEF RipEof
<1>2. drv' = w /\ rip' = q /\ NoTrouble /\ UNCHANGED <<job, intf, fb, paper>>
  BY DEF RipEof
<1>3. /\ drv \in Drivers /\ intf \in Interfaces /\ rip \in RipStates
      /\ Program(drv.todo)
  BY DEF Inv, Sound, Typed
<1>4. Less(drv, a) /\ a.todo = Tail(drv.todo) /\ a.riping = drv.riping
  BY <1>1, <1>3, AdvanceLess
<1>5. a \in Drivers BY <1>4 DEF Less
<1> HIDE DEF a
<1>6. w \in Drivers BY <1>5 DEF Drivers
<1>7. w.todo = a.todo /\ w.riping = a.riping /\ w.rnofault = TRUE
  BY <1>5 DEF Drivers
<1>8. Less(drv, w)
  <2>1. /\ w.intpid = a.intpid /\ w.rippid = a.rippid
        /\ w.icode = a.icode /\ w.rcode = a.rcode
        /\ w.err = a.err /\ w.ghost = a.ghost /\ w.killed = a.killed
        /\ w.nofault = a.nofault /\ w.died = a.died /\ w.rdied = a.rdied
        /\ w.term = a.term /\ w.verdict = a.verdict
    BY <1>5 DEF Drivers
  <2> QED BY <1>4, <1>6, <1>7, <2>1 DEF Less
<1>9. q \in RipStates BY <1>3 DEF RipStates
<1>10. q.state = rip.state /\ q.in = rip.in /\ q.eof = TRUE
  BY <1>3 DEF RipStates
<1> HIDE DEF w, q
<1>11. NowIn(drv, Walkable \ Data)
  BY <1>1 DEF NowIn, Walkable, PlainNames, Data
<1>12. /\ Sound(w, intf, rip, fb, facts)
       /\ Conserved(w, intf, rip, fb, facts, paper, job)
  BY <1>1, <1>4, <1>7, <1>8, <1>11, Advanced
<1>13. /\ intf.state # "up" => intf.in = << >>
       /\ rip.state # "up" => q.in = << >>
  BY <1>10 DEF Inv, Sound, Children
<1>14. w.todo = << >> \/ NowIn(w, {"ripwait0"})
  <2>1. drv.todo[1][1] = "ripeof" BY <1>1 DEF Now
  <2>2. Tail(drv.todo) # << >> => Tail(drv.todo)[1][1] = "ripwait0"
    BY <1>1, <1>3, <2>1, TailIs DEF Follows
  <2> QED BY <1>4, <1>7, <2>2 DEF NowIn, Now
<1>15. Sound(w, intf, q, fb, facts)
  BY <1>3, <1>7, <1>9, <1>10, <1>12, <1>13, <1>14, PipesKeep
<1>16. Conserved(w, intf, q, fb, facts, paper, job)
  BY <1>10, <1>12, PipesConserve
<1> QED BY <1>2, <1>15, <1>16 DEF Inv, NoTrouble

\* pprdrv exits since something has gone wrong just now.
LEMMA TroubledExit ==
  ASSUME Inv, drv.verdict = "none", NEW what \in FactNames \ {"error"},
         Trouble(what), UNCHANGED <<job, children>>,
         NEW code \in ExitCodes \ {"none", "printed"},
         Just(code, drv, facts \cup {what}),
         drv' = HookedExit(drv, code)
  PROVE  Inv'
<1> DEFINE g == facts \cup {what}
<1>1. facts' = g /\ UNCHANGED <<intf, rip, fb, paper>>
  BY DEF Trouble, children
<1>2. g \in SUBSET FactNames
  <2>1. facts \in SUBSET FactNames BY DEF Inv, Sound, Typed
  <2> QED BY <2>1
<1>3. drv \in Drivers BY DEF Inv, Sound, Typed
<1>4. Sound(drv, intf, rip, fb, g) BY <1>2, FactsKeep DEF Inv
<1>5. Conserved(drv, intf, rip, fb, g, paper, job)
  BY <1>2, FactsConserve DEF Inv
<1> HIDE DEF g
<1>6. Sound(HookedExit(drv, code), intf, rip, fb, g)
  BY <1>4, ExitKeeps DEF g
<1>7. Conserved(HookedExit(drv, code), intf, rip, fb, g, paper, job)
  BY <1>3, <1>5, ExitConserves
<1> QED BY <1>1, <1>6, <1>7 DEF Inv

\* start_interface() fails.
LEMMA LaunchFailsKeeps == ASSUME Inv, LaunchFails PROVE Inv'
<1>1. drv.verdict = "none" BY AtIs DEF LaunchFails
<1>2. PICK code \in {"noretry", "prnerr", "starved"} :
        drv' = HookedExit(drv, code)
  BY DEF LaunchFails
<1>3. code \in ExitCodes \ {"none", "printed"}
  BY DEF ExitCodes, InterfaceCodes
<1>4. Just(code, drv, facts \cup {"launch"}) BY DEF Just
<1>5. "launch" \in FactNames \ {"error"} BY DEF FactNames
<1> QED BY <1>1, <1>2, <1>3, <1>4, <1>5, TroubledExit DEF LaunchFails

\* fatal().
LEMMA GivesUpKeeps == ASSUME Inv, GivesUp PROVE Inv'
<1>1. drv.verdict = "none" BY NotEnded DEF GivesUp
<1>2. PICK what \in DOMAIN Defects :
        /\ Trouble(what)
        /\ \E code \in Defects[what] : drv' = HookedExit(drv, code)
  BY DEF GivesUp
<1>3. PICK code \in Defects[what] : drv' = HookedExit(drv, code) BY <1>2
<1>4. \/ what = "file" /\ code \in {"joberr", "noretry"}
      \/ what = "setup" /\ code \in {"joberr", "noretry", "prnerr", "starved"}
  BY <1>3 DEF Defects
<1>5. code \in ExitCodes \ {"none", "printed"}
  BY <1>4 DEF ExitCodes, InterfaceCodes
<1>6. Just(code, drv, facts \cup {what}) BY <1>4 DEF Just
<1>7. what \in FactNames \ {"error"} BY <1>4 DEF FactNames
<1>8. UNCHANGED <<job, children>> BY DEF GivesUp
<1> QED BY <1>1, <1>2, <1>3, <1>5, <1>6, <1>7, <1>8, TroubledExit

\* writemon_sleep_time(): PageTimeLimit.
LEMMA PageTimeLimitKeeps == ASSUME Inv, PageTimeLimit PROVE Inv'
<1>1. drv.verdict = "none" BY NotEnded DEF PageTimeLimit, AtBlock, AtWait
<1>2. "joberr" \in ExitCodes \ {"none", "printed"}
  BY DEF ExitCodes, InterfaceCodes
<1>3. Just("joberr", drv, facts \cup {"slow"}) BY DEF Just
<1>4. "slow" \in FactNames \ {"error"} BY DEF FactNames
<1> QED BY <1>1, <1>2, <1>3, <1>4, TroubledExit DEF PageTimeLimit

\* rip_start() fails.
LEMMA RipStartFailsKeeps == ASSUME Inv, RipStartFails PROVE Inv'
<1>1. drv.verdict = "none" BY AtIs DEF RipStartFails
<1>2. PICK code \in {"noretry", "prnerr"} : drv' = HookedExit(drv, code)
  BY DEF RipStartFails
<1>3. code \in ExitCodes \ {"none", "printed"}
  BY DEF ExitCodes, InterfaceCodes
<1>4. Just(code, drv, facts \cup {"launch"}) BY DEF Just
<1>5. "launch" \in FactNames \ {"error"} BY DEF FactNames
<1> QED BY <1>1, <1>2, <1>3, <1>4, <1>5, TroubledExit DEF RipStartFails

\* start_interface() has waited long enough.
LEMMA HandshakeTimeoutKeeps == ASSUME Inv, HandshakeTimeout PROVE Inv'
<1>1. drv.verdict = "none" BY AtIs DEF HandshakeTimeout
<1>2. Trouble("handshake") /\ UNCHANGED <<job, children>>
  BY DEF HandshakeTimeout
<1>3. CASE drv' = HookedExit(drv, "noretry")
  <2>1. "noretry" \in ExitCodes \ {"none", "printed"}
    BY DEF ExitCodes, InterfaceCodes
  <2>2. Just("noretry", drv, facts \cup {"handshake"}) BY DEF Just
  <2>3. "handshake" \in FactNames \ {"error"} BY DEF FactNames
  <2> QED BY <1>1, <1>2, <1>3, <2>1, <2>2, <2>3, TroubledExit
<1>4. CASE drv' = FaultCheck(drv)
  <2> DEFINE g == facts \cup {"handshake"}
  <2>1. facts' = g /\ UNCHANGED <<intf, rip, fb, paper>>
    BY <1>2 DEF Trouble, children
  <2>2. g \in SUBSET FactNames
    <3>1. facts \in SUBSET FactNames BY DEF Inv, Sound, Typed
    <3> QED BY <3>1 DEF FactNames
  <2>3. /\ Sound(FaultCheck(drv), intf, rip, fb, facts)
        /\ Conserved(FaultCheck(drv), intf, rip, fb, facts, paper, job)
    BY <1>1, Faulted
  <2>4. Sound(FaultCheck(drv), intf, rip, fb, g) BY <2>2, <2>3, FactsKeep
  <2>5. Conserved(FaultCheck(drv), intf, rip, fb, g, paper, job)
    BY <2>2, <2>3, FactsConserve
  <2> HIDE DEF g
  <2> QED BY <1>2, <1>4, <2>1, <2>4, <2>5 DEF Inv
<1> QED BY <1>3, <1>4 DEF HandshakeTimeout

\* What is told of the RIP when it is started.
LEMMA RipStartIs ==
  ASSUME NEW v \in Drivers, v.verdict = "none", v.todo # << >>
  PROVE  LET w == [Advance(v) EXCEPT !.rippid = TRUE, !.riping = TRUE,
                                     !.rdied = FALSE, !.rnofault = FALSE]
         IN  /\ w \in Drivers /\ w.todo = Tail(v.todo) /\ w.verdict = "none"
             /\ w.intpid = v.intpid /\ w.died = v.died
             /\ w.nofault = v.nofault /\ w.icode = v.icode
             /\ w.rcode = v.rcode /\ w.term = v.term /\ w.err = v.err
             /\ w.ghost = v.ghost /\ w.killed = v.killed
             /\ w.rippid = TRUE /\ w.riping = TRUE /\ w.rdied = FALSE
             /\ w.rnofault = FALSE
<1> DEFINE t == Tail(v.todo)
           a == [v EXCEPT !.todo = t, !.phase = "run"]
           w == [a EXCEPT !.rippid = TRUE, !.riping = TRUE,
                          !.rdied = FALSE, !.rnofault = FALSE]
<1>1. t \in Seq(Acts)
  <2>1. v.todo \in Seq(Acts) BY DEF Drivers
  <2> QED BY <2>1
<1> HIDE DEF t
<1>2. a \in Drivers BY <1>1 DEF Drivers
<1>3. /\ a.todo = t /\ a.verdict = "none"
      /\ a.intpid = v.intpid /\ a.died = v.died
      /\ a.nofault = v.nofault /\ a.icode = v.icode
      /\ a.rcode = v.rcode /\ a.term = v.term /\ a.err = v.err
      /\ a.ghost = v.ghost /\ a.killed = v.killed
  BY DEF Drivers
<1>4. Advance(v) = a BY DEF Advance, t
<1> HIDE DEF a
<1>5. w \in Drivers BY <1>2 DEF Drivers
<1>6. /\ w.todo = a.todo /\ w.verdict = a.verdict
      /\ w.intpid = a.intpid /\ w.died = a.died
      /\ w.nofault = a.nofault /\ w.icode = a.icode
      /\ w.rcode = a.rcode /\ w.term = a.term /\ w.err = a.err
      /\ w.ghost = a.ghost /\ w.killed = a.killed
  BY <1>2 DEF Drivers
<1>7. /\ w.rippid = TRUE /\ w.riping = TRUE /\ w.rdied = FALSE
      /\ w.rnofault = FALSE
  BY <1>2 DEF Drivers
<1> HIDE DEF w
<1>8. /\ w \in Drivers /\ w.todo = Tail(v.todo) /\ w.verdict = "none"
      /\ w.intpid = v.intpid /\ w.died = v.died
      /\ w.nofault = v.nofault /\ w.icode = v.icode
      /\ w.rcode = v.rcode /\ w.term = v.term /\ w.err = v.err
      /\ w.ghost = v.ghost /\ w.killed = v.killed
      /\ w.rippid = TRUE /\ w.riping = TRUE /\ w.rdied = FALSE
      /\ w.rnofault = FALSE
  BY <1>3, <1>5, <1>6, <1>7 DEF t
<1> QED BY <1>4, <1>8 DEF w

\* rip_start().
LEMMA RipStartKeeps == ASSUME Inv, RipStart PROVE Inv'
<1> DEFINE w == [Advance(drv) EXCEPT !.rippid = TRUE, !.riping = TRUE,
                                     !.rdied = FALSE, !.rnofault = FALSE]
           t == drv.todo
           u == Tail(t)
<1>1. /\ drv.verdict = "none" /\ t # << >>
      /\ Now(drv) = "rip" /\ NowIn(drv, {"rip"})
  BY AtIs DEF RipStart
<1>2. drv' = w /\ UNCHANGED <<job, intf, fb, paper>> BY DEF RipStart
<1>3. PICK q, g :
        /\ q \in RipStates /\ rip' = q /\ q.in = << >> /\ q.eof = FALSE
        /\ facts' = g /\ g \in SUBSET FactNames /\ facts \subseteq g
        /\ ("error" \in g => "error" \in facts)
        /\ q.state \in {"up", "dead"}
        /\ (q.state = "dead" => "rip" \in g)
  <2>1. facts \in SUBSET FactNames BY DEF Inv, Sound, Typed
  <2>2. CASE rip' = [state |-> "up", in |-> << >>, eof |-> FALSE] /\ NoTrouble
    <3> DEFINE q == [state |-> "up", in |-> << >>, eof |-> FALSE]
    <3>1. /\ q \in RipStates /\ q.in = << >> /\ q.eof = FALSE
          /\ q.state = "up"
      BY DEF RipStates
    <3> HIDE DEF q
    <3> QED BY <2>1, <2>2, <3>1 DEF NoTrouble, q
  <2>3. CASE /\ rip' = [state |-> "dead", in |-> << >>, eof |-> FALSE]
             /\ Trouble("rip")
    <3> DEFINE q == [state |-> "dead", in |-> << >>, eof |-> FALSE]
               g == facts \cup {"rip"}
    <3>1. /\ q \in RipStates /\ q.in = << >> /\ q.eof = FALSE
          /\ q.state = "dead"
      BY DEF RipStates
    <3>2. /\ g \in SUBSET FactNames /\ facts \subseteq g /\ "rip" \in g
          /\ ("error" \in g => "error" \in facts)
      BY <2>1 DEF FactNames
    <3>3. rip' = q /\ facts' = g BY <2>3 DEF Trouble
    <3> HIDE DEF q, g
    <3> QED BY <3>1, <3>2, <3>3
  <2> QED BY <2>2, <2>3 DEF RipStart
<1>4. drv \in Drivers /\ Program(t) BY DEF Inv, Sound, Typed
<1>5. /\ w \in Drivers /\ w.todo = u /\ w.verdict = "none"
      /\ w.intpid = drv.intpid /\ w.died = drv.died
      /\ w.nofault = drv.nofault /\ w.icode = drv.icode
      /\ w.rcode = drv.rcode /\ w.term = drv.term /\ w.err = drv.err
      /\ w.ghost = drv.ghost /\ w.killed = drv.killed
      /\ w.rippid = TRUE /\ w.riping = TRUE /\ w.rdied = FALSE
      /\ w.rnofault = FALSE
  BY <1>1, <1>4, RipStartIs
<1> HIDE DEF w
<1>6. ~ EndsIn(drv, "ifault") /\ ~ EndsIn(drv, "ripverdict")
      /\ drv.killed = {}
  BY <1>1, Ordinary
<1>7. intf.state # "none" /\ ~ intf.eof
  <2>1. Places(drv, intf, rip, fb) BY DEF Inv, Sound
  <2> QED BY <1>1, <2>1 DEF Places
<1>8. /\ Program(u)
      /\ u # << >> => /\ Follows("rip", u[1][1])
                      /\ Final(u) = Final(t)
  <2>1. t[1][1] = "rip" BY <1>1 DEF Now
  <2> QED BY <1>1, <1>4, <2>1, TailIs
<1>9. intf.state \in {"closed", "dead"} => facts # {}
  <2>1. intf.state \in {"closed", "dead"} => intf.code # "none"
    BY DEF Inv, Sound, Children
  <2> QED BY <1>7, <2>1 DEF Inv, Sound, Reasons
<1>10. w.todo # << >> =>
         Now(w) \notin {"main", "epipe", "launch", "ripverdict", "verdict",
                        "reap", "ifault", "ripscreen"}
  BY <1>5, <1>8 DEF Follows, Now
<1>11. \A name : EndsIn(w, name) => EndsIn(drv, name)
  BY <1>1, <1>5, <1>8 DEF EndsIn
<1> HIDE DEF u, t
<1>12. Sound(w, intf, q, fb, g)
  <2>1. Typed(w, intf, q, fb, g) BY <1>3, <1>5 DEF Inv, Sound, Typed
  <2>2. Program(w.todo) BY <1>5, <1>8
  <2>3. Children(w, intf, q)
    BY <1>3, <1>5, <1>7 DEF Inv, Sound, Children
  <2>4. Places(w, intf, q, fb)
    BY <1>3, <1>5, <1>7, <1>10 DEF Places, NowIn
  <2>5. Modes(w, intf, q, g) BY <1>5, <1>6, <1>11 DEF Modes
  <2>6. Reasons(w, intf, q, fb, g)
    <3>1. Reasons(drv, intf, rip, fb, facts) BY DEF Inv, Sound
    <3> QED BY <1>3, <1>5, <1>9, <1>10, <3>1 DEF Reasons, NowIn
  <2>7. Just(w.verdict, w, g) BY <1>5 DEF Just
  <2> QED BY <1>5, <2>1, <2>2, <2>3, <2>4, <2>5, <2>6, <2>7 DEF Sound
<1>13. ASSUME EndsIn(w, "verdict")
       PROVE  /\ ScreenAhead(w.todo, 0) /\ w.rcode \notin Lost
              /\ Loops(RealMain(job)) => Loops(w.todo)
              /\ Whole(w, intf, q, g, paper, job)
  <2>1. EndsIn(drv, "verdict") BY <1>11, <1>13
  <2>2. t[1][1] = "rip" BY <1>1 DEF Now, t
  <2>3. /\ ScreenAhead(u, 0) /\ (Loops(u) <=> Loops(t))
        /\ DataOf(u) = DataOf(t)
    BY <1>1, <1>4, <2>2, TailAhead DEF Data, u
  <2>4. ~ ScreenAhead(t, 0)
    <3> SUFFICES ASSUME NEW k \in 1 .. Len(t), k > 0, t[k][1] = "ripscreen",
                        \A m \in 0 + 1 .. k - 1 : t[m][1] # "rip"
                 PROVE  FALSE
      BY DEF ScreenAhead
    <3>1. k # 1 BY <2>2
    <3>2. t \in Seq(Acts) BY <1>4 DEF Program
    <3>3. Len(t) \in Nat BY <3>2
    <3>4. 1 \in 0 + 1 .. k - 1 BY <3>1, <3>3
    <3> QED BY <2>2, <3>4
  <2>5. ~ drv.riping BY <2>1, <2>4 DEF Inv, Conserved, t
  <2>6. rip.in = << >> /\ drv.rcode \notin Lost
    BY <2>5 DEF Inv, Sound, Children, Conserved
  <2>7. /\ Loops(RealMain(job)) => Loops(t)
        /\ Whole(drv, intf, rip, facts, paper, job)
    BY <2>1 DEF Inv, Conserved, t
  <2> QED BY <1>3, <1>5, <2>3, <2>6, <2>7 DEF Whole, t
<1>14. Conserved(w, intf, q, fb, g, paper, job)
  <2>1. ~ NowIn(w, {"main"}) BY <1>10 DEF NowIn
  <2> QED BY <1>3, <1>5, <1>13, <2>1 DEF Inv, Conserved
<1> QED BY <1>2, <1>3, <1>12, <1>14 DEF Inv

\* What is told of the interface when it is started.
LEMMA LaunchIs ==
  ASSUME NEW v \in Drivers, v.verdict = "none", v.todo # << >>
  PROVE  LET w == [Advance(v) EXCEPT
                     !.intpid = TRUE, !.died = FALSE, !.nofault = FALSE,
                     !.usr1 = FALSE, !.wend = TRUE, !.dcount = 0,
                     !.seen = FALSE, !.active = FALSE]
         IN  /\ w \in Drivers /\ w.todo = Tail(v.todo) /\ w.verdict = "none"
             /\ w.rippid = v.rippid /\ w.rdied = v.rdied
             /\ w.rnofault = v.rnofault /\ w.icode = v.icode
             /\ w.rcode = v.rcode /\ w.term = v.term /\ w.err = v.err
             /\ w.ghost = v.ghost /\ w.killed = v.killed
             /\ w.riping = v.riping
             /\ w.intpid = TRUE /\ w.died = FALSE /\ w.nofault = FALSE
<1> DEFINE t == Tail(v.todo)
           a == [v EXCEPT !.todo = t, !.phase = "run"]
           w == [a EXCEPT !.intpid = TRUE, !.died = FALSE, !.nofault = FALSE,
                          !.usr1 = FALSE, !.wend = TRUE, !.dcount = 0,
                          !.seen = FALSE, !.active = FALSE]
<1>1. t \in Seq(Acts)
  <2>1. v.todo \in Seq(Acts) BY DEF Drivers
  <2> QED BY <2>1
<1> HIDE DEF t
<1>2. a \in Drivers BY <1>1 DEF Drivers
<1>3. /\ a.todo = t /\ a.verdict = "none"
      /\ a.rippid = v.rippid /\ a.rdied = v.rdied
      /\ a.rnofault = v.rnofault /\ a.icode = v.icode
      /\ a.rcode = v.rcode /\ a.term = v.term /\ a.err = v.err
      /\ a.ghost = v.ghost /\ a.killed = v.killed
      /\ a.riping = v.riping
  BY DEF Drivers
<1>4. Advance(v) = a BY DEF Advance, t
<1> HIDE DEF a
<1>5. w \in Drivers
  <2> DEFINE i == [a EXCEPT !.intpid = TRUE, !.died = FALSE]
             b == [i EXCEPT !.nofault = FALSE, !.usr1 = FALSE]
             d == [b EXCEPT !.wend = TRUE, !.seen = FALSE, !.active = FALSE]
             zero == 0
             c == [d EXCEPT !.dcount = zero]
  <2>1. w = c BY <1>2 DEF Drivers
  <2>0. i \in Drivers BY <1>2 DEF Drivers
  <2> HIDE DEF i
  <2>2. b \in Drivers BY <2>0 DEF Drivers
  <2> HIDE DEF b
  <2>3. d \in Drivers BY <2>2 DEF Drivers
  <2>4. zero \in Int OBVIOUS
  <2> HIDE DEF d, zero
  <2>5. c \in Drivers BY <2>3, <2>4 DEF Drivers
  <2> HIDE DEF c, w
  <2> QED BY <2>1, <2>5
<1>6. /\ w.todo = a.todo /\ w.verdict = a.verdict
      /\ w.rippid = a.rippid /\ w.rdied = a.rdied
      /\ w.rnofault = a.rnofault /\ w.icode = a.icode
      /\ w.rcode = a.rcode /\ w.term = a.term /\ w.err = a.err
      /\ w.ghost = a.ghost /\ w.killed = a.killed
      /\ w.riping = a.riping
  BY <1>2 DEF Drivers
<1>7. w.intpid = TRUE /\ w.died = FALSE /\ w.nofault = FALSE
  BY <1>2 DEF Drivers
<1> HIDE DEF w
<1>8. /\ w \in Drivers /\ w.todo = Tail(v.todo) /\ w.verdict = "none"
      /\ w.rippid = v.rippid /\ w.rdied = v.rdied
      /\ w.rnofault = v.rnofault /\ w.icode = v.icode
      /\ w.rcode = v.rcode /\ w.term = v.term /\ w.err = v.err
      /\ w.ghost = v.ghost /\ w.killed = v.killed
      /\ w.riping = v.riping
      /\ w.intpid = TRUE /\ w.died = FALSE /\ w.nofault = FALSE
  BY <1>3, <1>5, <1>6, <1>7 DEF t
<1> QED BY <1>4, <1>8 DEF w

\* start_interface().
LEMMA LaunchKeeps == ASSUME Inv, Launch PROVE Inv'
<1> DEFINE w == [Advance(drv) EXCEPT
                   !.intpid = TRUE, !.died = FALSE, !.nofault = FALSE,
                   !.usr1 = FALSE, !.wend = TRUE, !.dcount = 0,
                   !.seen = FALSE, !.active = FALSE]
           k == [state |-> "up", in |-> << >>, eof |-> FALSE,
                 asked |-> job.jobbreak \in {"signal", "signal/pjl"},
                 owes |-> << >>, code |-> "none"]
           g == IF drv.icode \in {"none", "printed"} THEN facts
                ELSE facts \cup {"ignored"}
           e == << >>
           t == drv.todo
           u == Tail(t)
<1>1. /\ drv.verdict = "none" /\ t # << >>
      /\ Now(drv) = "launch" /\ NowIn(drv, {"launch"})
  BY AtIs DEF Launch
<1>2. /\ drv' = w /\ intf' = k /\ fb' = e /\ facts' = g
      /\ UNCHANGED <<job, rip, paper>>
  BY DEF Launch
<1>3. /\ k \in Interfaces /\ k.state = "up" /\ k.in = << >> /\ k.eof = FALSE
      /\ k.code = "none"
  BY DEF Interfaces
<1>4. /\ g \in SUBSET FactNames /\ facts \subseteq g
      /\ ("error" \in g => "error" \in facts)
      /\ (drv.icode \notin {"none", "printed"} => "ignored" \in g)
  <2>1. facts \in SUBSET FactNames BY DEF Inv, Sound, Typed
  <2> QED BY <2>1 DEF FactNames
<1>5. drv \in Drivers /\ Program(t) BY DEF Inv, Sound, Typed
<1>6. /\ w \in Drivers /\ w.todo = u /\ w.verdict = "none"
      /\ w.rippid = drv.rippid /\ w.rdied = drv.rdied
      /\ w.rnofault = drv.rnofault /\ w.icode = drv.icode
      /\ w.rcode = drv.rcode /\ w.term = drv.term /\ w.err = drv.err
      /\ w.ghost = drv.ghost /\ w.killed = drv.killed
      /\ w.riping = drv.riping
      /\ w.intpid = TRUE /\ w.died = FALSE /\ w.nofault = FALSE
  BY <1>1, <1>5, LaunchIs
<1> HIDE DEF w, k, g
<1>7. ~ EndsIn(drv, "ifault") /\ ~ EndsIn(drv, "ripverdict")
      /\ drv.killed = {}
  BY <1>1, Ordinary
<1>8. /\ intf.state \in {"none", "dead"} /\ rip.state # "up" /\ fb = << >>
      /\ ~ (rip.eof /\ drv.riping)
  <2>1. Places(drv, intf, rip, fb) BY DEF Inv, Sound
  <2> QED BY <1>1, <1>7, <2>1 DEF Places, NowIn, EndsIn
<1>9. /\ Program(u)
      /\ u # << >> => /\ Follows("launch", u[1][1])
                      /\ Final(u) = Final(t)
  <2>1. t[1][1] = "launch" BY <1>1 DEF Now
  <2> QED BY <1>1, <1>5, <2>1, TailIs
<1>10. w.todo # << >> =>
         Now(w) \notin {"main", "epipe", "launch", "ripverdict", "verdict",
                        "reap", "ifault", "ripscreen"}
  BY <1>6, <1>9 DEF Follows, Now
<1>11. \A name : EndsIn(w, name) => EndsIn(drv, name)
  BY <1>1, <1>6, <1>9 DEF EndsIn
<1>12. Len(e) = 0 /\ e \in Seq(Messages) /\ e = << >> OBVIOUS
<1> HIDE DEF u, t, e
<1>13. Sound(w, k, rip, e, g)
  <2>1. Typed(w, k, rip, e, g)
    BY <1>3, <1>4, <1>6, <1>12 DEF Inv, Sound, Typed
  <2>2. Program(w.todo) BY <1>6, <1>9
  <2>3. Children(w, k, rip)
    BY <1>3, <1>6, <1>8 DEF Inv, Sound, Children
  <2>4. Places(w, k, rip, e)
    BY <1>3, <1>6, <1>8, <1>10 DEF Places, NowIn
  <2>5. Modes(w, k, rip, g) BY <1>6, <1>7, <1>11 DEF Modes
  <2>6. Reasons(w, k, rip, e, g)
    <3>1. Reasons(drv, intf, rip, fb, facts) BY DEF Inv, Sound
    <3>2. \A n \in 1 .. Len(e) : FALSE BY <1>12
    <3> QED BY <1>3, <1>4, <1>6, <1>8, <1>10, <3>1, <3>2 DEF Reasons, NowIn
  <2>7. Just(w.verdict, w, g) BY <1>6 DEF Just
  <2> QED BY <1>6, <2>1, <2>2, <2>3, <2>4, <2>5, <2>6, <2>7 DEF Sound
<1>14. ASSUME EndsIn(w, "verdict")
       PROVE  /\ w.riping => ScreenAhead(w.todo, 0)
              /\ Loops(RealMain(job)) => Loops(w.todo)
              /\ Whole(w, k, rip, g, paper, job)
  <2>1. EndsIn(drv, "verdict") BY <1>11, <1>14
  <2>2. t[1][1] = "launch" BY <1>1 DEF Now, t
  <2>3. /\ (ScreenAhead(t, 0) => ScreenAhead(u, 0))
        /\ (Loops(u) <=> Loops(t)) /\ DataOf(u) = DataOf(t)
    BY <1>1, <1>5, <2>2, TailAhead DEF Data, u
  <2>4. intf.in = << >> BY <1>8 DEF Inv, Sound, Children
  <2>5. intf.code \notin {"none", "printed"} => "ignored" \in g
    <3>1. intf.code # "none" => drv.icode = intf.code
      BY <1>8 DEF Inv, Sound, Children
    <3> QED BY <1>4, <3>1
  <2>6. /\ drv.riping => ScreenAhead(t, 0)
        /\ Loops(RealMain(job)) => Loops(t)
        /\ Whole(drv, intf, rip, facts, paper, job)
    BY <2>1 DEF Inv, Conserved, t
  <2> QED BY <1>3, <1>4, <1>6, <2>3, <2>4, <2>5, <2>6 DEF Whole, t
<1>15. Conserved(w, k, rip, e, g, paper, job)
  <2>1. ~ NowIn(w, {"main"}) BY <1>10 DEF NowIn
  <2>2. "error" \in facts => drv.err
    <3>1. Len(fb) = 0 BY <1>8
    <3>2. \A n \in 1 .. Len(fb) : FALSE BY <3>1
    <3> QED BY <3>2 DEF Inv, Conserved
  <2> QED BY <1>4, <1>6, <1>8, <1>14, <2>1, <2>2 DEF Inv, Conserved
<1> QED BY <1>2, <1>13, <1>15 DEF Inv

\* What is given to Sound() and Conserved() after a signal handler.
LEMMA WakeIs ==
  ASSUME NEW v \in Drivers
  PROVE  /\ Wake(v) \in Drivers
         /\ Hears(v, Wake(v)) /\ Wake(v).err = v.err /\ Wake(v).ghost = v.ghost
         /\ v.phase = "run" => Wake(v).phase = "run"
<1> DEFINE w == [v EXCEPT !.phase = "intr"]
<1>1. w \in Drivers BY DEF Drivers
<1>2. Hears(v, w) /\ w.err = v.err /\ w.ghost = v.ghost
  BY DEF Hears, Drivers
<1> HIDE DEF w
<1>3. CASE v.phase = "asleep"
  <2>1. Wake(v) = w BY <1>3 DEF Wake, w
  <2> QED BY <1>1, <1>2, <1>3, <2>1
<1>4. CASE v.phase # "asleep"
  <2>1. Wake(v) = v BY <1>4 DEF Wake
  <2> QED BY <2>1 DEF Hears
<1> QED BY <1>3, <1>4

\* A signal handler runs, and pprdrv is where it was.
LEMMA WakeKeeps ==
  ASSUME NEW v, NEW i, NEW r, NEW b, NEW f, Sound(v, i, r, b, f)
  PROVE  Sound(Wake(v), i, r, b, f)
<1> DEFINE w == Wake(v)
<1>1. v \in Drivers BY DEF Sound, Typed
<1>2. /\ w \in Drivers /\ Hears(v, w) /\ w.err = v.err /\ w.ghost = v.ghost
      /\ (v.phase = "run" => w.phase = "run")
  BY <1>1, WakeIs
<1> HIDE DEF w
<1>3. Typed(w, i, r, b, f) /\ Program(w.todo) BY <1>2 DEF Sound, Typed, Hears
<1>4. Children(w, i, r) BY <1>2 DEF Sound, Children, Hears
<1>5. Places(w, i, r, b) BY <1>2 DEF Sound, Places, Hears, NowIn, Now
<1>6. Modes(w, i, r, f) BY <1>2 DEF Sound, Modes, Hears, EndsIn, Now
<1>7. Reasons(w, i, r, b, f) BY <1>2 DEF Sound, Reasons, Hears, NowIn, Now
<1>8. Just(w.verdict, w, f) BY <1>2 DEF Sound, Just, Hears
<1>9. w.verdict # "none" => Alone(w, i, r) BY <1>2 DEF Sound, Alone, Hears
<1> QED BY <1>3, <1>4, <1>5, <1>6, <1>7, <1>8, <1>9 DEF Sound, w

\* A signal handler loses nothing.
LEMMA WakeConserves ==
  ASSUME NEW v \in Drivers, NEW i, NEW r, NEW b, NEW f, NEW p, NEW j,
         Conserved(v, i, r, b, f, p, j)
  PROVE  Conserved(Wake(v), i, r, b, f, p, j)
<1> DEFINE w == Wake(v)
<1>1. Hears(v, w) /\ w.err = v.err BY WakeIs
<1> HIDE DEF w
<1>2. Conserved(w, i, r, b, f, p, j)
  BY <1>1 DEF Conserved, Hears, Whole, NowIn, Now, EndsIn
<1> QED BY <1>2 DEF w

\* The answer of feedback_reader() is in fb no more.
LEMMA FeedbackReadyKeeps == ASSUME Inv, FeedbackReady PROVE Inv'
<1>1. drv.verdict = "none" /\ drv.todo # << >>
  BY AmongIs DEF FeedbackReady, AtWait, AtBlock
<1>2. NoTrouble /\ UNCHANGED <<job, intf, rip, paper>> BY DEF FeedbackReady
<1>3. drv \in Drivers /\ fb \in Seq(Messages) BY DEF Inv, Sound, Typed
<1>4. CASE FaultCheck(drv) # drv
  <2>1. drv' = FaultCheck(drv) /\ fb' = fb BY <1>4 DEF FeedbackReady
  <2>2. /\ Sound(FaultCheck(drv), intf, rip, fb, facts)
        /\ Conserved(FaultCheck(drv), intf, rip, fb, facts, paper, job)
    BY <1>1, Faulted
  <2> QED BY <1>2, <2>1, <2>2 DEF Inv, NoTrouble
<1>5. CASE FaultCheck(drv) = drv
  <2> DEFINE x == FeedbackReader(drv, fb)
             v == [x EXCEPT !.phase = "run"]
             e == << >>
             a == Advance(v)
  <2>1. /\ fb' = e
        /\ drv' = IF At("ripwait0") THEN a
                  ELSE IF At("pjlend") THEN KeepAlive(v) ELSE v
    BY <1>5 DEF FeedbackReady
  <2>2. /\ Sound(x, intf, rip, e, facts)
        /\ Conserved(x, intf, rip, e, facts, paper, job)
    BY <1>1, FeedbackKeeps, FeedbackConserves DEF Inv
  <2>3. x \in Drivers /\ Hears(drv, x) BY <1>3, FeedbackIs DEF Heard
  <2> HIDE DEF x, e
  <2>4. x.verdict = "none" /\ x.todo = drv.todo BY <1>1, <2>3 DEF Hears
  <2>5. Less(x, v) /\ v.todo = x.todo /\ v.riping = x.riping
    BY <2>3, <2>4, PhaseLess
  <2>6. v \in Drivers /\ v.verdict = "none" /\ v.rcode = x.rcode
    BY <2>5 DEF Less
  <2> HIDE DEF v
  <2>7. Sound(v, intf, rip, e, facts) BY <2>2, <2>5, SameKeeps
  <2>8. ~ v.riping => v.rcode \notin Lost BY <2>2, <2>5, <2>6 DEF Conserved
  <2>9. Conserved(v, intf, rip, e, facts, paper, job)
    BY <2>2, <2>5, <2>8, SameConserves
  <2>10. CASE ~ At("ripwait0") /\ ~ At("pjlend")
    <3>1. drv' = v BY <2>1, <2>10
    <3> QED BY <1>2, <2>1, <2>7, <2>9, <3>1 DEF Inv, NoTrouble
  <2>12. CASE ~ At("ripwait0") /\ At("pjlend")
    <3>1. drv' = KeepAlive(v) BY <2>1, <2>12
    <3>2. Now(drv) = "pjlend" BY <2>12, AtIs
    <3>3. v.todo # << >> /\ Now(v) = "pjlend"
      BY <1>1, <2>4, <2>5, <3>2 DEF Now
    <3>4. /\ Sound(KeepAlive(v), intf, rip, e, facts)
          /\ Conserved(KeepAlive(v), intf, rip, e, facts, paper, job)
      BY <2>6, <2>7, <2>9, <3>3, KeepAliveKeeps
    <3> QED BY <1>2, <2>1, <3>1, <3>4 DEF Inv, NoTrouble
  <2>11. CASE At("ripwait0")
    <3>1. drv' = a BY <2>1, <2>11
    <3>2. Now(drv) = "ripwait0" BY <2>11, AtIs
    <3>3. v.todo # << >> /\ Now(v) = "ripwait0"
      BY <1>1, <2>4, <2>5, <3>2 DEF Now
    <3>4. NowIn(v, Walkable) /\ NowIn(v, Walkable \ Data)
      BY <3>3 DEF NowIn, Walkable, PlainNames, Data
    <3>5. Less(v, a) /\ a.todo = Tail(v.todo) /\ a.riping = v.riping
      BY <2>6, <3>3, AdvanceLess
    <3>6. a.rcode = v.rcode BY <3>5 DEF Less
    <3> HIDE DEF a
    <3>7. Sound(a, intf, rip, e, facts)
      BY <2>7, <3>3, <3>4, <3>5, StepKeeps
    <3>8. Program(v.todo) BY <2>7 DEF Sound
    <3>9. Conserved(a, intf, rip, e, facts, paper, job)
      BY <2>8, <2>9, <3>3, <3>4, <3>5, <3>6, <3>8, StepConserves
    <3> QED BY <1>2, <2>1, <3>1, <3>7, <3>9 DEF Inv, NoTrouble
  <2> QED BY <2>10, <2>11, <2>12
<1> QED BY <1>4, <1>5

\* Sequences end to end, however they are grouped.
LEMMA Grouped ==
  \A x, y, z \in Seq(Acts) : (x \o y) \o z = x \o (y \o z)
BY ConcatAssociative

\* What goes from one pipe into the next, or onto paper, is not lost.
LEMMA Regroup ==
  \A a, b, c, d, e \in Seq(Acts) :
    /\ ((a \o b) \o (c \o d)) \o e = ((a \o b) \o c) \o (d \o e)
    /\ ((a \o (b \o d)) \o << >>) \o e = ((a \o b) \o << >>) \o (d \o e)
    /\ (((a \o d) \o b) \o c) \o e = ((a \o (d \o b)) \o c) \o e
    /\ ((a \o (b \o d)) \o c) \o e = ((a \o b) \o (d \o c)) \o e
<1> DEFINE S == Acts
<1> SUFFICES ASSUME NEW a \in Seq(S), NEW b \in Seq(S), NEW c \in Seq(S),
                    NEW d \in Seq(S), NEW e \in Seq(S)
             PROVE  /\ ((a \o b) \o (c \o d)) \o e
                         = ((a \o b) \o c) \o (d \o e)
                    /\ ((a \o (b \o d)) \o << >>) \o e
                         = ((a \o b) \o << >>) \o (d \o e)
                    /\ (((a \o d) \o b) \o c) \o e
                         = ((a \o (d \o b)) \o c) \o e
                    /\ ((a \o (b \o d)) \o c) \o e
                         = ((a \o b) \o (d \o c)) \o e
  OBVIOUS
<1>2. \A x, y, z \in Seq(S) : (x \o y) \o z = x \o (y \o z) BY Grouped
<1> DEFINE G(x, y, z) == (x \o y) \o z = x \o (y \o z)
<1>g. \A x, y, z \in Seq(S) : G(x, y, z) BY <1>2
<1> HIDE DEF S, G
<1> DEFINE ab == a \o b
<1>1. \A x, y \in Seq(S) : x \o y \in Seq(S) OBVIOUS
<1>3. \A x \in Seq(S) : x \o << >> = x OBVIOUS
<1>4. ab \in Seq(S) BY <1>1
<1>5. a \o (b \o d) = ab \o d
  <2>1. G(a, b, d) BY <1>g
  <2> QED BY <2>1 DEF G
<1>6. (a \o d) \o b = a \o (d \o b) BY <1>2
<1>7. (ab \o d) \o c = ab \o (d \o c) BY <1>2, <1>4
<1>8. (ab \o (c \o d)) \o e = (ab \o c) \o (d \o e)
  <2> DEFINE x == ab \o c
  <2>1. x \in Seq(S) BY <1>1, <1>4
  <2>2. ab \o (c \o d) = x \o d BY <1>2, <1>4
  <2> HIDE DEF x
  <2>3. (x \o d) \o e = x \o (d \o e) BY <1>2, <2>1
  <2> QED BY <2>2, <2>3 DEF x
<1>9. (ab \o d) \o e = ab \o (d \o e) BY <1>2, <1>4
<1>10. (ab \o d) \o << >> = ab \o d /\ ab \o << >> = ab BY <1>1, <1>3, <1>4
<1> HIDE DEF ab
<1>11. ((ab \o d) \o << >>) \o e = (ab \o << >>) \o (d \o e)
  BY <1>9, <1>10
<1> QED BY <1>5, <1>6, <1>7, <1>8, <1>11 DEF ab

\* The same, with a name for it that the provers do not look behind.
Cat(x, y) == x \o y

\* Concatenation is associative.
LEMMA Recat ==
  \A a, b, c, d, e \in Seq(Acts) :
    /\ Cat(Cat(Cat(a, b), Cat(c, d)), e) = Cat(Cat(Cat(a, b), c), Cat(d, e))
    /\ Cat(Cat(Cat(a, Cat(b, d)), << >>), e)
         = Cat(Cat(Cat(a, b), << >>), Cat(d, e))
    /\ Cat(Cat(Cat(Cat(a, d), b), c), e) = Cat(Cat(Cat(a, Cat(d, b)), c), e)
    /\ Cat(Cat(Cat(a, Cat(b, d)), c), e) = Cat(Cat(Cat(a, b), Cat(d, c)), e)
BY Regroup DEF Cat

\* pprdrv has sent a block.
LEMMA FlushLess ==
  ASSUME NEW v \in Drivers, v.verdict = "none", v.todo # << >>
  PROVE  LET w == [Advance(v) EXCEPT !.dcount = @ + 1]
         IN  Less(v, w) /\ w.todo = Tail(v.todo) /\ w.riping = v.riping
<1> DEFINE a == Advance(v)
           n == a.dcount + 1
           w == [a EXCEPT !.dcount = n]
<1>1. Less(v, a) /\ a.todo = Tail(v.todo) /\ a.riping = v.riping
  BY AdvanceLess
<1>2. a \in Drivers BY <1>1 DEF Less
<1> HIDE DEF a
<1>3. n \in Int
  <2>1. a.dcount \in Int BY <1>2 DEF Drivers
  <2> QED BY <2>1
<1>4. [a EXCEPT !.dcount = @ + 1] = w OBVIOUS
<1> HIDE DEF n
<1>5. w \in Drivers BY <1>2, <1>3 DEF Drivers
<1>6. /\ w.intpid = a.intpid /\ w.rippid = a.rippid
      /\ w.icode = a.icode /\ w.rcode = a.rcode
      /\ w.err = a.err /\ w.ghost = a.ghost /\ w.killed = a.killed
      /\ w.nofault = a.nofault /\ w.rnofault = a.rnofault
      /\ w.died = a.died /\ w.rdied = a.rdied /\ w.term = a.term
      /\ w.riping = a.riping /\ w.verdict = a.verdict /\ w.todo = a.todo
  BY <1>2 DEF Drivers
<1> HIDE DEF w
<1>7. Less(v, w) BY <1>1, <1>5, <1>6 DEF Less
<1> QED BY <1>1, <1>4, <1>6, <1>7 DEF a

\* The block is in the pipe now.
LEMMA FlushConserves ==
  ASSUME NEW v, NEW w, NEW i, NEW r, NEW k, NEW q,
         NEW b, NEW f, NEW p, NEW j,
         Sound(v, i, r, b, f), Conserved(v, i, r, b, f, p, j),
         Less(v, w), NowIn(v, Blocks), w.todo = Tail(v.todo),
         w.riping = v.riping, k.code = i.code, q.state = r.state,
         v.riping => k.in = i.in /\ q.in = Append(r.in, Head(v.todo)),
         ~ v.riping => k.in = Append(i.in, Head(v.todo)) /\ q.in = r.in
  PROVE  Conserved(w, k, q, b, f, p, j)
<1> DEFINE t == v.todo
           u == w.todo
           x == Head(t)
           P == DataOf(i.in)
           R == DataOf(r.in)
           D == DataOf(u)
           y == Sheet(x)
<1>1. /\ Program(t) /\ t # << >> /\ u = Tail(t) /\ Now(v) \in Blocks
      /\ t[1][1] = Now(v)
  BY DEF Sound, NowIn, Now
<1>2. /\ x = t[1] /\ x \in Acts /\ Program(u)
      /\ (EndsIn(w, "verdict") => EndsIn(v, "verdict"))
      /\ ~ NowIn(w, {"main"})
  BY <1>1, TailIs DEF EndsIn, NowIn, Now, Follows
<1>3. Now(v) # "again" /\ Now(v) # "ripscreen" BY <1>1 DEF Blocks, Data
<1>4. /\ ScreenAhead(t, 0) => ScreenAhead(u, 0)
      /\ (Loops(u) <=> Loops(t))
  BY <1>1, <1>3, TailAhead
<1>5. /\ t \in Seq(Acts) /\ u \in Seq(Acts) /\ i.in \in Seq(Acts)
      /\ r.in \in Seq(Acts)
  <2>1. i \in Interfaces /\ r \in RipStates BY DEF Sound, Typed
  <2> QED BY <1>1, <1>2, <2>1 DEF Program, Interfaces, RipStates
<1>6. p \in Seq(Acts) BY DEF Conserved
<1>7. ~ v.riping => r.in = << >> BY DEF Sound, Children
<1> HIDE DEF t, u, x
<1>8. DataOf(t) = y \o D BY <1>1, <1>5, DataIs DEF x
<1>9. /\ P \in Seq(Acts) /\ R \in Seq(Acts) /\ D \in Seq(Acts)
      /\ y \in Seq(Acts)
  BY <1>2, <1>5, DataIs
<1>10. ((p \o DataOf(k.in)) \o DataOf(q.in)) \o D
         = ((p \o P) \o R) \o (y \o D)
  <2>1. CASE v.riping
    <3>1. DataOf(k.in) = P BY <2>1
    <3>2. q.in = Append(r.in, x) BY <2>1 DEF x, t
    <3>3. DataOf(q.in) = R \o y BY <1>2, <1>5, <3>2, DataIs
    <3> HIDE DEF P, R, D, y
    <3>4. Cat(Cat(Cat(p, P), Cat(R, y)), D) = Cat(Cat(Cat(p, P), R), Cat(y, D))
      BY <1>6, <1>9, Recat
    <3> QED BY <3>1, <3>3, <3>4 DEF Cat
  <2>2. CASE ~ v.riping
    <3>1. q.in = << >> /\ r.in = << >> BY <1>7, <2>2
    <3>2. DataOf(q.in) = << >> /\ R = << >> BY <3>1, DataIs
    <3>3. k.in = Append(i.in, x) BY <2>2 DEF x, t
    <3>4. DataOf(k.in) = P \o y BY <1>2, <1>5, <3>3, DataIs
    <3> HIDE DEF P, R, D, y
    <3>5. Cat(Cat(Cat(p, Cat(P, y)), << >>), D)
            = Cat(Cat(Cat(p, P), << >>), Cat(y, D))
      BY <1>6, <1>9, Recat
    <3> QED BY <3>2, <3>4, <3>5 DEF Cat
  <2> QED BY <2>1, <2>2
<1>11. w.rcode = v.rcode /\ w.err = v.err BY DEF Less
<1>12. ASSUME EndsIn(w, "verdict")
       PROVE  /\ w.riping => ScreenAhead(w.todo, 0)
              /\ q.state = "up" => w.rcode \notin Lost
              /\ Loops(RealMain(j)) => Loops(w.todo)
              /\ Whole(w, k, q, f, p, j)
  <2>1. /\ v.riping => ScreenAhead(t, 0)
        /\ r.state = "up" => v.rcode \notin Lost
        /\ Loops(RealMain(j)) => Loops(t)
        /\ Whole(v, i, r, f, p, j)
    BY <1>2, <1>12 DEF Conserved, t
  <2>2. (((p \o P) \o R) \o DataOf(t) = DataOf(RealMain(j))) =>
          ((p \o DataOf(k.in)) \o DataOf(q.in)) \o D = DataOf(RealMain(j))
    BY <1>8, <1>10
  <2>3. Whole(w, k, q, f, p, j)
    BY <1>4, <1>11, <2>1, <2>2 DEF Whole, t, u
  <2> QED BY <1>4, <1>11, <2>1, <2>3 DEF u
<1> QED BY <1>2, <1>6, <1>11, <1>12 DEF Conserved

\* printer_flush() writes a block.
LEMMA FlushWriteKeeps == ASSUME Inv, FlushWrite PROVE Inv'
<1>1. drv.verdict = "none" /\ NowIn(drv, Blocks) /\ drv.todo # << >>
  BY AmongIs DEF FlushWrite, AtBlock
<1>2. NoTrouble /\ UNCHANGED <<job, fb, paper>> /\ ~ ReaderGone
  BY DEF FlushWrite
<1>3. /\ drv \in Drivers /\ intf \in Interfaces /\ rip \in RipStates
      /\ Program(drv.todo)
  BY DEF Inv, Sound, Typed
<1>4. PICK w : /\ drv' = w /\ Less(drv, w) /\ w.todo = Tail(drv.todo)
               /\ w.riping = drv.riping
  <2>1. \/ drv' = [Advance(drv) EXCEPT !.dcount = @ + 1]
        \/ drv' = Advance(drv)
    BY DEF FlushWrite
  <2> QED BY <1>1, <1>3, <2>1, AdvanceLess, FlushLess
<1>5. NowIn(drv, Walkable) /\ Now(drv) \in Blocks
  BY <1>1 DEF NowIn, Walkable, PlainNames, Blocks, Data
<1>6. Sound(w, intf, rip, fb, facts)
  <2>1. Now(drv) \notin {"ripwait", "ripscreen", "drain", "reap"}
    BY <1>5 DEF Blocks, Data
  <2> QED BY <1>4, <1>5, <2>1, StepKeeps DEF Inv
<1> DEFINE x == Head(drv.todo)
<1>7. x \in Acts BY <1>1, <1>3, TailIs
<1>8. /\ intf.state # "up" => intf.in = << >>
      /\ rip.state # "up" => rip.in = << >>
  BY DEF Inv, Sound, Children
<1>9. CASE drv.riping
  <2> DEFINE q == [rip EXCEPT !.in = Append(@, x)]
  <2>1. rip' = q /\ intf' = intf BY <1>9 DEF FlushWrite
  <2>2. rip.state = "up" BY <1>2, <1>9 DEF ReaderGone
  <2>3. /\ q \in RipStates /\ q.state = rip.state /\ q.eof = rip.eof
        /\ q.in = Append(rip.in, x)
    <3>1. rip.in \in Seq(Acts) BY <1>3 DEF RipStates
    <3>2. Append(rip.in, x) \in Seq(Acts) BY <1>7, <3>1
    <3> QED BY <1>3, <3>2 DEF RipStates
  <2> HIDE DEF q, x
  <2>4. Sound(w, intf, q, fb, facts)
    BY <1>3, <1>6, <1>8, <2>2, <2>3, PipesKeep
  <2>5. Conserved(w, intf, q, fb, facts, paper, job)
    <3>1. q.in = Append(rip.in, Head(drv.todo)) BY <2>3 DEF x
    <3> QED BY <1>1, <1>4, <1>9, <2>3, <3>1, FlushConserves DEF Inv
  <2> QED BY <1>2, <1>4, <2>1, <2>4, <2>5 DEF Inv, NoTrouble
<1>10. CASE ~ drv.riping
  <2> DEFINE k == [intf EXCEPT !.in = Append(@, x)]
  <2>1. intf' = k /\ rip' = rip BY <1>10 DEF FlushWrite
  <2>2. intf.state = "up" BY <1>2, <1>10 DEF ReaderGone
  <2>3. /\ k \in Interfaces /\ k.state = intf.state /\ k.eof = intf.eof
        /\ k.code = intf.code /\ k.in = Append(intf.in, x)
    <3>1. intf.in \in Seq(Acts) BY <1>3 DEF Interfaces
    <3>2. Append(intf.in, x) \in Seq(Acts) BY <1>7, <3>1
    <3> QED BY <1>3, <3>2 DEF Interfaces
  <2> HIDE DEF k, x
  <2>4. Sound(w, k, rip, fb, facts)
    BY <1>3, <1>6, <1>8, <2>2, <2>3, PipesKeep
  <2>5. Conserved(w, k, rip, fb, facts, paper, job)
    <3>1. k.in = Append(intf.in, Head(drv.todo)) BY <2>3 DEF x
    <3> QED BY <1>1, <1>4, <1>10, <2>3, <3>1, FlushConserves DEF Inv
  <2> QED BY <1>2, <1>4, <2>1, <2>4, <2>5 DEF Inv, NoTrouble
<1> QED BY <1>9, <1>10

\* The printer answers with messages that are not complaints.
LEMMA AnswerIs ==
  ASSUME NEW x
  PROVE  Answer(x) \in Seq({"ctrld", "start", "end"})
<1> DEFINE A == {"ctrld", "start", "end"}
<1>1. /\ <<"ctrld">> \in Seq(A) /\ <<"start">> \in Seq(A)
      /\ <<"end">> \in Seq(A) /\ << >> \in Seq(A)
  OBVIOUS
<1> HIDE DEF A
<1>2. Answer(x) \in Seq(A) BY <1>1 DEF Answer
<1> QED BY <1>2 DEF A

\* The interface reads a block, and what is for the paper is put there.
LEMMA InterfaceReadsKeeps == ASSUME Inv, InterfaceReads PROVE Inv'
<1> DEFINE x == Head(intf.in)
           s == Tail(intf.in)
           o == intf.owes \o Answer(x)
           k == [intf EXCEPT !.in = s, !.owes = o]
           P == DataOf(s)
           R == DataOf(rip.in)
           D == DataOf(drv.todo)
           y == Sheet(x)
<1>1. drv.verdict = "none" /\ intf.state = "up" /\ intf.in # << >>
  BY DEF InterfaceReads, Running
<1>2. intf' = k /\ NoTrouble /\ UNCHANGED <<job, drv, rip, fb>>
  BY DEF InterfaceReads
<1>3. intf \in Interfaces /\ rip \in RipStates /\ Program(drv.todo)
  BY DEF Inv, Sound, Typed
<1>4. intf.in \in Seq(Acts) /\ rip.in \in Seq(Acts)
      /\ intf.owes \in Seq({"ctrld", "start", "end"})
      /\ drv.todo \in Seq(Acts) /\ paper \in Seq(Acts)
  BY <1>3 DEF Interfaces, RipStates, Program, Inv, Conserved
<1>5. x \in Acts /\ s \in Seq(Acts) BY <1>1, <1>4
<1>6. o \in Seq({"ctrld", "start", "end"})
  <2> DEFINE A == {"ctrld", "start", "end"}
             z == Answer(x)
  <2>1. intf.owes \in Seq(A) /\ z \in Seq(A) BY <1>4, AnswerIs
  <2> HIDE DEF A, z
  <2>2. intf.owes \o z \in Seq(A) BY <2>1
  <2> QED BY <2>2 DEF A, z
<1>7. paper' = paper \o y
  <2>1. CASE x[1] \in Data
    <3>1. paper' = Append(paper, x) /\ y = <<x>>
      BY <2>1 DEF InterfaceReads, Sheet
    <3>2. Append(paper, x) = paper \o <<x>> BY <1>4, <1>5, AppendIsConcat
    <3> QED BY <3>1, <3>2
  <2>2. CASE x[1] \notin Data
    <3>1. paper' = paper /\ y = << >> BY <2>2 DEF InterfaceReads, Sheet
    <3>2. paper \o << >> = paper BY <1>4
    <3> QED BY <3>1, <3>2
  <2> QED BY <2>1, <2>2
<1>8. DataOf(intf.in) = y \o P BY <1>1, <1>4, DataIs
<1>9. /\ P \in Seq(Acts) /\ R \in Seq(Acts) /\ D \in Seq(Acts)
      /\ y \in Seq(Acts)
  BY <1>4, <1>5, DataIs
<1> HIDE DEF x, o, s, y
<1>10. k \in Interfaces BY <1>3, <1>5, <1>6 DEF Interfaces
<1>11. /\ k.state = intf.state /\ k.code = intf.code /\ k.eof = intf.eof
       /\ k.in = s
  BY <1>3 DEF Interfaces
<1> HIDE DEF k
<1>12. rip.state # "up" => rip.in = << >> BY DEF Inv, Sound, Children
<1>13. Sound(drv, k, rip, fb, facts)
  BY <1>1, <1>3, <1>10, <1>11, <1>12, PipesKeep DEF Inv
<1>14. paper \o y \in Seq(Acts) BY <1>4, <1>9
<1>15. ~ NowIn(drv, {"main"}) BY <1>1 DEF Inv, Sound, Places
<1>16. ((paper \o y) \o P) \o R = (paper \o (y \o P)) \o R
  <2> HIDE DEF P, R
  <2> QED BY <1>4, <1>9, Grouped
<1>17. Conserved(drv, k, rip, fb, facts, paper \o y, job)
  <2>1. Whole(drv, intf, rip, facts, paper, job)
          => Whole(drv, k, rip, facts, paper \o y, job)
    BY <1>8, <1>11, <1>16 DEF Whole
  <2> DEFINE z == paper \o y
  <2>2. z \in Seq(Acts) BY <1>14
  <2> HIDE DEF z
  <2>3. Whole(drv, intf, rip, facts, paper, job)
          => Whole(drv, k, rip, facts, z, job)
    BY <2>1 DEF z
  <2>4. Conserved(drv, k, rip, fb, facts, z, job)
    BY <1>15, <2>2, <2>3 DEF Inv, Conserved
  <2> QED BY <2>4 DEF z
<1> QED BY <1>2, <1>7, <1>13, <1>17 DEF Inv, NoTrouble

\* The printer answers.
LEMMA PrinterAnswersKeeps == ASSUME Inv, PrinterAnswers PROVE Inv'
<1> DEFINE m == Head(intf.owes)
           o == Tail(intf.owes)
           k == [intf EXCEPT !.owes = o]
<1>1. intf.state = "up" /\ intf.owes # << >> BY DEF PrinterAnswers
<1>2. /\ intf' = k /\ fb' = Append(fb, m) /\ NoTrouble
      /\ UNCHANGED <<job, drv, rip, paper>>
  BY DEF PrinterAnswers
<1>3. /\ intf \in Interfaces /\ rip \in RipStates
      /\ fb \in Seq(Messages)
  BY DEF Inv, Sound, Typed
<1>4. intf.owes \in Seq({"ctrld", "start", "end"}) BY <1>3 DEF Interfaces
<1>5. m \in {"ctrld", "start", "end"} /\ o \in Seq({"ctrld", "start", "end"})
  BY <1>1, <1>4
<1> HIDE DEF m, o
<1>6. k \in Interfaces BY <1>3, <1>5 DEF Interfaces
<1>7. /\ k.state = intf.state /\ k.code = intf.code /\ k.in = intf.in
      /\ k.eof = intf.eof
  BY <1>3 DEF Interfaces
<1> HIDE DEF k
<1>8. m \in Messages /\ m \notin {"error", "ghost"} BY <1>5 DEF Messages
<1>9. /\ intf.state # "up" => k.in = << >>
      /\ rip.state # "up" => rip.in = << >>
  BY <1>7 DEF Inv, Sound, Children
<1>10. Sound(drv, k, rip, fb, facts)
  BY <1>3, <1>6, <1>7, <1>9, PipesKeep DEF Inv
<1>11. Conserved(drv, k, rip, fb, facts, paper, job)
  BY <1>7, PipesConserve DEF Inv
<1>12. Sound(drv, k, rip, Append(fb, m), facts)
  BY <1>1, <1>7, <1>8, <1>10, MessageKeeps
<1>13. Conserved(drv, k, rip, Append(fb, m), facts, paper, job)
  BY <1>3, <1>8, <1>11, MessageConserves
<1> QED BY <1>2, <1>12, <1>13 DEF Inv, NoTrouble

\* SIGUSR1 comes.
LEMMA InterfaceAnswersKeeps == ASSUME Inv, InterfaceAnswers PROVE Inv'
<1> DEFINE v == [drv EXCEPT !.usr1 = TRUE]
           k == [intf EXCEPT !.asked = FALSE]
<1>1. drv.verdict = "none" BY DEF InterfaceAnswers, Running
<1>2. /\ drv' = Wake(v) /\ intf' = k /\ NoTrouble
      /\ UNCHANGED <<job, rip, fb, paper>>
  BY DEF InterfaceAnswers
<1>3. drv \in Drivers /\ intf \in Interfaces /\ rip \in RipStates
  BY DEF Inv, Sound, Typed
<1>4. v \in Drivers BY <1>3 DEF Drivers
<1>5. v.todo = drv.todo /\ v.riping = drv.riping /\ v.rcode = drv.rcode
  BY <1>3 DEF Drivers
<1>6. Less(drv, v) BY <1>1, <1>3, <1>4 DEF Less, Drivers
<1>7. k \in Interfaces BY <1>3 DEF Interfaces
<1>8. /\ k.state = intf.state /\ k.code = intf.code /\ k.in = intf.in
      /\ k.eof = intf.eof
  BY <1>3 DEF Interfaces
<1> HIDE DEF v, k
<1>9. Sound(v, intf, rip, fb, facts) BY <1>5, <1>6, SameKeeps DEF Inv
<1>10. Conserved(v, intf, rip, fb, facts, paper, job)
  <2>1. ~ v.riping => v.rcode \notin Lost BY <1>5 DEF Inv, Conserved
  <2> QED BY <1>5, <1>6, <2>1, SameConserves DEF Inv
<1>11. /\ intf.state # "up" => k.in = << >>
       /\ rip.state # "up" => rip.in = << >>
  BY <1>8 DEF Inv, Sound, Children
<1>12. Sound(v, k, rip, fb, facts)
  BY <1>3, <1>7, <1>8, <1>9, <1>11, PipesKeep
<1>13. Conserved(v, k, rip, fb, facts, paper, job)
  BY <1>8, <1>10, PipesConserve
<1> QED BY <1>2, <1>4, <1>12, <1>13, WakeKeeps, WakeConserves
     DEF Inv, NoTrouble

\* A PostScript error is reported.
LEMMA ComplainsKeeps == ASSUME Inv, Complains PROVE Inv'
<1> DEFINE g == facts \cup {"error"}
           c == Append(fb, "error")
<1>1. /\ intf.state = "up" \/ rip.state = "up"
      /\ fb' = c /\ facts' = g /\ UNCHANGED <<job, drv, intf, rip, paper>>
  BY DEF Complains, Trouble
<1>2. facts \in SUBSET FactNames /\ fb \in Seq(Messages)
  BY DEF Inv, Sound, Typed
<1>3. g \in SUBSET FactNames /\ facts \subseteq g /\ "error" \in g
  BY <1>2 DEF FactNames
<1>4. "error" \in Messages BY DEF Messages
<1>5. Len(fb) + 1 \in 1 .. Len(c) /\ c[Len(fb) + 1] = "error"
  BY <1>2
<1> HIDE DEF g
<1>6. Sound(drv, intf, rip, fb, g) BY <1>3, FactsKeep DEF Inv
<1>7. Sound(drv, intf, rip, c, g) BY <1>1, <1>3, <1>4, <1>6, MessageKeeps
<1> HIDE DEF c
<1>8. Conserved(drv, intf, rip, c, g, paper, job)
  <2>1. Whole(drv, intf, rip, facts, paper, job)
          => Whole(drv, intf, rip, g, paper, job)
    BY <1>3 DEF Whole
  <2> QED BY <1>5, <2>1 DEF Inv, Conserved
<1> QED BY <1>1, <1>7, <1>8 DEF Inv

\* A Ghostscript does not like its command line.
LEMMA GhostComplainsKeeps == ASSUME Inv, GhostComplains PROVE Inv'
<1> DEFINE g == facts \cup {"ghost"}
           c == Append(fb, "ghost")
<1>1. /\ rip.state = "up"
      /\ fb' = c /\ facts' = g /\ UNCHANGED <<job, drv, intf, rip, paper>>
  BY DEF GhostComplains, Trouble
<1>2. facts \in SUBSET FactNames /\ fb \in Seq(Messages)
  BY DEF Inv, Sound, Typed
<1>3. /\ g \in SUBSET FactNames /\ facts \subseteq g /\ "ghost" \in g
      /\ ("error" \in g => "error" \in facts)
  BY <1>2 DEF FactNames
<1>4. "ghost" \in Messages BY DEF Messages
<1> HIDE DEF g
<1>5. Sound(drv, intf, rip, fb, g) BY <1>3, FactsKeep DEF Inv
<1>6. Sound(drv, intf, rip, c, g) BY <1>1, <1>3, <1>4, <1>5, MessageKeeps
<1>7. Conserved(drv, intf, rip, fb, g, paper, job)
  BY <1>3, FactsConserve DEF Inv
<1>8. Conserved(drv, intf, rip, c, g, paper, job)
  BY <1>2, <1>4, <1>7, MessageConserves
<1> QED BY <1>1, <1>6, <1>8 DEF Inv

\* The interface ends.
LEMMA InterfaceEndsKeeps ==
  ASSUME Inv, NEW code \in InterfaceCodes, InterfaceEnds(code)
  PROVE  Inv'
<1> DEFINE e == << >>
           k == [intf EXCEPT !.state = "closed", !.in = e, !.owes = e,
                             !.asked = FALSE, !.code = code]
<1>1. drv.verdict = "none" /\ intf.state = "up"
  BY DEF InterfaceEnds, Running
<1>2. intf' = k /\ UNCHANGED <<job, drv, rip, fb, paper>>
  BY DEF InterfaceEnds
<1>3. PICK g :
        /\ facts' = g /\ g \in SUBSET FactNames /\ facts \subseteq g
        /\ ("error" \in g => "error" \in facts)
        /\ (code # "printed" => "interface" \in g)
        /\ (code = "printed" /\ ~ InterfaceDone => "hasty" \in g)
  <2>1. facts \in SUBSET FactNames BY DEF Inv, Sound, Typed
  <2>2. CASE InterfaceDone /\ code = "printed"
    BY <2>1, <2>2 DEF InterfaceEnds, NoTrouble
  <2>3. CASE ~ (InterfaceDone /\ code = "printed")
    <3> DEFINE what == IF code = "printed" THEN "hasty" ELSE "interface"
               g == facts \cup {what}
    <3>1. facts' = g BY <2>3 DEF InterfaceEnds, Trouble
    <3>2. /\ g \in SUBSET FactNames /\ facts \subseteq g
          /\ ("error" \in g => "error" \in facts) /\ what \in g
      BY <2>1 DEF FactNames
    <3> HIDE DEF g
    <3> QED BY <3>1, <3>2
  <2> QED BY <2>2, <2>3
<1>4. intf \in Interfaces BY DEF Inv, Sound, Typed
<1>5. e \in Seq(Acts) /\ e \in Seq({"ctrld", "start", "end"}) OBVIOUS
<1>6. e = << >> OBVIOUS
<1> HIDE DEF e
<1>7. k \in Interfaces BY <1>4, <1>5 DEF Interfaces
<1>8. k.state = "closed" /\ k.in = e /\ k.eof = intf.eof /\ k.code = code
  BY <1>4 DEF Interfaces
<1> HIDE DEF k
<1>9. code # "none" BY DEF InterfaceCodes
<1>10. /\ rip.state = "up" => ~ InterfaceDone
       /\ ~ intf.eof => ~ InterfaceDone
       /\ InterfaceDone => intf.in = << >>
  BY DEF InterfaceDone
<1>11. Sound(drv, k, rip, fb, g)
  <2>1. Typed(drv, k, rip, fb, g) /\ Program(drv.todo)
    BY <1>3, <1>7 DEF Inv, Sound, Typed
  <2>2. Children(drv, k, rip)
    BY <1>1, <1>6, <1>8, <1>9 DEF Inv, Sound, Children
  <2>3. Places(drv, k, rip, fb)
    BY <1>1, <1>8 DEF Inv, Sound, Places, NowIn
  <2>4. Modes(drv, k, rip, g) BY <1>1, <1>3, <1>8 DEF Inv, Sound, Modes
  <2>5. Reasons(drv, k, rip, fb, g)
    <3>1. Reasons(drv, intf, rip, fb, facts) BY DEF Inv, Sound
    <3>2. k.code \notin {"none", "printed"} => "interface" \in g
      BY <1>3, <1>8
    <3>3. k.code = "printed" /\ ~ k.eof => "hasty" \in g
      BY <1>3, <1>8, <1>10
    <3>4. rip.state = "up" => g # {} BY <1>3, <1>10
    <3> QED BY <1>3, <3>1, <3>2, <3>3, <3>4 DEF Reasons
  <2>6. Just(drv.verdict, drv, g) BY <1>1 DEF Just
  <2> QED BY <1>1, <2>1, <2>2, <2>3, <2>4, <2>5, <2>6 DEF Sound
<1>12. Conserved(drv, k, rip, fb, g, paper, job)
  <2>1. Whole(drv, intf, rip, facts, paper, job)
          => Whole(drv, k, rip, g, paper, job)
    <3>1. intf.code = "none" BY <1>1 DEF Inv, Sound, Children
    <3>2. CASE code # "printed" BY <1>8, <1>9, <3>2 DEF Whole
    <3>3. CASE code = "printed" /\ ~ InterfaceDone
      BY <1>3, <3>3 DEF Whole
    <3>4. CASE code = "printed" /\ InterfaceDone
      <4>1. k.in = intf.in BY <1>6, <1>8, <1>10, <3>4
      <4> QED BY <1>3, <3>1, <4>1 DEF Whole
    <3> QED BY <3>2, <3>3, <3>4
  <2> QED BY <1>3, <2>1 DEF Inv, Conserved
<1> QED BY <1>2, <1>3, <1>11, <1>12 DEF Inv

\* SIGCHLD comes for the interface.
LEMMA InterfaceDiesKeeps == ASSUME Inv, InterfaceDies PROVE Inv'
<1> DEFINE c == intf.code
           v == [drv EXCEPT !.died = TRUE, !.intpid = FALSE, !.icode = c]
           k == [intf EXCEPT !.state = "dead"]
<1>1. drv.verdict = "none" /\ intf.state = "closed"
  BY DEF InterfaceDies, Running
<1>2. /\ drv' = Wake(v) /\ intf' = k /\ NoTrouble
      /\ UNCHANGED <<job, rip, fb, paper>>
  BY DEF InterfaceDies
<1>3. drv \in Drivers /\ intf \in Interfaces BY DEF Inv, Sound, Typed
<1>4. c \in InterfaceCodes \cup {"none"} BY <1>3 DEF Interfaces
<1>5. k \in Interfaces BY <1>3 DEF Interfaces
<1>6. /\ k.state = "dead" /\ k.code = c /\ k.in = intf.in
      /\ k.eof = intf.eof
  BY <1>3 DEF Interfaces
<1> HIDE DEF c
<1>7. v \in Drivers BY <1>3, <1>4 DEF Drivers
<1>8. /\ v.died = TRUE /\ v.intpid = FALSE /\ v.icode = c
      /\ v.todo = drv.todo /\ v.verdict = drv.verdict /\ v.phase = drv.phase
      /\ v.nofault = drv.nofault /\ v.rippid = drv.rippid
      /\ v.rdied = drv.rdied /\ v.rnofault = drv.rnofault
      /\ v.rcode = drv.rcode /\ v.riping = drv.riping /\ v.term = drv.term
      /\ v.err = drv.err /\ v.ghost = drv.ghost /\ v.killed = drv.killed
  BY <1>3 DEF Drivers
<1> HIDE DEF v, k
<1>9. intf.in = << >> /\ c # "none"
  BY <1>1 DEF Inv, Sound, Children, c
<1>10. Sound(v, k, rip, fb, facts)
  <2>1. Typed(v, k, rip, fb, facts) /\ Program(v.todo)
    BY <1>5, <1>7, <1>8 DEF Inv, Sound, Typed
  <2>2. Children(v, k, rip)
    BY <1>1, <1>6, <1>8, <1>9 DEF Inv, Sound, Children
  <2>3. Places(v, k, rip, fb)
    BY <1>1, <1>6, <1>8 DEF Inv, Sound, Places, NowIn, Now
  <2>4. Modes(v, k, rip, facts)
    BY <1>1, <1>6, <1>8 DEF Inv, Sound, Modes, EndsIn, Now
  <2>5. Reasons(v, k, rip, fb, facts)
    BY <1>1, <1>6, <1>8 DEF Inv, Sound, Reasons, NowIn, Now, c
  <2>6. Just(v.verdict, v, facts) BY <1>1, <1>8 DEF Just
  <2> QED BY <1>1, <1>8, <2>1, <2>2, <2>3, <2>4, <2>5, <2>6 DEF Sound
<1>11. Conserved(v, k, rip, fb, facts, paper, job)
  BY <1>6, <1>8 DEF Inv, Conserved, Whole, NowIn, Now, EndsIn, c
<1> QED BY <1>2, <1>7, <1>10, <1>11, WakeKeeps, WakeConserves
     DEF Inv, NoTrouble

\* The RIP sends on what it has read.
LEMMA RipPassesKeeps == ASSUME Inv, RipPasses PROVE Inv'
<1> DEFINE x == Head(rip.in)
           s == Tail(rip.in)
           n == Append(intf.in, x)
           k == [intf EXCEPT !.in = n]
           q == [rip EXCEPT !.in = s]
           P == DataOf(intf.in)
           R == DataOf(s)
           D == DataOf(drv.todo)
           y == Sheet(x)
<1>1. rip.state = "up" /\ rip.in # << >> /\ intf.state = "up"
  BY DEF RipPasses
<1>2. intf' = k /\ rip' = q /\ NoTrouble /\ UNCHANGED <<job, drv, fb, paper>>
  BY DEF RipPasses
<1>3. intf \in Interfaces /\ rip \in RipStates /\ Program(drv.todo)
  BY DEF Inv, Sound, Typed
<1>4. intf.in \in Seq(Acts) /\ rip.in \in Seq(Acts)
      /\ drv.todo \in Seq(Acts) /\ paper \in Seq(Acts)
  BY <1>3 DEF Interfaces, RipStates, Program, Inv, Conserved
<1>5. x \in Acts /\ s \in Seq(Acts) /\ n \in Seq(Acts) BY <1>1, <1>4
<1>6. DataOf(rip.in) = y \o R BY <1>1, <1>4, DataIs
<1>7. DataOf(n) = P \o y BY <1>4, <1>5, DataIs
<1>8. /\ P \in Seq(Acts) /\ R \in Seq(Acts) /\ D \in Seq(Acts)
      /\ y \in Seq(Acts)
  BY <1>4, <1>5, DataIs
<1> HIDE DEF x, s, n, y
<1>9. k \in Interfaces /\ q \in RipStates
  BY <1>3, <1>5 DEF Interfaces, RipStates
<1>10. /\ k.state = intf.state /\ k.code = intf.code /\ k.eof = intf.eof
       /\ k.in = n
  BY <1>3 DEF Interfaces
<1>11. q.state = rip.state /\ q.eof = rip.eof /\ q.in = s
  BY <1>3 DEF RipStates
<1> HIDE DEF k, q
<1>12. Sound(drv, k, q, fb, facts)
  BY <1>1, <1>9, <1>10, <1>11, PipesKeep DEF Inv
<1>13. ((paper \o (P \o y)) \o R) \o D = ((paper \o P) \o (y \o R)) \o D
  <2> HIDE DEF P, R, D
  <2>1. Cat(Cat(Cat(paper, Cat(P, y)), R), D)
          = Cat(Cat(Cat(paper, P), Cat(y, R)), D)
    BY <1>4, <1>8, Recat
  <2> QED BY <2>1 DEF Cat
<1>14. Conserved(drv, k, q, fb, facts, paper, job)
  <2>1. Whole(drv, intf, rip, facts, paper, job)
          => Whole(drv, k, q, facts, paper, job)
    BY <1>6, <1>7, <1>10, <1>11, <1>13 DEF Whole
  <2> QED BY <1>11, <2>1 DEF Inv, Conserved
<1> QED BY <1>2, <1>12, <1>14 DEF Inv, NoTrouble

\* SIGTERM comes.
LEMMA TerminateKeeps == ASSUME Inv, Terminate PROVE Inv'
<1> DEFINE v == [drv EXCEPT !.term = TRUE]
           g == facts \cup {"operator"}
<1>1. drv.verdict = "none" BY DEF Terminate, Running
<1>2. drv' = Wake(v) /\ facts' = g /\ UNCHANGED <<job, intf, rip, fb, paper>>
  BY DEF Terminate, Trouble, children
<1>3. drv \in Drivers /\ facts \in SUBSET FactNames BY DEF Inv, Sound, Typed
<1>4. /\ g \in SUBSET FactNames /\ facts \subseteq g /\ "operator" \in g
      /\ ("error" \in g => "error" \in facts)
  BY <1>3 DEF FactNames
<1>5. v \in Drivers BY <1>3 DEF Drivers
<1>6. /\ v.phase = drv.phase
      /\ v.err = drv.err /\ v.ghost = drv.ghost
      /\ v.todo = drv.todo /\ v.verdict = drv.verdict /\ v.killed = drv.killed
      /\ v.intpid = drv.intpid /\ v.died = drv.died
      /\ v.nofault = drv.nofault
      /\ v.rippid = drv.rippid /\ v.rdied = drv.rdied
      /\ v.rnofault = drv.rnofault
      /\ v.icode = drv.icode /\ v.rcode = drv.rcode
      /\ v.riping = drv.riping
  BY <1>3 DEF Drivers
<1> HIDE DEF v, g
<1>7. Sound(drv, intf, rip, fb, g) BY <1>4, FactsKeep DEF Inv
<1>8. Conserved(drv, intf, rip, fb, g, paper, job)
  BY <1>4, FactsConserve DEF Inv
<1>9. Sound(v, intf, rip, fb, g)
  <2>1. Typed(v, intf, rip, fb, g) /\ Program(v.todo)
    BY <1>5, <1>6, <1>7 DEF Sound, Typed
  <2>2. Children(v, intf, rip) BY <1>6, <1>7 DEF Sound, Children
  <2>3. Places(v, intf, rip, fb)
    BY <1>6, <1>7 DEF Sound, Places, NowIn, Now
  <2>4. Modes(v, intf, rip, g) BY <1>6, <1>7 DEF Sound, Modes, EndsIn, Now
  <2>5. Reasons(v, intf, rip, fb, g)
    BY <1>4, <1>6, <1>7 DEF Sound, Reasons, NowIn, Now
  <2>6. Just(v.verdict, v, g) BY <1>1, <1>6 DEF Just
  <2> QED BY <1>1, <1>6, <2>1, <2>2, <2>3, <2>4, <2>5, <2>6 DEF Sound
<1>10. Conserved(v, intf, rip, fb, g, paper, job)
  BY <1>6, <1>8 DEF Conserved, Whole, NowIn, Now, EndsIn
<1> QED BY <1>2, <1>5, <1>9, <1>10, WakeKeeps, WakeConserves DEF Inv

\* SIGCHLD comes for the RIP.
LEMMA RipEndsKeeps ==
  ASSUME Inv, NEW code \in RipCodes, RipEnds(code)
  PROVE  Inv'
<1> DEFINE e == << >>
           v == [drv EXCEPT !.rdied = TRUE, !.rippid = FALSE, !.rcode = code]
           q == [rip EXCEPT !.state = "dead", !.in = e]
<1>1. drv.verdict = "none" /\ rip.state = "up" BY DEF RipEnds, Running
<1>2. drv' = Wake(v) /\ rip' = q /\ UNCHANGED <<job, intf, fb, paper>>
  BY DEF RipEnds
<1>3. PICK g :
        /\ facts' = g /\ g \in SUBSET FactNames /\ facts \subseteq g
        /\ ("error" \in g => "error" \in facts)
        /\ (code = "ok" => rip.eof /\ rip.in = << >>)
        /\ (code = "killed" => "rip" \in drv.killed \/ "rip" \in g)
        /\ (code = "pipe" => intf.state # "up")
        /\ (code = "quit" => "quit" \in g)
        /\ (code = "segv" => "rip" \in g)
  <2> DEFINE good(g) ==
        /\ facts' = g /\ g \in SUBSET FactNames /\ facts \subseteq g
        /\ ("error" \in g => "error" \in facts)
        /\ (code = "ok" => rip.eof /\ rip.in = << >>)
        /\ (code = "killed" => "rip" \in drv.killed \/ "rip" \in g)
        /\ (code = "pipe" => intf.state # "up")
        /\ (code = "quit" => "quit" \in g)
        /\ (code = "segv" => "rip" \in g)
  <2>1. facts \in SUBSET FactNames BY DEF Inv, Sound, Typed
  <2>2. {"rip", "quit"} \subseteq FactNames BY DEF FactNames
  <2>3. CASE code = "ok" /\ rip.eof /\ rip.in = << >> /\ NoTrouble
    <3>1. good(facts) BY <2>1, <2>3 DEF NoTrouble
    <3> QED BY <3>1
  <2>4. CASE code = "killed" /\ "rip" \in drv.killed /\ NoTrouble
    <3>1. good(facts) BY <2>1, <2>4 DEF NoTrouble
    <3> QED BY <3>1
  <2>5. CASE /\ code \in {"pipe", "quit"} /\ intf.state # "up"
             /\ rip.in # << >>
             /\ facts' = facts \cup (IF code = "quit" THEN {"quit"} ELSE {})
    <3>1. CASE code = "quit"
      <4>1. good(facts \cup {"quit"}) BY <2>1, <2>2, <2>5, <3>1
      <4> QED BY <4>1
    <3>2. CASE code = "pipe"
      <4>1. facts' = facts BY <2>5, <3>2
      <4>2. good(facts) BY <2>1, <2>5, <3>2, <4>1
      <4> QED BY <4>2
    <3> QED BY <2>5, <3>1, <3>2
  <2>6. CASE code \in {"segv", "killed"} /\ Trouble("rip")
    <3>1. good(facts \cup {"rip"}) BY <2>1, <2>2, <2>6 DEF Trouble
    <3> QED BY <3>1
  <2>7. CASE code = "quit" /\ Trouble("quit")
    <3>1. good(facts \cup {"quit"}) BY <2>1, <2>2, <2>7 DEF Trouble
    <3> QED BY <3>1
  <2> QED BY <2>3, <2>4, <2>5, <2>6, <2>7 DEF RipEnds
<1>4. drv \in Drivers /\ rip \in RipStates BY DEF Inv, Sound, Typed
<1>5. e \in Seq(Acts) /\ e = << >> OBVIOUS
<1> HIDE DEF e
<1>6. q \in RipStates BY <1>4, <1>5 DEF RipStates
<1>7. q.state = "dead" /\ q.in = e /\ q.eof = rip.eof
  BY <1>4 DEF RipStates
<1>8. v \in Drivers BY <1>4 DEF Drivers
<1>9. /\ v.rdied = TRUE /\ v.rippid = FALSE /\ v.rcode = code
      /\ v.todo = drv.todo /\ v.verdict = drv.verdict /\ v.phase = drv.phase
      /\ v.nofault = drv.nofault /\ v.intpid = drv.intpid
      /\ v.died = drv.died /\ v.rnofault = drv.rnofault
      /\ v.icode = drv.icode /\ v.riping = drv.riping /\ v.term = drv.term
      /\ v.err = drv.err /\ v.ghost = drv.ghost /\ v.killed = drv.killed
  BY <1>4 DEF Drivers
<1> HIDE DEF v, q
<1>10. /\ intf.state # "none" /\ drv.riping
       /\ (rip.eof => drv.rnofault)
  BY <1>1 DEF Inv, Sound, Children
<1>11. /\ (drv.killed # {} => facts # {})
       /\ ("rip" \in drv.killed => drv.rnofault)
       /\ (intf.state \in {"closed", "dead"} => facts # {})
  BY <1>1 DEF Inv, Sound, Modes, Reasons
<1>12. code = "pipe" => facts # {}
  <2>1. intf \in Interfaces BY DEF Inv, Sound, Typed
  <2>2. intf.state \in {"none", "up", "closed", "dead"}
    BY <2>1 DEF Interfaces
  <2> QED BY <1>3, <1>10, <1>11, <2>2
<1>13. code \in {"ok", "killed", "pipe", "quit", "segv"} BY DEF RipCodes
<1>14. Sound(v, intf, q, fb, g)
  <2>1. Typed(v, intf, q, fb, g) /\ Program(v.todo)
    BY <1>3, <1>6, <1>8, <1>9 DEF Inv, Sound, Typed
  <2>2. Children(v, intf, q)
    BY <1>5, <1>7, <1>9, <1>10 DEF Inv, Sound, Children
  <2>3. Places(v, intf, q, fb)
    BY <1>1, <1>7, <1>9 DEF Inv, Sound, Places, NowIn, Now
  <2>4. Modes(v, intf, q, g)
    BY <1>1, <1>3, <1>9 DEF Inv, Sound, Modes, EndsIn, Now
  <2>5. Reasons(v, intf, q, fb, g)
    <3>1. Reasons(drv, intf, rip, fb, facts) BY DEF Inv, Sound
    <3>2. /\ v.rcode = "quit" => "quit" \in g
          /\ v.rcode = "segv" => "rip" \in g
          /\ v.rcode = "killed" => "rip" \in g \/ "rip" \in v.killed
          /\ v.rcode = "pipe" => g # {}
      BY <1>3, <1>9, <1>12
    <3>3. v.rdied /\ ~ v.rnofault =>
            /\ v.rcode \notin {"none", "ok"}
            /\ v.rcode = "killed" => "rip" \in g
      BY <1>3, <1>9, <1>10, <1>11, <1>13
    <3>4. ~ q.eof => g # {}
      BY <1>3, <1>7, <1>11, <1>12, <1>13
    <3> QED BY <1>3, <1>7, <1>9, <3>1, <3>2, <3>3, <3>4
         DEF Reasons, NowIn, Now
  <2>6. Just(v.verdict, v, g) BY <1>1, <1>9 DEF Just
  <2> QED BY <1>1, <1>9, <2>1, <2>2, <2>3, <2>4, <2>5, <2>6 DEF Sound
<1>15. Conserved(v, intf, q, fb, g, paper, job)
  <2>1. ASSUME EndsIn(drv, "verdict")
        PROVE  Whole(v, intf, q, g, paper, job)
    <3>1. /\ drv.rcode \notin Lost
          /\ Whole(drv, intf, rip, facts, paper, job)
      BY <1>1, <2>1 DEF Inv, Conserved
    <3>2. CASE code \in Lost BY <1>9, <3>2 DEF Whole
    <3>3. CASE code = "quit" BY <1>3, <3>3 DEF Whole
    <3>4. CASE code = "ok"
      <4>1. q.in = rip.in BY <1>3, <1>5, <1>7, <3>4
      <4> QED BY <1>3, <1>9, <3>1, <4>1 DEF Whole
    <3> QED BY <1>13, <3>2, <3>3, <3>4 DEF Lost
  <2> QED BY <1>3, <1>7, <1>9, <1>10, <2>1
       DEF Inv, Conserved, NowIn, Now, EndsIn
<1> QED BY <1>2, <1>3, <1>8, <1>14, <1>15, WakeKeeps, WakeConserves DEF Inv

---------------------------------------------------------------------------
(* The theorems *)

\* pprdrv begins with no child and nothing gone wrong.
LEMMA Begins == DInit => Inv
<1> SUFFICES ASSUME DInit PROVE Inv OBVIOUS
<1> DEFINE t == <<Op("main")>>
           e == << >>
<1>1. job \in Orders BY DEF DInit
<1>2. t \in Seq(Acts) BY DEF Acts, Names, Op
<1>3. t # << >> /\ Len(t) = 1 /\ t[1][1] = "main" BY DEF Op
<1>4. Program(t)
  <2>1. \A k \in 1 .. 1 : k = 1 OBVIOUS
  <2>2. \A k \in 1 .. 1 - 1 : FALSE OBVIOUS
  <2> HIDE DEF t
  <2> QED BY <1>2, <1>3, <2>1, <2>2 DEF Program, Flow, Ripped
<1>5. drv.todo = t BY OpsAre DEF DInit
<1> HIDE DEF t
<1>6. /\ drv.phase = "run" /\ drv.intpid = FALSE /\ drv.died = FALSE
      /\ drv.nofault = FALSE /\ drv.rippid = FALSE /\ drv.rdied = FALSE
      /\ drv.rnofault = FALSE /\ drv.icode = "none" /\ drv.rcode = "none"
      /\ drv.riping = FALSE /\ drv.term = FALSE /\ drv.err = FALSE
      /\ drv.ghost = FALSE /\ drv.killed = {} /\ drv.verdict = "none"
  BY DEF DInit
<1>7. drv \in Drivers
  <2> DEFINE s == Ops(<<"main">>)
  <2>1. s = t BY OpsAre DEF t
  <2>2. s \in Seq(Acts) BY <1>2, <2>1
  <2>3. drv = [todo |-> s, phase |-> "run",
               intpid |-> FALSE, died |-> FALSE, nofault |-> FALSE,
               rippid |-> FALSE, rdied |-> FALSE, rnofault |-> FALSE,
               icode |-> "none", rcode |-> "none", riping |-> FALSE,
               usr1 |-> FALSE, term |-> FALSE, wend |-> FALSE, dcount |-> 0,
               err |-> FALSE, ghost |-> FALSE, seen |-> FALSE,
               active |-> FALSE, killed |-> {}, verdict |-> "none"]
    BY DEF DInit
  <2> HIDE DEF s
  <2>4. "none" \in ExitCodes BY DEF ExitCodes
  <2> QED BY <2>2, <2>3, <2>4 DEF Drivers
<1>8. /\ intf \in Interfaces /\ intf.state = "none" /\ intf.in = << >>
      /\ intf.eof = FALSE /\ intf.code = "none"
  BY DEF DInit, Interfaces
<1>9. /\ rip \in RipStates /\ rip.state = "none" /\ rip.in = << >>
      /\ rip.eof = FALSE
  BY DEF DInit, RipStates
<1>10. /\ fb = << >> /\ fb \in Seq(Messages) /\ Len(fb) = 0
       /\ paper = << >> /\ paper \in Seq(Acts)
       /\ facts = {} /\ facts \in SUBSET FactNames
  BY DEF DInit
<1>11. Now(drv) = "main" /\ drv.todo # << >> /\ Final(drv.todo) = "main"
  BY <1>3, <1>5 DEF Now, Final
<1>12. Sound(drv, intf, rip, fb, facts)
  <2>1. Typed(drv, intf, rip, fb, facts) /\ Program(drv.todo)
    BY <1>4, <1>5, <1>7, <1>8, <1>9, <1>10 DEF Typed
  <2>2. Children(drv, intf, rip) BY <1>6, <1>8, <1>9 DEF Children
  <2>3. Places(drv, intf, rip, fb)
    BY <1>6, <1>8, <1>9, <1>10, <1>11 DEF Places, NowIn
  <2>4. Modes(drv, intf, rip, facts) BY <1>6, <1>11 DEF Modes, EndsIn
  <2>5. Reasons(drv, intf, rip, fb, facts)
    <3>1. \A k \in 1 .. Len(fb) : FALSE BY <1>10
    <3> QED BY <1>6, <1>8, <1>9, <1>11, <3>1 DEF Reasons, NowIn
  <2>6. Just(drv.verdict, drv, facts) BY <1>6 DEF Just
  <2> QED BY <1>6, <2>1, <2>2, <2>3, <2>4, <2>5, <2>6 DEF Sound
<1>13. Conserved(drv, intf, rip, fb, facts, paper, job)
  BY <1>6, <1>10, <1>11 DEF Conserved, EndsIn, Lost
<1> QED BY <1>1, <1>12, <1>13 DEF Inv

\* Every step of pprdrv, of its children, of the printer and of the operator
\* keeps the invariant.
LEMMA Goes == Inv /\ [DNext]_vars => Inv'
<1>1. ASSUME Inv, Walks PROVE Inv'
  BY <1>1, MainKeeps, AgainKeeps, LaunchKeeps, HandshakeKeeps, SignalKeeps,
     RipStartKeeps, RipEofKeeps, RipScreenKeeps, RipVerdictKeeps, ShutKeeps,
     ReapKeeps, InterfaceVerdictKeeps, VerdictKeeps, SleepKeeps,
     FlushCheckKeeps, FlushAgainKeeps, FlushWriteKeeps, FlushBrokenKeeps,
     EpipeKeeps, WaitTestKeeps, WaitInterruptedKeeps, FeedbackReadyKeeps,
     DrainedKeeps, WaitTimeoutKeeps
     DEF Walks
<1>2. ASSUME Inv, DNext PROVE Inv'
  BY <1>1, <1>2, GivesUpKeeps, PageTimeLimitKeeps, LaunchFailsKeeps,
     HandshakeTimeoutKeeps, RipStartFailsKeeps,
     InterfaceReadsKeeps, PrinterAnswersKeeps, InterfaceAnswersKeeps,
     InterfaceEndsKeeps, InterfaceDiesKeeps, ComplainsKeeps,
     GhostComplainsKeeps, RipPassesKeeps, RipEndsKeeps, TerminateKeeps
     DEF DNext
<1>3. ASSUME Inv, UNCHANGED vars PROVE Inv'
  BY <1>3 DEF vars, Inv
<1> QED BY <1>2, <1>3

\* Whatever happens, what pprdrv knows of its children is what has become of
\* them, its program is one that it can carry out, what it goes by has really
\* happened, and no page is lost without a trace: fault_check(), the signal
\* handlers and printer_flush() work together as they should.
THEOREM DriverInvariant == DSpec => []Inv
BY Begins, Goes, PTL DEF DSpec

\* hooked_exit() and the end of real_main() leave no interface behind that was
\* not killed, and no RIP, unless its interface is dead.
THEOREM NobodyLeft == DSpec => []NothingLeft
<1>1. Inv => NothingLeft BY DEF Inv, Sound, Alone, NothingLeft
<1> QED BY <1>1, DriverInvariant, PTL

\* A job is failed only if something went wrong, and pprdrv's exit code blames
\* who is to blame: fault_check(), rip_exit_screen(), interface_exit_screen()
\* and the verdict of real_main() never take the death of a child that pprdrv
\* killed itself, or that died of the other, for the fault of the job.
THEOREM BlamesRight == DSpec => []Blame
<1>1. Inv => Blame BY DEF Inv, Sound, Just, Blame
<1> QED BY <1>1, DriverInvariant, PTL

---------------------------------------------------------------------------
(* The contract.  A step of pprdrv, of its children, of the printer or of    *)
(* the operator is a step of PprdrvContract, or changes nothing there.       *)

\* What C hears of as excuses.
Excuses == {"hasty", "quit", "ignored"}

\* Nothing that the contract speaks of changes but the exit code.
Unseen ==
  /\ UNCHANGED <<job, paper>>
  /\ "error" \in facts' <=> "error" \in facts
  /\ facts' \cap Excuses = facts \cap Excuses

\* pprdrv goes on, or ends with a code that is not EXIT_PRINTED.
LEMMA Unprinted ==
  ASSUME drv.verdict = "none", drv'.verdict # "printed", Unseen
  PROVE  C!Finish \/ UNCHANGED C!contract
BY DEF Unseen, Excuses, C!Finish, C!contract

\* Something goes wrong that the contract does not speak of, or nothing.
LEMMA Unheard ==
  ASSUME UNCHANGED <<job, paper>>,
         NoTrouble \/ \E what \in {"incapable", "launch", "handshake", "rip",
                                   "interface", "ghost", "operator", "file",
                                   "setup", "slow"} :
                        Trouble(what)
  PROVE  Unseen
BY DEF Unseen, Excuses, NoTrouble, Trouble

\* The exit code after the steps of which all others are made.
LEMMA VerdictOf ==
  ASSUME NEW v \in Drivers
  PROVE  /\ \A code \in ExitCodes : HookedExit(v, code).verdict = code
         /\ FaultCheck(v).verdict \in {v.verdict, "signal"}
         /\ v.todo # << >> => /\ Advance(v) \in Drivers
                              /\ Advance(v).verdict = v.verdict
         /\ \A phase : [v EXCEPT !.phase = phase].verdict = v.verdict
         /\ \A t : Turn(v, t).verdict = v.verdict
<1>1. \A code \in ExitCodes : HookedExit(v, code).verdict = code BY ExitIs
<1>2. FaultCheck(v).verdict \in {v.verdict, "signal"} BY FaultVerdict
<1>3. ASSUME v.todo # << >>
      PROVE  Advance(v) \in Drivers /\ Advance(v).verdict = v.verdict
  <2> DEFINE t == Tail(v.todo)
  <2>1. t \in Seq(Acts)
    <3>1. v.todo \in Seq(Acts) BY DEF Drivers
    <3> QED BY <1>3, <3>1
  <2>2. Advance(v) = [v EXCEPT !.todo = t, !.phase = "run"] BY DEF Advance
  <2> HIDE DEF t
  <2> QED BY <2>1, <2>2 DEF Drivers
<1>4. \A phase : [v EXCEPT !.phase = phase].verdict = v.verdict BY DEF Drivers
<1>5. \A t : Turn(v, t).verdict = v.verdict BY DEF Drivers, Turn
<1> QED BY <1>1, <1>2, <1>3, <1>4, <1>5

\* No step of pprdrv's but the last one of real_main() makes it exit with
\* EXIT_PRINTED: not a fault, whichever it is, not a child that could not be
\* started and not a child whose exit code is no good.
LEMMA OnlyVerdictPrints ==
  ASSUME Inv, \/ Walks \/ GivesUp \/ LaunchFails \/ HandshakeTimeout
              \/ RipStartFails \/ PageTimeLimit
  PROVE  drv.verdict = "none" /\ (Verdict \/ drv'.verdict # "printed")
<1> DEFINE Bad(w) == w.verdict # "printed"
<1>1. drv \in Drivers BY DEF Inv, Sound, Typed
<1>2. ASSUME NEW name, At(name) PROVE drv.verdict = "none" BY <1>2, AtIs
<1>3. AtBlock \/ AtWait => drv.verdict = "none" BY NotEnded DEF AtBlock, AtWait
<1>4. ASSUME drv.verdict = "none"
      PROVE  /\ \A code \in ExitCodes :
                  code # "printed" => Bad(HookedExit(drv, code))
             /\ Bad(FaultCheck(drv)) /\ Bad(drv)
             /\ drv.todo # << >> => Bad(Advance(drv)) /\ Advance(drv) \in Drivers
             /\ \A phase : Bad([drv EXCEPT !.phase = phase])
             /\ \A t : Bad(Turn(drv, t))
  BY <1>1, <1>4, VerdictOf
<1>5. /\ {"noretry", "prnerr", "starved", "joberr", "signal"} \subseteq ExitCodes
      /\ \A code : InterfaceExitScreen(code)
                     \in {"ok", "prnerr", "noretry", "signal"}
      /\ \A code : RipExitScreen(code) \in {"ok", "joberr", "prnerr"}
  BY DEF ExitCodes, InterfaceCodes, InterfaceExitScreen, RipExitScreen
<1>6. ASSUME Main PROVE drv.verdict = "none" /\ Bad(drv')
  <2>1. drv.verdict = "none" BY <1>2, <1>6 DEF Main
  <2>2. Bad([Turn(drv, << >>) EXCEPT !.verdict = "incapable"])
    BY <1>1 DEF Drivers, Turn
  <2>3. drv' = Turn(drv, RealMain(job))
        \/ drv' = [Turn(drv, << >>) EXCEPT !.verdict = "incapable"]
    BY <1>6 DEF Main
  <2> HIDE DEF Bad
  <2> QED BY <1>4, <2>1, <2>2, <2>3
<1>7. ASSUME Again PROVE drv.verdict = "none" /\ Bad(drv')
  <2>1. drv.verdict = "none" BY <1>2, <1>7 DEF Again
  <2>2. drv' = Turn(drv, CopyPages(job, -1) \o drv.todo) BY <1>7 DEF Again
  <2> HIDE DEF Bad
  <2> QED BY <1>4, <2>1, <2>2
<1>8. ASSUME Launch PROVE drv.verdict = "none" /\ Bad(drv')
  <2>1. drv.verdict = "none" /\ drv.todo # << >> BY <1>2, <1>8 DEF Launch, At
  <2> DEFINE a == Advance(drv)
  <2>2. Bad(a) /\ a \in Drivers BY <1>4, <2>1
  <2>3. drv' = [a EXCEPT
                  !.intpid = TRUE, !.died = FALSE, !.nofault = FALSE,
                  !.usr1 = FALSE, !.wend = TRUE, !.dcount = 0,
                  !.seen = FALSE, !.active = FALSE]
    BY <1>8 DEF Launch
  <2> HIDE DEF a
  <2> QED BY <2>1, <2>2, <2>3 DEF Drivers
<1>9. ASSUME LaunchFails \/ RipStartFails
      PROVE  drv.verdict = "none" /\ Bad(drv')
  <2>1. drv.verdict = "none" BY <1>2, <1>9 DEF LaunchFails, RipStartFails
  <2>2. PICK code \in {"noretry", "prnerr", "starved"} :
          drv' = HookedExit(drv, code)
    BY <1>9 DEF LaunchFails, RipStartFails
  <2> HIDE DEF Bad
  <2> QED BY <1>4, <1>5, <2>1, <2>2
<1>10. ASSUME Handshake \/ HandshakeTimeout
       PROVE  drv.verdict = "none" /\ Bad(drv')
  <2>1. drv.verdict = "none" /\ drv.todo # << >>
    BY <1>2, <1>10 DEF Handshake, HandshakeTimeout, At
  <2>2. drv' \in {FaultCheck(drv), Advance(drv), HookedExit(drv, "noretry")}
    BY <1>10 DEF Handshake, HandshakeTimeout
  <2> HIDE DEF Bad
  <2> QED BY <1>4, <1>5, <2>1, <2>2
<1>11. ASSUME Signal \/ RipStart \/ RipEof \/ Shut
       PROVE  drv.verdict = "none" /\ Bad(drv')
  <2>1. drv.verdict = "none" /\ drv.todo # << >>
    BY <1>2, <1>11 DEF Signal, RipStart, RipEof, Shut, At
  <2> DEFINE a == Advance(drv)
  <2>2. Bad(a) /\ a \in Drivers BY <1>4, <2>1
  <2>3. \/ drv' = [a EXCEPT !.usr1 = ~ drv.intpid]
        \/ drv' = [a EXCEPT !.rippid = TRUE, !.riping = TRUE,
                            !.rdied = FALSE, !.rnofault = FALSE]
        \/ drv' = [a EXCEPT !.rnofault = TRUE]
        \/ drv' = [a EXCEPT !.nofault = TRUE, !.wend = FALSE]
    BY <1>11 DEF Signal, RipStart, RipEof, Shut
  <2> HIDE DEF a
  <2> QED BY <2>1, <2>2, <2>3 DEF Drivers
<1>12. ASSUME RipScreen PROVE drv.verdict = "none" /\ Bad(drv')
  <2>1. drv.verdict = "none" /\ drv.todo # << >>
    BY <1>2, <1>12 DEF RipScreen, At
  <2> DEFINE v == [drv EXCEPT !.rdied = FALSE]
             code == RipExitScreen(v.rcode)
             a == Advance(v)
  <2>2. v \in Drivers /\ v.verdict = "none" /\ v.todo = drv.todo
    BY <1>1, <2>1 DEF Drivers
  <2>3. \/ drv' = FaultCheck(v)
        \/ drv' = HookedExit(v, code) /\ code # "ok"
        \/ drv' = [a EXCEPT !.riping = FALSE]
    BY <1>12 DEF RipScreen
  <2>4. code \in {"ok", "joberr", "prnerr"} BY <1>5
  <2> HIDE DEF v, code
  <2>5. Bad(FaultCheck(v)) /\ Bad(a) /\ a \in Drivers
    BY <2>1, <2>2, VerdictOf
  <2>6. code # "ok" => Bad(HookedExit(v, code)) BY <1>5, <2>2, <2>4, VerdictOf
  <2> HIDE DEF a
  <2>7. Bad([a EXCEPT !.riping = FALSE]) BY <2>5 DEF Drivers
  <2> HIDE DEF Bad
  <2> QED BY <2>1, <2>3, <2>5, <2>6, <2>7
<1>13. ASSUME RipVerdict \/ Reap \/ InterfaceVerdict
       PROVE  drv.verdict = "none" /\ Bad(drv')
  <2>1. drv.verdict = "none" /\ drv.todo # << >>
    BY <1>2, <1>13 DEF RipVerdict, Reap, InterfaceVerdict, At
  <2>2. drv.icode \in InterfaceCodes \cup {"none"} BY <1>1 DEF Drivers
  <2>3. \/ drv' = Advance(drv)
        \/ \E code \in ExitCodes :
             code # "printed" /\ drv' = HookedExit(drv, code)
    <3>1. CASE RipVerdict BY <1>5, <3>1 DEF RipVerdict
    <3>2. CASE Reap BY <1>5, <3>2 DEF Reap
    <3>3. CASE InterfaceVerdict
      <4> DEFINE screened == InterfaceExitScreen(drv.icode)
                 code == IF screened # "ok" THEN screened
                         ELSE IF drv.icode = "printed" THEN "noretry"
                         ELSE IF drv.err THEN "joberr"
                         ELSE drv.icode
      <4>1. drv' = HookedExit(drv, code) BY <3>3 DEF InterfaceVerdict
      <4>2. code \in ExitCodes /\ code # "printed"
        BY <1>5, <2>2 DEF ExitCodes
      <4> QED BY <4>1, <4>2
    <3> QED BY <1>13, <3>1, <3>2, <3>3
  <2> HIDE DEF Bad
  <2> QED BY <1>4, <2>1, <2>3
<1>14. ASSUME Sleep \/ FlushAgain PROVE drv.verdict = "none" /\ Bad(drv')
  <2>1. drv.verdict = "none" BY <1>3, <1>14, NotEnded DEF Sleep, FlushAgain
  <2>2. \E phase : drv' = [drv EXCEPT !.phase = phase]
    BY <1>14 DEF Sleep, FlushAgain
  <2> HIDE DEF Bad
  <2> QED BY <1>4, <2>1, <2>2
<1>15. ASSUME FlushCheck \/ Epipe \/ FlushBroken
       PROVE  drv.verdict = "none" /\ Bad(drv')
  <2>1. drv.verdict = "none"
    BY <1>2, <1>3, <1>15 DEF FlushCheck, Epipe, FlushBroken
  <2>2. drv' \in {FaultCheck(drv), [drv EXCEPT !.phase = "due"],
                  HookedExit(drv, "prnerr"), Turn(drv, Ops(<<"epipe">>))}
    BY <1>15 DEF FlushCheck, Epipe, FlushBroken
  <2> HIDE DEF Bad
  <2> QED BY <1>4, <1>5, <2>1, <2>2
<1>16. ASSUME FlushWrite PROVE drv.verdict = "none" /\ Bad(drv')
  <2>1. drv.verdict = "none" /\ drv.todo # << >>
    BY <1>3, <1>16 DEF FlushWrite, AtBlock
  <2> DEFINE a == Advance(drv)
  <2>2. Bad(a) /\ a \in Drivers BY <1>4, <2>1
  <2>3. drv' \in {a, [a EXCEPT !.dcount = @ + 1]} BY <1>16 DEF FlushWrite
  <2> HIDE DEF a
  <2>4. [a EXCEPT !.dcount = @ + 1].verdict = a.verdict BY <2>2 DEF Drivers
  <2> QED BY <2>1, <2>2, <2>3, <2>4
<1>17. ASSUME WaitTest \/ WaitInterrupted
       PROVE  drv.verdict = "none" /\ Bad(drv')
  <2>1. drv.verdict = "none" /\ drv.todo # << >>
    BY <1>3, <1>17 DEF WaitTest, WaitInterrupted, AtWait
  <2> DEFINE a == Advance(drv)
  <2>2. Bad(a) /\ a \in Drivers BY <1>4, <2>1
  <2>3. drv' \in {FaultCheck(drv), a, [a EXCEPT !.seen = FALSE],
                  [drv EXCEPT !.phase = "run"], [drv EXCEPT !.phase = "due"]}
    BY <1>17 DEF WaitTest, WaitInterrupted
  <2> HIDE DEF a
  <2>4. Bad([a EXCEPT !.seen = FALSE]) BY <2>2 DEF Drivers
  <2> HIDE DEF Bad
  <2> QED BY <1>4, <2>1, <2>2, <2>3, <2>4
<1>18. ASSUME Drained \/ WaitTimeout PROVE drv.verdict = "none" /\ Bad(drv')
  <2>1. drv.verdict = "none" BY <1>18, NotEnded DEF Drained, WaitTimeout
  <2>2. \/ drv' \in {FaultCheck(drv), [drv EXCEPT !.phase = "run"],
                     Turn(drv, Ops(<<"uel">>) \o drv.todo)}
        \/ drv.todo # << >> /\ drv' = Advance(drv)
    BY <1>18 DEF Drained, WaitTimeout, At, KeepAlive
  <2> HIDE DEF Bad
  <2> QED BY <1>4, <2>1, <2>2
<1>19. ASSUME FeedbackReady PROVE drv.verdict = "none" /\ Bad(drv')
  <2>1. drv.verdict = "none" BY <1>3, <1>19 DEF FeedbackReady
  <2> DEFINE u == FeedbackReader(drv, fb)
             v == [u EXCEPT !.phase = "run"]
  <2>2. fb \in Seq(Messages) BY DEF Inv, Sound, Typed
  <2>3. u \in Drivers /\ u.verdict = "none" /\ u.todo = drv.todo
    BY <1>1, <2>1, <2>2, FeedbackIs DEF Heard, Hears
  <2>4. \/ drv' = FaultCheck(drv) \/ drv' = v
        \/ drv' = Turn(v, Ops(<<"uel">>) \o v.todo)
        \/ drv.todo # << >> /\ drv' = Advance(v)
    BY <1>19 DEF FeedbackReady, At, KeepAlive
  <2> HIDE DEF u
  <2>5. v \in Drivers /\ v.verdict = "none" /\ v.todo = drv.todo
    BY <2>3 DEF Drivers
  <2> HIDE DEF v
  <2>6. /\ Bad(v) /\ (drv.todo # << >> => Bad(Advance(v)))
        /\ \A t : Bad(Turn(v, t))
    BY <2>5, VerdictOf
  <2> HIDE DEF Bad
  <2> QED BY <1>4, <2>1, <2>4, <2>6
<1>20. ASSUME Verdict PROVE drv.verdict = "none" BY <1>2, <1>20 DEF Verdict
<1>21. ASSUME GivesUp \/ PageTimeLimit PROVE drv.verdict = "none" /\ Bad(drv')
  <2>1. drv.verdict = "none"
    BY <1>21, NotEnded DEF GivesUp, PageTimeLimit
  <2>2. PICK code \in {"noretry", "prnerr", "starved", "joberr"} :
          drv' = HookedExit(drv, code)
    BY <1>21 DEF GivesUp, PageTimeLimit, Defects
  <2> HIDE DEF Bad
  <2> QED BY <1>4, <1>5, <2>1, <2>2
<1> QED BY <1>6, <1>7, <1>8, <1>9, <1>10, <1>11, <1>12, <1>13, <1>14, <1>15,
           <1>16, <1>17, <1>18, <1>19, <1>20, <1>21 DEF Walks

\* When pprdrv says EXIT_PRINTED nothing is in the pipes or in its program
\* any more, no PostScript error was reported, and all that real_main() had
\* to send is on the paper.
LEMMA VerdictDelivers == ASSUME Inv, Verdict, Delivers(job) PROVE C!Finish
<1>1. /\ drv.verdict = "none" /\ drv.todo # << >>
      /\ Now(drv) = "verdict" /\ NowIn(drv, {"verdict"})
  BY AtIs DEF Verdict
<1>2. Program(drv.todo) /\ drv \in Drivers BY DEF Inv, Sound, Typed
<1>3. drv.todo[1][1] = "verdict" /\ Len(drv.todo) = 1
      /\ Tail(drv.todo) = << >> /\ Final(drv.todo) = "verdict"
  BY <1>1, <1>2, LastSteps DEF Now
<1>4. /\ intf.state = "dead" /\ rip.state # "up" /\ fb = << >>
      /\ intf.in = << >> /\ rip.in = << >>
      /\ drv.icode = intf.code /\ intf.code # "none"
  <2>1. intf.state = "dead" /\ rip.state # "up" /\ fb = << >>
    BY <1>1 DEF Inv, Sound, Places, NowIn
  <2> QED BY <2>1 DEF Inv, Sound, Children
<1>5. ~ Loops(drv.todo)
  <2>1. \A k \in 1 .. Len(drv.todo) : k = 1 BY <1>3
  <2> QED BY <1>3, <2>1 DEF Loops
<1>6. ~ drv.riping /\ drv.rcode \notin Lost
  <2>1. ~ ScreenAhead(drv.todo, 0)
    <3>1. \A k \in 1 .. Len(drv.todo) : k = 1 BY <1>3
    <3> QED BY <1>3, <3>1 DEF ScreenAhead
  <2> QED BY <1>1, <1>3, <2>1 DEF Inv, Conserved, EndsIn
<1>7. ~ Loops(RealMain(job)) /\ Whole(drv, intf, rip, facts, paper, job)
  BY <1>1, <1>3, <1>5 DEF Inv, Conserved, EndsIn
<1>8. DataOf(drv.todo) = << >>
  <2>1. drv.todo \in Seq(Acts) BY <1>2 DEF Program
  <2>2. DataOf(drv.todo) = Sheet(Head(drv.todo)) \o DataOf(Tail(drv.todo))
    BY <1>1, <2>1, DataIs
  <2>3. Head(drv.todo) = drv.todo[1] BY <1>1, <2>1
  <2>4. Sheet(Head(drv.todo)) = << >> BY <1>3, <2>3 DEF Sheet, Data
  <2>5. DataOf(Tail(drv.todo)) = << >> BY <1>3, DataIs
  <2> QED BY <2>2, <2>4, <2>5
<1>9. ASSUME facts \cap Excuses = {}, drv.icode = "printed"
      PROVE  C!Delivered(job, paper)
  <2>1. ((paper \o DataOf(intf.in)) \o DataOf(rip.in)) \o DataOf(drv.todo)
          = DataOf(RealMain(job))
    BY <1>4, <1>5, <1>6, <1>7, <1>9 DEF Whole, Excuses
  <2>2. paper \in Seq(Acts) BY DEF Inv, Conserved
  <2>3. DataOf(intf.in) = << >> /\ DataOf(rip.in) = << >> BY <1>4, DataIs
  <2>4. paper = DataOf(RealMain(job)) BY <1>8, <2>1, <2>2, <2>3
  <2>5. \A i \in DOMAIN RealMain(job) : RealMain(job)[i] # Op("again")
    <3>1. RealMain(job) \in Seq(Acts) BY RealMainIs DEF Inv, Program
    <3>2. DOMAIN RealMain(job) = 1 .. Len(RealMain(job)) BY <3>1
    <3>3. Op("again")[1] = "again" BY DEF Op
    <3> QED BY <1>7, <3>2, <3>3 DEF Loops
  <2> QED BY <2>4, <2>5 DEF Delivers
<1>10. "error" \in facts => drv.err
  <2>1. \A k \in 1 .. Len(fb) : FALSE BY <1>4
  <2> QED BY <2>1 DEF Inv, Conserved
<1>11. drv'.verdict = (IF drv.err THEN "joberr" ELSE drv.icode)
  <2> DEFINE code == IF drv.err THEN "joberr" ELSE drv.icode
  <2>1. drv' = [Turn(drv, << >>) EXCEPT !.verdict = code] BY DEF Verdict
  <2> HIDE DEF code
  <2>2. drv'.verdict = code BY <1>2, <2>1 DEF Drivers, Turn
  <2> QED BY <2>2 DEF code
<1>12. UNCHANGED <<job, paper, facts>> BY DEF Verdict, NoTrouble, children
<1> QED BY <1>1, <1>4, <1>9, <1>10, <1>11, <1>12 DEF C!Finish, Excuses

\* An interface that ends, in haste or not, excuses pprdrv or says nothing.
LEMMA InterfaceEndsExcuse ==
  ASSUME NEW code \in InterfaceCodes, InterfaceEnds(code)
  PROVE  C!Excuse
<1>1. drv.verdict = "none" BY DEF InterfaceEnds, Running
<1>2. \/ facts' = facts \/ facts' = facts \cup {"hasty"}
      \/ facts' = facts \cup {"interface"}
  BY DEF InterfaceEnds, NoTrouble, Trouble
<1>3. UNCHANGED <<job, drv, paper>> BY DEF InterfaceEnds
<1> QED BY <1>1, <1>2, <1>3 DEF C!Excuse

\* So does a RIP: rip_sigchld_hook() does not make pprdrv exit.
LEMMA RipEndsExcuse ==
  ASSUME Inv, NEW code \in RipCodes, RipEnds(code)
  PROVE  C!Excuse
<1> DEFINE v == [drv EXCEPT !.rdied = TRUE, !.rippid = FALSE, !.rcode = code]
<1>1. drv.verdict = "none" /\ drv \in Drivers
  BY DEF RipEnds, Running, Inv, Sound, Typed
<1>2. \/ facts' = facts \/ facts' = facts \cup {"quit"}
      \/ facts' = facts \cup {"rip"}
  BY DEF RipEnds, NoTrouble, Trouble
<1>3. drv' = Wake(v) /\ UNCHANGED <<job, paper>> BY DEF RipEnds
<1>4. v \in Drivers /\ v.verdict = "none" BY <1>1 DEF Drivers
<1> HIDE DEF v
<1>5. drv'.verdict = "none" BY <1>3, <1>4, WakeIs DEF Hears
<1> QED BY <1>1, <1>2, <1>3, <1>5 DEF C!Excuse

\* What the children, the printer and the operator do.
LEMMA OthersKeepContract ==
  ASSUME Inv,
         \/ InterfaceReads \/ PrinterAnswers \/ InterfaceAnswers
         \/ \E code \in InterfaceCodes : InterfaceEnds(code)
         \/ InterfaceDies \/ Complains \/ GhostComplains \/ RipPasses
         \/ \E code \in RipCodes : RipEnds(code)
         \/ Terminate
  PROVE  \/ C!Take \/ C!Complain \/ C!Excuse \/ C!Finish
         \/ UNCHANGED C!contract
<1>1. drv \in Drivers BY DEF Inv, Sound, Typed
<1>3. ASSUME InterfaceReads PROVE C!Take \/ UNCHANGED C!contract
  <2>1. drv.verdict = "none" /\ UNCHANGED <<job, drv, facts>>
    BY <1>3 DEF InterfaceReads, NoTrouble, Running
  <2> DEFINE x == Head(intf.in)
  <2>2. paper' = paper \/ paper' = Append(paper, x)
    BY <1>3 DEF InterfaceReads
  <2>3. paper \in Seq(Acts) BY DEF Inv, Conserved
  <2>4. x \in Acts
    <3>1. intf.in # << >> BY <1>3 DEF InterfaceReads
    <3>2. intf.in \in Seq(Acts) BY DEF Inv, Sound, Typed, Interfaces
    <3> QED BY <3>1, <3>2
  <2> HIDE DEF x
  <2>5. CASE paper' = paper BY <2>1, <2>5 DEF C!contract
  <2>6. CASE paper' = Append(paper, x)
    <3>1. Len(paper') = Len(paper) + 1 /\ Len(paper) \in Nat
      BY <2>3, <2>4, <2>6
    <3>2. SubSeq(paper', 1, Len(paper)) = SubSeq(paper, 1, Len(paper))
      BY <2>3, <2>4, <2>6
    <3>3. C!IsPrefix(paper, paper') BY <3>1, <3>2 DEF C!IsPrefix
    <3> QED BY <2>1, <3>1, <3>3 DEF C!Take
  <2> QED BY <2>2, <2>5, <2>6
<1>4. ASSUME PrinterAnswers \/ RipPasses PROVE UNCHANGED C!contract
  BY <1>4 DEF PrinterAnswers, RipPasses, NoTrouble, C!contract
<1>5. ASSUME InterfaceAnswers \/ InterfaceDies \/ Terminate
      PROVE  C!Finish \/ UNCHANGED C!contract
  <2> DEFINE a == [drv EXCEPT !.usr1 = TRUE]
             d == [drv EXCEPT !.died = TRUE, !.intpid = FALSE,
                              !.icode = intf.code]
             t == [drv EXCEPT !.term = TRUE]
  <2>0. drv.verdict = "none"
    BY <1>5 DEF InterfaceAnswers, InterfaceDies, Terminate, Running
  <2>1. intf.code \in InterfaceCodes \cup {"none"}
    BY DEF Inv, Sound, Typed, Interfaces
  <2>2. /\ a \in Drivers /\ a.verdict = "none"
        /\ d \in Drivers /\ d.verdict = "none"
        /\ t \in Drivers /\ t.verdict = "none"
    <3>0. drv \in Drivers BY DEF Inv, Sound, Typed
    <3>1. a \in Drivers /\ a.verdict = "none" BY <2>0, <3>0 DEF Drivers
    <3>2. d \in Drivers /\ d.verdict = "none" BY <2>0, <2>1, <3>0 DEF Drivers
    <3>3. t \in Drivers /\ t.verdict = "none" BY <2>0, <3>0 DEF Drivers
    <3> HIDE DEF a, d, t
    <3> QED BY <3>1, <3>2, <3>3
  <2>3. drv' \in {Wake(a), Wake(d), Wake(t)}
    BY <1>5 DEF InterfaceAnswers, InterfaceDies, Terminate
  <2> HIDE DEF a, d, t
  <2>4. drv'.verdict = "none" BY <2>2, <2>3, WakeIs DEF Hears
  <2>5. Unseen
    BY <1>5, Unheard DEF InterfaceAnswers, InterfaceDies, Terminate, children
  <2> QED BY <2>0, <2>4, <2>5, Unprinted
<1>6. ASSUME Complains PROVE C!Complain
  BY <1>6 DEF Complains, Trouble, Running, C!Complain
<1>7. ASSUME GhostComplains PROVE C!Finish \/ UNCHANGED C!contract
  <2>1. Unseen BY <1>7, Unheard DEF GhostComplains
  <2>2. drv' = drv /\ drv.verdict = "none" BY <1>7 DEF GhostComplains, Running
  <2> QED BY <2>1, <2>2, Unprinted
<1> QED BY <1>3, <1>4, <1>5, <1>6, <1>7, InterfaceEndsExcuse, RipEndsExcuse

\* No step changes the job.
LEMMA JobStays == ASSUME [DNext]_vars PROVE job' = job
<1>1. ASSUME Walks PROVE job' = job
  BY <1>1 DEF Walks, Main, Again, Launch, Handshake, Signal, RipStart, RipEof,
       RipScreen, RipVerdict, Shut, Reap, InterfaceVerdict, Verdict, Sleep,
       FlushCheck, FlushAgain, FlushWrite, FlushBroken, Epipe, WaitTest,
       WaitInterrupted, FeedbackReady, Drained, WaitTimeout
<1>2. ASSUME GivesUp \/ PageTimeLimit \/ LaunchFails \/ HandshakeTimeout
             \/ RipStartFails \/ InterfaceReads \/ PrinterAnswers \/ InterfaceAnswers
      PROVE  job' = job
  BY <1>2 DEF GivesUp, PageTimeLimit, LaunchFails, HandshakeTimeout,
       RipStartFails, InterfaceReads, PrinterAnswers, InterfaceAnswers
<1>3. ASSUME InterfaceDies \/ Complains \/ GhostComplains \/ RipPasses
             \/ Terminate
      PROVE  job' = job
  BY <1>3 DEF InterfaceDies, Complains, GhostComplains, RipPasses, Terminate
<1>4. \A code : InterfaceEnds(code) => job' = job BY DEF InterfaceEnds
<1>5. \A code : RipEnds(code) => job' = job BY DEF RipEnds
<1> QED BY <1>1, <1>2, <1>3, <1>4, <1>5 DEF DNext, vars

\* Every step is one that the contract allows.
LEMMA StepsKeepContract ==
  ASSUME Inv, Delivers(job), [DNext]_vars
  PROVE  [C!Take \/ C!Complain \/ C!Excuse \/ C!Finish]_C!contract
<1>1. ASSUME Launch PROVE C!Excuse
  <2>1. drv.verdict = "none" /\ drv.todo # << >>
    BY <1>1, NotEnded DEF Launch, At
  <2>2. drv \in Drivers BY DEF Inv, Sound, Typed
  <2> DEFINE a == Advance(drv)
  <2>3. a \in Drivers /\ a.verdict = "none" BY <2>1, <2>2, VerdictOf
  <2>4. drv' = [a EXCEPT
                  !.intpid = TRUE, !.died = FALSE, !.nofault = FALSE,
                  !.usr1 = FALSE, !.wend = TRUE, !.dcount = 0,
                  !.seen = FALSE, !.active = FALSE]
    BY <1>1 DEF Launch
  <2> HIDE DEF a
  <2>5. drv'.verdict = "none" BY <2>3, <2>4 DEF Drivers
  <2>6. /\ facts' = facts \/ facts' = facts \cup {"ignored"}
        /\ UNCHANGED <<job, paper>>
    BY <1>1 DEF Launch
  <2> QED BY <2>1, <2>5, <2>6 DEF C!Excuse
<1>2. ASSUME Verdict PROVE C!Finish BY <1>2, VerdictDelivers
<1>3. ASSUME \/ Walks \/ GivesUp \/ LaunchFails \/ HandshakeTimeout
             \/ RipStartFails \/ PageTimeLimit,
             ~ Launch, ~ Verdict
      PROVE  C!Finish \/ UNCHANGED C!contract
  <2>1. drv.verdict = "none" /\ drv'.verdict # "printed"
    BY <1>3, OnlyVerdictPrints
  <2>2. UNCHANGED <<job, paper>>
        /\ (NoTrouble \/ \E what \in {"incapable", "launch", "handshake",
                                      "rip", "file", "setup", "slow"} :
                                        Trouble(what))
    BY <1>3 DEF Walks, GivesUp, PageTimeLimit, Defects, LaunchFails, HandshakeTimeout, RipStartFails, Main,
         Again, Handshake, Signal, RipStart, RipEof, RipScreen, RipVerdict,
         Shut, Reap, InterfaceVerdict, Sleep, FlushCheck, FlushAgain,
         FlushWrite, FlushBroken, Epipe, WaitTest, WaitInterrupted,
         FeedbackReady, Drained, WaitTimeout, children
  <2>3. Unseen BY <2>2, Unheard
  <2> QED BY <2>1, <2>3, Unprinted
<1>4. ASSUME UNCHANGED vars PROVE UNCHANGED C!contract
  BY <1>4 DEF vars, C!contract
<1> QED BY <1>1, <1>2, <1>3, <1>4, OthersKeepContract DEF DNext

\* A pprdrv that says EXIT_PRINTED has handed the whole order to the
\* interface, once, and has heard of no PostScript error: the detailed driver
\* implements PprdrvContract, for every job, pipe size and amount of trouble
\* for which the program of a job delivers it.
THEOREM Refines == DSpec /\ []ProgramDelivers => KeepsContract
<1>1. DInit => C!CInit BY DEF DInit, C!CInit
<1>2. DInit /\ ProgramDelivers => Inv /\ Delivers(job)
  <2> SUFFICES ASSUME DInit, ProgramDelivers PROVE Inv /\ Delivers(job)
    OBVIOUS
  <2>1. Inv BY Begins
  <2>2. drv.todo = <<Op("main")>> BY OpsAre DEF DInit
  <2>3. At("main") BY <2>2 DEF At, Op
  <2> QED BY <2>1, <2>3 DEF ProgramDelivers
<1>3. Inv /\ Delivers(job) /\ [DNext]_vars => Inv' /\ Delivers(job)'
  <2> SUFFICES ASSUME Inv, Delivers(job), [DNext]_vars
               PROVE  Inv' /\ Delivers(job)'
    OBVIOUS
  <2>1. Inv' BY Goes
  <2>2. job' = job BY JobStays
  <2> QED BY <2>1, <2>2
<1>4. Inv /\ Delivers(job) /\ [DNext]_vars
        => [C!Take \/ C!Complain \/ C!Excuse \/ C!Finish]_C!contract
  BY StepsKeepContract
<1> QED BY <1>1, <1>2, <1>3, <1>4, PTL DEF DSpec, KeepsContract, C!Contract
=============================================================================
