-------------------------- MODULE PprdrvPageProofs --------------------------
(***************************************************************************)
(* Proofs about the pages and copies that pprdrv sends, for any job: the   *)
(* table of the wanted pages, the sheets that are made of it, what is read *)
(* when they are stacked or folded, the copies, the files and at last the  *)
(* program of a job, which delivers it (JobDelivered).  With PprdrvProofs  *)
(* this makes EXIT_PRINTED mean that the order was delivered.              *)
(***************************************************************************)
EXTENDS PprdrvProofs

---------------------------------------------------------------------------
(* What FlattenSeq() and Keep() make of sequences of sequences *)

\* ... for sequences of whatever it is.
LEMMA FlattenIs ==
  ASSUME NEW V, NEW s \in Seq(Seq(V)), s # << >>
  PROVE  /\ Len(s) \in Nat \ {0} /\ FlattenSeq(s) \in Seq(V)
         /\ \E h \in [1 .. Len(s) -> Seq(V)] : FlatUp(s, Len(s), h)
<1> DEFINE L == Seq(V)
           n == Len(s)
<1>1. n \in Nat /\ n # 0 /\ s[1] \in L /\ \A i \in 2 .. n : s[i] \in L
  OBVIOUS
<1>2. \A a \in L, b \in L : a \o b \in L OBVIOUS
<1>3. Len(s) = n OBVIOUS
<1> HIDE DEF L, n
<1>6. Flattened(s, n, L) BY <1>1, <1>2, <1>3, FlattenSteps
<1>4. PICK h \in [1 .. n -> L] : FlatUp(s, n, h) BY <1>6 DEF Flattened
<1>5. n \in 1 .. n BY <1>1
<1>7. FlattenSeq(s) \in L BY <1>4, <1>5 DEF FlatUp
<1> QED BY <1>1, <1>4, <1>7 DEF L, n

\* t is what s holds, in blocks of length f but for the last.
InBlocks(t, s, f) ==
  /\ Len(t) = (Len(s) - 1) * f + Len(s[Len(s)])
  /\ \A i \in 1 .. Len(s) : \A m \in 1 .. Len(s[i]) :
       t[(i - 1) * f + m] = s[i][m]

\* Pieces of equal length, but for the last, one behind the other.
LEMMA FlattenBlocks ==
  ASSUME NEW V, NEW s \in Seq(Seq(V)), s # << >>, NEW f \in Nat,
         \A i \in 1 .. Len(s) - 1 : Len(s[i]) = f
  PROVE  InBlocks(FlattenSeq(s), s, f)
<1> DEFINE n == Len(s)
<1>1. n \in Nat \ {0} /\ n = Len(s) BY FlattenIs
<1>2. PICK h \in [1 .. n -> Seq(V)] :
           /\ FlattenSeq(s) = h[n] /\ h[1] = s[1]
           /\ \A i \in 2 .. n : h[i] = h[i - 1] \o s[i]
  BY FlattenIs DEF FlatUp
<1>3. \A i \in 1 .. n : s[i] \in Seq(V) /\ Len(s[i]) \in Nat OBVIOUS
<1>4. \A i \in 1 .. n - 1 : Len(s[i]) = f OBVIOUS
<1> HIDE DEF n
<1> DEFINE P(k) == /\ Len(h[k]) = (k - 1) * f + Len(s[k])
                   /\ \A i \in 1 .. k : \A m \in 1 .. Len(s[i]) :
                        h[k][(i - 1) * f + m] = s[i][m]
           T == {k \in Nat : k < n => P(k + 1)}
<1>5. 0 \in T
  <2>1. (1 - 1) * f = 0 OBVIOUS
  <2>2. P(1)
    <3>1. Len(h[1]) = (1 - 1) * f + Len(s[1])
      <4>1. 1 \in 1 .. n BY <1>1
      <4>2. h[1] = s[1] /\ Len(s[1]) \in Nat BY <1>2, <1>3, <4>1
      <4>3. \A x \in Nat : x = (1 - 1) * f + x BY <2>1
      <4> QED BY <4>2, <4>3
    <3>2. \A i \in 1 .. 1 : \A m \in 1 .. Len(s[i]) :
            h[1][(i - 1) * f + m] = s[i][m]
      BY <1>2, <2>1
    <3> QED BY <3>1, <3>2
  <2> HIDE DEF P
  <2> QED BY <2>2
<1>6. ASSUME NEW k \in Nat, k \in T PROVE k + 1 \in T
  <2>0. k < n => P(k + 1)
    <3> HIDE DEF P
    <3> QED BY <1>6
  <2> SUFFICES ASSUME k + 1 < n PROVE P((k + 1) + 1)
    <3> HIDE DEF P
    <3> QED OBVIOUS
  <2> DEFINE a == h[k + 1]
             b == s[(k + 1) + 1]
             c == h[(k + 1) + 1]
  <2>1. P(k + 1)
    <3>1. k < n BY <1>1
    <3> HIDE DEF P
    <3> QED BY <2>0, <3>1
  <2>2. /\ k + 1 \in 1 .. n - 1 /\ (k + 1) + 1 \in 2 .. n
        /\ k + 1 \in 1 .. n /\ (k + 1) + 1 \in 1 .. n
        /\ ((k + 1) + 1) - 1 = k + 1
    BY <1>1
  <2>3. a \in Seq(V) /\ b \in Seq(V) /\ c = a \o b
    BY <1>2, <1>3, <2>2
  <2>4. Len(a) = (k + 1) * f
    <3>1. Len(a) = ((k + 1) - 1) * f + Len(s[k + 1]) BY <2>1
    <3>2. Len(s[k + 1]) = f BY <1>4, <2>2
    <3> QED BY <3>1, <3>2
  <2>5. /\ Len(c) = Len(a) + Len(b) /\ Len(a) \in Nat /\ Len(b) \in Nat
        /\ \A x \in 1 .. Len(a) : c[x] = a[x]
        /\ \A x \in 1 .. Len(b) : c[Len(a) + x] = b[x]
    <3> HIDE DEF a, b, c
    <3> QED BY <2>3
  <2>8. ASSUME NEW i \in 1 .. (k + 1) + 1, NEW m \in 1 .. Len(s[i])
        PROVE  c[(i - 1) * f + m] = s[i][m]
    <3>1. CASE i = (k + 1) + 1
      <4>1. i - 1 = k + 1 BY <3>1
      <4>2. m \in 1 .. Len(b) BY <3>1
      <4> QED BY <3>1, <4>1, <4>2, <2>4, <2>5
    <3>2. CASE i # (k + 1) + 1
      <4>1. i \in 1 .. k + 1 /\ i \in 1 .. n - 1 BY <3>2, <1>1
      <4>2. Len(s[i]) = f BY <1>4, <4>1
      <4>3. a[(i - 1) * f + m] = s[i][m] BY <2>1, <4>1
      <4>4. (i - 1) * f + m \in 1 .. Len(a)
        <5>1. i - 1 \in Nat /\ i <= k + 1 BY <4>1
        <5>2. (i - 1) * f \in Nat BY <5>1
        <5>3. (i - 1) * f + f <= (k + 1) * f BY <5>1
        <5>4. m \in 1 .. f BY <4>2
        <5> DEFINE x == (i - 1) * f
                   y == (k + 1) * f
                   z == Len(a)
        <5>5. x \in Nat /\ x + f <= y /\ z = y BY <5>2, <5>3, <2>4
        <5>6. y \in Nat BY <5>1
        <5> HIDE DEF x, y, z
        <5>7. x + m \in 1 .. z BY <5>4, <5>5, <5>6
        <5> QED BY <5>7 DEF x, z
      <4> QED BY <4>3, <4>4, <2>5
    <3> QED BY <3>1, <3>2
  <2>9. Len(c) = (((k + 1) + 1) - 1) * f + Len(b)
    <3>1. Len(b) \in Nat BY <2>3
    <3> QED BY <2>2, <2>4, <2>5, <3>1
  <2> QED BY <2>8, <2>9
<1> HIDE DEF T, P
<1>7. Nat \subseteq T BY <1>5, <1>6, Induction
<1>8. n - 1 \in Nat /\ n - 1 < n /\ (n - 1) + 1 = n BY <1>1
<1>9. n - 1 \in T BY <1>7, <1>8
<1>10. P(n) BY <1>8, <1>9 DEF T
<1> QED BY <1>1, <1>2, <1>10 DEF P, n, InBlocks

\* Sequences with the same elements are the same.
LEMMA SameSeq ==
  ASSUME NEW A, NEW s \in Seq(A), NEW B, NEW t \in Seq(B), Len(s) = Len(t),
         \A i \in 1 .. Len(s) : s[i] = t[i]
  PROVE  s = t
<1>1. s \in [1 .. Len(s) -> A] /\ t \in [1 .. Len(s) -> B] OBVIOUS
<1> QED BY <1>1

\* Nothing is kept of what is not in S ...
LEMMA KeepNone ==
  ASSUME NEW A, NEW S, NEW s \in Seq(A), \A i \in 1 .. Len(s) : s[i] \notin S
  PROVE  Keep(s, S) = << >>
<1>1. PICK f \in [0 .. Len(s) -> Seq(S)] :
        KeptUp(s, S, f) /\ Keep(s, S) = f[Len(s)]
  BY KeepIs
<1>2. Len(s) \in Nat OBVIOUS
<1>3. f[0] = << >> /\ \A i \in 1 .. Len(s) : f[i] = f[i - 1]
  <2>1. 0 \in 0 .. Len(s) /\ \A i \in 1 .. Len(s) : i \in 0 .. Len(s) /\ i # 0
    BY <1>2
  <2> QED BY <1>1, <2>1 DEF KeptUp
<1> DEFINE T == {i \in Nat : i <= Len(s) => f[i] = << >>}
<1>4. 0 \in T BY <1>3
<1>5. \A i \in Nat : i \in T => i + 1 \in T
  <2> TAKE i \in Nat
  <2> SUFFICES ASSUME i \in T, i + 1 <= Len(s) PROVE f[i + 1] = << >>
    OBVIOUS
  <2>1. i + 1 \in 1 .. Len(s) /\ (i + 1) - 1 = i /\ i <= Len(s) BY <1>2
  <2>2. f[i + 1] = f[i] BY <1>3, <2>1
  <2> QED BY <2>1, <2>2
<1> HIDE DEF T
<1>6. Nat \subseteq T BY <1>4, <1>5, Induction
<1> QED BY <1>1, <1>2, <1>6 DEF T

\* ... and all of what is.
LEMMA KeepAll ==
  ASSUME NEW A, NEW S, NEW s \in Seq(A), \A i \in 1 .. Len(s) : s[i] \in S
  PROVE  Keep(s, S) = s
<1>1. PICK f \in [0 .. Len(s) -> Seq(S)] :
        KeptUp(s, S, f) /\ Keep(s, S) = f[Len(s)]
  BY KeepIs
<1> DEFINE n == Len(s)
<1>2. n \in Nat OBVIOUS
<1>3. f[0] = << >> /\ \A i \in 1 .. n : f[i] = Append(f[i - 1], s[i])
  <2>1. 0 \in 0 .. n /\ \A i \in 1 .. n : i \in 0 .. n /\ i # 0
    BY <1>2
  <2> QED BY <1>1, <2>1 DEF KeptUp
<1>a. \A i \in 0 .. n : f[i] \in Seq(S) OBVIOUS
<1> DEFINE P(i) == Len(f[i]) = i /\ \A k \in 1 .. i : f[i][k] = s[k]
           T == {i \in Nat : i <= n => P(i)}
<1> HIDE DEF n
<1>4. 0 \in T BY <1>3
<1>5. \A i \in Nat : i \in T => i + 1 \in T
  <2> TAKE i \in Nat
  <2>0. i + 1 <= n => i <= n BY <1>2
  <2> SUFFICES ASSUME P(i), i + 1 <= n PROVE P(i + 1)
    <3> HIDE DEF P
    <3> QED BY <2>0
  <2>1. i + 1 \in 1 .. n /\ (i + 1) - 1 = i /\ i \in 0 .. n BY <1>2
  <2> DEFINE a == f[i]
             b == f[i + 1]
             x == s[i + 1]
  <2>2. b = Append(a, x) BY <1>3, <2>1
  <2>3. a \in Seq(S) BY <2>1, <1>a
  <2>4. Len(a) = i /\ \A k \in 1 .. i : a[k] = s[k] OBVIOUS
  <2> HIDE DEF a
  <2>5. Len(b) = i + 1 /\ b[i + 1] = x /\ \A k \in 1 .. i : b[k] = a[k]
    <3> HIDE DEF b, x
    <3> QED BY <2>2, <2>3, <2>4
  <2>6. \A k \in 1 .. i + 1 : k = i + 1 \/ k \in 1 .. i OBVIOUS
  <2> HIDE DEF b
  <2> QED BY <2>4, <2>5, <2>6 DEF b
<1> HIDE DEF T, P
<1>6. Nat \subseteq T BY <1>4, <1>5, Induction
<1>7. P(n) BY <1>2, <1>6 DEF T
<1>8. f[n] \in Seq(S) BY <1>a, <1>2
<1> DEFINE r == f[n]
<1>9. Len(r) = Len(s) /\ r \in Seq(S) /\ \A k \in 1 .. Len(r) : r[k] = s[k]
  BY <1>7, <1>8 DEF P, n
<1> HIDE DEF r
<1>10. r = s BY <1>9, SameSeq
<1> QED BY <1>1, <1>10 DEF r, n

\* What is kept of each of many sequences is kept of all.
LEMMA KeepFlatten ==
  ASSUME NEW A, NEW S, NEW s \in Seq(Seq(A)), s # << >>
  PROVE  Keep(FlattenSeq(s), S)
           = FlattenSeq([i \in 1 .. Len(s) |-> Keep(s[i], S)])
<1> DEFINE n == Len(s)
           t == [i \in 1 .. n |-> Keep(s[i], S)]
<1>1. n \in Nat \ {0} BY FlattenIs
<1>2. \A i \in 1 .. n : s[i] \in Seq(A) /\ Keep(s[i], S) \in Seq(S)
  <2>1. \A i \in 1 .. n : s[i] \in Seq(A) OBVIOUS
  <2> QED BY <2>1, KeepType
<1>3. t \in Seq(Seq(S)) /\ Len(t) = n
  <2> DEFINE B == Seq(S)
  <2>1. t \in [1 .. n -> B] BY <1>2
  <2>2. n \in Int /\ ~ n < 0 BY <1>1
  <2> HIDE DEF t, n, B
  <2>3. t \in Seq(B) /\ Len(t) = n BY <2>1, <2>2, FirstNumbers
  <2> QED BY <2>3 DEF B
<1>4. \A i \in 1 .. n : t[i] = Keep(s[i], S) OBVIOUS
<1>5. PICK h \in [1 .. n -> Seq(A)] : FlatUp(s, n, h) BY FlattenIs
<1> HIDE DEF t, n
<1>6. t # << >> BY <1>1, <1>3
<1>7. PICK g \in [1 .. n -> Seq(S)] : FlatUp(t, n, g) BY <1>3, <1>6, FlattenIs
<1> DEFINE T == {i \in Nat : i < n => Keep(h[i + 1], S) = g[i + 1]}
<1>8. 0 \in T
  <2>1. 1 \in 1 .. n BY <1>1
  <2> QED BY <1>4, <1>5, <1>7, <2>1 DEF FlatUp
<1>9. \A i \in Nat : i \in T => i + 1 \in T
  <2> TAKE i \in Nat
  <2>0. i + 1 < n => i < n BY <1>1
  <2> SUFFICES ASSUME i \in T, i + 1 < n
               PROVE  Keep(h[(i + 1) + 1], S) = g[(i + 1) + 1]
    OBVIOUS
  <2>1. Keep(h[i + 1], S) = g[i + 1] BY <2>0
  <2>2. /\ (i + 1) + 1 \in 2 .. n /\ ((i + 1) + 1) - 1 = i + 1
        /\ i + 1 \in 1 .. n /\ (i + 1) + 1 \in 1 .. n
    BY <1>1
  <2>3. h[(i + 1) + 1] = h[i + 1] \o s[(i + 1) + 1] BY <1>5, <2>2 DEF FlatUp
  <2>4. g[(i + 1) + 1] = g[i + 1] \o t[(i + 1) + 1] BY <1>7, <2>2 DEF FlatUp
  <2>5. h[i + 1] \in Seq(A) /\ s[(i + 1) + 1] \in Seq(A) BY <1>2, <2>2
  <2>6. Keep(h[i + 1] \o s[(i + 1) + 1], S)
          = Keep(h[i + 1], S) \o Keep(s[(i + 1) + 1], S)
    <3> DEFINE x == h[i + 1]
               y == s[(i + 1) + 1]
    <3>1. x \in Seq(A) /\ y \in Seq(A) BY <2>5
    <3> HIDE DEF x, y
    <3>2. Keep(x \o y, S) = Keep(x, S) \o Keep(y, S)
      BY ONLY <3>1, KeepConcat
    <3> QED BY <3>2 DEF x, y
  <2>7. t[(i + 1) + 1] = Keep(s[(i + 1) + 1], S) BY <1>4, <2>2
  <2> QED BY <2>1, <2>3, <2>4, <2>6, <2>7
<1> HIDE DEF T
<1>10. Nat \subseteq T BY <1>8, <1>9, Induction
<1>11. n - 1 \in Nat /\ n - 1 < n /\ (n - 1) + 1 = n BY <1>1
<1>12. n - 1 \in T BY <1>10, <1>11
<1>13. Keep(h[n], S) = g[n] BY <1>11, <1>12 DEF T
<1> QED BY <1>5, <1>7, <1>13 DEF FlatUp, t, n

\* A sequence before the others.
LEMMA FlattenFirst ==
  ASSUME NEW A, NEW x \in Seq(A), NEW s \in Seq(Seq(A)), s # << >>
  PROVE  FlattenSeq(<<x>> \o s) = x \o FlattenSeq(s)
<1> DEFINE n == Len(s)
           t == <<x>> \o s
<1>1. n \in Nat \ {0} BY FlattenIs
<1>2. /\ t \in Seq(Seq(A)) /\ Len(t) = n + 1 /\ t # << >>
      /\ t[1] = x /\ \A i \in 1 .. n : t[i + 1] = s[i] /\ s[i] \in Seq(A)
  BY <1>1
<1>3. PICK h \in [1 .. n -> Seq(A)] : FlatUp(s, n, h) BY FlattenIs
<1> HIDE DEF t, n
<1>4. PICK g \in [1 .. n + 1 -> Seq(A)] : FlatUp(t, n + 1, g)
  BY <1>2, FlattenIs
<1> DEFINE T == {i \in Nat : i < n => g[(i + 1) + 1] = x \o h[i + 1]}
<1>5. \A i \in 1 .. n : /\ i + 1 \in 2 .. n + 1 /\ (i + 1) - 1 = i
                        /\ g[i + 1] = g[i] \o s[i]
  <2> TAKE i \in 1 .. n
  <2>1. i + 1 \in 2 .. n + 1 /\ (i + 1) - 1 = i BY <1>1
  <2> QED BY <1>2, <1>4, <2>1 DEF FlatUp
<1>6. 0 \in T
  <2>1. 1 \in 1 .. n /\ 1 + 1 = 2 BY <1>1
  <2>2. g[1] = x BY <1>2, <1>4 DEF FlatUp
  <2>3. h[1] = s[1] BY <1>3 DEF FlatUp
  <2>4. g[1 + 1] = g[1] \o s[1] BY <1>5, <2>1
  <2>5. 0 + 1 = 1 /\ (0 + 1) + 1 = 1 + 1 OBVIOUS
  <2>6. g[(0 + 1) + 1] = x \o h[0 + 1] BY <2>2, <2>3, <2>4, <2>5
  <2> QED BY <2>6
<1>7. \A i \in Nat : i \in T => i + 1 \in T
  <2> TAKE i \in Nat
  <2>0. i + 1 < n => i < n BY <1>1
  <2> SUFFICES ASSUME i \in T, i + 1 < n
               PROVE  g[((i + 1) + 1) + 1] = x \o h[(i + 1) + 1]
    OBVIOUS
  <2>1. g[(i + 1) + 1] = x \o h[i + 1] BY <2>0
  <2>2. /\ (i + 1) + 1 \in 2 .. n /\ ((i + 1) + 1) - 1 = i + 1
        /\ i + 1 \in 1 .. n /\ (i + 1) + 1 \in 1 .. n
    BY <1>1
  <2> DEFINE a == h[i + 1]
             b == s[(i + 1) + 1]
  <2>3. h[(i + 1) + 1] = a \o b BY <1>3, <2>2 DEF FlatUp
  <2>4. g[((i + 1) + 1) + 1] = (x \o a) \o b BY <1>5, <2>1, <2>2
  <2>5. a \in Seq(A) /\ b \in Seq(A) /\ x \in Seq(A) BY <1>2, <2>2
  <2> HIDE DEF a, b
  <2>7. (x \o a) \o b = x \o (a \o b) BY ONLY <2>5, ConcatAssociative
  <2> QED BY <2>3, <2>4, <2>7
<1> HIDE DEF T
<1>8. Nat \subseteq T BY <1>6, <1>7, Induction
<1>9. n - 1 \in Nat /\ n - 1 < n /\ (n - 1) + 1 = n BY <1>1
<1>10. n - 1 \in T BY <1>8, <1>9
<1>11. g[n + 1] = x \o h[n] BY <1>9, <1>10 DEF T
<1> QED BY <1>3, <1>4, <1>11 DEF FlatUp, t

\* A sequence behind the others.
LEMMA FlattenLast ==
  ASSUME NEW A, NEW x \in Seq(A), NEW s \in Seq(Seq(A)), s # << >>
  PROVE  FlattenSeq(s \o <<x>>) = FlattenSeq(s) \o x
<1> DEFINE n == Len(s)
           t == s \o <<x>>
<1>1. n \in Nat \ {0} BY FlattenIs
<1>2. /\ t \in Seq(Seq(A)) /\ Len(t) = n + 1 /\ t # << >>
      /\ t[n + 1] = x /\ \A i \in 1 .. n : t[i] = s[i]
  BY <1>1
<1>3. PICK h \in [1 .. n -> Seq(A)] : FlatUp(s, n, h) BY FlattenIs
<1> HIDE DEF t, n
<1>4. PICK g \in [1 .. n + 1 -> Seq(A)] : FlatUp(t, n + 1, g)
  BY <1>2, FlattenIs
<1> DEFINE T == {i \in Nat : i < n => g[i + 1] = h[i + 1]}
<1>6. 0 \in T
  <2>1. 1 \in 1 .. n BY <1>1
  <2> QED BY <1>2, <1>3, <1>4, <2>1 DEF FlatUp
<1>7. \A i \in Nat : i \in T => i + 1 \in T
  <2> TAKE i \in Nat
  <2>0. i + 1 < n => i < n BY <1>1
  <2> SUFFICES ASSUME i \in T, i + 1 < n
               PROVE  g[(i + 1) + 1] = h[(i + 1) + 1]
    OBVIOUS
  <2>1. g[i + 1] = h[i + 1] BY <2>0
  <2>2. /\ (i + 1) + 1 \in 2 .. n /\ ((i + 1) + 1) - 1 = i + 1
        /\ (i + 1) + 1 \in 2 .. n + 1 /\ (i + 1) + 1 \in 1 .. n
    BY <1>1
  <2>3. h[(i + 1) + 1] = h[i + 1] \o s[(i + 1) + 1]
    BY <1>3, <2>2 DEF FlatUp
  <2>4. g[(i + 1) + 1] = g[i + 1] \o t[(i + 1) + 1]
    BY <1>4, <2>2 DEF FlatUp
  <2> QED BY <1>2, <2>1, <2>2, <2>3, <2>4
<1> HIDE DEF T
<1>8. Nat \subseteq T BY <1>6, <1>7, Induction
<1>9. n - 1 \in Nat /\ n - 1 < n /\ (n - 1) + 1 = n BY <1>1
<1>10. n - 1 \in T BY <1>8, <1>9
<1>11. g[n] = h[n] BY <1>9, <1>10 DEF T
<1>12. n + 1 \in 2 .. n + 1 /\ (n + 1) - 1 = n BY <1>1
<1>13. g[n + 1] = g[n] \o x BY <1>2, <1>4, <1>12 DEF FlatUp
<1> QED BY <1>3, <1>4, <1>11, <1>13 DEF FlatUp, t

---------------------------------------------------------------------------
(* The table of the pages that are wanted *)

\* Those of the first k elements of s that are in S.
Found(s, S, k) == {p \in S : \E x \in 1 .. k : s[x] = p}

\* What is kept of s stands behind those that were found before it.
Ranked(s, S) ==
  \A i \in 1 .. Len(Keep(s, S)) :
    \E x \in 1 .. Len(s) :
      /\ Keep(s, S)[i] = s[x] /\ s[x] \in S
      /\ Cardinality(Found(s, S, x - 1)) = i - 1

\* If no element is twice in s it is so, and so many are kept as there are
\* in S.
LEMMA KeepRanks ==
  ASSUME NEW A, NEW S, NEW s \in Seq(A),
         \A x, y \in 1 .. Len(s) : s[x] = s[y] => x = y
  PROVE  /\ IsFiniteSet(Found(s, S, Len(s)))
         /\ Len(Keep(s, S)) = Cardinality(Found(s, S, Len(s)))
         /\ Ranked(s, S)
<1>0. s \in Seq(A) OBVIOUS
<1>1. PICK f \in [0 .. Len(s) -> Seq(S)] :
        KeptUp(s, S, f) /\ Keep(s, S) = f[Len(s)]
  BY ONLY <1>0, KeepIs
<1> DEFINE n == Len(s)
           V(k) == Found(s, S, k)
<1>2. n \in Nat OBVIOUS
<1>3. \A i \in 0 .. n : f[i] \in Seq(S) OBVIOUS
<1>4. \A x, y \in 1 .. n : s[x] = s[y] => x = y OBVIOUS
<1>5. f[0] = << >> /\ \A i \in 1 .. n :
        f[i] = IF s[i] \in S THEN Append(f[i - 1], s[i]) ELSE f[i - 1]
  <2>1. 0 \in 0 .. n /\ \A i \in 1 .. n : i \in 0 .. n /\ i # 0
    BY <1>2
  <2> QED BY <1>1, <2>1 DEF KeptUp
<1> DEFINE R(q, k, i) == \E x \in 1 .. k : /\ q[i] = s[x] /\ s[x] \in S
                                           /\ Cardinality(V(x - 1)) = i - 1
           P(k) == /\ IsFiniteSet(V(k))
                   /\ Len(f[k]) = Cardinality(V(k))
                   /\ \A i \in 1 .. Len(f[k]) : R(f[k], k, i)
           T == {k \in Nat : k <= n => P(k)}
<1> HIDE DEF n
<1>6. 0 \in T
  <2>1. V(0) = {}
    <3>1. 1 .. 0 = {} OBVIOUS
    <3> QED BY <3>1 DEF Found
  <2>2. P(0)
    <3>1. Len(f[0]) = 0 BY <1>5
    <3>2. IsFiniteSet({}) /\ Cardinality({}) = 0 BY FS_EmptySet
    <3> HIDE DEF R
    <3> QED BY <2>1, <3>1, <3>2
  <2> HIDE DEF P
  <2> QED BY <2>2
<1>7. \A k \in Nat : k \in T => k + 1 \in T
  <2> TAKE k \in Nat
  <2>0. k + 1 <= n => k <= n BY <1>2
  <2> SUFFICES ASSUME P(k), k + 1 <= n PROVE P(k + 1)
    <3> HIDE DEF P
    <3> QED BY <2>0
  <2>1. k + 1 \in 1 .. n /\ (k + 1) - 1 = k /\ k \in 0 .. n BY <1>2
  <2> DEFINE a == f[k]
             b == f[k + 1]
             e == s[k + 1]
  <2>2. b = IF e \in S THEN Append(a, e) ELSE a BY <1>5, <2>1
  <2>3. a \in Seq(S) BY <2>1, <1>3
  <2>4. \A x \in 1 .. k + 1 : x = k + 1 \/ x \in 1 .. k OBVIOUS
  <2>5. \A x \in 1 .. k : x \in 1 .. k + 1 /\ x \in 1 .. n /\ x # k + 1
    BY <1>2
  <2>6. k + 1 \in 1 .. k + 1 OBVIOUS
  <2>7. \A q, i : R(q, k, i) => R(q, k + 1, i) BY <2>5
  <2>8. /\ IsFiniteSet(V(k)) /\ Len(a) = Cardinality(V(k))
        /\ \A i \in 1 .. Len(a) : R(a, k, i)
    <3> HIDE DEF R
    <3> QED OBVIOUS
  <2>9. CASE e \notin S
    <3>1. V(k + 1) = V(k) BY <2>4, <2>5, <2>9 DEF Found
    <3>2. b = a BY <2>2, <2>9
    <3> HIDE DEF R
    <3> QED BY <2>7, <2>8, <3>1, <3>2
  <2>10. CASE e \in S
    <3>1. V(k + 1) = V(k) \cup {e} BY <2>4, <2>5, <2>6, <2>10 DEF Found
    <3>2. e \notin V(k)
      <4>1. \A x \in 1 .. k : s[x] # s[k + 1] BY <1>4, <2>1, <2>5
      <4> QED BY <4>1 DEF Found
    <3>3. IsFiniteSet(V(k + 1)) /\ Cardinality(V(k + 1)) = Cardinality(V(k)) + 1
      <4> DEFINE U == V(k)
      <4>1. IsFiniteSet(U) /\ e \notin U BY <2>8, <3>2
      <4> HIDE DEF U, e
      <4>2. IsFiniteSet(U \cup {e}) /\ Cardinality(U \cup {e}) = Cardinality(U) + 1
        BY ONLY <4>1, FS_AddElement
      <4> QED BY <3>1, <4>2 DEF U
    <3>4. b = Append(a, e) BY <2>2, <2>10
    <3>5. Len(a) \in Nat BY <2>3
    <3>6. /\ Len(b) = Len(a) + 1 /\ b[Len(a) + 1] = e
          /\ \A i \in 1 .. Len(a) : b[i] = a[i]
      <4> HIDE DEF a, b, e
      <4> QED BY <2>3, <2>10, <3>4
    <3>7. \A i \in 1 .. Len(a) : R(b, k + 1, i)
      <4> TAKE i \in 1 .. Len(a)
      <4>1. R(a, k, i) BY <2>8
      <4>2. R(b, k, i) BY <3>6, <4>1
      <4> HIDE DEF R
      <4> QED BY <2>7, <4>2
    <3>8. R(b, k + 1, Len(a) + 1)
      <4>1. Cardinality(V((k + 1) - 1)) = (Len(a) + 1) - 1
        BY <2>1, <2>8, <3>5
      <4> QED BY <2>6, <2>10, <3>6, <4>1
    <3>9. \A i \in 1 .. Len(a) + 1 : i \in 1 .. Len(a) \/ i = Len(a) + 1
      BY <3>5
    <3> HIDE DEF R
    <3> QED BY <2>8, <3>3, <3>6, <3>7, <3>8, <3>9
  <2> HIDE DEF P
  <2> QED BY <2>9, <2>10
<1> HIDE DEF T, P
<1>8. Nat \subseteq T BY <1>6, <1>7, Induction
<1>9. P(n) BY <1>2, <1>8 DEF T
<1> QED BY <1>1, <1>9 DEF P, n, Ranked

\* Those of S that are less than p.
Below(S, p) == {x \in S : x < p}

\* No two numbers of a set have equally many of it below them.
LEMMA RankIsOne ==
  ASSUME NEW S \in SUBSET Int, IsFiniteSet(S), NEW p \in S, NEW q \in S,
         Cardinality(Below(S, p)) = Cardinality(Below(S, q))
  PROVE  p = q
<1>1. \A r : Below(S, r) \in SUBSET S BY DEF Below
<1>2. ASSUME NEW a \in S, NEW b \in S, a < b,
             Cardinality(Below(S, a)) = Cardinality(Below(S, b))
      PROVE  FALSE
  <2>1. IsFiniteSet(Below(S, b)) BY <1>1, FS_Subset
  <2>2. Below(S, a) \in SUBSET Below(S, b)
    <3>1. a \in Int /\ b \in Int /\ \A x \in S : x \in Int OBVIOUS
    <3>2. \A x \in S : x < a => x < b BY <1>2, <3>1
    <3> QED BY <3>2 DEF Below
  <2>3. Below(S, b) = Below(S, a) BY <1>2, <2>1, <2>2, FS_Subset
  <2>4. a \in Below(S, b) /\ a \notin Below(S, a) BY <1>2 DEF Below
  <2> QED BY <2>3, <2>4
<1>3. p \in Int /\ q \in Int OBVIOUS
<1>4. p < q \/ q < p \/ p = q BY <1>3
<1> QED BY <1>2, <1>4

\* The number of a page in make_pagetable()'s table, counted from 0.
Index(j, n, k) == IF CurrentJobDirection(j) = 1 THEN k ELSE n - k - 1

\* make_pagetable(): the wanted pages are in the table, in their order or, if
\* the file is in descending order, from the end.
LEMMA TableIs ==
  ASSUME NEW j \in Orders
  PROVE  LET n == Cardinality(j.mask)
             t == MakePagetable(j)
         IN  /\ n \in Nat /\ IsFiniteSet(j.mask) /\ j.mask \subseteq Nat \ {0}
             /\ t \in Seq(j.mask) /\ Len(t) = n
             /\ C!Wanted(j) \in Seq(j.mask) /\ Len(C!Wanted(j)) = n
             /\ \A k \in 0 .. n - 1 :
                  /\ Index(j, n, k) \in 0 .. n - 1
                  /\ t[Index(j, n, k) + 1] = C!Wanted(j)[k + 1]
<1> DEFINE N == j.pages
           M == j.mask
           n == Cardinality(M)
           t == MakePagetable(j)
           w == C!Wanted(j)
           down == j.pageorder = -1
           s == [i \in 1 .. N |-> IF down THEN N + 1 - i ELSE i]
           nth(i) == CHOOSE p \in M : Cardinality({x \in M : x < p}) = i - 1
           rank(k, p) == p \in M /\ Cardinality(Below(M, p)) = k
<1>1. N \in Nat /\ M \in SUBSET (1 .. N)
  BY OrdersAssumption DEF Shapes
<1>2. IsFiniteSet(M) /\ n \in Nat /\ M \in SUBSET Int /\ M \subseteq Nat \ {0}
  <2>1. IsFiniteSet(1 .. N) BY <1>1, FS_Interval
  <2>2. IsFiniteSet(M) BY <1>1, <2>1, FS_Subset
  <2> QED BY <1>1, <2>2, FS_CardinalityType
<1>3. s \in Seq(Int) /\ Len(s) = N
  <2>1. s \in [1 .. N -> Int] BY <1>1
  <2>2. N \in Int /\ ~ N < 0 BY <1>1
  <2> HIDE DEF s, N
  <2> QED BY <2>1, <2>2, FirstNumbers
<1>4. \A i \in 1 .. N : s[i] = IF down THEN N + 1 - i ELSE i OBVIOUS
<1>5. t = Keep(s, M) BY DEF MakePagetable
<1>6. CurrentJobDirection(j) = IF down THEN -1 ELSE 1
  BY DEF CurrentJobDirection
<1>7. w = [i \in 1 .. n |-> nth(i)]
  <2>1. \A o : C!Wanted(o) =
          [i \in 1 .. Cardinality(o.mask) |->
             CHOOSE p \in o.mask :
               Cardinality({x \in o.mask : x < p}) = i - 1]
    BY DEF C!Wanted, C!Cardinality, Cardinality
  <2> QED BY <2>1
<1> HIDE DEF s, t, w, N, M, down, nth
<1>8. \A x, y \in 1 .. Len(s) : s[x] = s[y] => x = y
  <2> TAKE x, y \in 1 .. Len(s)
  <2>1. x \in 1 .. N /\ y \in 1 .. N /\ x \in Int /\ y \in Int BY <1>3, <1>1
  <2>2. CASE down BY <1>1, <1>4, <2>1, <2>2
  <2>3. CASE ~ down BY <1>4, <2>1, <2>3
  <2> QED BY <2>2, <2>3
<1>9. Found(s, M, N) = M
  <2>1. ASSUME NEW p \in M PROVE \E x \in 1 .. N : s[x] = p
    <3>1. p \in 1 .. N /\ N + 1 - p \in 1 .. N /\ N + 1 - (N + 1 - p) = p
      BY <1>1
    <3>2. CASE down BY <1>4, <3>1, <3>2
    <3>3. CASE ~ down BY <1>4, <3>1, <3>3
    <3> QED BY <3>2, <3>3
  <2> QED BY <2>1 DEF Found
<1>10. Len(t) = n /\ t \in Seq(M)
  <2>1. t \in Seq(M) BY <1>3, <1>5, KeepType
  <2> QED BY <1>3, <1>5, <1>8, <1>9, <2>1, KeepRanks
<1>11. ASSUME NEW i \in 1 .. n
       PROVE  rank(IF down THEN n - i ELSE i - 1, t[i])
  <2>0. \E x \in 1 .. Len(s) :
          /\ Keep(s, M)[i] = s[x] /\ s[x] \in M
          /\ Cardinality(Found(s, M, x - 1)) = i - 1
    <3>1. Ranked(s, M) BY <1>3, <1>8, KeepRanks
    <3> QED BY <1>5, <1>10, <3>1 DEF Ranked
  <2>1. PICK x \in 1 .. N :
          /\ t[i] = s[x] /\ s[x] \in M
          /\ Cardinality(Found(s, M, x - 1)) = i - 1
    BY <2>0, <1>3, <1>5
  <2>2. \A y \in 1 .. x - 1 : y \in 1 .. N /\ y < x /\ y \in Int BY <1>1
  <2>3. CASE ~ down
    <3>1. s[x] = x BY <1>4, <2>3
    <3>2. Found(s, M, x - 1) = Below(M, x)
      <4>1. \A y \in 1 .. x - 1 : s[y] = y BY <1>4, <2>2, <2>3
      <4>2. ASSUME NEW p \in M, p < x PROVE p \in 1 .. x - 1
        <5>1. p \in 1 .. N BY <1>1
        <5> QED BY <4>2, <5>1
      <4>3. \A p \in M : p < x => s[p] = p /\ p \in 1 .. x - 1 BY <4>1, <4>2
      <4> QED BY <2>2, <4>1, <4>3 DEF Found, Below
    <3> QED BY <2>1, <2>3, <3>1, <3>2
  <2>4. CASE down
    <3> DEFINE p == N + 1 - x
               F == Found(s, M, x - 1)
               B == Below(M, p)
    <3>1. s[x] = p BY <1>4, <2>4
    <3>2. F = {q \in M : q > p}
      <4>1. \A y \in 1 .. x - 1 : s[y] = N + 1 - y /\ s[y] > p
        BY <1>1, <1>4, <2>2, <2>4
      <4>2. ASSUME NEW q \in M, q > p
            PROVE  N + 1 - q \in 1 .. x - 1 /\ s[N + 1 - q] = q
        <5>1. q \in 1 .. N BY <1>1
        <5>2. N + 1 - q \in 1 .. x - 1 BY <1>1, <4>2, <5>1
        <5>3. N + 1 - (N + 1 - q) = q BY <1>1, <5>1
        <5> QED BY <4>1, <5>2, <5>3
      <4> HIDE DEF p
      <4> QED BY <4>1, <4>2 DEF Found
    <3>3. p \in M /\ p \in Int BY <2>1, <3>1, <1>2
    <3>4. F \in SUBSET M /\ B \in SUBSET M BY DEF Found, Below
    <3>5. IsFiniteSet(F) /\ IsFiniteSet(B) BY <1>2, <3>4, FS_Subset
    <3>6. F \cap B = {} /\ (F \cup B) \cup {p} = M /\ p \notin F \cup B
      <4>1. \A q \in M : q \in Int BY <1>2
      <4>2. \A q \in M : q > p \/ q < p \/ q = p BY <3>3, <4>1
      <4>3. \A q \in M : ~ (q > p /\ q < p) BY <3>3, <4>1
      <4>4. ~ p < p /\ ~ p > p BY <3>3
      <4> HIDE DEF p
      <4> QED BY <3>2, <3>3, <4>2, <4>3, <4>4 DEF Below
    <3> HIDE DEF F, B, p
    <3>7. /\ IsFiniteSet(F \cup B)
          /\ Cardinality(F \cup B)
               = Cardinality(F) + Cardinality(B) - Cardinality(F \cap B)
      BY <3>5, FS_Union
    <3>8. Cardinality({}) = 0 BY FS_EmptySet
    <3>9. Cardinality((F \cup B) \cup {p}) = Cardinality(F \cup B) + 1
      BY <3>6, <3>7, FS_AddElement
    <3>10. Cardinality(F) \in Nat /\ Cardinality(B) \in Nat
      BY <3>5, FS_CardinalityType
    <3>11. Cardinality(F) = i - 1 BY <2>1 DEF F
    <3>12. n = Cardinality(F) + Cardinality(B) + 1
      <4>1. n = Cardinality(F \cup B) + 1 BY <3>6, <3>9
      <4>2. Cardinality(F \cup B) = Cardinality(F) + Cardinality(B) - 0
        BY <3>6, <3>7, <3>8
      <4> QED BY <3>10, <4>1, <4>2
    <3>13. Cardinality(B) = n - i BY <3>10, <3>11, <3>12
    <3>14. t[i] = p BY <2>1, <3>1
    <3> QED BY <2>4, <3>3, <3>13, <3>14 DEF B
  <2> QED BY <2>3, <2>4
<1>12. ASSUME NEW k \in 0 .. n - 1
       PROVE  Index(j, n, k) \in 0 .. n - 1 /\ rank(k, t[Index(j, n, k) + 1])
  <2>1. CASE ~ down
    <3>1. Index(j, n, k) = k BY <1>6, <2>1 DEF Index
    <3>2. k + 1 \in 1 .. n /\ (k + 1) - 1 = k BY <1>2
    <3> HIDE DEF rank
    <3> QED BY <1>11, <2>1, <3>1, <3>2
  <2>2. CASE down
    <3>1. Index(j, n, k) = n - k - 1 BY <1>6, <2>2 DEF Index
    <3>2. /\ n - k - 1 \in 0 .. n - 1 /\ (n - k - 1) + 1 \in 1 .. n
          /\ n - ((n - k - 1) + 1) = k
      BY <1>2
    <3> HIDE DEF rank
    <3> QED BY <1>11, <2>2, <3>1, <3>2
  <2> QED BY <2>1, <2>2
<1>13. ASSUME NEW i \in 1 .. n PROVE rank(i - 1, w[i])
  <2>1. i - 1 \in 0 .. n - 1 BY <1>2
  <2>2. \E p \in M : Cardinality(Below(M, p)) = i - 1
    <3> DEFINE e == t[Index(j, n, i - 1) + 1]
    <3>1. rank(i - 1, e) BY <1>12, <2>1
    <3> HIDE DEF e
    <3> QED BY <3>1
  <2>3. w[i] = nth(i) BY <1>7
  <2> QED BY <2>2, <2>3 DEF Below, nth
<1>14. w \in Seq(M) /\ Len(w) = n
  <2>1. w = [i \in 1 .. n |-> w[i]] /\ \A i \in 1 .. n : w[i] \in M
    <3>1. \A i \in 1 .. n : w[i] \in M BY <1>13
    <3>2. DOMAIN w = 1 .. n /\ w = [i \in DOMAIN w |-> w[i]] BY <1>7
    <3> QED BY <3>1, <3>2
  <2>2. w \in [1 .. n -> M] BY <2>1
  <2>3. n \in Int /\ ~ n < 0 BY <1>2
  <2> HIDE DEF n
  <2> QED BY <2>2, <2>3, FirstNumbers
<1>15. ASSUME NEW k \in 0 .. n - 1
       PROVE  t[Index(j, n, k) + 1] = w[k + 1]
  <2>1. k + 1 \in 1 .. n /\ (k + 1) - 1 = k BY <1>2
  <2> DEFINE a == t[Index(j, n, k) + 1]
             b == w[k + 1]
  <2>2. rank(k, a) BY <1>12
  <2>3. rank(k, b) BY <1>13, <2>1
  <2> HIDE DEF a, b
  <2>4. a = b BY <1>2, <2>2, <2>3, RankIsOne
  <2> QED BY <2>4 DEF a, b
<1> HIDE DEF rank
<1> QED BY <1>2, <1>10, <1>12, <1>14, <1>15 DEF t, w, M

---------------------------------------------------------------------------
(* Pieces of a sequence *)

\* What PprdrvContract calls by the names of its own instance.
LEMMA SameNames ==
  /\ \A S : C!Cardinality(S) = Cardinality(S)
  /\ \A s : C!FlattenSeq(s) = FlattenSeq(s)
  /\ \A s : C!Reverse(s) = Reverse(s)
  /\ \A n, m : C!Quotient(n, m) = RoundedUp(n, m)
<1>1. \A S : C!Cardinality(S) = Cardinality(S)
  BY DEF C!Cardinality, Cardinality
<1>2. \A s : C!FlattenSeq(s) = FlattenSeq(s)
  BY DEF C!FlattenSeq, FlattenSeq
<1>3. \A s : C!Reverse(s) = Reverse(s) BY DEF C!Reverse, Reverse
<1>4. \A n, m : C!Quotient(n, m) = RoundedUp(n, m)
  BY DEF C!Quotient, RoundedUp
<1> QED BY <1>1, <1>2, <1>3, <1>4

\* Rows of f make up n: k of them if the last is not empty.
LEMMA Rounded ==
  ASSUME NEW n \in Nat, NEW f \in Nat \ {0}
  PROVE  /\ RoundedUp(n, f) \in Nat
         /\ n <= RoundedUp(n, f) * f /\ RoundedUp(n, f) * f < n + f
         /\ n # 0 => RoundedUp(n, f) # 0
         /\ \A k \in Nat \ {0} :
              (k - 1) * f < n /\ n <= k * f => RoundedUp(n, f) = k
<1> DEFINE a == n + f - 1
           r == RoundedUp(n, f)
<1>1. a \in Nat OBVIOUS
<1>2. a \div f \in Nat /\ f * (a \div f) <= a /\ a < f * (a \div f) + f
  <2> HIDE DEF a
  <2> QED BY <1>1
<1>3. r \in Nat /\ n <= r * f /\ r * f < n + f
  BY <1>2 DEF RoundedUp
<1>4. n # 0 => r # 0
  <2> HIDE DEF r
  <2> QED BY <1>3
<1>5. ASSUME NEW k \in Nat \ {0}, (k - 1) * f < n, n <= k * f PROVE r = k
  <2> HIDE DEF r
  <2>1. (k - 1) * f < r * f BY <1>3, <1>5
  <2>2. r * f < (k + 1) * f BY <1>3, <1>5
  <2>3. k - 1 < r BY <1>3, <2>1
  <2>4. r < k + 1 BY <1>3, <2>2
  <2> QED BY <1>3, <2>3, <2>4
<1> QED BY <1>3, <1>4, <1>5

\* The row and the place of a number.
LEMMA RowOf ==
  ASSUME NEW x \in Nat, NEW f \in Nat \ {0}
  PROVE  \E q \in Nat : \E r \in 0 .. f - 1 : x = q * f + r
<1>1. x \div f \in Nat /\ x % f \in 0 .. f - 1 /\ x = (x \div f) * f + (x % f)
  OBVIOUS
<1> QED BY <1>1

\* What is at place r of row q.
LEMMA DivMod ==
  ASSUME NEW q \in Nat, NEW f \in Nat \ {0}, NEW r \in 0 .. f - 1
  PROVE  (q * f + r) \div f = q /\ (q * f + r) % f = r
OBVIOUS

\* A number before row k is in a row before it.
LEMMA RowBefore ==
  ASSUME NEW q \in Nat, NEW k \in Nat, NEW f \in Nat \ {0}, NEW r \in Nat,
         q * f + r < k * f
  PROVE  q < k
OBVIOUS

\* Rows up to row k begin where row k does, or before.
LEMMA RowsUpTo ==
  ASSUME NEW i \in Nat, NEW k \in Nat, NEW f \in Nat, i <= k
  PROVE  i * f \in Nat /\ k * f \in Nat /\ i * f <= k * f
         /\ (i < k => i * f + f <= k * f)
         /\ (i - 1) * f = i * f - f
OBVIOUS

\* p is s in k pieces of length f, but for the last.
InPieces(p, s, f, k, V) ==
  /\ p \in Seq(Seq(V)) /\ Len(p) = k
  /\ \A i \in 1 .. k :
       /\ p[i] \in Seq(V)
       /\ Len(p[i]) = IF i < k THEN f ELSE Len(s) - (k - 1) * f
       /\ \A m \in 1 .. Len(p[i]) : p[i][m] = s[(i - 1) * f + m]

\* A sequence in k pieces of length f, the last of which may be shorter.
LEMMA PiecesAre ==
  ASSUME NEW V, NEW s \in Seq(V), NEW f \in Nat \ {0}, NEW k \in Nat \ {0},
         (k - 1) * f < Len(s), Len(s) <= k * f
  PROVE  InPieces(C!Pieces(s, f), s, f, k, V)
<1> DEFINE n == Len(s)
           p == C!Pieces(s, f)
           to(i) == IF i * f < n THEN i * f ELSE n
           piece(i) == SubSeq(s, (i - 1) * f + 1, to(i))
<1>1. n \in Nat /\ (k - 1) * f < n /\ n <= k * f OBVIOUS
<1>2. C!Quotient(n, f) = k
  <2> HIDE DEF n
  <2> QED BY <1>1, Rounded, SameNames
<1>3. p = [i \in 1 .. k |-> piece(i)] BY <1>2 DEF C!Pieces
<1> HIDE DEF p
<1>4. ASSUME NEW i \in 1 .. k
      PROVE  /\ piece(i) \in Seq(V)
             /\ Len(piece(i)) = IF i < k THEN f ELSE n - (k - 1) * f
             /\ \A m \in 1 .. Len(piece(i)) : piece(i)[m] = s[(i - 1) * f + m]
  <2> DEFINE a == (i - 1) * f
             b == to(i)
             q == SubSeq(s, a + 1, b)
  <2>1. a \in Nat /\ b \in Nat /\ a < b /\ b <= n
        /\ b - a = IF i < k THEN f ELSE n - (k - 1) * f
    <3>1. i \in Nat \ {0} /\ k \in Nat /\ i <= k OBVIOUS
    <3>2. /\ i * f \in Nat /\ a \in Nat /\ a = i * f - f
          /\ (i < k => i * f + f <= k * f)
      BY <3>1, RowsUpTo
    <3>3. (k - 1) * f = k * f - f BY <3>1, RowsUpTo
    <3>4. CASE i < k
      <4>1. i * f < n BY <1>1, <3>2, <3>3, <3>4
      <4>2. b = i * f BY <4>1
      <4> HIDE DEF a, b
      <4> QED BY <1>1, <3>2, <3>4, <4>1, <4>2
    <3>5. CASE i = k
      <4>1. b = n BY <1>1, <3>5
      <4>2. a = (k - 1) * f /\ ~ i < k BY <3>5
      <4> HIDE DEF a, b, n
      <4> QED BY <1>1, <3>2, <4>1, <4>2
    <3>6. i < k \/ i = k BY <3>1
    <3> HIDE DEF a, b, n
    <3> QED BY <3>4, <3>5, <3>6
  <2> HIDE DEF a, b, to
  <2>2. \A c, d \in Nat : c < d /\ d <= n =>
          LET u == SubSeq(s, c + 1, d)
          IN  /\ u \in Seq(V) /\ Len(u) = d - c
              /\ \A m \in 1 .. d - c : u[m] = s[c + m]
    <3> TAKE c, d \in Nat
    <3> SUFFICES ASSUME c < d, d <= n
                 PROVE  LET u == SubSeq(s, c + 1, d)
                        IN  /\ u \in Seq(V) /\ Len(u) = d - c
                            /\ \A m \in 1 .. d - c : u[m] = s[c + m]
      OBVIOUS
    <3>1. SubSeq(s, c + 1, d) \in Seq(V) OBVIOUS
    <3>2. Len(SubSeq(s, c + 1, d)) = d - c OBVIOUS
    <3>3. \A m \in 1 .. d - c : SubSeq(s, c + 1, d)[m] = s[c + m] OBVIOUS
    <3> QED BY <3>1, <3>2, <3>3
  <2>3. q \in Seq(V) /\ Len(q) = b - a /\ \A m \in 1 .. b - a : q[m] = s[a + m]
    BY <2>1, <2>2
  <2> HIDE DEF q, n
  <2>4. q = piece(i) BY DEF q, a, b
  <2> HIDE DEF piece
  <2> QED BY <2>1, <2>3, <2>4 DEF a
<1> HIDE DEF piece
<1>5. p \in Seq(Seq(V)) /\ Len(p) = k
  <2> DEFINE L == Seq(V)
  <2>1. p \in [1 .. k -> L] BY <1>3, <1>4
  <2>2. k \in Int /\ ~ k < 0 OBVIOUS
  <2> HIDE DEF L
  <2>3. p \in Seq(L) /\ Len(p) = k BY <2>1, <2>2, FirstNumbers
  <2> QED BY <2>3 DEF L
<1>6. \A i \in 1 .. k : p[i] = piece(i) BY <1>3
<1> QED BY <1>4, <1>5, <1>6 DEF p, InPieces

---------------------------------------------------------------------------
(* One copy of the pages, sheet by sheet *)

\* There are pages to print, and they go on sheets one after the other or,
\* with both sides of all sheets printed, into booklets of sheets with two
\* pages on a side.
LaidOut(j) ==
  /\ j.mask # {}
  /\ \/ j.sigsheets = 0
     \/ j.N = 2 /\ j.pagefactor = 4 /\ j.sigpart = {"fronts", "backs"}

\* The kth page, counted from 0, as it is to be read: blank pages come last.
PageOf(j, k) ==
  IF k \in 0 .. Cardinality(j.mask) - 1 THEN C!Wanted(j)[k + 1] ELSE 0

\* How many pages are sent for a sheet.
Cut(j, sheet, last) ==
  LET left == Cardinality(j.mask) - sheet * j.pagefactor
  IN  IF last /\ j.sigsheets = 0 /\ left < j.pagefactor THEN left
      ELSE j.pagefactor

\* What Shapes says of how a job is to be laid out.
LEMMA LayoutTypes ==
  ASSUME NEW j \in Orders
  PROVE  /\ j.pagefactor \in Nat \ {0} /\ j.sigsheets \in Nat /\ j.pages \in Nat
         /\ j.N \in Nat \ {0} /\ j.copies \in Nat \cup {-1}
         /\ j.pageorder \in {-1, 0, 1} /\ j.faceup \in BOOLEAN
         /\ j.script \in BOOLEAN /\ j.collate \in BOOLEAN
         /\ j.cancollate \in BOOLEAN
BY OrdersAssumption DEF Shapes

\* signature() for booklets: the places of sheet r of the booklet q.
LEMMA SignaturePlaces ==
  ASSUME NEW j \in Orders, LaidOut(j), j.sigsheets # 0,
         NEW q \in Nat, NEW r \in 0 .. j.sigsheets - 1
  PROVE  LET g == j.sigsheets
             at(m) == PageNumber(j, q * g + r, m)
             b == q * (4 * g)
         IN  /\ at(0) = b + (2 * g - 1 - 2 * r)
             /\ at(1) = b + (2 * g + 2 * r)
             /\ at(2) = b + (2 * g + 2 * r + 1)
             /\ at(3) = b + (2 * g - 2 - 2 * r)
<1> DEFINE g == j.sigsheets
           s == q * g + r
           pages == j.N * j.sigsheets * 2
           centre == (pages \div 2) - 1
           places == <<centre - 2 * r, centre + 2 * r + 1,
                       centre + 2 * r + 2, centre - 2 * r - 1>>
<1>1. j.N = 2 /\ j.pagefactor = 4 /\ j.sigpart = {"fronts", "backs"}
  BY DEF LaidOut
<1>2. g \in Nat \ {0} BY LayoutTypes
<1>3. s \div g = q /\ s % g = r
  <2> HIDE DEF g
  <2> QED BY <1>2, DivMod DEF g
<1>4. pages = 4 * g /\ centre = 2 * g - 1
  BY <1>1, <1>2
<1>5. \A m \in 0 .. 3 : PageNumber(j, s, m) = q * pages + places[m + 1]
  <2> TAKE m \in 0 .. 3
  <2>1. PageNumber(j, s, m) = Signature(j, s, m) BY DEF PageNumber
  <2>2. (IF m < j.pagefactor \div 2 THEN "fronts" ELSE "backs") \in j.sigpart
    BY <1>1
  <2>3. j.N # j.pagefactor BY <1>1
  <2> HIDE DEF pages, s
  <2>4. Signature(j, s, m)
          = (s \div j.sigsheets) * pages
            + <<centre - 2 * (s % j.sigsheets),
                centre + 2 * (s % j.sigsheets) + 1,
                centre + 2 * (s % j.sigsheets) + 2,
                centre - 2 * (s % j.sigsheets) - 1>>[m + 1]
    BY <1>1, <2>2, <2>3 DEF Signature, pages
  <2> QED BY <1>3, <2>1, <2>4
<1>6. /\ places[0 + 1] = centre - 2 * r /\ places[1 + 1] = centre + 2 * r + 1
      /\ places[2 + 1] = centre + 2 * r + 2
      /\ places[3 + 1] = centre - 2 * r - 1
  <2> HIDE DEF centre
  <2> QED OBVIOUS
<1> HIDE DEF places, pages, centre, s
<1>7. \A m \in 0 .. 3 : PageNumber(j, s, m) = q * (4 * g) + places[m + 1]
  BY <1>4, <1>5
<1> HIDE DEF g
<1>8. 0 \in 0 .. 3 /\ 1 \in 0 .. 3 /\ 2 \in 0 .. 3 /\ 3 \in 0 .. 3 OBVIOUS
<1>9. r \in Int /\ q \in Int BY <1>2 DEF g
<1>10. PageNumber(j, s, 0) = q * (4 * g) + (2 * g - 1 - 2 * r)
  BY <1>2, <1>4, <1>6, <1>7, <1>8, <1>9
<1>11. PageNumber(j, s, 1) = q * (4 * g) + (2 * g + 2 * r)
  <2>1. places[1 + 1] = 2 * g + 2 * r BY <1>2, <1>4, <1>6, <1>9
  <2> QED BY <1>7, <1>8, <2>1
<1>12. PageNumber(j, s, 2) = q * (4 * g) + (2 * g + 2 * r + 1)
  <2>1. places[2 + 1] = 2 * g + 2 * r + 1 BY <1>2, <1>4, <1>6, <1>9
  <2> QED BY <1>7, <1>8, <2>1
<1>13. PageNumber(j, s, 3) = q * (4 * g) + (2 * g - 2 - 2 * r)
  <2>1. places[3 + 1] = 2 * g - 2 - 2 * r BY <1>2, <1>4, <1>6, <1>9
  <2> QED BY <1>7, <1>8, <2>1
<1> QED BY <1>10, <1>11, <1>12, <1>13 DEF s, g

\* Every place on a sheet is for some page.
LEMMA PlaceIs ==
  ASSUME NEW j \in Orders, LaidOut(j), NEW sheet \in Nat,
         NEW m \in 0 .. j.pagefactor - 1
  PROVE  /\ PageNumber(j, sheet, m) \in Nat
         /\ j.sigsheets = 0 => PageNumber(j, sheet, m) = sheet * j.pagefactor + m
<1>1. j.pagefactor \in Nat \ {0} /\ j.sigsheets \in Nat BY LayoutTypes
<1>2. CASE j.sigsheets = 0
  <2>1. PageNumber(j, sheet, m) = sheet * j.pagefactor + m
    BY <1>2 DEF PageNumber
  <2> DEFINE f == j.pagefactor
  <2>2. f \in Nat /\ m \in Nat BY <1>1
  <2> HIDE DEF f
  <2>3. sheet * f + m \in Nat BY <2>2
  <2> QED BY <2>1, <2>3 DEF f
<1>3. CASE j.sigsheets # 0
  <2> DEFINE g == j.sigsheets
  <2>1. g \in Nat \ {0} BY <1>1, <1>3
  <2>2. PICK q \in Nat, r \in 0 .. g - 1 : sheet = q * g + r
    <3> HIDE DEF g
    <3> QED BY <2>1, RowOf
  <2> DEFINE at(i) == PageNumber(j, q * g + r, i)
             b == q * (4 * g)
  <2>3. /\ at(0) = b + (2 * g - 1 - 2 * r)
        /\ at(1) = b + (2 * g + 2 * r)
        /\ at(2) = b + (2 * g + 2 * r + 1)
        /\ at(3) = b + (2 * g - 2 - 2 * r)
    BY <1>3, SignaturePlaces
  <2>4. b \in Nat
    <3> HIDE DEF g
    <3> QED BY <2>1
  <2>5. m \in {0, 1, 2, 3} BY <1>3 DEF LaidOut
  <2> HIDE DEF g, b, at
  <2>6. at(0) \in Nat /\ at(1) \in Nat /\ at(2) \in Nat /\ at(3) \in Nat
    BY <2>1, <2>3, <2>4
  <2>7. at(m) \in Nat BY <2>5, <2>6
  <2> QED BY <1>3, <2>2, <2>7 DEF at
<1> QED BY <1>2, <1>3

\* If the first c elements are in S, and no others, these are kept.
LEMMA KeepPrefix ==
  ASSUME NEW A, NEW S, NEW s \in Seq(A), NEW c \in 0 .. Len(s),
         \A i \in 1 .. c : s[i] \in S,
         \A i \in c + 1 .. Len(s) : s[i] \notin S
  PROVE  Len(Keep(s, S)) = c /\ \A i \in 1 .. c : Keep(s, S)[i] = s[i]
<1> DEFINE n == Len(s)
           a == SubSeq(s, 1, c)
           b == SubSeq(s, c + 1, n)
<1>1. n \in Nat /\ c \in Nat /\ c <= n OBVIOUS
<1>2. a \in Seq(A) /\ Len(a) = c /\ \A i \in 1 .. c : a[i] = s[i] BY <1>1
<1>3. b \in Seq(A) /\ Len(b) = n - c /\ \A i \in 1 .. n - c : b[i] = s[c + i]
  BY <1>1
<1>4. s = a \o b
  <2> DEFINE t == a \o b
  <2> HIDE DEF a, b
  <2>1. t \in Seq(A) /\ Len(t) = n BY <1>1, <1>2, <1>3
  <2>2. \A i \in 1 .. n : t[i] = s[i]
    <3> TAKE i \in 1 .. n
    <3>1. CASE i <= c BY <1>1, <1>2, <1>3, <3>1
    <3>2. CASE i > c
      <4>1. i - c \in 1 .. n - c /\ c + (i - c) = i BY <1>1, <3>2
      <4>2. t[i] = b[i - c] BY <1>1, <1>2, <1>3, <3>2
      <4> QED BY <1>3, <4>1, <4>2
    <3>3. i <= c \/ i > c BY <1>1
    <3> HIDE DEF t
    <3> QED BY <3>1, <3>2, <3>3
  <2> HIDE DEF t
  <2>3. t = s BY <2>1, <2>2, SameSeq
  <2> QED BY <2>3 DEF t
<1> HIDE DEF a, b, n
<1>5. Keep(a, S) = a
  <2>1. \A i \in 1 .. Len(a) : a[i] \in S BY <1>2
  <2> QED BY <1>2, <2>1, KeepAll
<1>6. Keep(b, S) = << >>
  <2>1. \A i \in 1 .. n - c : c + i \in c + 1 .. n BY <1>1
  <2>2. \A i \in 1 .. Len(b) : b[i] \notin S BY <1>3, <2>1 DEF n
  <2> QED BY <1>3, <2>2, KeepNone
<1>7. Keep(a \o b, S) = Keep(a, S) \o Keep(b, S) BY <1>2, <1>3, KeepConcat
<1>8. a \o << >> = a BY <1>2
<1>9. Keep(s, S) = a BY <1>4, <1>5, <1>6, <1>7, <1>8
<1> QED BY <1>2, <1>9

\* copy_sheet(): the pages that belong on a sheet, in their places.
LEMMA SheetIs ==
  ASSUME NEW j \in Orders, LaidOut(j), NEW sheet \in Nat, NEW last \in BOOLEAN,
         j.sigsheets = 0 => sheet * j.pagefactor < Cardinality(j.mask)
  PROVE  LET s == CopySheet(j, sheet, last)
             c == Cut(j, sheet, last)
             page(m) == PageOf(j, PageNumber(j, sheet, m - 1))
         IN  /\ s \in Seq(PageSteps) /\ Len(s) = c /\ c \in 1 .. j.pagefactor
             /\ \A m \in 1 .. c : s[m] = <<"page", page(m)>>
             /\ \A m \in c + 1 .. j.pagefactor : page(m) = 0
<1> DEFINE f == j.pagefactor
           n == Cardinality(j.mask)
           table == MakePagetable(j)
           places == [m \in 1 .. f |-> PageNumber(j, sheet, m - 1)]
           K == IF last /\ j.sigsheets = 0 THEN 0 .. n - 1 ELSE Int \ {-1}
           sent == Keep(places, K)
           page(k) == IF Index(j, n, k) \in 0 .. n - 1
                        THEN table[Index(j, n, k) + 1] ELSE 0
           c == Cut(j, sheet, last)
           s == CopySheet(j, sheet, last)
<1>1. f \in Nat \ {0} BY LayoutTypes
<1>2. /\ n \in Nat /\ Len(table) = n
      /\ \A k \in 0 .. n - 1 :
           /\ Index(j, n, k) \in 0 .. n - 1
           /\ table[Index(j, n, k) + 1] = C!Wanted(j)[k + 1]
  BY TableIs
<1>3. s = [i \in DOMAIN sent |-> <<"page", page(sent[i])>>]
  BY <1>2 DEF CopySheet, Index
<1>4. \A m \in 1 .. f : /\ PageNumber(j, sheet, m - 1) \in Nat
                        /\ j.sigsheets = 0 =>
                             PageNumber(j, sheet, m - 1) = sheet * f + (m - 1)
  <2> TAKE m \in 1 .. f
  <2>1. m - 1 \in 0 .. f - 1 BY <1>1
  <2> QED BY <2>1, PlaceIs
<1>5. places \in Seq(Nat) /\ Len(places) = f
  <2>1. places \in [1 .. f -> Nat] BY <1>4
  <2>2. f \in Int /\ ~ f < 0 BY <1>1
  <2> HIDE DEF places, f
  <2> QED BY <2>1, <2>2, FirstNumbers
<1>6. \A m \in 1 .. f : places[m] = PageNumber(j, sheet, m - 1) OBVIOUS
<1>7. \A k \in Nat : page(k) = PageOf(j, k)
  <2> TAKE k \in Nat
  <2>1. CASE k \in 0 .. n - 1 BY <1>2, <2>1 DEF PageOf
  <2>2. CASE k \notin 0 .. n - 1
    <3>1. Index(j, n, k) \notin 0 .. n - 1 BY <1>2, <2>2 DEF Index
    <3> QED BY <2>2, <3>1 DEF PageOf
  <2> QED BY <2>1, <2>2
<1> HIDE DEF places, table, page
<1>8. c \in 1 .. f
  <2> DEFINE left == n - sheet * f
  <2>1. c = IF last /\ j.sigsheets = 0 /\ left < f THEN left ELSE f
    BY DEF Cut
  <2>2. sheet * f \in Nat
    <3> HIDE DEF f
    <3> QED BY <1>1
  <2>3. j.sigsheets = 0 => left \in Nat \ {0} BY <1>2, <2>2
  <2> HIDE DEF left, f, c
  <2> QED BY <1>1, <2>1, <2>3
<1>9. /\ Len(sent) = c /\ \A m \in 1 .. c : sent[m] = places[m]
      /\ \A m \in c + 1 .. f : places[m] \notin 0 .. n - 1
  <2>1. CASE last /\ j.sigsheets = 0
    <3>1. K = 0 .. n - 1 BY <2>1
    <3> DEFINE b == sheet * f
    <3>2. b \in Nat /\ b < n
      <4>1. b < n BY <2>1
      <4> HIDE DEF f
      <4> QED BY <1>1, <4>1
    <3>3. \A m \in 1 .. f : places[m] = b + (m - 1) BY <1>4, <1>6, <2>1
    <3>4. c = IF n - b < f THEN n - b ELSE f BY <2>1 DEF Cut
    <3> HIDE DEF b, K, c, f, n
    <3>5. \A m \in 1 .. c : m \in 1 .. f /\ b + (m - 1) \in 0 .. n - 1
      BY <1>1, <1>2, <1>8, <3>2, <3>4
    <3>6. \A m \in c + 1 .. f : m \in 1 .. f /\ b + (m - 1) \notin 0 .. n - 1
      BY <1>1, <1>2, <1>8, <3>2, <3>4
    <3>7. c \in 0 .. Len(places) BY <1>1, <1>5, <1>8
    <3>8. \A m \in 1 .. c : places[m] \in K BY <3>1, <3>3, <3>5
    <3>9. \A m \in c + 1 .. Len(places) : places[m] \notin K
      BY <1>5, <3>1, <3>3, <3>6
    <3>10. Len(sent) = c /\ \A m \in 1 .. c : sent[m] = places[m]
      <4>1. places \in Seq(Nat) BY <1>5
      <4> QED BY ONLY <3>7, <3>8, <3>9, <4>1, KeepPrefix
    <3> QED BY <3>1, <3>9, <3>10, <1>5
  <2>2. CASE ~ (last /\ j.sigsheets = 0)
    <3>1. K = Int \ {-1} BY <2>2
    <3>2. c = f BY <2>2 DEF Cut
    <3> HIDE DEF K, c, f
    <3>3. \A m \in 1 .. Len(places) : places[m] \in K
      <4>1. \A m \in 1 .. Len(places) : places[m] \in Nat BY <1>5
      <4>2. \A x \in Nat : x \in Int \ {-1} OBVIOUS
      <4> QED BY <3>1, <4>1, <4>2
    <3>4. sent = places
      <4>1. places \in Seq(Nat) BY <1>5
      <4> QED BY ONLY <3>3, <4>1, KeepAll
    <3>5. c + 1 .. f = {} BY <1>1, <3>2
    <3> QED BY <1>5, <3>2, <3>4, <3>5
  <2> QED BY <2>1, <2>2
<1>10. s \in Seq(PageSteps) BY SheetSteps
<1>11. DOMAIN s = DOMAIN sent /\ sent \in Seq(K)
  <2>1. DOMAIN s = DOMAIN sent BY <1>3
  <2>2. sent \in Seq(K) BY <1>5, KeepType
  <2> QED BY <2>1, <2>2
<1> HIDE DEF sent, s, K, c
<1>12. Len(s) = c
  <2>1. DOMAIN sent = 1 .. Len(sent) /\ DOMAIN s = 1 .. Len(s)
        /\ Len(s) \in Nat /\ Len(sent) \in Nat
    BY <1>10, <1>11
  <2> QED BY <1>9, <1>11, <2>1
<1>13. DOMAIN sent = 1 .. c BY <1>9, <1>11
<1>14. \A m \in 1 .. c : m \in 1 .. f BY <1>1, <1>8
<1>15. \A m \in 1 .. c :
         s[m] = <<"page", PageOf(j, PageNumber(j, sheet, m - 1))>>
  <2> TAKE m \in 1 .. c
  <2>1. s[m] = <<"page", page(sent[m])>> BY <1>3, <1>13
  <2>2. sent[m] = PageNumber(j, sheet, m - 1) BY <1>6, <1>9, <1>14
  <2>3. PageNumber(j, sheet, m - 1) \in Nat BY <1>4, <1>14
  <2> QED BY <1>7, <2>1, <2>2, <2>3
<1>16. \A m \in c + 1 .. f : PageOf(j, PageNumber(j, sheet, m - 1)) = 0
  <2> TAKE m \in c + 1 .. f
  <2>1. m \in 1 .. f BY <1>1, <1>8
  <2>2. PageNumber(j, sheet, m - 1) \notin 0 .. n - 1 BY <1>6, <1>9, <2>1
  <2> QED BY <2>2 DEF PageOf
<1> QED BY <1>8, <1>10, <1>12, <1>15, <1>16 DEF s, c

\* page_computations(): the sheets are full, but for the last one.
LEMMA SheetsAre ==
  ASSUME NEW j \in Orders, LaidOut(j)
  PROVE  LET n == Cardinality(j.mask)
             S == SheetCount(j)
             f == j.pagefactor
             g == j.sigsheets
             F == C!FullLength(j)
         IN  /\ n \in Nat \ {0} /\ S \in Nat \ {0} /\ F \in Nat \ {0}
             /\ S * f = F /\ n <= F
             /\ g = 0 => (S - 1) * f < n
             /\ g # 0 => \E Q \in Nat \ {0} : S = Q * g /\ F = Q * (4 * g)
<1> DEFINE n == Cardinality(j.mask)
           S == SheetCount(j)
           f == j.pagefactor
           g == j.sigsheets
           F == C!FullLength(j)
           u == IF g = 0 THEN f ELSE 4 * g
           Q == RoundedUp(n, u)
<1>1. f \in Nat \ {0} /\ g \in Nat BY LayoutTypes
<1>2. n \in Nat \ {0}
  <2>1. n \in Nat /\ IsFiniteSet(j.mask) BY TableIs
  <2>2. n # 0 BY <2>1, FS_EmptySet DEF LaidOut
  <2> QED BY <2>1, <2>2
<1>3. g # 0 => j.N = 2 /\ f = 4 BY DEF LaidOut
<1>4. C!Unit(j) = u
  <2>1. CASE g = 0 BY <1>1, <2>1 DEF C!Unit
  <2>2. CASE g # 0 BY <1>1, <1>3, <2>2 DEF C!Unit
  <2> QED BY <2>1, <2>2
<1>5. F = Q * u BY <1>4, SameNames DEF C!FullLength
<1>6. u \in Nat \ {0} BY <1>1
<1>7. Q \in Nat /\ n <= Q * u /\ Q * u < n + u /\ Q # 0
  <2> HIDE DEF u, n
  <2> QED BY <1>2, <1>6, Rounded
<1>8. S = IF g = 0 THEN Q ELSE Q * g
  <2>1. CASE g = 0 BY <2>1 DEF SheetCount, PagemaskCount
  <2>2. CASE g # 0
    <3>1. j.N * 2 * j.sigsheets = u BY <1>1, <1>3, <2>2
    <3>2. (j.N * 2) \div j.pagefactor = 1 BY <1>3, <2>2
    <3>3. S = RoundedUp(n, j.N * 2 * j.sigsheets) * j.sigsheets
                * ((j.N * 2) \div j.pagefactor)
      BY <2>2 DEF SheetCount, PagemaskCount
    <3>4. S = Q * g * 1 BY <3>1, <3>2, <3>3
    <3> HIDE DEF S, Q, g
    <3> QED BY <1>1, <1>7, <2>2, <3>4
  <2> QED BY <2>1, <2>2
<1> HIDE DEF n, S, F, Q
<1>9. CASE g = 0
  <2>1. u = f /\ S = Q BY <1>8, <1>9
  <2> HIDE DEF u, f, g
  <2>2. (S - 1) * f = S * f - f BY <1>1, <1>7, <2>1
  <2>3. F = S * f /\ F \in Nat \ {0} /\ n <= F /\ (S - 1) * f < n
    BY <1>1, <1>2, <1>5, <1>7, <2>1, <2>2
  <2> QED BY <1>2, <1>7, <1>9, <2>1, <2>3 DEF n, S, F, f, g
<1>10. CASE g # 0
  <2>1. u = 4 * g /\ S = Q * g /\ f = 4 BY <1>3, <1>8, <1>10
  <2> HIDE DEF u, f, g
  <2>2. S \in Nat \ {0} /\ F = Q * (4 * g) /\ F = S * f
    BY <1>1, <1>5, <1>7, <1>10, <2>1
  <2>3. F \in Nat \ {0} /\ n <= F BY <1>2, <1>5, <1>7, <2>1, <2>2
  <2> QED BY <1>2, <1>7, <1>10, <2>1, <2>2, <2>3 DEF n, S, F, f, g
<1> QED BY <1>9, <1>10

\* The sheet that is sent as the ith.
SheetNo(j, i) ==
  IF PrintDirection(j) = -1 THEN SheetCount(j) - i ELSE i - 1

\* The second components: the pages of what is sent, the contents of files.
Seconds(t) == [i \in 1 .. Len(t) |-> t[i][2]]

\* What is at place m of the sheet that is sent as the ith.
Spot(j, i, m) == PageOf(j, PageNumber(j, SheetNo(j, i), m - 1))

\* One copy with its last sheet filled up, sheet by sheet.
InSheets(j, s) ==
  /\ s \in Seq(Int) /\ Len(s) = C!FullLength(j)
  /\ \A i \in 1 .. SheetCount(j) : \A m \in 1 .. j.pagefactor :
       s[(i - 1) * j.pagefactor + m] = Spot(j, i, m)

\* s filled up with blank pages.
LEMMA PaddedIs ==
  ASSUME NEW s \in Seq(Int), NEW n \in Nat, Len(s) <= n
  PROVE  /\ C!Padded(s, n) \in Seq(Int) /\ Len(C!Padded(s, n)) = n
         /\ \A i \in 1 .. n :
              C!Padded(s, n)[i] = IF i <= Len(s) THEN s[i] ELSE 0
<1> DEFINE k == n - Len(s)
           t == [i \in 1 .. k |-> 0]
           u == s \o t
<1>1. k \in Nat /\ Len(s) \in Nat OBVIOUS
<1>2. t \in Seq(Int) /\ Len(t) = k
  <2>1. t \in [1 .. k -> Int] OBVIOUS
  <2>2. k \in Int /\ ~ k < 0 BY <1>1
  <2> HIDE DEF t, k
  <2> QED BY <2>1, <2>2, FirstNumbers
<1>3. \A i \in 1 .. k : t[i] = 0 OBVIOUS
<1>4. C!Padded(s, n) = u BY DEF C!Padded
<1>a. Len(s) + k = n BY <1>1
<1> HIDE DEF t, k
<1>5. /\ u \in Seq(Int) /\ Len(u) = n
      /\ \A i \in 1 .. Len(s) : u[i] = s[i]
      /\ \A i \in 1 .. k : u[Len(s) + i] = t[i]
  BY <1>1, <1>2, <1>a
<1> HIDE DEF u
<1>6. \A i \in 1 .. n : u[i] = IF i <= Len(s) THEN s[i] ELSE 0
  <2> TAKE i \in 1 .. n
  <2>1. CASE i <= Len(s) BY <1>5, <2>1
  <2>2. CASE i > Len(s)
    <3>1. i - Len(s) \in 1 .. k /\ Len(s) + (i - Len(s)) = i BY <1>1, <1>a, <2>2
    <3>2. u[i] = t[i - Len(s)] BY <1>5, <3>1
    <3>3. ~ i <= Len(s) BY <1>1, <2>2
    <3> QED BY <1>3, <3>1, <3>2, <3>3
  <2>3. i <= Len(s) \/ i > Len(s) BY <1>1
  <2> QED BY <2>1, <2>2, <2>3
<1> QED BY <1>4, <1>5, <1>6

\* copy_pages(): a copy is sent sheet by sheet, and only the last of all may
\* do without the blank pages at its end.
LEMMA CopyIs ==
  ASSUME NEW j \in Orders, LaidOut(j), NEW more \in Int
  PROVE  LET t == CopyPages(j, more)
             F == C!FullLength(j)
         IN  /\ t \in Seq(PageSteps) /\ Len(t) \in 1 .. F
             /\ more # 0 => Len(t) = F
             /\ Seconds(t) \in Seq(Int) /\ Len(Seconds(t)) = Len(t)
             /\ InSheets(j, C!Padded(Seconds(t), F))
<1> DEFINE S == SheetCount(j)
           f == j.pagefactor
           n == Cardinality(j.mask)
           F == C!FullLength(j)
           last(i) == more = 0 /\ i = S
           s == [i \in 1 .. S |-> CopySheet(j, SheetNo(j, i), last(i))]
           t == CopyPages(j, more)
           p == Seconds(t)
           u == C!Padded(p, F)
<1>1. f \in Nat \ {0} BY LayoutTypes
<1>2. /\ n \in Nat \ {0} /\ S \in Nat \ {0} /\ F \in Nat \ {0} /\ S * f = F
      /\ j.sigsheets = 0 => (S - 1) * f < n
  BY SheetsAre
<1>3. t = FlattenSeq(s) BY DEF CopyPages, SheetNo
<1> DEFINE c(i) == Cut(j, SheetNo(j, i), last(i))
           Row(i) == /\ s[i] \in Seq(PageSteps) /\ Len(s[i]) = c(i)
                     /\ c(i) \in 1 .. f
                     /\ \A m \in 1 .. c(i) : s[i][m] = <<"page", Spot(j, i, m)>>
                     /\ \A m \in c(i) + 1 .. f : Spot(j, i, m) = 0
<1>4. \A i \in 1 .. S : s[i] = CopySheet(j, SheetNo(j, i), last(i)) OBVIOUS
<1> HIDE DEF S, n, F
<1>5. ASSUME NEW i \in 1 .. S PROVE Row(i)
  <2>1. SheetNo(j, i) \in Nat /\ SheetNo(j, i) <= S - 1
    BY <1>2 DEF SheetNo, S
  <2>2. j.sigsheets = 0 => SheetNo(j, i) * f < n
    <3> DEFINE a == SheetNo(j, i)
    <3>1. a \in Nat /\ a <= S - 1 /\ S - 1 \in Nat BY <1>2, <2>1
    <3> HIDE DEF a, f
    <3>2. a * f <= (S - 1) * f BY <1>1, <3>1
    <3>3. a * f \in Nat /\ (S - 1) * f \in Nat BY <1>1, <3>1
    <3> QED BY <1>2, <3>2, <3>3 DEF a, f
  <2>3. last(i) \in BOOLEAN OBVIOUS
  <2> HIDE DEF last
  <2> QED BY <1>4, <2>1, <2>2, <2>3, SheetIs DEF Spot, n
<1>6. ASSUME NEW i \in 1 .. S, i # S \/ more # 0 PROVE c(i) = f
  BY <1>6 DEF Cut
<1> HIDE DEF c, last
<1>7. s \in Seq(Seq(PageSteps)) /\ Len(s) = S /\ s # << >>
  <2> DEFINE L == Seq(PageSteps)
  <2>1. \A i \in 1 .. S : s[i] \in L BY <1>5
  <2>2. s \in [1 .. S -> L]
    <3>1. DOMAIN s = 1 .. S /\ s = [i \in DOMAIN s |-> s[i]] OBVIOUS
    <3> HIDE DEF s, L
    <3> QED BY <2>1, <3>1
  <2>3. S \in Int /\ ~ S < 0 /\ S # 0 BY <1>2
  <2> HIDE DEF L, s
  <2>4. s \in Seq(L) /\ Len(s) = S BY <2>2, <2>3, FirstNumbers
  <2>5. s # << >> BY <2>3, <2>4
  <2> QED BY <2>4, <2>5 DEF L
<1> HIDE DEF s
<1>8. S \in 1 .. S /\ \A i \in 1 .. S - 1 : i \in 1 .. S /\ i # S BY <1>2
<1>9. /\ Len(t) = (S - 1) * f + c(S)
      /\ \A i \in 1 .. S : \A m \in 1 .. c(i) :
           t[(i - 1) * f + m] = <<"page", Spot(j, i, m)>>
  <2>1. \A i \in 1 .. Len(s) - 1 : Len(s[i]) = f
    <3>1. \A i \in 1 .. S - 1 : Len(s[i]) = f BY <1>5, <1>6, <1>8
    <3> QED BY <1>7, <3>1
  <2>2. /\ Len(t) = (Len(s) - 1) * f + Len(s[Len(s)])
        /\ \A i \in 1 .. Len(s) : \A m \in 1 .. Len(s[i]) :
             t[(i - 1) * f + m] = s[i][m]
    <3>1. f \in Nat BY <1>1
    <3> HIDE DEF f, t
    <3>2. InBlocks(t, s, f) BY <1>3, <1>7, <2>1, <3>1, FlattenBlocks
    <3> QED BY <3>2 DEF InBlocks
  <2>3. Len(s[S]) = c(S) BY <1>5, <1>8
  <2>4. ASSUME NEW i \in 1 .. S, NEW m \in 1 .. c(i)
        PROVE  t[(i - 1) * f + m] = <<"page", Spot(j, i, m)>>
    <3>1. Row(i) BY <1>5
    <3> HIDE DEF t, f
    <3>2. m \in 1 .. Len(s[i]) /\ i \in 1 .. Len(s) BY <1>7, <3>1
    <3>3. t[(i - 1) * f + m] = s[i][m] BY <2>2, <3>2
    <3> QED BY <3>1, <3>3
  <2> HIDE DEF t, f
  <2> QED BY <1>7, <2>2, <2>3, <2>4
<1>10. t \in Seq(PageSteps) BY PagesSteps
<1>11. c(S) \in 1 .. f /\ (more # 0 => c(S) = f) BY <1>5, <1>6, <1>8
<1> HIDE DEF t, f, Row
<1>12. Len(t) \in 1 .. F /\ (more # 0 => Len(t) = F)
  <2>1. (S - 1) * f \in Nat /\ (S - 1) * f + f = F BY <1>1, <1>2
  <2> DEFINE a == (S - 1) * f
  <2>2. a \in Nat /\ a + f = F /\ Len(t) = a + c(S) BY <1>9, <2>1
  <2> HIDE DEF a
  <2> QED BY <1>1, <1>2, <1>11, <2>2
<1>13. p \in Seq(Int) /\ Len(p) = Len(t)
  <2>1. \A i \in 1 .. Len(t) : t[i][2] \in Int
    <3>1. \A i \in 1 .. Len(t) : t[i] \in PageSteps BY <1>10
    <3> QED BY <3>1 DEF PageSteps
  <2>2. p \in [1 .. Len(t) -> Int] BY <2>1 DEF Seconds
  <2>3. Len(t) \in Int /\ ~ Len(t) < 0 BY <1>10
  <2> HIDE DEF p
  <2> QED BY <2>2, <2>3, FirstNumbers
<1>14. \A i \in 1 .. Len(t) : p[i] = t[i][2] BY DEF Seconds
<1> HIDE DEF p
<1>15. /\ u \in Seq(Int) /\ Len(u) = F
       /\ \A i \in 1 .. F : u[i] = IF i <= Len(p) THEN p[i] ELSE 0
  <2>1. F \in Nat /\ Len(p) <= F BY <1>2, <1>12, <1>13
  <2> QED BY <1>13, <2>1, PaddedIs
<1> HIDE DEF u
<1>16. ASSUME NEW i \in 1 .. S, NEW m \in 1 .. f
       PROVE  u[(i - 1) * f + m] = Spot(j, i, m)
  <2> DEFINE a == (i - 1) * f
             b == (S - 1) * f
  <2>1. /\ a \in Nat /\ a + f <= F /\ b + f = F /\ b \in Nat
        /\ (i # S => a + f <= b) /\ (i = S => a = b)
    <3>1. i \in Nat \ {0} /\ S \in Nat /\ i <= S BY <1>2
    <3>2. /\ i * f <= S * f /\ i * f \in Nat /\ S * f \in Nat
          /\ (i < S => i * f + f <= S * f) /\ a = i * f - f
      BY <1>1, <3>1, RowsUpTo
    <3>3. b = S * f - f /\ b \in Nat BY <1>1, <1>2, <3>1
    <3>4. i - 1 \in Nat BY <3>1
    <3>5. a \in Nat BY <1>1, <3>4
    <3>6. i # S => i < S BY <3>1
    <3> HIDE DEF a, b
    <3>7. i = S => a = b BY <3>2, <3>3
    <3> QED BY <1>1, <1>2, <3>2, <3>3, <3>5, <3>6, <3>7
  <2>2. a + m \in 1 .. F
    <3> HIDE DEF a, b
    <3> QED BY <1>1, <1>2, <2>1
  <2>3. CASE m \in 1 .. c(i)
    <3>1. t[a + m] = <<"page", Spot(j, i, m)>> BY <1>9, <2>3
    <3>2. a + m <= Len(t) /\ a + m \in 1 .. Len(t)
      <4>1. Len(t) = b + c(S) BY <1>9
      <4>2. CASE i = S
        <5>1. a = b /\ m \in 1 .. c(S) BY <2>1, <2>3, <4>2
        <5> HIDE DEF a, b
        <5> QED BY <1>11, <2>1, <4>1, <5>1
      <4>3. CASE i # S
        <5> HIDE DEF a, b
        <5> QED BY <1>1, <1>11, <2>1, <4>1, <4>3
      <4> HIDE DEF a, b
      <4> QED BY <4>2, <4>3
    <3> HIDE DEF a
    <3>3. p[a + m] = Spot(j, i, m) BY <1>14, <3>1, <3>2
    <3>4. u[a + m] = p[a + m] BY <1>13, <1>15, <2>2, <3>2
    <3> QED BY <3>3, <3>4 DEF a
  <2>4. CASE m \notin 1 .. c(i)
    <3>1. Row(i) BY <1>5
    <3>2. c(i) \in 1 .. f /\ \A k \in c(i) + 1 .. f : Spot(j, i, k) = 0
      BY <3>1 DEF Row
    <3>3. m \in c(i) + 1 .. f BY <1>1, <2>4, <3>2
    <3>4. i = S BY <1>6, <2>4
    <3>5. a = b /\ Len(t) = b + c(S) BY <1>9, <2>1, <3>4
    <3> HIDE DEF a, b
    <3>6. ~ a + m <= Len(p) BY <1>1, <1>11, <1>13, <2>1, <3>3, <3>4, <3>5
    <3>7. u[a + m] = 0 BY <1>15, <2>2, <3>6
    <3> QED BY <3>2, <3>3, <3>7 DEF a
  <2> HIDE DEF a
  <2> QED BY <2>3, <2>4
<1>17. InSheets(j, u) BY <1>15, <1>16 DEF InSheets, F, S, f
<1> QED BY <1>10, <1>12, <1>13, <1>17 DEF t, p, u, F

---------------------------------------------------------------------------
(* What is read in a stack of sheets *)

\* The wanted pages and the blank ones behind them.
LEMMA WantedIs ==
  ASSUME NEW j \in Orders, LaidOut(j)
  PROVE  LET F == C!FullLength(j)
             w == C!Padded(C!Wanted(j), F)
         IN  /\ w \in Seq(Int) /\ Len(w) = F
             /\ \A x \in 1 .. F : w[x] = PageOf(j, x - 1)
<1> DEFINE n == Cardinality(j.mask)
           v == C!Wanted(j)
           F == C!FullLength(j)
           w == C!Padded(v, F)
<1>1. n \in Nat /\ F \in Nat /\ n <= F BY SheetsAre
<1>2. v \in Seq(Int) /\ Len(v) = n
  <2>1. v \in Seq(j.mask) /\ Len(v) = n /\ j.mask \subseteq Nat \ {0}
    BY TableIs
  <2>2. j.mask \subseteq Int BY <2>1
  <2> HIDE DEF v
  <2> QED BY <2>1, <2>2, SeqMonotonic
<1> HIDE DEF v, n, F
<1>3. /\ w \in Seq(Int) /\ Len(w) = F
      /\ \A i \in 1 .. F : w[i] = IF i <= n THEN v[i] ELSE 0
  BY <1>1, <1>2, PaddedIs
<1> HIDE DEF w
<1>4. \A x \in 1 .. F : w[x] = PageOf(j, x - 1)
  <2> TAKE x \in 1 .. F
  <2>1. x <= n <=> x - 1 \in 0 .. n - 1 BY <1>1
  <2>2. (x - 1) + 1 = x BY <1>1
  <2>3. PageOf(j, x - 1) = IF x - 1 \in 0 .. n - 1 THEN v[x] ELSE 0
    BY <2>2 DEF PageOf, n, v
  <2> QED BY <1>3, <2>1, <2>3
<1> QED BY <1>3, <1>4 DEF w, F, v

\* The sheets as they lie when the stack has been turned over if need be.
Stack(j, s) ==
  LET stack == C!Pieces(s, j.pagefactor)
  IN  IF j.faceup /\ j.pageorder # 0 THEN C!Reverse(stack) ELSE stack

\* They are in their order.
LEMMA StackIs ==
  ASSUME NEW j \in Orders, LaidOut(j), NEW s, InSheets(j, s)
  PROVE  LET S == SheetCount(j)
             q == Stack(j, s)
         IN  /\ q \in Seq(Seq(Int)) /\ Len(q) = S
             /\ \A i \in 1 .. S :
                  /\ q[i] \in Seq(Int) /\ Len(q[i]) = j.pagefactor
                  /\ \A m \in 1 .. j.pagefactor :
                       q[i][m] = PageOf(j, PageNumber(j, i - 1, m - 1))
<1> DEFINE S == SheetCount(j)
           f == j.pagefactor
           F == C!FullLength(j)
           p == C!Pieces(s, f)
           q == Stack(j, s)
           turned == j.faceup /\ j.pageorder # 0
<1>1. f \in Nat \ {0} /\ S \in Nat \ {0} /\ F \in Nat \ {0} /\ S * f = F
  BY LayoutTypes, SheetsAre
<1>2. s \in Seq(Int) /\ Len(s) = F BY DEF InSheets
<1>3. \A i \in 1 .. S : \A m \in 1 .. f : s[(i - 1) * f + m] = Spot(j, i, m)
  BY DEF InSheets
<1>4. \A i \in 1 .. S : SheetNo(j, i) = IF turned THEN S - i ELSE i - 1
  BY DEF SheetNo, PrintDirection
<1>5. q = IF turned THEN C!Reverse(p) ELSE p BY DEF Stack
<1> HIDE DEF S, f, F, p, q, turned
<1>6. /\ p \in Seq(Seq(Int)) /\ Len(p) = S
      /\ \A i \in 1 .. S :
           /\ p[i] \in Seq(Int) /\ Len(p[i]) = f
           /\ \A m \in 1 .. f : p[i][m] = Spot(j, i, m)
  <2>1. (S - 1) * f < Len(s) /\ Len(s) <= S * f /\ Len(s) - (S - 1) * f = f
    <3>1. (S - 1) * f = F - f BY <1>1
    <3> QED BY <1>1, <1>2, <3>1
  <2>2. /\ p \in Seq(Seq(Int)) /\ Len(p) = S
        /\ \A i \in 1 .. S :
             /\ p[i] \in Seq(Int)
             /\ Len(p[i]) = IF i < S THEN f ELSE Len(s) - (S - 1) * f
             /\ \A m \in 1 .. Len(p[i]) : p[i][m] = s[(i - 1) * f + m]
    <3> DEFINE V == Int
    <3>1. s \in Seq(V) /\ f \in Nat \ {0} /\ S \in Nat \ {0} BY <1>1, <1>2
    <3>2. p = C!Pieces(s, f) BY DEF p
    <3> HIDE DEF V
    <3>3. /\ p \in Seq(Seq(V)) /\ Len(p) = S
          /\ \A i \in 1 .. S :
               /\ p[i] \in Seq(V)
               /\ Len(p[i]) = IF i < S THEN f ELSE Len(s) - (S - 1) * f
               /\ \A m \in 1 .. Len(p[i]) : p[i][m] = s[(i - 1) * f + m]
      <4>1. InPieces(p, s, f, S, V) BY ONLY <2>1, <3>1, <3>2, PiecesAre
      <4> QED BY ONLY <4>1 DEF InPieces
    <3> QED BY <3>3 DEF V
  <2>3. ASSUME NEW i \in 1 .. S
        PROVE  /\ p[i] \in Seq(Int) /\ Len(p[i]) = f
               /\ \A m \in 1 .. f : p[i][m] = Spot(j, i, m)
    <3>1. Len(p[i]) = f BY <2>1, <2>2
    <3> QED BY <1>3, <2>2, <3>1
  <2> QED BY <2>2, <2>3
<1>7. CASE ~ turned
  <2>1. q = p BY <1>5, <1>7
  <2>2. \A i \in 1 .. S : \A m \in 1 .. f :
          Spot(j, i, m) = PageOf(j, PageNumber(j, i - 1, m - 1))
    BY <1>4, <1>7 DEF Spot
  <2>3. \A i \in 1 .. S :
          /\ q[i] \in Seq(Int) /\ Len(q[i]) = f
          /\ \A m \in 1 .. f : q[i][m] = PageOf(j, PageNumber(j, i - 1, m - 1))
    BY <1>6, <2>1, <2>2
  <2> QED BY <1>6, <2>1, <2>3 DEF S, q, f
<1>8. CASE turned
  <2>1. q = [i \in 1 .. S |-> p[(S - i) + 1]]
    BY <1>5, <1>6, <1>8 DEF C!Reverse
  <2>2. ASSUME NEW i \in 1 .. S
        PROVE  /\ q[i] \in Seq(Int) /\ Len(q[i]) = f
               /\ \A m \in 1 .. f :
                    q[i][m] = PageOf(j, PageNumber(j, i - 1, m - 1))
    <3> DEFINE k == (S - i) + 1
    <3>1. k \in 1 .. S /\ S - k = i - 1 BY <1>1
    <3>2. q[i] = p[k] BY <2>1
    <3> HIDE DEF k
    <3>3. SheetNo(j, k) = i - 1 BY <1>4, <1>8, <3>1
    <3>4. \A m \in 1 .. f :
            Spot(j, k, m) = PageOf(j, PageNumber(j, i - 1, m - 1))
      BY <3>3 DEF Spot
    <3> QED BY <1>6, <3>1, <3>2, <3>4
  <2>3. q \in Seq(Seq(Int)) /\ Len(q) = S
    <3> DEFINE L == Seq(Int)
    <3>1. DOMAIN q = 1 .. S /\ q = [i \in DOMAIN q |-> q[i]] BY <2>1
    <3>2. q \in [1 .. S -> L] BY <2>2, <3>1
    <3>3. S \in Int /\ ~ S < 0 BY <1>1
    <3> HIDE DEF L
    <3>4. q \in Seq(L) /\ Len(q) = S BY <3>2, <3>3, FirstNumbers
    <3> QED BY <3>4 DEF L
  <2> QED BY <2>2, <2>3 DEF S, q, f
<1> QED BY <1>7, <1>8

\* The sheets on top of each other, each with its pages.
LEMMA ReadsStraight ==
  ASSUME NEW j \in Orders, LaidOut(j), j.sigsheets = 0, NEW s, InSheets(j, s)
  PROVE  C!Reading(j, s) = C!Padded(C!Wanted(j), C!FullLength(j))
<1> DEFINE S == SheetCount(j)
           f == j.pagefactor
           F == C!FullLength(j)
           q == Stack(j, s)
           t == FlattenSeq(q)
           w == C!Padded(C!Wanted(j), F)
<1>1. f \in Nat \ {0} /\ S \in Nat \ {0} /\ F \in Nat \ {0} /\ S * f = F
  BY LayoutTypes, SheetsAre
<1>2. C!Reading(j, s) = t BY SameNames DEF C!Reading, Stack
<1>3. /\ q \in Seq(Seq(Int)) /\ Len(q) = S
      /\ \A i \in 1 .. S :
           /\ q[i] \in Seq(Int) /\ Len(q[i]) = f
           /\ \A m \in 1 .. f : q[i][m] = PageOf(j, PageNumber(j, i - 1, m - 1))
  BY StackIs, ZenonT(40)
<1>4. w \in Seq(Int) /\ Len(w) = F /\ \A x \in 1 .. F : w[x] = PageOf(j, x - 1)
  BY WantedIs
<1>5. \A i \in 1 .. S : \A m \in 1 .. f :
        PageNumber(j, i - 1, m - 1) = (i - 1) * f + (m - 1)
  BY DEF PageNumber
<1> HIDE DEF S, f, F, q, w
<1>6. q # << >> BY <1>1, <1>3
<1>7. /\ t \in Seq(Int) /\ Len(t) = (S - 1) * f + f
      /\ \A i \in 1 .. S : \A m \in 1 .. f : t[(i - 1) * f + m] = q[i][m]
  <2>1. S \in 1 .. S /\ \A i \in 1 .. S - 1 : i \in 1 .. S BY <1>1
  <2>2. \A i \in 1 .. Len(q) - 1 : Len(q[i]) = f BY <1>3, <2>1
  <2>3. t \in Seq(Int) BY <1>3, <1>6, FlattenIs
  <2>4. /\ Len(t) = (Len(q) - 1) * f + Len(q[Len(q)])
        /\ \A i \in 1 .. Len(q) : \A m \in 1 .. Len(q[i]) :
             t[(i - 1) * f + m] = q[i][m]
    <3>1. f \in Nat BY <1>1
    <3>2. t = FlattenSeq(q) OBVIOUS
    <3> DEFINE V == Int
    <3>3. q \in Seq(Seq(V)) BY <1>3
    <3> HIDE DEF t, V
    <3>4. InBlocks(t, q, f)
      BY ONLY <3>2, <3>3, <1>6, <2>2, <3>1, FlattenBlocks
    <3> QED BY ONLY <3>4 DEF InBlocks
  <2> QED BY <1>3, <2>1, <2>3, <2>4
<1> HIDE DEF t
<1>8. Len(t) = F BY <1>1, <1>7
<1>9. \A x \in 1 .. F : t[x] = w[x]
  <2> TAKE x \in 1 .. F
  <2>1. x - 1 \in Nat BY <1>1
  <2>2. PICK a \in Nat, r \in 0 .. f - 1 : x - 1 = a * f + r
    <3> DEFINE y == x - 1
    <3>1. y \in Nat BY <2>1
    <3> HIDE DEF y
    <3>2. \E a \in Nat : \E r \in 0 .. f - 1 : y = a * f + r
      BY <1>1, <3>1, RowOf
    <3> QED BY <3>2 DEF y
  <2>3. r \in Nat /\ a * f + r < S * f BY <1>1, <2>1, <2>2
  <2>4. a < S BY <1>1, <2>3, RowBefore
  <2> DEFINE i == a + 1
             m == r + 1
  <2>5. i \in 1 .. S /\ m \in 1 .. f /\ i - 1 = a /\ m - 1 = r
    BY <1>1, <2>3, <2>4
  <2>6. (i - 1) * f + m = x
    <3>1. a * f \in Nat BY <1>1
    <3> QED BY <2>2, <2>3, <2>5, <3>1
  <2> HIDE DEF i, m
  <2>7. t[x] = PageOf(j, PageNumber(j, i - 1, m - 1))
    <3>1. t[(i - 1) * f + m] = q[i][m] BY <1>7, <2>5
    <3>2. q[i][m] = PageOf(j, PageNumber(j, i - 1, m - 1)) BY <1>3, <2>5, Zenon
    <3> QED BY <2>6, <3>1, <3>2
  <2>8. PageNumber(j, i - 1, m - 1) = x - 1 BY <1>5, <2>2, <2>5
  <2> QED BY <1>4, <2>7, <2>8
<1>10. t = w BY <1>4, <1>7, <1>8, <1>9, SameSeq
<1> QED BY <1>2, <1>10 DEF w, F

---------------------------------------------------------------------------
(* What is read in booklets *)

\* Pairs, one behind the other.
LEMMA PairsAre ==
  ASSUME NEW g \in Nat \ {0}, NEW a \in [1 .. g -> Int], NEW b \in [1 .. g -> Int]
  PROVE  LET t == FlattenSeq([i \in 1 .. g |-> <<a[i], b[i]>>])
         IN  /\ t \in Seq(Int) /\ Len(t) = 2 * g
             /\ \A i \in 1 .. g : t[2 * i - 1] = a[i] /\ t[2 * i] = b[i]
<1> DEFINE V == Int
           s == [i \in 1 .. g |-> <<a[i], b[i]>>]
           t == FlattenSeq(s)
<1>1. \A i \in 1 .. g : /\ s[i] \in Seq(V) /\ Len(s[i]) = 2
                        /\ s[i][1] = a[i] /\ s[i][2] = b[i]
  OBVIOUS
<1>2. s \in Seq(Seq(V)) /\ Len(s) = g /\ s # << >>
  <2> DEFINE L == Seq(V)
  <2>1. s \in [1 .. g -> L] BY <1>1
  <2>2. g \in Int /\ ~ g < 0 /\ g # 0 OBVIOUS
  <2> HIDE DEF L, s
  <2>3. s \in Seq(L) /\ Len(s) = g BY <2>1, <2>2, FirstNumbers
  <2>4. s # << >> BY <2>2, <2>3
  <2> QED BY <2>3, <2>4 DEF L
<1>3. t = FlattenSeq(s) OBVIOUS
<1> HIDE DEF s, V, t
<1>4. t \in Seq(V) BY ONLY <1>2, <1>3, FlattenIs
<1>5. \A i \in 1 .. Len(s) - 1 : Len(s[i]) = 2
  <2>1. \A i \in 1 .. g - 1 : i \in 1 .. g OBVIOUS
  <2> QED BY <1>1, <1>2, <2>1
<1>6. 2 \in Nat OBVIOUS
<1>7. /\ Len(t) = (Len(s) - 1) * 2 + Len(s[Len(s)])
      /\ \A i \in 1 .. Len(s) : \A m \in 1 .. Len(s[i]) :
           t[(i - 1) * 2 + m] = s[i][m]
  <2> DEFINE f == 2
  <2>1. f \in Nat /\ \A i \in 1 .. Len(s) - 1 : Len(s[i]) = f BY <1>5
  <2> HIDE DEF f
  <2>2. /\ Len(t) = (Len(s) - 1) * f + Len(s[Len(s)])
        /\ \A i \in 1 .. Len(s) : \A m \in 1 .. Len(s[i]) :
             t[(i - 1) * f + m] = s[i][m]
    <3>1. InBlocks(t, s, f) BY ONLY <1>2, <1>3, <2>1, FlattenBlocks
    <3> QED BY <3>1 DEF InBlocks
  <2> QED BY <2>2 DEF f
<1>8. Len(t) = 2 * g
  <2>1. g \in 1 .. g OBVIOUS
  <2>2. Len(s[g]) = 2 BY <1>1, <2>1
  <2> QED BY <1>2, <1>7, <2>2
<1>9. ASSUME NEW i \in 1 .. g PROVE t[2 * i - 1] = a[i] /\ t[2 * i] = b[i]
  <2>1. i \in 1 .. Len(s) /\ 1 \in 1 .. Len(s[i]) /\ 2 \in 1 .. Len(s[i])
    BY <1>1, <1>2
  <2>2. t[(i - 1) * 2 + 1] = s[i][1] /\ t[(i - 1) * 2 + 2] = s[i][2]
    BY <1>7, <2>1
  <2>3. (i - 1) * 2 + 1 = 2 * i - 1 /\ (i - 1) * 2 + 2 = 2 * i OBVIOUS
  <2> QED BY <1>1, <2>2, <2>3
<1> QED BY <1>4, <1>8, <1>9 DEF V, t, s

\* The sheets x of one booklet, when their places are for the pages w.
Bound(x, g, w) ==
  /\ x \in Seq(Seq(Int)) /\ Len(x) = g
  /\ \A m \in 1 .. g :
       /\ x[m] \in Seq(Int) /\ Len(x[m]) = 4
       /\ x[m][4] = w[2 * (g + 1 - m) - 1] /\ x[m][1] = w[2 * (g + 1 - m)]
       /\ x[m][2] = w[2 * g + (2 * m - 1)] /\ x[m][3] = w[2 * g + 2 * m]

\* A booklet is read in the order of its pages.
LEMMA LeafedIs ==
  ASSUME NEW g \in Nat \ {0}, NEW x, NEW w \in Seq(Int), Len(w) = 4 * g,
         Bound(x, g, w)
  PROVE  C!Leafed(x) = w
<1> DEFINE out == [i \in 1 .. g |-> x[(g - i) + 1]]
           a == [i \in 1 .. g |-> out[i][4]]
           b == [i \in 1 .. g |-> out[i][1]]
           c == [i \in 1 .. g |-> x[i][2]]
           d == [i \in 1 .. g |-> x[i][3]]
           u == FlattenSeq([i \in 1 .. g |-> <<a[i], b[i]>>])
           v == FlattenSeq([i \in 1 .. g |-> <<c[i], d[i]>>])
           t == C!Leafed(x)
<1>1. Len(x) = g /\ C!Reverse(x) = out BY DEF Bound, C!Reverse
<1>2. t = u \o v
  <2>1. [i \in 1 .. g |-> <<out[i][4], out[i][1]>>]
          = [i \in 1 .. g |-> <<a[i], b[i]>>]
    OBVIOUS
  <2>2. [i \in 1 .. g |-> <<x[i][2], x[i][3]>>]
          = [i \in 1 .. g |-> <<c[i], d[i]>>]
    OBVIOUS
  <2> HIDE DEF a, b, c, d, out
  <2> QED BY <1>1, <2>1, <2>2, SameNames DEF C!Leafed
<1>3. \A i \in 1 .. g :
        /\ a[i] = w[2 * i - 1] /\ b[i] = w[2 * i]
        /\ a[i] \in Int /\ b[i] \in Int
  <2> TAKE i \in 1 .. g
  <2> DEFINE m == (g - i) + 1
  <2>1. m \in 1 .. g /\ g + 1 - m = i OBVIOUS
  <2>2. a[i] = x[m][4] /\ b[i] = x[m][1] OBVIOUS
  <2> HIDE DEF m
  <2>3. x[m][4] = w[2 * i - 1] /\ x[m][1] = w[2 * i] BY <2>1 DEF Bound
  <2>4. 2 * i - 1 \in 1 .. Len(w) /\ 2 * i \in 1 .. Len(w) OBVIOUS
  <2>5. w[2 * i - 1] \in Int /\ w[2 * i] \in Int BY <2>4
  <2> HIDE DEF a, b
  <2> QED BY <2>2, <2>3, <2>5
<1>4. \A i \in 1 .. g :
        /\ c[i] = w[2 * g + (2 * i - 1)] /\ d[i] = w[2 * g + 2 * i]
        /\ c[i] \in Int /\ d[i] \in Int
  <2> TAKE i \in 1 .. g
  <2>1. c[i] = x[i][2] /\ d[i] = x[i][3] OBVIOUS
  <2>2. x[i][2] = w[2 * g + (2 * i - 1)] /\ x[i][3] = w[2 * g + 2 * i]
    BY DEF Bound
  <2>3. 2 * g + (2 * i - 1) \in 1 .. Len(w) /\ 2 * g + 2 * i \in 1 .. Len(w)
    OBVIOUS
  <2>4. w[2 * g + (2 * i - 1)] \in Int /\ w[2 * g + 2 * i] \in Int BY <2>3
  <2> HIDE DEF c, d
  <2> QED BY <2>1, <2>2, <2>4
<1>5. /\ a \in [1 .. g -> Int] /\ b \in [1 .. g -> Int]
      /\ c \in [1 .. g -> Int] /\ d \in [1 .. g -> Int]
  BY <1>3, <1>4
<1> HIDE DEF out, a, b, c, d
<1>6. /\ u \in Seq(Int) /\ Len(u) = 2 * g
      /\ \A i \in 1 .. g : u[2 * i - 1] = a[i] /\ u[2 * i] = b[i]
  BY <1>5, PairsAre
<1>7. /\ v \in Seq(Int) /\ Len(v) = 2 * g
      /\ \A i \in 1 .. g : v[2 * i - 1] = c[i] /\ v[2 * i] = d[i]
  BY <1>5, PairsAre
<1> HIDE DEF u, v, t
<1>8. /\ t \in Seq(Int) /\ Len(t) = 4 * g
      /\ \A k \in 1 .. 2 * g : t[k] = u[k]
      /\ \A k \in 1 .. 2 * g : t[2 * g + k] = v[k]
  <2> DEFINE n == 2 * g
  <2>1. Len(u) = n /\ Len(v) = n /\ n \in Nat BY <1>6, <1>7
  <2>a. n + n = 4 * g OBVIOUS
  <2> HIDE DEF n
  <2>2. u \in Seq(Int) /\ v \in Seq(Int) BY <1>6, <1>7
  <2>3. t \in Seq(Int) BY ONLY <1>2, <2>2, ConcatProperties
  <2>b. Len(t) = Len(u) + Len(v) BY ONLY <1>2, <2>2, ConcatProperties
  <2>4. \A k \in 1 .. n : t[k] = u[k] BY ONLY <1>2, <2>1, <2>2
  <2>5. \A k \in 1 .. n : t[n + k] = v[k] BY ONLY <1>2, <2>1, <2>2
  <2> QED BY <2>1, <2>a, <2>b, <2>3, <2>4, <2>5 DEF n
<1>9. \A k \in 1 .. 2 * g : \E i \in 1 .. g : k = 2 * i - 1 \/ k = 2 * i
  <2> TAKE k \in 1 .. 2 * g
  <2> DEFINE i == (k + 1) \div 2
  <2>1. i \in 1 .. g /\ (k = 2 * i - 1 \/ k = 2 * i) OBVIOUS
  <2> QED BY <2>1
<1>10. \A k \in 1 .. 2 * g : t[k] = w[k] /\ t[2 * g + k] = w[2 * g + k]
  <2> TAKE k \in 1 .. 2 * g
  <2>1. PICK i \in 1 .. g : k = 2 * i - 1 \/ k = 2 * i BY <1>9
  <2>2. CASE k = 2 * i - 1 BY <1>3, <1>4, <1>6, <1>7, <1>8, <2>2
  <2>3. CASE k = 2 * i BY <1>3, <1>4, <1>6, <1>7, <1>8, <2>3
  <2> QED BY <2>1, <2>2, <2>3
<1>11. \A k \in 1 .. 4 * g : t[k] = w[k]
  <2> TAKE k \in 1 .. 4 * g
  <2>1. CASE k \in 1 .. 2 * g BY <1>10, <2>1
  <2>2. CASE k \notin 1 .. 2 * g
    <3>1. k - 2 * g \in 1 .. 2 * g /\ 2 * g + (k - 2 * g) = k BY <2>2
    <3>2. t[2 * g + (k - 2 * g)] = w[2 * g + (k - 2 * g)] BY <1>10, <3>1
    <3> QED BY <3>1, <3>2
  <2> QED BY <2>1, <2>2
<1>12. t = w BY <1>8, <1>11, SameSeq
<1> QED BY <1>12 DEF t

\* The pages of the kth booklet.
Booklet(j, k) ==
  LET n == 4 * j.sigsheets
  IN  [x \in 1 .. n |-> PageOf(j, (k - 1) * n + (x - 1))]

\* They are numbers.
LEMMA PageIsInt ==
  ASSUME NEW j \in Orders, LaidOut(j), NEW k
  PROVE  PageOf(j, k) \in Int
<1> DEFINE n == Cardinality(j.mask)
           v == C!Wanted(j)
<1>1. v \in Seq(j.mask) /\ Len(v) = n /\ j.mask \subseteq Nat \ {0}
  BY TableIs
<1> HIDE DEF v, n
<1>2. CASE k \in 0 .. n - 1
  <2>1. k + 1 \in 1 .. Len(v) BY <1>1, <1>2
  <2>2. v[k + 1] \in Int BY <1>1, <2>1
  <2> QED BY <1>2, <2>2 DEF PageOf, v, n
<1>3. CASE k \notin 0 .. n - 1 BY <1>3 DEF PageOf, n
<1> QED BY <1>2, <1>3

\* There are four on a sheet.
LEMMA BookletIs ==
  ASSUME NEW j \in Orders, LaidOut(j), j.sigsheets # 0, NEW k
  PROVE  Booklet(j, k) \in Seq(Int) /\ Len(Booklet(j, k)) = 4 * j.sigsheets
<1> DEFINE n == 4 * j.sigsheets
           w == Booklet(j, k)
<1>1. n \in Int /\ ~ n < 0 BY LayoutTypes
<1>2. w \in [1 .. n -> Int] BY PageIsInt DEF Booklet
<1> HIDE DEF n, w
<1>3. w \in Seq(Int) /\ Len(w) = n BY <1>1, <1>2, FirstNumbers
<1> QED BY <1>3 DEF n, w

\* The sheets of a booklet that signature() has laid out are bound in order.
LEMMA BoundIs ==
  ASSUME NEW j \in Orders, LaidOut(j), j.sigsheets # 0,
         NEW k \in Nat \ {0}, NEW x \in Seq(Seq(Int)), Len(x) = j.sigsheets,
         \A m \in 1 .. j.sigsheets :
           /\ x[m] \in Seq(Int) /\ Len(x[m]) = 4
           /\ \A c \in 1 .. 4 :
                x[m][c]
                  = PageOf(j, PageNumber(j, (k - 1) * j.sigsheets + (m - 1), c - 1))
  PROVE  Bound(x, j.sigsheets, Booklet(j, k))
<1> DEFINE g == j.sigsheets
           w == Booklet(j, k)
           b == (k - 1) * (4 * g)
<1>1. g \in Nat \ {0} BY LayoutTypes
<1>2. \A y \in 1 .. 4 * g : w[y] = PageOf(j, b + (y - 1)) BY DEF Booklet
<1>3. ASSUME NEW m \in 1 .. g
      PROVE  /\ x[m][4] = w[2 * (g + 1 - m) - 1] /\ x[m][1] = w[2 * (g + 1 - m)]
             /\ x[m][2] = w[2 * g + (2 * m - 1)] /\ x[m][3] = w[2 * g + 2 * m]
  <2> DEFINE r == m - 1
             a == k - 1
             at(c) == PageNumber(j, a * g + r, c)
  <2>1. r \in 0 .. g - 1 /\ a \in Nat BY <1>1
  <2>2. /\ x[m][1] = PageOf(j, at(0)) /\ x[m][2] = PageOf(j, at(1))
        /\ x[m][3] = PageOf(j, at(2)) /\ x[m][4] = PageOf(j, at(3))
    <3>1. \A c \in 1 .. 4 : x[m][c] = PageOf(j, at(c - 1)) OBVIOUS
    <3> HIDE DEF at
    <3>2. /\ x[m][1] = PageOf(j, at(1 - 1)) /\ x[m][2] = PageOf(j, at(2 - 1))
          /\ x[m][3] = PageOf(j, at(3 - 1)) /\ x[m][4] = PageOf(j, at(4 - 1))
      BY <3>1
    <3>3. 1 - 1 = 0 /\ 2 - 1 = 1 /\ 3 - 1 = 2 /\ 4 - 1 = 3 OBVIOUS
    <3> QED BY <3>2, <3>3
  <2>3. /\ at(0) = b + (2 * g - 1 - 2 * r)
        /\ at(1) = b + (2 * g + 2 * r)
        /\ at(2) = b + (2 * g + 2 * r + 1)
        /\ at(3) = b + (2 * g - 2 - 2 * r)
    <3> HIDE DEF a, r
    <3>1. LET gg == j.sigsheets
              aat(c) == PageNumber(j, a * gg + r, c)
              bb == a * (4 * gg)
          IN  /\ aat(0) = bb + (2 * gg - 1 - 2 * r)
              /\ aat(1) = bb + (2 * gg + 2 * r)
              /\ aat(2) = bb + (2 * gg + 2 * r + 1)
              /\ aat(3) = bb + (2 * gg - 2 - 2 * r)
      BY <2>1, SignaturePlaces
    <3>2. b = a * (4 * g) BY DEF a
    <3> QED BY <3>1, <3>2
  <2>4. b \in Nat
    <3> HIDE DEF g
    <3> QED BY <1>1
  <2> HIDE DEF at, b, w, g
  <2>5. /\ 2 * (g + 1 - m) - 1 \in 1 .. 4 * g /\ 2 * (g + 1 - m) \in 1 .. 4 * g
        /\ 2 * g + (2 * m - 1) \in 1 .. 4 * g /\ 2 * g + 2 * m \in 1 .. 4 * g
    BY <1>1
  <2>6. /\ at(3) = b + ((2 * (g + 1 - m) - 1) - 1)
        /\ at(0) = b + (2 * (g + 1 - m) - 1)
        /\ at(1) = b + ((2 * g + (2 * m - 1)) - 1)
        /\ at(2) = b + ((2 * g + 2 * m) - 1)
    BY <1>1, <2>3, <2>4
  <2> QED BY <1>2, <2>2, <2>5, <2>6
<1> QED BY <1>3 DEF Bound, g, w

\* The booklets on top of each other.
LEMMA ReadsFolded ==
  ASSUME NEW j \in Orders, LaidOut(j), j.sigsheets # 0, NEW s, InSheets(j, s)
  PROVE  C!Reading(j, s) = C!Padded(C!Wanted(j), C!FullLength(j))
<1> DEFINE S == SheetCount(j)
           g == j.sigsheets
           n == 4 * g
           F == C!FullLength(j)
           q == Stack(j, s)
           p == C!Pieces(q, g)
           w == C!Padded(C!Wanted(j), F)
<1>1. g \in Nat \ {0} /\ j.pagefactor = 4 BY LayoutTypes DEF LaidOut
<1>2. S \in Nat \ {0} BY SheetsAre
<1>3. PICK Q \in Nat \ {0} : S = Q * g /\ F = Q * (4 * g) BY SheetsAre
<1>4. /\ q \in Seq(Seq(Int)) /\ Len(q) = S
      /\ \A i \in 1 .. S :
           /\ q[i] \in Seq(Int) /\ Len(q[i]) = j.pagefactor
           /\ \A m \in 1 .. j.pagefactor :
                q[i][m] = PageOf(j, PageNumber(j, i - 1, m - 1))
  BY StackIs
<1>5. w \in Seq(Int) /\ Len(w) = F /\ \A x \in 1 .. F : w[x] = PageOf(j, x - 1)
  BY WantedIs
<1>6. C!Reading(j, s) = FlattenSeq([i \in DOMAIN p |-> C!Leafed(p[i])])
  BY SameNames DEF C!Reading, Stack
<1>7. InPieces(p, q, g, Q, Seq(Int))
  <2> DEFINE V == Seq(Int)
  <2>1. q \in Seq(V) /\ g \in Nat \ {0} BY <1>1, <1>4
  <2>2. (Q - 1) * g < Len(q) /\ Len(q) <= Q * g
    <3> HIDE DEF S, g, q
    <3>1. (Q - 1) * g = Q * g - g BY <1>1
    <3>2. Q * g \in Nat BY <1>1
    <3> QED BY <1>1, <1>3, <1>4, <3>1, <3>2
  <2>3. p = C!Pieces(q, g) OBVIOUS
  <2> HIDE DEF V, p, q, g
  <2>4. InPieces(p, q, g, Q, V) BY ONLY <2>1, <2>2, <2>3, PiecesAre
  <2> QED BY <2>4 DEF V
<1> HIDE DEF S, F, q, p, w, n
<1>8. ASSUME NEW k \in 1 .. Q PROVE C!Leafed(p[k]) = Booklet(j, k)
  <2> DEFINE x == p[k]
  <2>1. x \in Seq(Seq(Int)) BY <1>7 DEF InPieces
  <2>2. Len(x) = g
    <3>1. Len(x) = IF k < Q THEN g ELSE Len(q) - (Q - 1) * g
      BY <1>7 DEF InPieces
    <3> HIDE DEF g, x
    <3>2. Len(q) - (Q - 1) * g = g BY <1>1, <1>3, <1>4
    <3> QED BY <3>1, <3>2
  <2>3. \A m \in 1 .. g : x[m] = q[(k - 1) * g + m]
    BY <1>7, <2>2 DEF InPieces
  <2> HIDE DEF x
  <2>4. ASSUME NEW m \in 1 .. g
        PROVE  /\ x[m] \in Seq(Int) /\ Len(x[m]) = 4
               /\ \A c \in 1 .. 4 :
                    x[m][c] = PageOf(j, PageNumber(j, (k - 1) * g + (m - 1), c - 1))
    <3> DEFINE i == (k - 1) * g + m
    <3>1. i \in 1 .. S /\ i - 1 = (k - 1) * g + (m - 1)
      <4> DEFINE a == (k - 1) * g
      <4>1. a \in Nat /\ a + g <= S
        <5>1. k \in Nat \ {0} /\ k <= Q OBVIOUS
        <5> HIDE DEF g
        <5>2. k * g <= Q * g /\ a = k * g - g /\ k * g \in Nat
          BY <1>1, <5>1, RowsUpTo
        <5>3. k - 1 \in Nat BY <5>1
        <5>4. a \in Nat BY <1>1, <5>3
        <5> HIDE DEF a
        <5> QED BY <1>1, <1>2, <1>3, <5>2, <5>4
      <4> HIDE DEF a, g
      <4>2. a + m \in 1 .. S /\ (a + m) - 1 = a + (m - 1) BY <1>1, <1>2, <4>1
      <4> QED BY <4>2 DEF a
    <3>2. x[m] = q[i] BY <2>3
    <3> HIDE DEF i
    <3>3. /\ q[i] \in Seq(Int) /\ Len(q[i]) = 4
          /\ \A c \in 1 .. 4 : q[i][c] = PageOf(j, PageNumber(j, i - 1, c - 1))
      BY <1>1, <1>4, <3>1
    <3> QED BY <3>1, <3>2, <3>3
  <2>5. k \in Nat \ {0} OBVIOUS
  <2>6. Bound(x, j.sigsheets, Booklet(j, k)) BY <2>1, <2>2, <2>4, <2>5, BoundIs
  <2>7. Booklet(j, k) \in Seq(Int) /\ Len(Booklet(j, k)) = 4 * g BY BookletIs
  <2>8. C!Leafed(x) = Booklet(j, k) BY <1>1, <2>6, <2>7, LeafedIs
  <2> QED BY <2>8 DEF x
<1> DEFINE y == [k \in 1 .. Q |-> Booklet(j, k)]
           t == FlattenSeq(y)
           V == Int
<1>9. [i \in DOMAIN p |-> C!Leafed(p[i])] = y
  <2>1. DOMAIN p = 1 .. Q BY <1>7 DEF InPieces
  <2> QED BY <1>8, <2>1
<1>10. C!Reading(j, s) = t BY <1>6, <1>9
<1>11. \A k \in 1 .. Q : y[k] = Booklet(j, k) OBVIOUS
<1>12. y \in Seq(Seq(V)) /\ Len(y) = Q /\ y # << >>
  <2> DEFINE L == Seq(V)
  <2>1. y \in [1 .. Q -> L] BY BookletIs
  <2>2. Q \in Int /\ ~ Q < 0 /\ Q # 0 OBVIOUS
  <2> HIDE DEF L, y
  <2>3. y \in Seq(L) /\ Len(y) = Q BY <2>1, <2>2, FirstNumbers
  <2>4. y # << >> BY <2>2, <2>3
  <2> QED BY <2>3, <2>4 DEF L
<1>13. \A k \in 1 .. Q : Len(y[k]) = n BY BookletIs DEF n
<1>14. t = FlattenSeq(y) OBVIOUS
<1>15. n \in Nat \ {0} /\ F = Q * n BY <1>1, <1>3 DEF n
<1>16. \A k \in 1 .. Q : \A x \in 1 .. n :
         y[k][x] = PageOf(j, (k - 1) * n + (x - 1))
  BY <1>11 DEF Booklet, n
<1> HIDE DEF y, t, V, g
<1>17. t \in Seq(V) BY ONLY <1>12, <1>14, FlattenIs
<1>18. InBlocks(t, y, n)
  <2>1. n \in Nat BY <1>15
  <2>2. \A i \in 1 .. Len(y) - 1 : Len(y[i]) = n
    <3>1. \A i \in 1 .. Q - 1 : i \in 1 .. Q OBVIOUS
    <3> QED BY <1>12, <1>13, <3>1
  <2> QED BY ONLY <1>12, <1>14, <2>1, <2>2, FlattenBlocks
<1>19. Len(t) = F
  <2>1. Len(t) = (Q - 1) * n + Len(y[Q]) BY <1>12, <1>18 DEF InBlocks
  <2>2. Q \in 1 .. Q OBVIOUS
  <2>3. Len(y[Q]) = n BY <1>13, <2>2
  <2> QED BY <1>15, <2>1, <2>3
<1>20. \A k \in 1 .. Q : \A x \in 1 .. n :
         t[(k - 1) * n + x] = PageOf(j, (k - 1) * n + (x - 1))
  BY <1>12, <1>13, <1>16, <1>18 DEF InBlocks
<1>21. \A x \in 1 .. F : t[x] = w[x]
  <2> TAKE x \in 1 .. F
  <2>1. x - 1 \in Nat BY <1>15
  <2>2. PICK a \in Nat, r \in 0 .. n - 1 : x - 1 = a * n + r
    <3> DEFINE z == x - 1
    <3>1. z \in Nat BY <2>1
    <3> HIDE DEF z
    <3>2. \E a \in Nat : \E r \in 0 .. n - 1 : z = a * n + r
      BY <1>15, <3>1, RowOf
    <3> QED BY <3>2 DEF z
  <2>3. r \in Nat /\ a * n + r < Q * n BY <1>15, <2>1, <2>2
  <2>4. a < Q BY <1>15, <2>3, RowBefore
  <2> DEFINE k == a + 1
             m == r + 1
  <2>5. k \in 1 .. Q /\ m \in 1 .. n /\ k - 1 = a /\ m - 1 = r
    BY <1>15, <2>3, <2>4
  <2>6. (k - 1) * n + m = x /\ (k - 1) * n + (m - 1) = x - 1
    <3>1. a * n \in Nat BY <1>15
    <3> QED BY <2>2, <2>3, <2>5, <3>1
  <2> HIDE DEF k, m
  <2>7. t[x] = PageOf(j, x - 1) BY <1>20, <2>5, <2>6
  <2> QED BY <1>5, <2>7
<1>22. t = w BY <1>5, <1>17, <1>19, <1>21, SameSeq
<1> QED BY <1>10, <1>22 DEF w, F

\* One copy as the reader finds it.
LEMMA ReadsAsWanted ==
  ASSUME NEW j \in Orders, LaidOut(j), NEW s, InSheets(j, s)
  PROVE  C!Reading(j, s) = C!Padded(C!Wanted(j), C!FullLength(j))
BY ReadsStraight, ReadsFolded

---------------------------------------------------------------------------
(* Copy after copy *)

\* The pages of what is sent are numbers.
LEMMA SecondsAre ==
  ASSUME NEW t \in Seq(PageSteps)
  PROVE  /\ Seconds(t) \in Seq(Int) /\ Len(Seconds(t)) = Len(t)
         /\ \A i \in 1 .. Len(t) : Seconds(t)[i] = t[i][2]
<1> DEFINE p == Seconds(t)
<1>1. \A i \in 1 .. Len(t) : t[i][2] \in Int
  <2>1. \A i \in 1 .. Len(t) : t[i] \in PageSteps OBVIOUS
  <2> QED BY <2>1 DEF PageSteps
<1>2. p \in [1 .. Len(t) -> Int] BY <1>1 DEF Seconds
<1>3. Len(t) \in Int /\ ~ Len(t) < 0 OBVIOUS
<1>4. \A i \in 1 .. Len(t) : p[i] = t[i][2] BY DEF Seconds
<1> HIDE DEF p
<1>5. p \in Seq(Int) /\ Len(p) = Len(t) BY <1>2, <1>3, FirstNumbers
<1> QED BY <1>4, <1>5 DEF p

\* The script section k times.
Passes(j, k) == FlattenSeq([i \in 1 .. k |-> CopyPages(j, k - i)])

\* A file with pages t makes k copies that are read well.
Complete(j, t, k) ==
  /\ t \in Seq(PageSteps)
  /\ C!ReadsWell(j, Seconds(t)) /\ C!Copies(j, Seconds(t)) = k

\* Those are copies of the job.
LEMMA PassesRead ==
  ASSUME NEW j \in Orders, LaidOut(j), NEW k \in Nat \ {0}
  PROVE  Complete(j, Passes(j, k), k)
<1> DEFINE F == C!FullLength(j)
           s == [i \in 1 .. k |-> CopyPages(j, k - i)]
           t == Passes(j, k)
           v == Seconds(t)
           p == C!Pieces(v, F)
           w == C!Padded(C!Wanted(j), F)
           V == PageSteps
<1>1. F \in Nat \ {0} BY SheetsAre
<1>2. t = FlattenSeq(s) BY DEF Passes
<1>3. ASSUME NEW i \in 1 .. k
      PROVE  /\ s[i] \in Seq(V) /\ Len(s[i]) \in 1 .. F
             /\ i # k => Len(s[i]) = F
             /\ Seconds(s[i]) \in Seq(Int) /\ Len(Seconds(s[i])) = Len(s[i])
             /\ C!Reading(j, C!Padded(Seconds(s[i]), F)) = w
  <2> DEFINE u == CopyPages(j, k - i)
  <2>1. k - i \in Int /\ (i # k => k - i # 0) OBVIOUS
  <2>2. s[i] = u OBVIOUS
  <2>3. /\ u \in Seq(V) /\ Len(u) \in 1 .. F
        /\ k - i # 0 => Len(u) = F
        /\ Seconds(u) \in Seq(Int) /\ Len(Seconds(u)) = Len(u)
        /\ InSheets(j, C!Padded(Seconds(u), F))
    BY <2>1, CopyIs
  <2> HIDE DEF u
  <2>4. C!Reading(j, C!Padded(Seconds(u), F)) = w BY <2>3, ReadsAsWanted
  <2> HIDE DEF F, w
  <2> QED BY <2>1, <2>2, <2>3, <2>4
<1>4. s \in Seq(Seq(V)) /\ Len(s) = k /\ s # << >>
  <2> DEFINE L == Seq(V)
  <2>1. s \in [1 .. k -> L] BY <1>3
  <2>2. k \in Int /\ ~ k < 0 /\ k # 0 OBVIOUS
  <2> HIDE DEF L, s
  <2>3. s \in Seq(L) /\ Len(s) = k BY <2>1, <2>2, FirstNumbers
  <2>4. s # << >> BY <2>2, <2>3
  <2> QED BY <2>3, <2>4 DEF L
<1> HIDE DEF s, t, F, w, V
<1>5. t \in Seq(V) BY ONLY <1>2, <1>4, FlattenIs
<1>6. InBlocks(t, s, F)
  <2>1. F \in Nat BY <1>1
  <2>2. \A i \in 1 .. Len(s) - 1 : Len(s[i]) = F
    <3>1. \A i \in 1 .. k - 1 : i \in 1 .. k /\ i # k OBVIOUS
    <3> QED BY <1>3, <1>4, <3>1
  <2> QED BY ONLY <1>2, <1>4, <2>1, <2>2, FlattenBlocks
<1>7. k \in 1 .. k OBVIOUS
<1>8. Len(s[k]) \in 1 .. F BY <1>3, <1>7
<1>9. Len(t) = (k - 1) * F + Len(s[k]) BY <1>4, <1>6 DEF InBlocks
<1>10. /\ v \in Seq(Int) /\ Len(v) = Len(t)
       /\ \A i \in 1 .. Len(t) : v[i] = t[i][2]
  BY <1>5, SecondsAre DEF V
<1> HIDE DEF v
<1>11. (k - 1) * F < Len(v) /\ Len(v) <= k * F /\ Len(v) \in Nat \ {0}
  <2> DEFINE a == (k - 1) * F
             b == Len(s[k])
  <2>1. a \in Nat /\ k * F = a + F BY <1>1
  <2>2. b \in 1 .. F /\ Len(v) = a + b BY <1>8, <1>9, <1>10
  <2> HIDE DEF a, b
  <2>3. a < Len(v) /\ Len(v) <= a + F /\ Len(v) \in Nat \ {0}
    BY <1>1, <2>1, <2>2
  <2> QED BY <2>1, <2>3 DEF a
<1>12. InPieces(p, v, F, k, Int)
  <2> DEFINE W == Int
  <2>1. v \in Seq(W) BY <1>10
  <2>2. (k - 1) * F < Len(v) /\ Len(v) <= k * F BY <1>11
  <2>3. k \in Nat \ {0} /\ p = C!Pieces(v, F) OBVIOUS
  <2> HIDE DEF W, p
  <2>4. InPieces(p, v, F, k, W) BY ONLY <1>1, <2>1, <2>2, <2>3, PiecesAre
  <2> QED BY <2>4 DEF W
<1>13. p = C!Pieces(v, C!FullLength(j)) BY DEF F
<1> HIDE DEF p
<1>14. ASSUME NEW i \in 1 .. k
       PROVE  Len(p[i]) = Len(s[i]) /\ p[i] = Seconds(s[i])
  <2>1. /\ p[i] \in Seq(Int)
        /\ Len(p[i]) = IF i < k THEN F ELSE Len(v) - (k - 1) * F
        /\ \A m \in 1 .. Len(p[i]) : p[i][m] = v[(i - 1) * F + m]
    BY <1>12 DEF InPieces
  <2>2. Len(p[i]) = Len(s[i])
    <3>1. CASE i = k
      <4> DEFINE a == (k - 1) * F
      <4>1. a \in Int BY <1>1
      <4>2. Len(v) = a + Len(s[k]) BY <1>9, <1>10
      <4>3. Len(p[i]) = Len(v) - a BY <2>1, <3>1
      <4> HIDE DEF a
      <4> QED BY <1>8, <3>1, <4>1, <4>2, <4>3
    <3>2. CASE i # k
      <4>1. i < k BY <3>2
      <4> QED BY <1>3, <2>1, <3>2, <4>1
    <3> QED BY <3>1, <3>2
  <2>3. s[i] \in Seq(V) /\ Len(s[i]) \in 1 .. F BY <1>3
  <2>4. /\ Seconds(s[i]) \in Seq(Int) /\ Len(Seconds(s[i])) = Len(s[i])
        /\ \A m \in 1 .. Len(s[i]) : Seconds(s[i])[m] = s[i][m][2]
    BY <2>3, SecondsAre DEF V
  <2>5. \A m \in 1 .. Len(s[i]) : p[i][m] = s[i][m][2]
    <3> TAKE m \in 1 .. Len(s[i])
    <3> DEFINE x == (i - 1) * F + m
    <3>1. t[x] = s[i][m] BY <1>4, <1>6 DEF InBlocks
    <3>2. p[i][m] = v[x] BY <2>1, <2>2
    <3>3. x \in 1 .. Len(t)
      <4> DEFINE a == (i - 1) * F
                 b == (k - 1) * F
      <4>1. i - 1 \in Nat /\ k - 1 \in Nat /\ F \in Nat BY <1>1
      <4>2. a \in Nat /\ b \in Nat BY <4>1
      <4>3. i # k => a + F <= b
        <5>1. i # k => i - 1 < k - 1 OBVIOUS
        <5>2. i # k => (i - 1) * F + F <= (k - 1) * F BY <4>1, <5>1, RowsUpTo
        <5> QED BY <5>2
      <4>4. i = k => a = b OBVIOUS
      <4>5. Len(t) = b + Len(s[k]) BY <1>9
      <4>6. Len(s[i]) \in Nat /\ Len(s[k]) \in Nat /\ Len(s[i]) <= F
        BY <1>1, <1>8, <2>3
      <4> HIDE DEF a, b
      <4>7. m \in Nat \ {0} /\ m <= Len(s[i]) BY <4>6
      <4>8. a + m \in 1 .. Len(t)
        <5>1. CASE i = k BY <4>2, <4>4, <4>5, <4>6, <4>7, <5>1
        <5>2. CASE i # k BY <4>1, <4>2, <4>3, <4>5, <4>6, <4>7, <5>2
        <5> QED BY <5>1, <5>2
      <4> QED BY <4>8 DEF a
    <3> HIDE DEF x
    <3>4. v[x] = t[x][2] BY <1>10, <3>3
    <3> QED BY <3>1, <3>2, <3>4
  <2>6. p[i] = Seconds(s[i])
    <3> DEFINE a == p[i]
               b == Seconds(s[i])
    <3>1. a \in Seq(Int) /\ b \in Seq(Int) /\ Len(a) = Len(b)
      BY <2>1, <2>2, <2>4
    <3>2. \A m \in 1 .. Len(a) : a[m] = b[m] BY <2>2, <2>4, <2>5
    <3> HIDE DEF a, b
    <3>3. a = b BY <3>1, <3>2, SameSeq
    <3> QED BY <3>3 DEF a, b
  <2> QED BY <2>2, <2>6
<1>15. DOMAIN p = 1 .. k /\ Len(p) = k BY <1>12 DEF InPieces
<1>16. C!ReadsWell(j, v)
  <2>1. v # << >> BY <1>10, <1>11
  <2>2. ASSUME NEW i \in DOMAIN p
        PROVE  /\ i < Len(p) => Len(p[i]) = F
               /\ C!Reading(j, C!Padded(p[i], F)) = w
    <3>1. i \in 1 .. k /\ (i < Len(p) => i # k) BY <1>15
    <3> QED BY <1>3, <1>14, <3>1
  <2> QED BY <1>13, <2>1, <2>2 DEF C!ReadsWell, F, w
<1>17. C!Copies(j, v) = k
  <2>1. Len(v) \in Nat BY <1>11
  <2>2. RoundedUp(Len(v), F) = k BY <1>1, <1>11, <2>1, Rounded
  <2>3. C!Copies(j, v) = C!Quotient(Len(v), C!FullLength(j)) BY DEF C!Copies
  <2> QED BY <2>2, <2>3, SameNames DEF F
<1> QED BY <1>5, <1>16, <1>17 DEF Complete, V, v, t

\* A file in which pprdrv finds no pages holds all of them as they are to be
\* read, if it is not to be turned over.
AsItIs(j) ==
  /\ j.mask = 1 .. j.pages /\ j.sigsheets = 0
  /\ ~ j.faceup \/ j.pageorder = 0

\* What is in such a file.
AllPages(j) == [i \in 1 .. j.pages |-> <<"page", i>>]

\* All pages of a job are the numbers up to the last.
LEMMA WantedAll ==
  ASSUME NEW j \in Orders, j.mask = 1 .. j.pages
  PROVE  /\ j.pages \in Nat /\ Cardinality(j.mask) = j.pages
         /\ \A k \in 0 .. j.pages - 1 : C!Wanted(j)[k + 1] = k + 1
<1> DEFINE n == j.pages
           c == Cardinality(j.mask)
           w == C!Wanted(j)
           t == MakePagetable(j)
           s == [i \in 1 .. n |-> IF j.pageorder = -1 THEN n + 1 - i ELSE i]
<1>1. n \in Nat BY LayoutTypes
<1>2. /\ c \in Nat /\ Len(t) = c
      /\ \A k \in 0 .. c - 1 : t[Index(j, c, k) + 1] = w[k + 1]
  BY TableIs
<1>3. s \in Seq(Int) /\ Len(s) = n
  <2>1. s \in [1 .. n -> Int] BY <1>1
  <2>2. n \in Int /\ ~ n < 0 BY <1>1
  <2> HIDE DEF s, n
  <2> QED BY <2>1, <2>2, FirstNumbers
<1>4. \A i \in 1 .. n : s[i] = IF j.pageorder = -1 THEN n + 1 - i ELSE i
  OBVIOUS
<1>5. t = Keep(s, j.mask) BY DEF MakePagetable
<1> HIDE DEF s, t, w, c
<1>6. t = s
  <2>1. \A i \in 1 .. Len(s) : s[i] \in j.mask BY <1>1, <1>3, <1>4
  <2> QED BY <1>3, <1>5, <2>1, KeepAll
<1>7. c = n BY <1>2, <1>3, <1>6
<1>8. ASSUME NEW k \in 0 .. n - 1 PROVE w[k + 1] = k + 1
  <2>1. w[k + 1] = s[Index(j, n, k) + 1] BY <1>2, <1>6, <1>7
  <2>2. CASE j.pageorder = -1
    <3>1. Index(j, n, k) = n - k - 1
      BY <2>2 DEF Index, CurrentJobDirection
    <3>2. (n - k - 1) + 1 \in 1 .. n /\ n + 1 - ((n - k - 1) + 1) = k + 1
      BY <1>1
    <3> QED BY <1>4, <2>1, <2>2, <3>1, <3>2
  <2>3. CASE j.pageorder # -1
    <3>1. Index(j, n, k) = k BY <2>3 DEF Index, CurrentJobDirection
    <3>2. k + 1 \in 1 .. n BY <1>1
    <3> QED BY <1>4, <2>1, <2>3, <3>1, <3>2
  <2> QED BY <2>2, <2>3
<1> QED BY <1>1, <1>7, <1>8 DEF c, w

\* It is one copy of the job.
LEMMA PlainRead ==
  ASSUME NEW j \in Orders, LaidOut(j), AsItIs(j)
  PROVE  Complete(j, AllPages(j), 1)
<1> DEFINE n == j.pages
           f == j.pagefactor
           S == SheetCount(j)
           F == C!FullLength(j)
           t == AllPages(j)
           v == Seconds(t)
           u == C!Padded(v, F)
           p == C!Pieces(v, F)
<1>1. /\ n \in Nat \ {0} /\ Cardinality(j.mask) = n
      /\ S \in Nat \ {0} /\ F \in Nat \ {0} /\ S * f = F /\ n <= F
  BY SheetsAre, WantedAll DEF AsItIs
<1>2. f \in Nat \ {0} BY LayoutTypes
<1>3. \A k \in 0 .. n - 1 : C!Wanted(j)[k + 1] = k + 1
  BY WantedAll DEF AsItIs
<1>4. t \in Seq(PageSteps) /\ Len(t) = n
  <2>1. t \in [1 .. n -> PageSteps]
    <3>1. \A i \in 1 .. n : <<"page", i>> \in PageSteps BY DEF PageSteps
    <3> QED BY <3>1 DEF AllPages
  <2>2. n \in Int /\ ~ n < 0 BY <1>1
  <2> HIDE DEF t, n
  <2> QED BY <2>1, <2>2, FirstNumbers
<1>5. \A i \in 1 .. n : t[i] = <<"page", i>> BY DEF AllPages
<1> HIDE DEF n, f, S, F, t
<1>6. v \in Seq(Int) /\ Len(v) = n /\ \A i \in 1 .. n : v[i] = i
  <2>1. /\ v \in Seq(Int) /\ Len(v) = n
        /\ \A i \in 1 .. n : v[i] = t[i][2]
    BY <1>4, SecondsAre
  <2> HIDE DEF v
  <2> QED BY <1>5, <2>1
<1> HIDE DEF v
<1>7. /\ u \in Seq(Int) /\ Len(u) = F
      /\ \A i \in 1 .. F : u[i] = IF i <= Len(v) THEN v[i] ELSE 0
  <2>1. F \in Nat /\ Len(v) <= F BY <1>1, <1>6
  <2> QED BY <1>6, <2>1, PaddedIs
<1> HIDE DEF u
<1>8. ASSUME NEW i \in 1 .. S, NEW m \in 1 .. f
      PROVE  u[(i - 1) * f + m] = Spot(j, i, m)
  <2> DEFINE a == (i - 1) * f
             x == a + m
             k == a + (m - 1)
  <2>1. SheetNo(j, i) = i - 1 BY DEF SheetNo, PrintDirection, AsItIs
  <2>2. PageNumber(j, i - 1, m - 1) = k BY DEF PageNumber, AsItIs, f
  <2>3. a \in Nat /\ a + f <= F
    <3>1. i \in Nat /\ i <= S /\ S \in Nat /\ f \in Nat BY <1>1, <1>2
    <3>2. i * f <= S * f /\ a = i * f - f /\ i * f \in Nat BY <3>1, RowsUpTo
    <3>3. i - 1 \in Nat BY <1>1
    <3>4. a \in Nat BY <3>1, <3>3
    <3> HIDE DEF a
    <3> QED BY <1>1, <3>1, <3>2, <3>4
  <2> HIDE DEF a
  <2>4. x \in 1 .. F /\ k \in Nat /\ k + 1 = x BY <1>1, <1>2, <2>3
  <2>5. Spot(j, i, m) = PageOf(j, k) BY <2>1, <2>2 DEF Spot
  <2> HIDE DEF x, k
  <2>6. CASE k < n
    <3>1. k \in 0 .. n - 1 /\ x <= n /\ x \in 1 .. n BY <1>1, <2>4, <2>6
    <3>2. PageOf(j, k) = x BY <1>1, <1>3, <2>4, <3>1 DEF PageOf
    <3>3. u[x] = x BY <1>6, <1>7, <2>4, <3>1
    <3> QED BY <2>5, <3>2, <3>3 DEF x, a
  <2>7. CASE ~ k < n
    <3>1. k \notin 0 .. n - 1 /\ ~ x <= n BY <1>1, <2>4, <2>7
    <3>2. PageOf(j, k) = 0 BY <1>1, <3>1 DEF PageOf
    <3>3. u[x] = 0 BY <1>6, <1>7, <2>4, <3>1
    <3> QED BY <2>5, <3>2, <3>3 DEF x, a
  <2> QED BY <2>6, <2>7
<1>9. InSheets(j, u) BY <1>7, <1>8 DEF InSheets, F, S, f
<1>10. C!Reading(j, u) = C!Padded(C!Wanted(j), F)
  BY <1>9, ReadsAsWanted DEF F
<1>11. (1 - 1) * F < Len(v) /\ Len(v) <= 1 * F
  BY <1>1, <1>6
<1>12. InPieces(p, v, F, 1, Int)
  <2> DEFINE W == Int
             one == 1
  <2>1. v \in Seq(W) BY <1>6
  <2>2. (one - 1) * F < Len(v) /\ Len(v) <= one * F /\ one \in Nat \ {0}
    BY <1>11
  <2>3. p = C!Pieces(v, F) OBVIOUS
  <2> HIDE DEF W, p, one
  <2>4. InPieces(p, v, F, one, W) BY ONLY <1>1, <2>1, <2>2, <2>3, PiecesAre
  <2> QED BY <2>4 DEF W, one
<1>13. p = C!Pieces(v, C!FullLength(j)) BY DEF F
<1> HIDE DEF p
<1>14. DOMAIN p = {1} /\ Len(p) = 1 /\ p[1] = v
  <2>1. p \in Seq(Seq(Int)) /\ Len(p) = 1 BY <1>12 DEF InPieces
  <2>2. 1 \in 1 .. 1 OBVIOUS
  <2>3. /\ p[1] \in Seq(Int) /\ Len(p[1]) = Len(v) - (1 - 1) * F
        /\ \A m \in 1 .. Len(p[1]) : p[1][m] = v[(1 - 1) * F + m]
    BY <1>12, <2>2 DEF InPieces
  <2>4. Len(p[1]) = Len(v) BY <1>1, <1>6, <2>3
  <2>5. \A m \in 1 .. Len(v) : p[1][m] = v[m]
    <3> TAKE m \in 1 .. Len(v)
    <3>1. (1 - 1) * F + m = m BY <1>1, <1>6
    <3> QED BY <2>3, <2>4, <3>1
  <2>6. p[1] = v
    <3> DEFINE a == p[1]
    <3>1. a \in Seq(Int) /\ Len(a) = Len(v) /\ \A m \in 1 .. Len(v) : a[m] = v[m]
      BY <2>3, <2>4, <2>5
    <3> HIDE DEF a
    <3>2. a = v BY <1>6, <3>1, SameSeq
    <3> QED BY <3>2 DEF a
  <2> QED BY <2>1, <2>6
<1>15. C!ReadsWell(j, v)
  <2>1. v # << >> BY <1>1, <1>6
  <2> QED BY <1>10, <1>13, <1>14, <2>1 DEF C!ReadsWell, F, u
<1>16. C!Copies(j, v) = 1
  <2>1. Len(v) \in Nat /\ 1 \in Nat \ {0} BY <1>1, <1>6
  <2>2. RoundedUp(Len(v), F) = 1 BY <1>1, <1>11, <2>1, Rounded
  <2>3. C!Copies(j, v) = C!Quotient(Len(v), C!FullLength(j)) BY DEF C!Copies
  <2> QED BY <2>2, <2>3, SameNames DEF F
<1> QED BY <1>4, <1>15, <1>16 DEF Complete, v, t

---------------------------------------------------------------------------
(* What of a program is for the paper *)

\* x is somewhere in t.
Occurs(x, t) == \E i \in 1 .. Len(t) : t[i] = x

\* What is in one of the sequences is in what they make.
LEMMA FlattenHas ==
  ASSUME NEW A, NEW s \in Seq(Seq(A)), NEW i \in 1 .. Len(s), NEW x,
         Occurs(x, s[i])
  PROVE  Occurs(x, FlattenSeq(s))
<1> DEFINE n == Len(s)
<1>0. s # << >> OBVIOUS
<1>1. n \in Nat \ {0} BY <1>0, FlattenIs
<1>2. PICK h \in [1 .. n -> Seq(A)] :
           /\ FlattenSeq(s) = h[n] /\ h[1] = s[1]
           /\ \A k \in 2 .. n : h[k] = h[k - 1] \o s[k]
  BY <1>0, FlattenIs DEF FlatUp
<1>3. \A k \in 1 .. n : s[k] \in Seq(A) /\ h[k] \in Seq(A)
  <2>1. \A k \in 1 .. n : s[k] \in Seq(A) OBVIOUS
  <2>2. \A k \in 1 .. n : h[k] \in Seq(A)
    <3> HIDE DEF n
    <3> QED OBVIOUS
  <2> QED BY <2>1, <2>2
<1>4. i \in 1 .. n OBVIOUS
<1> HIDE DEF n
<1>5. ASSUME NEW k \in 2 .. n
      PROVE  /\ Occurs(x, h[k - 1]) => Occurs(x, h[k])
             /\ Occurs(x, s[k]) => Occurs(x, h[k])
  <2> DEFINE a == h[k - 1]
             b == s[k]
             c == h[k]
  <2>1. k - 1 \in 1 .. n /\ k \in 1 .. n BY <1>1
  <2>2. a \in Seq(A) /\ b \in Seq(A) /\ c = a \o b BY <1>2, <1>3, <2>1
  <2> HIDE DEF a, b, c
  <2>3. /\ Len(c) = Len(a) + Len(b) /\ Len(a) \in Nat /\ Len(b) \in Nat
        /\ \A y \in 1 .. Len(a) : c[y] = a[y]
        /\ \A y \in 1 .. Len(b) : c[Len(a) + y] = b[y]
    BY <2>2, Joined
  <2>4. ASSUME NEW y \in 1 .. Len(a), a[y] = x PROVE Occurs(x, c)
    <3>1. y \in 1 .. Len(c) BY <2>3
    <3> QED BY <2>3, <2>4, <3>1 DEF Occurs
  <2>5. ASSUME NEW y \in 1 .. Len(b), b[y] = x PROVE Occurs(x, c)
    <3>1. Len(a) + y \in 1 .. Len(c) BY <2>3
    <3> QED BY <2>3, <2>5, <3>1 DEF Occurs
  <2>6. Occurs(x, a) => Occurs(x, c) BY <2>4 DEF Occurs
  <2>7. Occurs(x, b) => Occurs(x, c) BY <2>5 DEF Occurs
  <2> QED BY <2>6, <2>7 DEF a, b, c
<1> DEFINE T == {k \in Nat : k < n /\ i <= k + 1 => Occurs(x, h[k + 1])}
<1>6. 0 \in T
  <2>1. i <= 0 + 1 => i = 1 BY <1>1
  <2> QED BY <1>2, <2>1
<1>7. \A k \in Nat : k \in T => k + 1 \in T
  <2> TAKE k \in Nat
  <2> SUFFICES ASSUME k \in T, k + 1 < n, i <= (k + 1) + 1
               PROVE  Occurs(x, h[(k + 1) + 1])
    OBVIOUS
  <2>1. (k + 1) + 1 \in 2 .. n /\ ((k + 1) + 1) - 1 = k + 1 BY <1>1
  <2>2. CASE i <= k + 1
    <3>1. Occurs(x, h[k + 1]) BY <1>1, <2>2
    <3> QED BY <1>5, <2>1, <3>1
  <2>3. CASE ~ i <= k + 1
    <3>1. i = (k + 1) + 1 BY <1>1, <2>3
    <3> QED BY <1>5, <2>1, <3>1
  <2> QED BY <2>2, <2>3
<1> HIDE DEF T
<1>8. Nat \subseteq T BY <1>6, <1>7, Induction
<1>9. n - 1 \in Nat /\ n - 1 < n /\ (n - 1) + 1 = n /\ i <= (n - 1) + 1
  <2>1. i \in Int /\ i <= n BY <1>1, <1>4
  <2> QED BY <1>1, <2>1
<1>10. n - 1 \in T BY <1>8, <1>9
<1>11. Occurs(x, h[n]) BY <1>9, <1>10 DEF T
<1> QED BY <1>2, <1>11

\* The names of the steps that put nothing on the paper.
OtherNames == Names \ Data

\* These steps.
Others == {Op(a) : a \in OtherNames}

\* A few of them, one behind the other.
LEMMA OtherTuples ==
  ASSUME NEW a \in OtherNames, NEW b \in OtherNames,
         NEW c \in OtherNames, NEW d \in OtherNames
  PROVE  /\ Ops(<<a>>) \in Seq(Others)
         /\ Ops(<<a, b>>) \in Seq(Others)
         /\ Ops(<<a, b, c>>) \in Seq(Others)
         /\ Ops(<<a, b, c, d>>) \in Seq(Others)
<1> DEFINE w == Op(a)
           x == Op(b)
           y == Op(c)
           z == Op(d)
<1>1. w \in Others /\ x \in Others /\ y \in Others /\ z \in Others BY DEF Others
<1>2. /\ Ops(<<a>>) = <<w>> /\ Ops(<<a, b>>) = <<w, x>>
      /\ Ops(<<a, b, c>>) = <<w, x, y>> /\ Ops(<<a, b, c, d>>) = <<w, x, y, z>>
  BY OpsAre
<1> HIDE DEF w, x, y, z
<1>3. /\ <<w>> \in Seq(Others) /\ <<w, x>> \in Seq(Others)
      /\ <<w, x, y>> \in Seq(Others) /\ <<w, x, y, z>> \in Seq(Others)
  BY <1>1
<1> QED BY <1>2, <1>3

\* What they are called.
LEMMA OtherOps ==
  \A a \in {"launch", "handshake", "signal", "usr1", "shut", "drain", "reap",
            "eot", "pjl", "eoj", "uel", "rip", "ripeof", "ripwait0", "ripwait",
            "ripscreen", "ctrld", "pjlstart", "pjlend", "verdict"} :
    a \in OtherNames
BY DEF OtherNames, Names, RunNames, PlainNames, Blocks, Data

\* What is not for the paper in the program of a job.
LEMMA BetweenFiles ==
  ASSUME NEW j, NEW type, NEW i
  PROVE  /\ JobStart(j, type, i) \in Seq(Others)
         /\ JobEnd(j, type) \in Seq(Others)
         /\ InterfaceClose \in Seq(Others) /\ Ops(<<"verdict">>) \in Seq(Others)
<1> DEFINE L == Seq(Others)
           n == << >>
           a == Ops(<<"eot", "ctrld">>)
           b == Ops(<<"eot">>)
           s == SignalJobbreak
           c == Ops(<<"eoj", "pjlstart", "pjlend", "uel">>)
           d == Ops(<<"eoj", "uel">>)
           p == Ops(<<"pjl">>)
           r == Ops(<<"rip">>)
           w == Ops(<<"ripeof", "ripwait0", "ripwait", "ripscreen">>)
           u == Ops(<<"launch", "handshake">>)
           v == Ops(<<"launch">>)
           e == InterfaceClose
<1>1. a \in L BY OtherOps, OtherTuples
<1>2. b \in L BY OtherOps, OtherTuples
<1>3. c \in L BY OtherOps, OtherTuples
<1>4. d \in L BY OtherOps, OtherTuples
<1>5. p \in L BY OtherOps, OtherTuples
<1>6. r \in L BY OtherOps, OtherTuples
<1>7. w \in L BY OtherOps, OtherTuples
<1>8. u \in L BY OtherOps, OtherTuples
<1>9. v \in L BY OtherOps, OtherTuples
<1>10. e \in L BY OtherOps, OtherTuples DEF InterfaceClose
<1>11. s \in L BY OtherOps, OtherTuples DEF SignalJobbreak
<1>12. n \in L OBVIOUS
<1>13. Ops(<<"verdict">>) \in L BY OtherOps, OtherTuples
<1>14. \A x, y \in L : x \o y \in L OBVIOUS
<1>15. StartInterface(j) \in {u, v} BY DEF StartInterface
<1>16. StartPart(j, i) \in {n, s, StartInterface(j), e \o StartInterface(j)}
  BY DEF StartPart
<1>17. Before(j, type, i) \in {n, b, p} BY DEF Before
<1>18. RipBefore(j, type) \in {n, r} /\ RipBehind(j, type) \in {n, w}
  BY DEF RipBefore, RipBehind
<1>19. Behind(j, type) \in {n, a, b, n \o c, n \o d, b \o c, b \o d,
                            s \o c, s \o d}
  BY DEF Behind
<1> HIDE DEF L, n, a, b, s, c, d, p, r, w, u, v, e
<1>20. /\ n \o c \in L /\ n \o d \in L /\ b \o c \in L /\ b \o d \in L
       /\ s \o c \in L /\ s \o d \in L
  BY <1>2, <1>3, <1>4, <1>11, <1>12, <1>14
<1>21. Behind(j, type) \in L BY <1>1, <1>2, <1>12, <1>19, <1>20
<1>22. RipBefore(j, type) \in L /\ RipBehind(j, type) \in L
  BY <1>6, <1>7, <1>12, <1>18
<1>23. Before(j, type, i) \in L BY <1>2, <1>5, <1>12, <1>17
<1>24. StartInterface(j) \in L BY <1>8, <1>9, <1>15
<1>25. StartPart(j, i) \in L BY <1>10, <1>11, <1>12, <1>14, <1>16, <1>24
<1>26. StartPart(j, i) \o Before(j, type, i) \in L BY <1>14, <1>23, <1>25
<1>27. /\ (StartPart(j, i) \o Before(j, type, i)) \o RipBefore(j, type) \in L
       /\ RipBehind(j, type) \o Behind(j, type) \in L
  BY <1>14, <1>21, <1>22, <1>26
<1> QED BY <1>10, <1>13, <1>27, StartIs DEF L, e

\* What is for the paper.
Prints == Data \X Int

\* The files without what is between them.
Bodies(j) == Seconds(Files(j))

\* They are steps of a program, and none is for the paper.
LEMMA OthersAre ==
  /\ Others \subseteq Acts /\ PlainSteps \subseteq Acts
  /\ \A x \in Others : x \notin Prints
<1>1. Others \subseteq Acts BY DEF Others, OtherNames, Acts, Op
<1>2. PlainSteps \subseteq Acts BY StepSets
<1>3. \A x \in Others : x \notin Prints
  BY DEF Others, OtherNames, Op, Prints
<1> QED BY <1>1, <1>2, <1>3

\* Of what is sent for a file, the file is for the paper.
LEMMA FileData ==
  ASSUME NEW j, NEW type, NEW body \in Seq(Prints), NEW i
  PROVE  /\ FileSteps(j, <<type, body>>, i) \in Seq(Acts)
         /\ DataOf(FileSteps(j, <<type, body>>, i)) = body
<1> DEFINE a == JobStart(j, type, i)
           b == JobEnd(j, type)
           t == FileSteps(j, <<type, body>>, i)
<1>1. t = (a \o body) \o b BY DEF FileSteps
<1>2. a \in Seq(Others) /\ b \in Seq(Others) BY BetweenFiles
<1>3. Prints \subseteq Acts
  BY DEF Prints, Acts, Names, RunNames, PlainNames, Blocks
<1> HIDE DEF a, b
<1>4. a \in Seq(Acts) /\ b \in Seq(Acts) /\ body \in Seq(Acts)
  BY <1>2, <1>3, OthersAre, SeqMonotonic
<1>5. Keep(a, Prints) = << >> /\ Keep(b, Prints) = << >>
  <2>1. \A k \in 1 .. Len(a) : a[k] \notin Prints BY <1>2, OthersAre
  <2>2. \A k \in 1 .. Len(b) : b[k] \notin Prints BY <1>2, OthersAre
  <2>3. Keep(a, Prints) = << >> BY ONLY <1>2, <2>1, KeepNone
  <2>4. Keep(b, Prints) = << >> BY ONLY <1>2, <2>2, KeepNone
  <2> QED BY <2>3, <2>4
<1>6. Keep(body, Prints) = body
  <2> DEFINE P == Prints
  <2>1. body \in Seq(P) /\ \A k \in 1 .. Len(body) : body[k] \in P OBVIOUS
  <2> HIDE DEF P
  <2>2. Keep(body, P) = body BY ONLY <2>1, KeepAll
  <2> QED BY <2>2 DEF P
<1>7. a \o body \in Seq(Acts) /\ (a \o body) \o b \in Seq(Acts) BY <1>4
<1>8. Keep(a \o body, Prints) = << >> \o body
  <2>1. Keep(a \o body, Prints) = Keep(a, Prints) \o Keep(body, Prints)
    BY ONLY <1>4, KeepConcat
  <2> QED BY <1>5, <1>6, <2>1
<1>9. Keep((a \o body) \o b, Prints) = (<< >> \o body) \o << >>
  <2> DEFINE ab == a \o body
  <2>1. ab \in Seq(Acts) BY <1>7
  <2> HIDE DEF ab
  <2>2. Keep(ab \o b, Prints) = Keep(ab, Prints) \o Keep(b, Prints)
    BY ONLY <1>4, <2>1, KeepConcat
  <2> QED BY <1>5, <1>8, <2>2 DEF ab
<1>10. (<< >> \o body) \o << >> = body
  <2> DEFINE P == Prints
  <2>1. body \in Seq(P) OBVIOUS
  <2> HIDE DEF P
  <2> QED BY ONLY <2>1
<1>11. DataOf(t) = Keep(t, Prints) BY DEF DataOf, Prints
<1> QED BY <1>1, <1>7, <1>9, <1>10, <1>11

\* Of the program of a job, the files are.
LEMMA ProgramData ==
  ASSUME NEW j \in Orders, Bodies(j) \in Seq(Seq(Prints))
  PROVE  DataOf(RealMain(j)) = FlattenSeq(Bodies(j))
<1> DEFINE files == Files(j)
           n == Len(files)
           s == [i \in DOMAIN files |-> FileSteps(j, files[i], i)]
           lead == FlattenSeq(s)
           e == InterfaceClose
           v == Ops(<<"verdict">>)
           A == Acts
<1>1. files \in Seq(FileTypes \X Seq(PlainSteps)) /\ files # << >>
  BY FilesAre
<1>2. RealMain(j) = (lead \o e) \o v BY DEF RealMain, FileSteps
<1>3. /\ n \in Nat /\ n # 0 /\ DOMAIN files = 1 .. n
      /\ \A i \in 1 .. n : files[i] \in FileTypes \X Seq(PlainSteps)
  <2> HIDE DEF files
  <2> QED BY <1>1
<1>4. Bodies(j) = [i \in 1 .. n |-> files[i][2]] BY DEF Bodies, Seconds
<1> HIDE DEF files, n
<1>5. \A i \in 1 .. n : files[i][2] \in Seq(Prints)
  <2> DEFINE L == Seq(Prints)
             b == Bodies(j)
  <2>1. b \in Seq(L) /\ b = [i \in 1 .. n |-> files[i][2]] BY <1>4
  <2> HIDE DEF L, b
  <2>2. ASSUME NEW i \in 1 .. n PROVE files[i][2] \in L
    <3>1. DOMAIN b = 1 .. n /\ b[i] = files[i][2] BY <2>1
    <3>2. b \in Seq(L) BY <2>1
    <3>3. \A x \in DOMAIN b : b[x] \in L BY ONLY <3>2
    <3> QED BY <3>1, <3>3
  <2> QED BY <2>2 DEF L
<1>6. ASSUME NEW i \in 1 .. n
      PROVE  s[i] \in Seq(A) /\ Keep(s[i], Prints) = files[i][2]
  <2>1. PICK type, body : files[i] = <<type, body>> BY <1>3
  <2>2. body \in Seq(Prints) /\ files[i][2] = body BY <1>5, <2>1
  <2>3. s[i] = FileSteps(j, <<type, body>>, i) BY <1>3, <2>1
  <2>4. /\ FileSteps(j, <<type, body>>, i) \in Seq(A)
        /\ DataOf(FileSteps(j, <<type, body>>, i)) = body
    BY <2>2, FileData
  <2> HIDE DEF s
  <2> QED BY <2>2, <2>3, <2>4 DEF DataOf, Prints
<1>7. s \in Seq(Seq(A)) /\ Len(s) = n /\ s # << >>
  <2> DEFINE L == Seq(A)
  <2>1. s = [i \in 1 .. n |-> s[i]] BY <1>3
  <2>2. \A i \in 1 .. n : s[i] \in L BY <1>6
  <2> HIDE DEF L, s
  <2>3. s \in [1 .. n -> L] BY <2>1, <2>2
  <2>4. s \in Seq(L) /\ Len(s) = n BY <1>3, <2>3, FirstNumbers
  <2>5. s # << >> BY <1>3, <2>4
  <2> QED BY <2>4, <2>5 DEF L
<1> HIDE DEF s
<1>8. lead = FlattenSeq(s) OBVIOUS
<1> HIDE DEF lead, A
<1>9. lead \in Seq(A) BY ONLY <1>7, <1>8, FlattenIs
<1>10. Keep(lead, Prints) = FlattenSeq(Bodies(j))
  <2>1. Keep(lead, Prints)
          = FlattenSeq([i \in 1 .. Len(s) |-> Keep(s[i], Prints)])
    BY ONLY <1>7, <1>8, KeepFlatten
  <2>2. [i \in 1 .. Len(s) |-> Keep(s[i], Prints)] = Bodies(j)
    BY <1>4, <1>6, <1>7
  <2> QED BY <2>1, <2>2
<1>11. e \in Seq(Others) /\ v \in Seq(Others) BY BetweenFiles
<1> HIDE DEF e, v
<1>12. e \in Seq(A) /\ v \in Seq(A)
  BY <1>11, OthersAre, SeqMonotonic DEF A
<1>13. Keep(e, Prints) = << >> /\ Keep(v, Prints) = << >>
  <2>1. \A k \in 1 .. Len(e) : e[k] \notin Prints BY <1>11, OthersAre
  <2>2. \A k \in 1 .. Len(v) : v[k] \notin Prints BY <1>11, OthersAre
  <2>3. Keep(e, Prints) = << >> BY ONLY <1>11, <2>1, KeepNone
  <2>4. Keep(v, Prints) = << >> BY ONLY <1>11, <2>2, KeepNone
  <2> QED BY <2>3, <2>4
<1> DEFINE k == Keep(lead, Prints)
<1>14. k \in Seq(Prints) BY <1>9, KeepType
<1>15. lead \o e \in Seq(A) BY <1>9, <1>12
<1> HIDE DEF k
<1>16. Keep(lead \o e, Prints) = k \o << >>
  <2>1. Keep(lead \o e, Prints) = Keep(lead, Prints) \o Keep(e, Prints)
    BY ONLY <1>9, <1>12, KeepConcat
  <2> QED BY <1>13, <2>1 DEF k
<1>17. k \o << >> = k BY ONLY <1>14
<1>18. Keep((lead \o e) \o v, Prints) = k \o << >>
  <2> DEFINE le == lead \o e
  <2>1. le \in Seq(A) BY <1>15
  <2> HIDE DEF le
  <2>2. Keep(le \o v, Prints) = Keep(le, Prints) \o Keep(v, Prints)
    BY ONLY <1>12, <2>1, KeepConcat
  <2> QED BY <1>13, <1>16, <1>17, <2>2 DEF le
<1>19. DataOf(RealMain(j)) = Keep(RealMain(j), Prints) BY DEF DataOf, Prints
<1>20. k = FlattenSeq(Bodies(j)) BY <1>10 DEF k
<1>21. Keep(RealMain(j), Prints) = k BY <1>2, <1>17, <1>18
<1>22. DataOf(RealMain(j)) = k BY <1>19, <1>21
<1> QED BY <1>20, <1>22

---------------------------------------------------------------------------
(* The files of a job *)

\* Seconds() of two sequences.
LEMMA SecondsConcat ==
  ASSUME NEW A, NEW s \in Seq(A), NEW t \in Seq(A)
  PROVE  Seconds(s \o t) = Seconds(s) \o Seconds(t)
<1> DEFINE B == {x[2] : x \in A}
           m == Len(s)
           n == Len(t)
           st == s \o t
           a == Seconds(s)
           b == Seconds(t)
           c == Seconds(st)
<1>1. /\ m \in Nat /\ n \in Nat /\ st \in Seq(A) /\ Len(st) = m + n
      /\ \A i \in 1 .. m : st[i] = s[i]
      /\ \A i \in 1 .. n : st[m + i] = t[i]
  BY Joined
<1>2. /\ \A i \in 1 .. m : s[i][2] \in B
      /\ \A i \in 1 .. n : t[i][2] \in B
      /\ \A i \in 1 .. m + n : st[i][2] \in B
  <2> HIDE DEF st
  <2>1. /\ \A i \in 1 .. m : s[i] \in A
        /\ \A i \in 1 .. n : t[i] \in A
        /\ \A i \in 1 .. m + n : st[i] \in A
    BY <1>1
  <2> QED BY <2>1
<1>3. /\ a = [i \in 1 .. m |-> s[i][2]] /\ b = [i \in 1 .. n |-> t[i][2]]
      /\ c = [i \in 1 .. m + n |-> st[i][2]]
  BY <1>1 DEF Seconds
<1> HIDE DEF m, n, st, a, b, c, B
<1>4. /\ a \in Seq(B) /\ Len(a) = m /\ b \in Seq(B) /\ Len(b) = n
      /\ c \in Seq(B) /\ Len(c) = m + n
  <2>1. a \in [1 .. m -> B] /\ b \in [1 .. n -> B] /\ c \in [1 .. m + n -> B]
    BY <1>2, <1>3
  <2>2. m + n \in Nat BY <1>1
  <2>a. m \in Int /\ ~ m < 0 /\ n \in Int /\ ~ n < 0 BY <1>1
  <2>3. a \in Seq(B) /\ Len(a) = m BY ONLY <2>a, <2>1, FirstNumbers
  <2>4. b \in Seq(B) /\ Len(b) = n BY ONLY <2>a, <2>1, FirstNumbers
  <2> DEFINE k == m + n
  <2>5. k \in Nat /\ c \in [1 .. k -> B] BY <2>1, <2>2
  <2> HIDE DEF k
  <2>6. c \in Seq(B) /\ Len(c) = k BY <2>5, FirstNumbers
  <2> QED BY <2>3, <2>4, <2>6 DEF k
<1> DEFINE d == a \o b
<1>5. /\ d \in Seq(B) /\ Len(d) = m + n
      /\ \A i \in 1 .. m : d[i] = a[i]
      /\ \A i \in 1 .. n : d[m + i] = b[i]
  <2>1. /\ d \in Seq(B) /\ Len(d) = Len(a) + Len(b)
        /\ \A i \in 1 .. Len(a) : d[i] = a[i]
        /\ \A i \in 1 .. Len(b) : d[Len(a) + i] = b[i]
    <3>1. a \in Seq(B) /\ b \in Seq(B) BY <1>4
    <3> QED BY ONLY <3>1, Joined
  <2> HIDE DEF d
  <2> QED BY <1>4, <2>1
<1> HIDE DEF d
<1>6. \A i \in 1 .. m + n : c[i] = d[i]
  <2> TAKE i \in 1 .. m + n
  <2>1. CASE i <= m
    <3>1. i \in 1 .. m BY <1>1, <2>1
    <3> QED BY <1>1, <1>3, <1>5, <3>1
  <2>2. CASE ~ i <= m
    <3>1. i - m \in 1 .. n /\ m + (i - m) = i BY <1>1, <2>2
    <3>2. st[i] = t[i - m] /\ d[i] = b[i - m] BY <1>1, <1>5, <3>1
    <3> QED BY <1>3, <3>1, <3>2
  <2> QED BY <2>1, <2>2
<1>7. c = d BY <1>4, <1>5, <1>6, SameSeq
<1> QED BY <1>7 DEF a, b, c, d, st

\* The files between the banner and the trailer page.
Middle(j) ==
  IF j.kind # "postscript" THEN << << <<"raw", 0>> >> >>
  ELSE [i \in 1 .. SelectCopiesMethod(j).docs |-> Document(j, i)]

\* The banner or the trailer page, if it is ordered.
Flag(j, which) ==
  IF which \in j.flags THEN << <<"flag", 0>> >> ELSE << >>

\* real_main(): they are between them.
LEMMA BodiesAre ==
  ASSUME NEW j \in Orders, Middle(j) \in Seq(Seq(Prints)), Middle(j) # << >>
  PROVE  /\ Bodies(j) \in Seq(Seq(Prints))
         /\ FlattenSeq(Bodies(j))
              = (Flag(j, "first") \o FlattenSeq(Middle(j))) \o Flag(j, "last")
<1> DEFINE F == FileTypes \X Seq(PlainSteps)
           L == Seq(Prints)
           fl == << <<"flag", 0>> >>
           flag == << <<"flag", fl>> >>
           raw == << <<j.kind, << <<"raw", 0>> >> >> >>
           docs == SelectCopiesMethod(j).docs
           doc == [i \in 1 .. docs |-> <<"postscript", Document(j, i)>>]
           first == IF "first" \in j.flags THEN flag ELSE << >>
           body == IF j.kind # "postscript" THEN raw ELSE doc
           last == IF "last" \in j.flags THEN flag ELSE << >>
           M == Middle(j)
           x == IF "first" \in j.flags THEN <<fl>> ELSE << >>
           y == IF "last" \in j.flags THEN <<fl>> ELSE << >>
<1>1. Files(j) = (first \o body) \o last BY DEF Files
<1>2. docs \in Nat \ {0}
  <2>1. j.copies \in Int /\ (j.copies < 2 \/ j.copies \in Nat \ {0})
    BY LayoutTypes
  <2> QED BY <2>1 DEF SelectCopiesMethod
<1> DEFINE A == {<<"flag", fl>>, <<j.kind, << <<"raw", 0>> >> >>}
                  \cup {<<"postscript", Document(j, i)>> : i \in 1 .. docs}
<1>3. flag \in Seq(A) /\ << >> \in Seq(A)
  <2>1. <<"flag", fl>> \in A OBVIOUS
  <2> HIDE DEF A
  <2> QED BY <2>1
<1>4. raw \in Seq(A)
  <2>1. <<j.kind, << <<"raw", 0>> >> >> \in A OBVIOUS
  <2> HIDE DEF A
  <2> QED BY <2>1
<1>5. doc \in Seq(A) /\ Len(doc) = docs
  <2>1. doc \in [1 .. docs -> A] OBVIOUS
  <2> HIDE DEF doc, A, docs
  <2> QED BY <1>2, <2>1, FirstNumbers
<1>6. first \in Seq(A) /\ last \in Seq(A) /\ body \in Seq(A)
  <2> HIDE DEF flag, raw, doc, A
  <2> QED BY <1>3, <1>4, <1>5
<1>7. Seconds(flag) = <<fl>> /\ Seconds(<< >>) = << >>
  <2>1. Len(flag) = 1 /\ flag[1] = <<"flag", fl>> OBVIOUS
  <2>2. Seconds(flag) = [i \in 1 .. 1 |-> flag[i][2]] BY <2>1 DEF Seconds
  <2>3. \A i \in 1 .. 1 : flag[i][2] = fl
    <3>1. \A i \in 1 .. 1 : i = 1 OBVIOUS
    <3>2. flag[1][2] = fl BY <2>1
    <3> QED BY <3>1, <3>2
  <2> HIDE DEF flag, fl
  <2>4. Seconds(flag) = [i \in 1 .. 1 |-> fl] BY <2>2, <2>3
  <2>5. [i \in 1 .. 1 |-> fl] = <<fl>> OBVIOUS
  <2>6. Seconds(<< >>) = << >> BY DEF Seconds
  <2> QED BY <2>4, <2>5, <2>6
<1>8. Seconds(raw) = << << <<"raw", 0>> >> >>
  <2> DEFINE r == << <<"raw", 0>> >>
  <2>1. Len(raw) = 1 /\ raw[1] = <<j.kind, r>> OBVIOUS
  <2>2. Seconds(raw) = [i \in 1 .. 1 |-> raw[i][2]] BY <2>1 DEF Seconds
  <2>3. \A i \in 1 .. 1 : raw[i][2] = r
    <3>1. \A i \in 1 .. 1 : i = 1 OBVIOUS
    <3>2. raw[1][2] = r BY <2>1
    <3> QED BY <3>1, <3>2
  <2> HIDE DEF raw, r
  <2>4. Seconds(raw) = [i \in 1 .. 1 |-> r] BY <2>2, <2>3
  <2>5. [i \in 1 .. 1 |-> r] = <<r>> OBVIOUS
  <2> QED BY <2>4, <2>5 DEF r
<1>9. Seconds(doc) = [i \in 1 .. docs |-> Document(j, i)]
  <2>1. Seconds(doc) = [i \in 1 .. docs |-> doc[i][2]] BY <1>5 DEF Seconds
  <2>2. \A i \in 1 .. docs : doc[i][2] = Document(j, i) OBVIOUS
  <2> HIDE DEF doc, docs
  <2> QED BY <2>1, <2>2
<1>10. Seconds(body) = M
  <2>1. CASE j.kind = "postscript"
    <3>1. body = doc BY <2>1
    <3> QED BY <1>9, <2>1, <3>1 DEF Middle
  <2>2. CASE j.kind # "postscript"
    <3>1. body = raw BY <2>2
    <3> QED BY <1>8, <2>2, <3>1 DEF Middle
  <2> QED BY <2>1, <2>2
<1>11. Seconds(first) = x /\ Seconds(last) = y
  <2> HIDE DEF flag, fl
  <2> QED BY <1>7
<1> HIDE DEF A, first, body, last
<1>12. Bodies(j) = (x \o M) \o y
  <2>1. first \o body \in Seq(A) BY <1>6
  <2>2. Seconds(first \o body) = Seconds(first) \o Seconds(body)
    BY ONLY <1>6, SecondsConcat
  <2> DEFINE fb1 == first \o body
  <2>3. fb1 \in Seq(A) BY <2>1
  <2> HIDE DEF fb1
  <2>4. Seconds(fb1 \o last) = Seconds(fb1) \o Seconds(last)
    BY ONLY <1>6, <2>3, SecondsConcat
  <2> HIDE DEF M, x, y
  <2> QED BY <1>1, <1>10, <1>11, <2>2, <2>4 DEF fb1, Bodies
<1>13. fl \in L /\ M \in Seq(L) /\ M # << >>
  <2>1. <<"flag", 0>> \in Prints BY DEF Prints, Data
  <2> QED BY <2>1
<1>14. /\ Flag(j, "first") = IF "first" \in j.flags THEN fl ELSE << >>
       /\ Flag(j, "last") = IF "last" \in j.flags THEN fl ELSE << >>
  BY DEF Flag
<1> DEFINE m == FlattenSeq(M)
           X == x \o M
           a == Flag(j, "first")
           b == Flag(j, "last")
<1> HIDE DEF fl, M, a, b
<1>15. m \in L
  <2>1. FlattenSeq(M) \in Seq(Prints) BY ONLY <1>13, FlattenIs DEF L
  <2> QED BY <2>1
<1>16. X \in Seq(L) /\ X # << >> /\ FlattenSeq(X) = a \o m
  <2>1. CASE "first" \in j.flags
    <3>1. x = <<fl>> /\ a = fl BY <1>14, <2>1 DEF a
    <3>2. FlattenSeq(<<fl>> \o M) = fl \o m
      BY ONLY <1>13, FlattenFirst DEF L, m
    <3>3. <<fl>> \o M \in Seq(L) /\ <<fl>> \o M # << >>
      <4> HIDE DEF L
      <4>1. <<fl>> \in Seq(L) BY <1>13
      <4>2. <<fl>> \o M \in Seq(L) BY ONLY <1>13, <4>1
      <4>3. Len(<<fl>> \o M) = Len(<<fl>>) + Len(M) BY ONLY <1>13, <4>1
      <4>4. Len(<<fl>>) = 1 /\ Len(M) \in Nat BY <1>13
      <4>5. Len(<<fl>> \o M) # 0 BY ONLY <4>3, <4>4
      <4> QED BY <4>2, <4>5
    <3> QED BY <3>1, <3>2, <3>3
  <2>2. CASE "first" \notin j.flags
    <3>1. x = << >> /\ a = << >> BY <1>14, <2>2 DEF a
    <3> HIDE DEF L, m
    <3>2. << >> \o M = M BY ONLY <1>13
    <3>3. << >> \o m = m BY ONLY <1>15 DEF L
    <3> QED BY <1>13, <3>1, <3>2, <3>3 DEF m
  <2> QED BY <2>1, <2>2
<1> DEFINE n == FlattenSeq(X)
<1> HIDE DEF X, m
<1>17. n \in L
  <2>1. FlattenSeq(X) \in Seq(Prints) BY ONLY <1>16, FlattenIs DEF L
  <2> QED BY <2>1
<1>18. X \o y \in Seq(L) /\ FlattenSeq(X \o y) = n \o b
  <2>1. CASE "last" \in j.flags
    <3>1. y = <<fl>> /\ b = fl BY <1>14, <2>1 DEF b
    <3>2. FlattenSeq(X \o <<fl>>) = n \o fl
      BY ONLY <1>13, <1>16, FlattenLast DEF L, n
    <3>3. X \o <<fl>> \in Seq(L)
      <4> HIDE DEF L
      <4>1. <<fl>> \in Seq(L) BY <1>13
      <4> QED BY ONLY <1>16, <4>1
    <3> QED BY <3>1, <3>2, <3>3
  <2>2. CASE "last" \notin j.flags
    <3>1. y = << >> /\ b = << >> BY <1>14, <2>2 DEF b
    <3> HIDE DEF L, n
    <3>2. X \o << >> = X BY ONLY <1>16
    <3>3. n \o << >> = n BY ONLY <1>17 DEF L
    <3> QED BY <1>16, <3>1, <3>2, <3>3 DEF n
  <2> QED BY <2>1, <2>2
<1>19. Bodies(j) = X \o y BY <1>12 DEF X
<1>20. FlattenSeq(Bodies(j)) = (a \o m) \o b BY <1>16, <1>18, <1>19
<1> QED BY <1>18, <1>19, <1>20 DEF a, b, m, M

\* A part of a sequence.
LEMMA PartIs ==
  ASSUME NEW A, NEW s \in Seq(A), NEW c \in Nat, NEW d \in Nat,
         c <= d, d <= Len(s)
  PROVE  /\ SubSeq(s, c + 1, d) \in Seq(A) /\ Len(SubSeq(s, c + 1, d)) = d - c
         /\ \A m \in 1 .. d - c : SubSeq(s, c + 1, d)[m] = s[c + m]
<1>1. SubSeq(s, c + 1, d) \in Seq(A) OBVIOUS
<1>2. Len(SubSeq(s, c + 1, d)) = d - c OBVIOUS
<1>3. \A m \in 1 .. d - c : SubSeq(s, c + 1, d)[m] = s[c + m] OBVIOUS
<1> QED BY <1>1, <1>2, <1>3

\* Where in p the flag pages are.
FlagsIn(p) == {i \in 1 .. Len(p) : p[i][1] = "flag"}

\* What is between the flag pages.
LEMMA Framed ==
  ASSUME NEW x \in Seq(Prints), Len(x) \in {0, 1}, FlagsIn(x) = 1 .. Len(x),
         NEW y \in Seq(Prints), Len(y) \in {0, 1}, FlagsIn(y) = 1 .. Len(y),
         NEW s \in Seq(Prints), s # << >>, FlagsIn(s) = {}
  PROVE  LET p == (x \o s) \o y
         IN  /\ p \in Seq(Prints)
             /\ SubSeq(p, 1 + Len(x), Len(p) - Len(y)) = s
             /\ FlagsIn(p) = (IF Len(x) = 1 THEN {1} ELSE {})
                             \cup (IF Len(y) = 1 THEN {Len(p)} ELSE {})
<1> DEFINE P == Prints
           q == x \o s
           p == q \o y
           a == Len(x)
           b == Len(y)
           n == Len(s)
<1>1. /\ q \in Seq(P) /\ Len(q) = a + n /\ a \in Nat /\ n \in Nat
      /\ \A i \in 1 .. a : q[i] = x[i]
      /\ \A i \in 1 .. n : q[a + i] = s[i]
  <2>1. x \in Seq(P) /\ s \in Seq(P) OBVIOUS
  <2> HIDE DEF P
  <2> QED BY ONLY <2>1, Joined
<1>2. n # 0 OBVIOUS
<1> HIDE DEF q
<1>3. /\ p \in Seq(P) /\ Len(p) = Len(q) + b /\ b \in Nat
      /\ \A i \in 1 .. Len(q) : p[i] = q[i]
      /\ \A i \in 1 .. b : p[Len(q) + i] = y[i]
  <2>1. q \in Seq(P) /\ y \in Seq(P) BY <1>1
  <2> HIDE DEF P
  <2> QED BY ONLY <2>1, Joined
<1>4. a \in {0, 1} /\ b \in {0, 1} OBVIOUS
<1>5. /\ \A i \in 1 .. a : x[i][1] = "flag"
      /\ \A i \in 1 .. b : y[i][1] = "flag"
      /\ \A i \in 1 .. n : s[i][1] # "flag"
  BY DEF FlagsIn
<1>6. s \in Seq(P) OBVIOUS
<1> HIDE DEF p, a, b, n, P
<1>7. Len(p) = a + n + b BY <1>1, <1>3
<1>8. /\ \A i \in 1 .. a : p[i] = x[i]
      /\ \A i \in 1 .. n : p[a + i] = s[i]
      /\ \A i \in 1 .. b : p[(a + n) + i] = y[i]
  <2>1. \A i \in 1 .. a : i \in 1 .. Len(q) BY <1>1
  <2>2. \A i \in 1 .. n : a + i \in 1 .. Len(q) BY <1>1
  <2>3. \A i \in 1 .. a : p[i] = x[i] BY <1>1, <1>3, <2>1
  <2>4. \A i \in 1 .. n : p[a + i] = s[i] BY <1>1, <1>3, <2>2
  <2>5. \A i \in 1 .. b : p[(a + n) + i] = y[i] BY <1>1, <1>3
  <2> QED BY <2>3, <2>4, <2>5
<1>9. SubSeq(p, 1 + a, Len(p) - b) = s
  <2> DEFINE d == Len(p) - b
             t == SubSeq(p, a + 1, d)
  <2>1. d = a + n /\ d \in Nat /\ a <= d /\ d <= Len(p) /\ d - a = n
    BY <1>1, <1>3, <1>7
  <2>2. 1 + a = a + 1 BY <1>1
  <2> HIDE DEF d
  <2>3. t \in Seq(P) /\ Len(t) = d - a /\ \A m \in 1 .. d - a : t[m] = p[a + m]
    BY <1>1, <1>3, <2>1, PartIs
  <2> HIDE DEF t
  <2>4. Len(t) = Len(s) /\ \A m \in 1 .. Len(t) : t[m] = s[m]
    BY <1>8, <2>1, <2>3 DEF n
  <2>5. t = s BY ONLY <1>6, <2>3, <2>4, SameSeq
  <2> QED BY <2>2, <2>5 DEF t, d
<1>10. FlagsIn(p) = (IF a = 1 THEN {1} ELSE {})
                    \cup (IF b = 1 THEN {Len(p)} ELSE {})
  <2>1. ASSUME NEW i \in 1 .. Len(p)
        PROVE  p[i][1] = "flag" <=> (a = 1 /\ i = 1) \/ (b = 1 /\ i = Len(p))
    <3>1. CASE i <= a
      <4>1. i \in 1 .. a /\ a = 1 /\ i = 1 BY <1>1, <1>4, <3>1
      <4> QED BY <1>5, <1>8, <4>1
    <3>2. CASE a < i /\ i <= a + n
      <4>1. i - a \in 1 .. n /\ a + (i - a) = i BY <1>1, <3>2
      <4>2. p[i] = s[i - a] BY <1>8, <4>1
      <4>3. ~ (a = 1 /\ i = 1) /\ ~ (b = 1 /\ i = Len(p))
        BY <1>1, <1>4, <1>7, <3>2
      <4> QED BY <1>5, <4>1, <4>2, <4>3
    <3>3. CASE a + n < i
      <4>1. i - (a + n) \in 1 .. b /\ (a + n) + (i - (a + n)) = i
        BY <1>1, <1>3, <1>7, <3>3
      <4>2. b = 1 /\ i = Len(p) BY <1>1, <1>4, <1>7, <3>3
      <4>3. p[i] = y[i - (a + n)] BY <1>8, <4>1
      <4> QED BY <1>5, <4>1, <4>2, <4>3
    <3>4. i <= a \/ (a < i /\ i <= a + n) \/ a + n < i BY <1>1
    <3> QED BY <3>1, <3>2, <3>3, <3>4
  <2>2. 1 \in 1 .. Len(p) /\ Len(p) \in 1 .. Len(p) BY <1>1, <1>2, <1>4, <1>7
  <2>3. \A i : i \in FlagsIn(p) <=>
               (a = 1 /\ i = 1) \/ (b = 1 /\ i = Len(p))
    BY <2>1, <2>2 DEF FlagsIn
  <2> QED BY <2>3
<1> QED BY <1>3, <1>9, <1>10 DEF P, p, q, a, b

\* The same file K times.
LEMMA Repeated ==
  ASSUME NEW d \in Seq(Prints), NEW K \in Nat \ {0}, Len(d) # 0,
         d[1][1] = "doc", \A m \in 2 .. Len(d) : d[m][1] = "page"
  PROVE  LET s == FlattenSeq([i \in 1 .. K |-> d])
         IN  /\ s \in Seq(Prints) /\ s # << >> /\ FlagsIn(s) = {}
             /\ Cardinality({i \in 1 .. Len(s) : s[i][1] = "doc"}) = K
             /\ SubSeq(s, 1, Len(s) \div K) = d
<1> DEFINE P == Prints
           L == Len(d)
           r == [i \in 1 .. K |-> d]
           s == FlattenSeq(r)
<1>1. L \in Nat \ {0} /\ d \in Seq(P) OBVIOUS
<1>2. r \in Seq(Seq(P)) /\ Len(r) = K /\ r # << >>
  <2> DEFINE B == Seq(P)
  <2>1. r \in [1 .. K -> B] BY <1>1
  <2>2. K \in Int /\ ~ K < 0 /\ K # 0 OBVIOUS
  <2> HIDE DEF B, r
  <2>3. r \in Seq(B) /\ Len(r) = K BY <2>1, <2>2, FirstNumbers
  <2>4. r # << >> BY <2>2, <2>3
  <2> QED BY <2>3, <2>4 DEF B
<1>3. \A i \in 1 .. K : r[i] = d OBVIOUS
<1>4. s = FlattenSeq(r) OBVIOUS
<1> HIDE DEF P, r, s, L
<1>5. s \in Seq(P) BY ONLY <1>2, <1>4, FlattenIs
<1>6. InBlocks(s, r, L)
  <2>1. L \in Nat BY <1>1
  <2>2. \A i \in 1 .. Len(r) - 1 : Len(r[i]) = L
    <3>1. \A i \in 1 .. K - 1 : i \in 1 .. K OBVIOUS
    <3> QED BY <1>2, <1>3, <3>1 DEF L
  <2> QED BY ONLY <1>2, <1>4, <2>1, <2>2, FlattenBlocks
<1>7. K \in 1 .. K OBVIOUS
<1>8. Len(s) = K * L
  <2>1. Len(s) = (K - 1) * L + L BY <1>2, <1>3, <1>6, <1>7 DEF InBlocks, L
  <2> QED BY <1>1, <2>1
<1>9. \A i \in 1 .. K : \A m \in 1 .. L : s[(i - 1) * L + m] = d[m]
  <2> TAKE i \in 1 .. K
  <2> TAKE m \in 1 .. L
  <2>1. \A k \in 1 .. Len(r) : \A y \in 1 .. Len(r[k]) :
          s[(k - 1) * L + y] = r[k][y]
    BY ONLY <1>6 DEF InBlocks
  <2>2. i \in 1 .. Len(r) /\ r[i] = d /\ m \in 1 .. Len(r[i])
    BY <1>2, <1>3 DEF L
  <2>3. s[(i - 1) * L + m] = r[i][m] BY ONLY <2>1, <2>2
  <2> QED BY <2>2, <2>3
<1>10. d[1][1] = "doc" /\ \A m \in 2 .. L : d[m][1] = "page" BY DEF L
<1>11. ASSUME NEW x \in 1 .. Len(s)
       PROVE  \E i \in 1 .. K : \E m \in 1 .. L : x = (i - 1) * L + m
  <2>1. x - 1 \in Nat BY <1>1, <1>8
  <2>2. PICK a \in Nat, c \in 0 .. L - 1 : x - 1 = a * L + c
    <3> DEFINE y == x - 1
    <3>1. y \in Nat BY <2>1
    <3> HIDE DEF y
    <3>2. \E a \in Nat : \E c \in 0 .. L - 1 : y = a * L + c
      BY <1>1, <3>1, RowOf
    <3> QED BY <3>2 DEF y
  <2>3. c \in Nat /\ a * L + c < K * L BY <1>1, <1>8, <2>1, <2>2
  <2>4. a < K BY <1>1, <2>3, RowBefore
  <2> DEFINE i == a + 1
             m == c + 1
  <2>5. i \in 1 .. K /\ m \in 1 .. L /\ i - 1 = a BY <1>1, <2>3, <2>4
  <2>6. (i - 1) * L + m = x
    <3> DEFINE z == a * L
    <3>1. z \in Nat /\ x - 1 = z + c /\ (i - 1) * L = z /\ x \in Int
      BY <1>1, <1>8, <2>2, <2>5
    <3> HIDE DEF z
    <3>2. z + m = x BY <2>3, <3>1
    <3> QED BY <3>1, <3>2
  <2> HIDE DEF i, m
  <2> QED BY <2>5, <2>6
<1>12. \A i \in 1 .. K : (i - 1) * L + 1 \in 1 .. Len(s)
  <2> TAKE i \in 1 .. K
  <2> DEFINE a == (i - 1) * L
  <2>1. i - 1 \in Nat /\ i \in Nat /\ i <= K /\ L \in Nat BY <1>1
  <2>2. i * L <= K * L /\ a = i * L - L /\ i * L \in Nat BY <2>1, RowsUpTo
  <2>3. a \in Nat BY <2>1
  <2> HIDE DEF a
  <2>4. a + 1 \in 1 .. Len(s) BY <1>1, <1>8, <2>2, <2>3
  <2> QED BY <2>4 DEF a
<1> DEFINE D == {i \in 1 .. Len(s) : s[i][1] = "doc"}
           g == [i \in 1 .. K |-> (i - 1) * L + 1]
<1>13. g \in Bijection(1 .. K, D)
  <2>1. 1 \in 1 .. L BY <1>1
  <2>2. \A i \in 1 .. K : g[i] = (i - 1) * L + 1 OBVIOUS
  <2>3. ASSUME NEW i \in 1 .. K PROVE g[i] \in D
    <3>1. s[g[i]] = d[1] BY <1>9, <2>1, <2>2
    <3> HIDE DEF g
    <3> QED BY <1>10, <1>12, <2>2, <3>1
  <2>4. g \in [1 .. K -> D]
    <3>1. g = [i \in 1 .. K |-> g[i]] OBVIOUS
    <3> HIDE DEF g, D
    <3> QED BY <2>3, <3>1
  <2>5. ASSUME NEW i \in 1 .. K, NEW k \in 1 .. K, g[i] = g[k] PROVE i = k
    <3>1. (i - 1) * L = (k - 1) * L
      <4> DEFINE a == (i - 1) * L
                 c == (k - 1) * L
      <4>1. a \in Int /\ c \in Int BY <1>1
      <4>2. a + 1 = c + 1 BY <2>2, <2>5
      <4> HIDE DEF a, c
      <4>3. a = c BY <4>1, <4>2
      <4> QED BY <4>3 DEF a, c
    <3> QED BY <1>1, <3>1
  <2>6. ASSUME NEW x \in D PROVE \E i \in 1 .. K : g[i] = x
    <3>1. PICK i \in 1 .. K, m \in 1 .. L : x = (i - 1) * L + m BY <1>11
    <3>2. d[m][1] = "doc" BY <1>9, <3>1
    <3>3. m = 1 BY <1>1, <1>10, <3>2
    <3> QED BY <2>2, <3>1, <3>3
  <2> HIDE DEF g, D
  <2> QED BY <2>4, <2>5, <2>6 DEF Bijection, Injection, Surjection, IsInjective
<1>14. Cardinality(D) = K
  <2>1. IsFiniteSet(1 .. K) /\ Cardinality(1 .. K) = K
    <3>1. 1 \in Int /\ K \in Int /\ K - 1 + 1 = K /\ ~ 1 > K OBVIOUS
    <3> QED BY <3>1, FS_Interval
  <2> HIDE DEF g, D
  <2>2. ExistsBijection(1 .. K, D) BY <1>13 DEF ExistsBijection
  <2> QED BY <1>13, <2>1, <2>2, FS_Bijection
<1>15. FlagsIn(s) = {}
  <2>1. ASSUME NEW x \in 1 .. Len(s) PROVE s[x][1] # "flag"
    <3>1. PICK i \in 1 .. K, m \in 1 .. L : x = (i - 1) * L + m BY <1>11
    <3>2. s[x] = d[m] BY <1>9, <3>1
    <3>3. m = 1 \/ m \in 2 .. L BY <1>1
    <3> QED BY <1>10, <3>2, <3>3
  <2> QED BY <2>1 DEF FlagsIn
<1>16. SubSeq(s, 1, Len(s) \div K) = d
  <2>1. Len(s) \div K = L BY <1>1, <1>8
  <2> DEFINE t == SubSeq(s, 0 + 1, L)
  <2>2. L <= Len(s) BY <1>1, <1>8
  <2>3. t \in Seq(P) /\ Len(t) = L - 0 /\ \A m \in 1 .. L - 0 : t[m] = s[0 + m]
    BY <1>1, <1>5, <2>2, PartIs
  <2>4. 1 \in 1 .. K /\ (1 - 1) * L = 0 /\ 0 + 1 = 1 BY <1>1
  <2>5. \A m \in 1 .. L : s[0 + m] = d[m] BY <1>9, <2>4
  <2> HIDE DEF t
  <2>6. Len(t) = Len(d) /\ \A m \in 1 .. Len(t) : t[m] = d[m]
    BY <1>1, <2>3, <2>5 DEF L
  <2>7. t = d BY ONLY <1>1, <2>3, <2>6, SameSeq
  <2> QED BY <2>1, <2>4, <2>7 DEF t
<1>17. s # << >> BY <1>1, <1>5, <1>8
<1> QED BY <1>5, <1>14, <1>15, <1>16, <1>17 DEF P, s, r

\* A job that pprdrv can print as it was ordered: of a PostScript file some page
\* is wanted, and signatures, if any, are folded sheets with two pages on each
\* side.  If ppr found no pages in it (there is no script section) then pprdrv
\* sends it as it is, and the order asks for no less and no other than that.
Printable(j) ==
  j.kind = "postscript" => LaidOut(j) /\ (j.script \/ AsItIs(j))

\* select_copies_method(): it comes to the number of copies that was ordered.
LEMMA MethodIs ==
  ASSUME NEW j \in Orders
  PROVE  LET method == SelectCopiesMethod(j)
         IN  /\ method.docs \in Nat \ {0} /\ method.passes \in Nat \ {0}
             /\ method.auto \in Int
             /\ method.auto * method.docs * method.passes = j.copies
             /\ j.collate /\ ~ j.cancollate => method.auto < 2
             /\ ~ j.script => method.passes = 1
<1>1. j.copies \in Int /\ (j.copies < 2 \/ j.copies \in Nat \ {0})
  BY LayoutTypes
<1> DEFINE c == j.copies
           m1 == [auto |-> c, docs |-> 1, passes |-> 1]
           m2 == [auto |-> 1, docs |-> c, passes |-> 1]
           m3 == [auto |-> 1, docs |-> 1, passes |-> c]
<1>2. CASE c < 2 \/ ~ j.collate \/ j.cancollate
  <2>1. SelectCopiesMethod(j) = m1 BY <1>2 DEF SelectCopiesMethod
  <2> QED BY <1>1, <1>2, <2>1
<1>3. CASE ~ (c < 2 \/ ~ j.collate \/ j.cancollate)
           /\ (~ j.script \/ j.pageorder = 0)
  <2>1. SelectCopiesMethod(j) = m2 BY <1>3 DEF SelectCopiesMethod
  <2> QED BY <1>1, <1>3, <2>1
<1>4. CASE ~ (c < 2 \/ ~ j.collate \/ j.cancollate)
           /\ ~ (~ j.script \/ j.pageorder = 0)
  <2>1. SelectCopiesMethod(j) = m3 BY <1>4 DEF SelectCopiesMethod
  <2> QED BY <1>1, <1>4, <2>1
<1> QED BY <1>2, <1>3, <1>4

\* The pages of the first PostScript file, and of all if there is no script.
Script(j) ==
  IF j.script THEN Passes(j, SelectCopiesMethod(j).passes) ELSE AllPages(j)

\* These are as many copies as the file is to make.
LEMMA ScriptIs ==
  ASSUME NEW j \in Orders, LaidOut(j), j.script \/ AsItIs(j)
  PROVE  Complete(j, Script(j), SelectCopiesMethod(j).passes)
<1> DEFINE k == SelectCopiesMethod(j).passes
<1>1. k \in Nat \ {0} /\ (~ j.script => k = 1) BY MethodIs
<1> HIDE DEF k
<1>2. CASE j.script
  <2>1. Script(j) = Passes(j, k) BY <1>2 DEF Script, k
  <2> QED BY <1>1, <2>1, PassesRead DEF k
<1>3. CASE ~ j.script
  <2>1. Script(j) = AllPages(j) BY <1>3 DEF Script
  <2>2. Complete(j, AllPages(j), 1) BY <1>3, PlainRead
  <2> QED BY <1>1, <1>3, <2>1, <2>2 DEF k
<1> QED BY <1>2, <1>3

\* The file.
TheDocument(j) == << <<"doc", SelectCopiesMethod(j).auto>> >> \o Script(j)

\* All files are like that, unless there is a second with a script section.
LEMMA DocumentsAre ==
  ASSUME NEW j \in Orders, NEW i \in Nat \ {0}, ~ j.script \/ i = 1
  PROVE  Document(j, i) = TheDocument(j)
<1>1. CASE ~ j.script
  BY <1>1 DEF Document, TheDocument, Script, AllPages
<1>2. CASE j.script
  <2>1. i = 1 /\ ~ i > 1 BY <1>2
  <2> QED BY <1>2, <2>1 DEF Document, TheDocument, Script, Passes
<1> QED BY <1>1, <1>2

\* It begins with "doc", and the rest are pages.
LEMMA DocumentForm ==
  ASSUME NEW a \in Int, NEW t \in Seq(PageSteps)
  PROVE  LET d == << <<"doc", a>> >> \o t
         IN  /\ d \in Seq(Prints) /\ Len(d) # 0 /\ d[1] = <<"doc", a>>
             /\ \A m \in 2 .. Len(d) : d[m][1] = "page"
             /\ [i \in 1 .. Len(d) - 1 |-> d[i + 1][2]] = Seconds(t)
<1> DEFINE P == Prints
           h == <<"doc", a>>
           d == <<h>> \o t
           n == Len(t)
<1>1. h \in P BY DEF Prints, Data
<1>2. PageSteps \subseteq P BY DEF Prints, Data, PageSteps
<1>3. t \in Seq(P) /\ n \in Nat BY <1>2, SeqMonotonic
<1>4. \A m \in 1 .. n : t[m][1] = "page"
  <2>1. \A m \in 1 .. n : t[m] \in PageSteps OBVIOUS
  <2> QED BY <2>1 DEF PageSteps
<1> HIDE DEF h, P, n
<1>5. <<h>> \in Seq(P) /\ Len(<<h>>) = 1 /\ <<h>>[1] = h BY <1>1
<1>6. /\ d \in Seq(P) /\ Len(d) = Len(<<h>>) + Len(t)
      /\ \A i \in 1 .. Len(<<h>>) : d[i] = <<h>>[i]
      /\ \A i \in 1 .. Len(t) : d[Len(<<h>>) + i] = t[i]
  BY ONLY <1>3, <1>5, Joined
<1> HIDE DEF d
<1>7. Len(d) = 1 + n /\ d[1] = h /\ \A i \in 1 .. n : d[1 + i] = t[i]
  <2>1. 1 \in 1 .. 1 OBVIOUS
  <2> QED BY <1>5, <1>6, <2>1 DEF n
<1>8. Len(d) # 0 /\ Len(d) - 1 = n BY <1>3, <1>7
<1>9. ASSUME NEW m \in 2 .. Len(d) PROVE d[m][1] = "page"
  <2>1. m - 1 \in 1 .. n /\ 1 + (m - 1) = m BY <1>3, <1>7
  <2>2. d[m] = t[m - 1] BY <1>7, <2>1
  <2> QED BY <1>4, <2>1, <2>2
<1>10. [i \in 1 .. Len(d) - 1 |-> d[i + 1][2]] = Seconds(t)
  <2>1. Seconds(t) = [i \in 1 .. n |-> t[i][2]] BY DEF Seconds, n
  <2>2. \A i \in 1 .. n : d[i + 1] = t[i]
    <3> TAKE i \in 1 .. n
    <3>1. i + 1 = 1 + i BY <1>3
    <3> QED BY <1>7, <3>1
  <2> QED BY <1>8, <2>1, <2>2
<1> QED BY <1>6, <1>7, <1>8, <1>9, <1>10 DEF d, h, P

\* A flag page, if it is ordered.
LEMMA FlagIs ==
  ASSUME NEW j, NEW which
  PROVE  LET x == Flag(j, which)
         IN  /\ x \in Seq(Prints) /\ Len(x) = IF which \in j.flags THEN 1 ELSE 0
             /\ Len(x) \in {0, 1} /\ FlagsIn(x) = 1 .. Len(x)
<1> DEFINE h == <<"flag", 0>>
<1>1. h \in Prints /\ h[1] = "flag" BY DEF Prints, Data
<1> HIDE DEF h
<1>2. <<h>> \in Seq(Prints) /\ Len(<<h>>) = 1 /\ <<h>>[1] = h BY <1>1
<1>3. FlagsIn(<<h>>) = 1 .. 1
  <2>1. \A i \in 1 .. 1 : i = 1 OBVIOUS
  <2> QED BY <1>1, <1>2, <2>1 DEF FlagsIn
<1>4. << >> \in Seq(Prints) /\ Len(<< >>) = 0 /\ FlagsIn(<< >>) = 1 .. 0
  BY DEF FlagsIn
<1>5. Flag(j, which) = IF which \in j.flags THEN <<h>> ELSE << >>
  BY DEF Flag, h
<1> QED BY <1>2, <1>3, <1>4, <1>5

\* Delivered() of what is between flag pages.
LEMMA FramedDelivered ==
  ASSUME NEW j \in Orders, NEW s \in Seq(Prints), s # << >>, FlagsIn(s) = {},
         LET docs == Cardinality({i \in 1 .. Len(s) : s[i][1] = "doc"})
             doc == SubSeq(s, 1, Len(s) \div docs)
             pages == [i \in 1 .. Len(doc) - 1 |-> doc[i + 1][2]]
         IN  IF j.kind # "postscript" THEN s = << <<"raw", 0>> >>
             ELSE /\ docs > 0 /\ doc[1][1] = "doc" /\ C!ReadsWell(j, pages)
                  /\ s = FlattenSeq([i \in 1 .. docs |-> doc])
                  /\ doc[1][2] * docs * C!Copies(j, pages) = j.copies
                  /\ j.collate /\ ~ j.cancollate => doc[1][2] < 2
  PROVE  C!Delivered(j, (Flag(j, "first") \o s) \o Flag(j, "last"))
<1> DEFINE x == Flag(j, "first")
           y == Flag(j, "last")
           p == (x \o s) \o y
           flags == {i \in DOMAIN p : p[i][1] = "flag"}
           first == IF "first" \in j.flags THEN 1 ELSE 0
           last == IF "last" \in j.flags THEN 1 ELSE 0
           body == SubSeq(p, 1 + first, Len(p) - last)
           Rightly(b) ==
             LET docs == Cardinality({i \in DOMAIN b : b[i][1] = "doc"})
                 doc == SubSeq(b, 1, Len(b) \div docs)
                 pages == [i \in 1 .. Len(doc) - 1 |-> doc[i + 1][2]]
             IN  IF j.kind # "postscript" THEN b = << <<"raw", 0>> >>
                 ELSE /\ docs > 0 /\ doc[1][1] = "doc" /\ C!ReadsWell(j, pages)
                      /\ b = FlattenSeq([i \in 1 .. docs |-> doc])
                      /\ doc[1][2] * docs * C!Copies(j, pages) = j.copies
                      /\ j.collate /\ ~ j.cancollate => doc[1][2] < 2
<1>1. C!Delivered(j, p)
        <=> /\ flags = (IF "first" \in j.flags THEN {1} ELSE {})
                       \cup (IF "last" \in j.flags THEN {Len(p)} ELSE {})
            /\ Rightly(body)
  <2>1. \A S : C!Cardinality(S) = Cardinality(S) BY SameNames
  <2>2. \A t : C!FlattenSeq(t) = FlattenSeq(t) BY SameNames
  <2> HIDE DEF p, x, y
  <2> QED BY <2>1, <2>2, ZenonT(40) DEF C!Delivered
<1>2. Rightly(s)
  <2>1. DOMAIN s = 1 .. Len(s) OBVIOUS
  <2> QED BY <2>1
<1> HIDE DEF Rightly
<1>3. /\ x \in Seq(Prints) /\ Len(x) = first
      /\ Len(x) \in {0, 1} /\ FlagsIn(x) = 1 .. Len(x)
  BY FlagIs
<1>4. /\ y \in Seq(Prints) /\ Len(y) = last
      /\ Len(y) \in {0, 1} /\ FlagsIn(y) = 1 .. Len(y)
  BY FlagIs
<1> HIDE DEF x, y
<1>5. /\ p \in Seq(Prints)
      /\ SubSeq(p, 1 + Len(x), Len(p) - Len(y)) = s
      /\ FlagsIn(p) = (IF Len(x) = 1 THEN {1} ELSE {})
                      \cup (IF Len(y) = 1 THEN {Len(p)} ELSE {})
  BY <1>3, <1>4, Framed
<1>6. body = s BY <1>3, <1>4, <1>5
<1>7. flags = FlagsIn(p)
  <2> HIDE DEF p
  <2>1. DOMAIN p = 1 .. Len(p) BY <1>5
  <2> QED BY <2>1 DEF FlagsIn
<1>8. /\ (IF Len(x) = 1 THEN {1} ELSE {})
           = (IF "first" \in j.flags THEN {1} ELSE {})
      /\ (IF Len(y) = 1 THEN {Len(p)} ELSE {})
           = (IF "last" \in j.flags THEN {Len(p)} ELSE {})
  <2> HIDE DEF p
  <2> QED BY <1>3, <1>4
<1>9. /\ flags = (IF "first" \in j.flags THEN {1} ELSE {})
                 \cup (IF "last" \in j.flags THEN {Len(p)} ELSE {})
      /\ Rightly(body)
  <2>1. Rightly(body) BY <1>2, <1>6
  <2> HIDE DEF flags, body
  <2> DEFINE a == IF Len(x) = 1 THEN {1} ELSE {}
             b == IF Len(y) = 1 THEN {Len(p)} ELSE {}
             c == IF "first" \in j.flags THEN {1} ELSE {}
             d == IF "last" \in j.flags THEN {Len(p)} ELSE {}
  <2>2. FlagsIn(p) = a \cup b BY <1>5
  <2>3. a = c /\ b = d BY <1>8
  <2> HIDE DEF p, a, b, c, d
  <2>4. flags = c \cup d BY <1>7, <2>2, <2>3
  <2> QED BY <2>1, <2>4 DEF c, d
<1> QED BY <1>1, <1>9 DEF x, y

---------------------------------------------------------------------------
(* The program of a job delivers it *)

\* What is in one of two sequences is in both together.
LEMMA OccursJoined ==
  ASSUME NEW A, NEW s \in Seq(A), NEW t \in Seq(A), NEW x,
         Occurs(x, s) \/ Occurs(x, t)
  PROVE  s \o t \in Seq(A) /\ Occurs(x, s \o t)
<1> DEFINE c == s \o t
<1>1. /\ c \in Seq(A) /\ Len(c) = Len(s) + Len(t)
      /\ Len(s) \in Nat /\ Len(t) \in Nat
      /\ \A y \in 1 .. Len(s) : c[y] = s[y]
      /\ \A y \in 1 .. Len(t) : c[Len(s) + y] = t[y]
  BY Joined
<1> HIDE DEF c
<1>2. ASSUME NEW y \in 1 .. Len(s), s[y] = x PROVE Occurs(x, c)
  <2>1. y \in 1 .. Len(c) BY <1>1
  <2> QED BY <1>1, <1>2, <2>1 DEF Occurs
<1>3. ASSUME NEW y \in 1 .. Len(t), t[y] = x PROVE Occurs(x, c)
  <2>1. Len(s) + y \in 1 .. Len(c) BY <1>1
  <2> QED BY <1>1, <1>3, <2>1 DEF Occurs
<1>4. Occurs(x, c) BY <1>2, <1>3 DEF Occurs
<1> QED BY <1>1, <1>4 DEF c

\* A second file with a script section has no end: the section is sent again
\* and again.
LEMMA SecondFile ==
  ASSUME NEW j \in Orders, j.script
  PROVE  /\ Document(j, 2) \in Seq(PlainSteps)
         /\ Occurs(Op("again"), Document(j, 2))
<1> DEFINE x == Op("again")
           A == PlainSteps
           h == <<"doc", SelectCopiesMethod(j).auto>>
           c == CopyPages(j, -1)
           b == c \o <<x>>
<1>1. Document(j, 2) = <<h>> \o b
  <2>1. 2 > 1 OBVIOUS
  <2> QED BY <2>1 DEF Document, Op
<1>2. c \in Seq(A)
  <2>1. c \in Seq(PageSteps) BY PagesSteps
  <2>2. PageSteps \subseteq A
    BY DEF PageSteps, PlainSteps, PlainNames, Blocks, Data
  <2> HIDE DEF c
  <2> QED BY <2>1, <2>2, SeqMonotonic
<1>3. h \in A
  <2>1. SelectCopiesMethod(j).auto \in Int BY MethodIs
  <2> QED BY <2>1 DEF PlainSteps, PlainNames, Blocks, Data
<1>4. x \in A BY DEF PlainSteps, PlainNames, Op
<1> HIDE DEF x, h, c, A
<1>5. <<h>> \in Seq(A) /\ <<x>> \in Seq(A) BY <1>3, <1>4
<1>6. Occurs(x, <<x>>)
  <2>1. 1 \in 1 .. Len(<<x>>) /\ <<x>>[1] = x OBVIOUS
  <2> QED BY <2>1 DEF Occurs
<1>7. b \in Seq(A) /\ Occurs(x, b) BY ONLY <1>2, <1>5, <1>6, OccursJoined
<1> HIDE DEF b
<1>8. <<h>> \o b \in Seq(A) /\ Occurs(x, <<h>> \o b)
  BY ONLY <1>5, <1>7, OccursJoined
<1> QED BY <1>1, <1>8 DEF x, A

\* A second file is one of those that are sent.
LEMMA SecondIsSent ==
  ASSUME NEW j \in Orders, j.kind = "postscript",
         SelectCopiesMethod(j).docs > 1
  PROVE  Occurs(<<"postscript", Document(j, 2)>>, Files(j))
<1> DEFINE f == <<"flag", << <<"flag", 0>> >> >>
           docs == SelectCopiesMethod(j).docs
           doc == [i \in 1 .. docs |-> <<"postscript", Document(j, i)>>]
           first == IF "first" \in j.flags THEN <<f>> ELSE << >>
           last == IF "last" \in j.flags THEN <<f>> ELSE << >>
           x == <<"postscript", Document(j, 2)>>
           A == {f} \cup {<<"postscript", Document(j, i)>> : i \in 1 .. docs}
<1>1. Files(j) = (first \o doc) \o last BY DEF Files
<1>2. docs \in Nat /\ docs > 1 BY MethodIs
<1>3. doc \in Seq(A) /\ Len(doc) = docs /\ doc[2] = x
  <2>1. doc \in [1 .. docs -> A] OBVIOUS
  <2>2. 2 \in 1 .. docs BY <1>2
  <2>3. doc[2] = x BY <2>2
  <2> HIDE DEF doc, A, docs
  <2>4. doc \in Seq(A) /\ Len(doc) = docs BY <1>2, <2>1, FirstNumbers
  <2> QED BY <2>3, <2>4
<1>4. f \in A OBVIOUS
<1> HIDE DEF f, A, doc, docs, x
<1>5. first \in Seq(A) /\ last \in Seq(A) BY <1>4
<1>6. Occurs(x, doc)
  <2>1. 2 \in 1 .. Len(doc) BY <1>2, <1>3
  <2> QED BY <1>3, <2>1 DEF Occurs
<1> HIDE DEF first, last
<1> DEFINE b == first \o doc
<1>7. b \in Seq(A) /\ Occurs(x, b) BY ONLY <1>3, <1>5, <1>6, OccursJoined
<1> HIDE DEF b
<1>8. Occurs(x, b \o last) BY ONLY <1>5, <1>7, OccursJoined
<1> QED BY <1>1, <1>8 DEF b, x

\* Then the program has no end.
LEMMA SecondIsEndless ==
  ASSUME NEW j \in Orders, j.kind = "postscript", j.script,
         SelectCopiesMethod(j).docs > 1
  PROVE  \E i \in DOMAIN RealMain(j) : RealMain(j)[i] = Op("again")
<1> DEFINE x == Op("again")
           d == Document(j, 2)
           files == Files(j)
           n == Len(files)
           s == [i \in DOMAIN files |-> FileSteps(j, files[i], i)]
           lead == FlattenSeq(s)
           e == InterfaceClose
           v == Ops(<<"verdict">>)
           A == Acts
<1>1. files \in Seq(FileTypes \X Seq(PlainSteps)) /\ files # << >>
  BY FilesAre
<1>2. RealMain(j) = (lead \o e) \o v BY DEF RealMain, FileSteps
<1>3. /\ n \in Nat /\ n # 0 /\ DOMAIN files = 1 .. n
      /\ \A i \in 1 .. n : files[i] \in FileTypes \X Seq(PlainSteps)
  <2> HIDE DEF files
  <2> QED BY <1>1
<1>4. PICK k \in 1 .. n : files[k] = <<"postscript", d>>
  <2>1. Occurs(<<"postscript", d>>, files) BY SecondIsSent
  <2> HIDE DEF d, files
  <2> QED BY <2>1 DEF Occurs
<1>5. d \in Seq(PlainSteps) /\ Occurs(x, d) BY SecondFile
<1> HIDE DEF files, n, x, d
<1>7. ASSUME NEW type, NEW body \in Seq(PlainSteps), NEW i
      PROVE  /\ FileSteps(j, <<type, body>>, i) \in Seq(A)
             /\ Occurs(x, body) => Occurs(x, FileSteps(j, <<type, body>>, i))
  <2> DEFINE a == JobStart(j, type, i)
             b == JobEnd(j, type)
             ab == a \o body
  <2>1. FileSteps(j, <<type, body>>, i) = ab \o b BY DEF FileSteps
  <2>2. a \in Seq(Others) /\ b \in Seq(Others) BY BetweenFiles
  <2> HIDE DEF a, b
  <2>3. a \in Seq(A) /\ b \in Seq(A) /\ body \in Seq(A)
    BY <2>2, OthersAre, SeqMonotonic
  <2> HIDE DEF A
  <2>4. ab \in Seq(A) /\ ab \o b \in Seq(A) BY ONLY <2>3
  <2>5. ASSUME Occurs(x, body) PROVE Occurs(x, ab \o b)
    <3>1. ab \in Seq(A) /\ Occurs(x, ab) BY ONLY <2>3, <2>5, OccursJoined
    <3> HIDE DEF ab
    <3> QED BY ONLY <2>3, <3>1, OccursJoined
  <2> QED BY <2>1, <2>4, <2>5
<1>8. \A i \in 1 .. n : s[i] \in Seq(A)
  <2> TAKE i \in 1 .. n
  <2>1. PICK type \in FileTypes, body \in Seq(PlainSteps) :
          files[i] = <<type, body>>
    BY <1>3
  <2>2. s[i] = FileSteps(j, <<type, body>>, i) BY <1>3, <2>1
  <2> HIDE DEF s, A
  <2> QED BY <1>7, <2>2
<1>9. Occurs(x, s[k])
  <2>1. s[k] = FileSteps(j, <<"postscript", d>>, k) BY <1>3, <1>4
  <2> HIDE DEF s
  <2> QED BY <1>5, <1>7, <2>1
<1>10. s \in Seq(Seq(A)) /\ Len(s) = n
  <2> DEFINE L == Seq(A)
  <2>1. s = [i \in 1 .. n |-> s[i]] BY <1>3
  <2>2. \A i \in 1 .. n : s[i] \in L BY <1>8
  <2> HIDE DEF L, s
  <2>3. s \in [1 .. n -> L] BY <2>1, <2>2
  <2>4. s \in Seq(L) /\ Len(s) = n BY <1>3, <2>3, FirstNumbers
  <2> QED BY <2>4 DEF L
<1> HIDE DEF s
<1>11. lead = FlattenSeq(s) /\ s # << >> /\ k \in 1 .. Len(s)
  BY <1>3, <1>10
<1> HIDE DEF lead, A
<1>12. lead \in Seq(A) BY ONLY <1>10, <1>11, FlattenIs
<1>13. Occurs(x, lead) BY ONLY <1>9, <1>10, <1>11, FlattenHas
<1>14. e \in Seq(Others) /\ v \in Seq(Others) BY BetweenFiles
<1> HIDE DEF e, v
<1>15. e \in Seq(A) /\ v \in Seq(A)
  BY <1>14, OthersAre, SeqMonotonic DEF A
<1> DEFINE le == lead \o e
<1>16. le \in Seq(A) /\ Occurs(x, le)
  BY ONLY <1>12, <1>13, <1>15, OccursJoined
<1>17. RealMain(j) = le \o v BY <1>2
<1> HIDE DEF le
<1>18. le \o v \in Seq(A) /\ Occurs(x, le \o v)
  BY ONLY <1>15, <1>16, OccursJoined
<1> DEFINE m == RealMain(j)
<1>19. m \in Seq(A) /\ Occurs(x, m) BY <1>17, <1>18
<1> HIDE DEF m
<1>20. DOMAIN m = 1 .. Len(m) BY <1>19
<1> QED BY <1>19, <1>20 DEF Occurs, m, x

\* A file that is passed through is delivered ...
LEMMA RawDelivered ==
  ASSUME NEW j \in Orders, j.kind # "postscript"
  PROVE  Delivers(j)
<1> DEFINE q == <<"raw", 0>>
           s == <<q>>
           M == <<s>>
           L == Seq(Prints)
<1>1. Middle(j) = M BY DEF Middle
<1>2. q \in Prints /\ q[1] # "flag" BY DEF Prints, Data
<1>3. s = << <<"raw", 0>> >> OBVIOUS
<1> HIDE DEF q
<1>4. s \in L /\ Len(s) = 1 /\ s[1] = q BY <1>2
<1>5. FlagsIn(s) = {} /\ s # << >>
  <2>1. \A i \in 1 .. 1 : i = 1 OBVIOUS
  <2> QED BY <1>2, <1>4, <2>1 DEF FlagsIn
<1> HIDE DEF s, L
<1>6. M \in Seq(L) /\ Len(M) = 1 /\ M[1] = s /\ M # << >> BY <1>4
<1> HIDE DEF M
<1>7. FlattenSeq(M) = s
  <2>1. \E h \in [1 .. Len(M) -> Seq(Prints)] : FlatUp(M, Len(M), h)
    BY ONLY <1>6, FlattenIs DEF L
  <2> QED BY <1>6, <2>1 DEF FlatUp
<1>8. /\ Bodies(j) \in Seq(Seq(Prints))
      /\ FlattenSeq(Bodies(j)) = (Flag(j, "first") \o s) \o Flag(j, "last")
  BY <1>1, <1>6, <1>7, BodiesAre DEF L
<1>9. DataOf(RealMain(j)) = (Flag(j, "first") \o s) \o Flag(j, "last")
  BY <1>8, ProgramData
<1>10. C!Delivered(j, (Flag(j, "first") \o s) \o Flag(j, "last"))
  <2>1. s \in Seq(Prints) BY <1>4 DEF L
  <2> QED BY <1>3, <1>5, <2>1, FramedDelivered
<1> QED BY <1>9, <1>10 DEF Delivers

\* ... and so is a PostScript file.
LEMMA PagesDelivered ==
  ASSUME NEW j \in Orders, j.kind = "postscript", LaidOut(j),
         j.script \/ AsItIs(j), ~ j.script \/ SelectCopiesMethod(j).docs = 1
  PROVE  Delivers(j)
<1> DEFINE K == SelectCopiesMethod(j).docs
           a == SelectCopiesMethod(j).auto
           k == SelectCopiesMethod(j).passes
           t == Script(j)
           d == TheDocument(j)
           r == [i \in 1 .. K |-> d]
           s == FlattenSeq(r)
           L == Seq(Prints)
<1>1. /\ K \in Nat \ {0} /\ k \in Nat \ {0} /\ a \in Int
      /\ a * K * k = j.copies /\ (j.collate /\ ~ j.cancollate => a < 2)
  BY MethodIs
<1>2. Complete(j, t, k) BY ScriptIs
<1>3. d = << <<"doc", a>> >> \o t BY DEF TheDocument
<1>4. Middle(j) = r
  <2>1. \A i \in 1 .. K : Document(j, i) = d
    <3> TAKE i \in 1 .. K
    <3>1. i \in Nat \ {0} BY <1>1
    <3>2. ~ j.script \/ i = 1 BY <1>1
    <3> QED BY <3>1, <3>2, DocumentsAre
  <2>2. Middle(j) = [i \in 1 .. K |-> Document(j, i)] BY DEF Middle
  <2> HIDE DEF d, K
  <2> QED BY <2>1, <2>2
<1> HIDE DEF K, a, k, t, d
<1>5. t \in Seq(PageSteps) /\ C!ReadsWell(j, Seconds(t))
      /\ C!Copies(j, Seconds(t)) = k
  BY <1>2 DEF Complete
<1>6. /\ d \in L /\ Len(d) # 0 /\ d[1] = <<"doc", a>>
      /\ \A m \in 2 .. Len(d) : d[m][1] = "page"
      /\ [i \in 1 .. Len(d) - 1 |-> d[i + 1][2]] = Seconds(t)
  BY ONLY <1>1, <1>3, <1>5, DocumentForm DEF L
<1>7. d[1][1] = "doc" /\ d[1][2] = a BY <1>6
<1>8. /\ s \in L /\ s # << >> /\ FlagsIn(s) = {}
      /\ Cardinality({i \in 1 .. Len(s) : s[i][1] = "doc"}) = K
      /\ SubSeq(s, 1, Len(s) \div K) = d
  <2>1. d \in Seq(Prints) BY <1>6 DEF L
  <2> QED BY ONLY <1>1, <1>6, <1>7, <2>1, Repeated DEF L
<1>9. r \in Seq(L) /\ r # << >>
  <2>1. r \in [1 .. K -> L] BY <1>6
  <2> HIDE DEF L, r
  <2>2. r \in Seq(L) /\ Len(r) = K BY <1>1, <2>1, FirstNumbers
  <2> QED BY <1>1, <2>2
<1>10. s = FlattenSeq([i \in 1 .. K |-> d]) OBVIOUS
<1>11. s = FlattenSeq(Middle(j)) /\ Middle(j) \in Seq(Seq(Prints))
       /\ Middle(j) # << >>
  BY <1>4, <1>9 DEF L
<1> HIDE DEF s, r
<1>12. /\ Bodies(j) \in Seq(Seq(Prints))
       /\ FlattenSeq(Bodies(j)) = (Flag(j, "first") \o s) \o Flag(j, "last")
  BY <1>11, BodiesAre
<1>13. DataOf(RealMain(j)) = (Flag(j, "first") \o s) \o Flag(j, "last")
  BY <1>12, ProgramData
<1>14. C!Delivered(j, (Flag(j, "first") \o s) \o Flag(j, "last"))
  <2> DEFINE docs == Cardinality({i \in 1 .. Len(s) : s[i][1] = "doc"})
             doc == SubSeq(s, 1, Len(s) \div docs)
             pages == [i \in 1 .. Len(doc) - 1 |-> doc[i + 1][2]]
  <2>1. docs = K BY <1>8
  <2>2. doc = d BY <1>8, <2>1
  <2>3. pages = Seconds(t) BY <1>6, <2>2
  <2> HIDE DEF docs
  <2>4. docs > 0 BY <1>1, <2>1
  <2> HIDE DEF doc
  <2>5. doc[1][1] = "doc" /\ doc[1][2] = a BY <1>7, <2>2
  <2> HIDE DEF pages
  <2>6. C!ReadsWell(j, pages) /\ C!Copies(j, pages) = k BY <1>5, <2>3
  <2>7. s = FlattenSeq([i \in 1 .. docs |-> doc]) BY <1>10, <2>1, <2>2
  <2>8. doc[1][2] * docs * C!Copies(j, pages) = j.copies
    BY <1>1, <2>1, <2>5, <2>6
  <2>9. j.collate /\ ~ j.cancollate => doc[1][2] < 2 BY <1>1, <2>5
  <2>10. s \in Seq(Prints) /\ s # << >> /\ FlagsIn(s) = {} BY <1>8 DEF L
  <2>11. IF j.kind # "postscript" THEN s = << <<"raw", 0>> >>
         ELSE /\ docs > 0 /\ doc[1][1] = "doc" /\ C!ReadsWell(j, pages)
              /\ s = FlattenSeq([i \in 1 .. docs |-> doc])
              /\ doc[1][2] * docs * C!Copies(j, pages) = j.copies
              /\ j.collate /\ ~ j.cancollate => doc[1][2] < 2
    BY <2>4, <2>5, <2>6, <2>7, <2>8, <2>9
  <2> QED BY <2>10, <2>11, FramedDelivered DEF docs, doc, pages
<1> QED BY <1>13, <1>14 DEF Delivers

\* The program of a job that can be printed delivers it.
LEMMA JobDelivered ==
  ASSUME NEW j \in Orders, Printable(j)
  PROVE  Delivers(j)
<1>1. CASE j.kind # "postscript" BY <1>1, RawDelivered
<1>2. CASE j.kind = "postscript" /\ j.script /\ SelectCopiesMethod(j).docs # 1
  <2>1. SelectCopiesMethod(j).docs > 1
    <3> DEFINE docs == SelectCopiesMethod(j).docs
    <3>1. docs \in Nat \ {0} /\ docs # 1 BY <1>2, MethodIs
    <3> HIDE DEF docs
    <3>2. docs > 1 BY <3>1
    <3> QED BY <3>2 DEF docs
  <2> QED BY <1>2, <2>1, SecondIsEndless DEF Delivers
<1>3. CASE j.kind = "postscript"
           /\ (~ j.script \/ SelectCopiesMethod(j).docs = 1)
  <2>1. LaidOut(j) /\ (j.script \/ AsItIs(j)) BY <1>3 DEF Printable
  <2> QED BY <1>3, <2>1, PagesDelivered
<1> QED BY <1>1, <1>2, <1>3

\* Whichever pages are wanted, in whichever order the file has them and the
\* printer stacks them, on however many sheets, in however many signatures and
\* copies, collated by pprdrv, by the printer or not at all: the program that
\* pprdrv makes of a job puts each page of each copy on the paper, where a
\* reader looks for it, and nothing else but the banner and the trailer page.
THEOREM PagesDeliver ==
  ASSUME \A j \in Orders : Printable(j)
  PROVE  DSpec => []ProgramDelivers
<1>1. \A j \in Orders : Delivers(j) BY JobDelivered
<1>2. DInit => job \in Orders BY DEF DInit
<1>3. job \in Orders /\ [DNext]_vars => (job \in Orders)'
  <2> SUFFICES ASSUME job \in Orders, [DNext]_vars PROVE job' \in Orders
    OBVIOUS
  <2>1. job' = job BY JobStays
  <2> QED BY <2>1
<1>4. job \in Orders => ProgramDelivers BY <1>1 DEF ProgramDelivers
<1> QED BY <1>2, <1>3, <1>4, PTL DEF DSpec

\* So pprdrv implements PprdrvContract for such jobs, with no further condition:
\* if it says EXIT_PRINTED then the whole order is on the paper, whatever went
\* wrong on the way.
THEOREM PrintedIsDelivered ==
  ASSUME \A j \in Orders : Printable(j)
  PROVE  DSpec => KeepsContract
<1>1. DSpec => []ProgramDelivers BY PagesDeliver
<1>2. DSpec /\ []ProgramDelivers => KeepsContract BY Refines
<1> QED BY <1>1, <1>2, PTL
===========================================================================
