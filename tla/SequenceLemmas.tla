---------------------------- MODULE SequenceLemmas ----------------------------
(***************************************************************************)
(* What the proofs of the processors and of the storage engine need of     *)
(* sequences, of folds and of sums.  Of sequences: which                   *)
(* elements the loops of module Joining put into a vector, what the tasks  *)
(* made of them have left to do, and how that changes when tasks are       *)
(* enqueued and when one of them takes its next entry.                     *)
(*                                                                         *)
(* Tasks are lists [job |-> ..., work |-> ...]; Pending is the set of      *)
(* their entries, and the proofs of the processors speak of that set and   *)
(* no longer of sequences.  Distinct, AllDistinct and NoneTwice say that   *)
(* an entry is there once, so that a task which is past it is done with it. *)
(*                                                                         *)
(* FoldExists and SumsTakeAny, with what follows from them, give FoldLeft  *)
(* and SumFunction their recursive equations, and say how a sum changes    *)
(* with the function it is over.                                           *)
(***************************************************************************)
EXTENDS Joining, SequencesExt, SequenceTheorems, FiniteSetTheorems,
        WellFoundedInduction, TLAPS

(* Induction over the natural numbers, for a set S instead of a predicate.   *)
(* It follows from the order of the numbers being well-founded, in the form  *)
(* that a set without the numbers in S has a least element.                  *)
LEMMA Induction ==
  ASSUME NEW S, 0 \in S, \A n \in Nat : n \in S => n + 1 \in S
  PROVE  Nat \subseteq S
<1> DEFINE R == OpToRel(<, Nat)
           T == Nat \ S
<1>1. IsWellFoundedOn(R, Nat)
  BY NatLessThanWellFounded
<1>2. \A x, y \in Nat : <<y, x>> \in R <=> y < x
  BY DEF OpToRel
<1>3. SUFFICES ASSUME T # {} PROVE FALSE
  OBVIOUS
<1>4. T \subseteq Nat
  OBVIOUS
<1> HIDE DEF R
<1>5. PICK x \in T : \A y \in T : ~(<<y, x>> \in R)
  <2> HIDE DEF T
  <2> QED BY <1>1, <1>3, <1>4, WFMin
<1>6. x # 0 /\ x \in Nat
  BY <1>5
<1>7. PICK y \in Nat : y + 1 = x /\ y < x
  <2>1. x - 1 \in Nat /\ (x - 1) + 1 = x /\ x - 1 < x
    BY <1>6
  <2> QED
    BY <2>1
<1>8. y \notin T
  BY <1>7, <1>6, <1>5, <1>2
<1>9. y \in S /\ x \notin S
  BY <1>8, <1>7
<1> QED
  BY <1>9, <1>7, <1>6

(* h[i] is the first i sequences, one after the other.                     *)
Unfolds(S, n, seqs, h) == /\ h \in [0 .. n -> Seq(S)]
                          /\ h[0] = <<>>
                          /\ \A i \in 1 .. n : h[i] = h[i - 1] \o seqs[i]
                          /\ Joined(n, seqs) = h[n]

(* The recursive function in Joined exists and is computed step by step.     *)
LEMMA JoinedUnfolds ==
  ASSUME NEW S, NEW n \in Nat, NEW seqs, \A i \in 1 .. n : seqs[i] \in Seq(S)
  PROVE  \E h : Unfolds(S, n, seqs, h)
<1> DEFINE IsUpto(k, g) == \A i \in 0 .. k : g[i] = IF i = 0 THEN <<>> ELSE g[i - 1] \o seqs[i]
           Good == {k \in Nat : k <= n => \E g \in [0 .. k -> Seq(S)] : IsUpto(k, g)}
<1>1. 0 \in Good
  <2>1. [i \in 0 .. 0 |-> <<>>] \in [0 .. 0 -> Seq(S)]
    BY EmptySeq
  <2>2. IsUpto(0, [i \in 0 .. 0 |-> <<>>])
    OBVIOUS
  <2> QED BY <2>1, <2>2
<1>2. ASSUME NEW k \in Nat, k \in Good PROVE k + 1 \in Good
  <2> SUFFICES ASSUME k + 1 <= n PROVE \E g \in [0 .. k + 1 -> Seq(S)] : IsUpto(k + 1, g)
    <3> HIDE DEF IsUpto
    <3> QED OBVIOUS
  <2>1. PICK g \in [0 .. k -> Seq(S)] : IsUpto(k, g)
    BY <1>2
  <2>2. seqs[k + 1] \in Seq(S) /\ g[k] \in Seq(S)
    OBVIOUS
  <2> DEFINE longer == g[k] \o seqs[k + 1]
             h == [i \in 0 .. k + 1 |-> IF i = k + 1 THEN longer ELSE g[i]]
  <2>3. longer \in Seq(S)
    BY <2>2, ConcatProperties
  <2>4. \A i \in 0 .. k : h[i] = g[i] /\ i # k + 1
    <3> TAKE i \in 0 .. k
    <3> i \in 0 .. k + 1 /\ i # k + 1
      OBVIOUS
    <3> QED OBVIOUS
  <2>5. h[k + 1] = longer
    OBVIOUS
  <2>6. h \in [0 .. k + 1 -> Seq(S)]
    <3> SUFFICES ASSUME NEW i \in 0 .. k + 1 PROVE h[i] \in Seq(S)
      OBVIOUS
    <3> HIDE DEF longer
    <3>1. CASE i = k + 1
      BY <3>1, <2>3
    <3>2. CASE i # k + 1
      <4>1. i \in 0 .. k
        BY <3>2
      <4> QED BY <4>1, <3>2
    <3> QED BY <3>1, <3>2
  <2>7. longer = g[k] \o seqs[k + 1]
    OBVIOUS
  <2>8. IsUpto(k + 1, h)
    <3> SUFFICES ASSUME NEW i \in 0 .. k + 1
                 PROVE  h[i] = IF i = 0 THEN <<>> ELSE h[i - 1] \o seqs[i]
      OBVIOUS
    <3> HIDE DEF h, longer
    <3>1. CASE i = k + 1
      <4>1. i # 0 /\ i - 1 = k /\ h[k] = g[k] /\ h[i] = longer
        BY <3>1, <2>4, <2>5
      <4> QED BY <4>1, <3>1, <2>7
    <3>2. CASE i # k + 1
      <4>1. i \in 0 .. k /\ (i # 0 => i - 1 \in 0 .. k)
        BY <3>2
      <4> QED BY <4>1, <2>1, <2>4
    <3> QED BY <3>1, <3>2
  <2> QED BY <2>6, <2>8
<1>3. n \in Good
  <2> HIDE DEF Good
  <2> QED BY <1>1, <1>2, Induction
<1>4. PICK h \in [0 .. n -> Seq(S)] : IsUpto(n, h)
  BY <1>3
<1> DEFINE IsIt(f) == f = [i \in 0 .. n |-> IF i = 0 THEN <<>> ELSE f[i - 1] \o seqs[i]]
           it == CHOOSE f : IsIt(f)
<1>5. IsIt(h)
  BY <1>4
<1>6. IsIt(it)
  <2> HIDE DEF IsIt
  <2> QED BY <1>5
<1>7. Joined(n, seqs) = it[n]
  BY Zenon DEF Joined
<1> HIDE DEF it
<1> DEFINE Same == {k \in Nat : k <= n => it[k] = h[k]}
<1>u. \A i \in 0 .. n : it[i] = IF i = 0 THEN <<>> ELSE it[i - 1] \o seqs[i]
  BY <1>6
<1>0. 0 \in 0 .. n
  OBVIOUS
<1>8. 0 \in Same
  <2>1. it[0] = <<>> /\ h[0] = <<>>
    BY <1>4, <1>u, <1>0
  <2> QED BY <2>1
<1>9. ASSUME NEW k \in Nat, k \in Same PROVE k + 1 \in Same
  <2> SUFFICES ASSUME k + 1 <= n PROVE it[k + 1] = h[k + 1]
    OBVIOUS
  <2>1. k + 1 \in 0 .. n /\ k + 1 # 0 /\ (k + 1) - 1 = k /\ it[k] = h[k]
    BY <1>9
  <2>3. it[k + 1] = IF k + 1 = 0 THEN <<>> ELSE it[(k + 1) - 1] \o seqs[k + 1]
    BY <2>1, <1>u, Zenon
  <2>4. h[k + 1] = IF k + 1 = 0 THEN <<>> ELSE h[(k + 1) - 1] \o seqs[k + 1]
    BY <2>1, <1>4, Zenon
  <2> QED BY <2>1, <2>3, <2>4
<1>10. n \in Same
  <2> HIDE DEF Same
  <2> QED BY <1>8, <1>9, Induction
<1>11. h[0] = <<>> /\ \A i \in 1 .. n : h[i] = h[i - 1] \o seqs[i]
  <2>1. \A i \in 1 .. n : i \in 0 .. n /\ i # 0
    OBVIOUS
  <2> QED BY <1>4, <1>0, <2>1, Zenon
<1>12. Joined(n, seqs) = h[n]
  BY <1>7, <1>10
<1> QED
  BY <1>11, <1>12 DEF Unfolds

(* t is the first n sequences one after the other: t[i] is what stands at *)
(* place b[i] of sequence a[i].                                           *)
ComesFrom(seqs, n, t, a, b) ==
    /\ a \in [1 .. Len(t) -> 1 .. n]
    /\ b \in [1 .. Len(t) -> Nat]
    /\ \A i \in 1 .. Len(t) : b[i] \in 1 .. Len(seqs[a[i]]) /\ t[i] = seqs[a[i]][b[i]]
    /\ \A i, j \in 1 .. Len(t) : i < j => a[i] < a[j] \/ (a[i] = a[j] /\ b[i] < b[j])
    /\ \A p \in 1 .. n : \A l \in 1 .. Len(seqs[p]) : \E i \in 1 .. Len(t) : a[i] = p /\ b[i] = l

(* The next sequence comes behind those before it.                           *)
LEMMA OneMoreSequence ==
  ASSUME NEW S, NEW seqs, NEW n \in Nat, seqs[n + 1] \in Seq(S),
         NEW t \in Seq(S), NEW a, NEW b, ComesFrom(seqs, n, t, a, b)
  PROVE  \E c, d : ComesFrom(seqs, n + 1, t \o seqs[n + 1], c, d)
<1> DEFINE s == seqs[n + 1]
           u == t \o s
           c == [i \in 1 .. Len(u) |-> IF i <= Len(t) THEN a[i] ELSE n + 1]
           d == [i \in 1 .. Len(u) |-> IF i <= Len(t) THEN b[i] ELSE i - Len(t)]
<1>1. s \in Seq(S) /\ Len(s) \in Nat /\ Len(t) \in Nat
  BY LenProperties
<1> DEFINE lt == Len(t)
           ls == Len(s)
<1>2. /\ Len(u) = lt + ls
      /\ \A i \in 1 .. lt + ls : u[i] = IF i <= lt THEN t[i] ELSE s[i - lt]
  <2> HIDE DEF s
  <2> QED BY <1>1, ConcatProperties
<1>3. /\ a \in [1 .. lt -> 1 .. n]
      /\ b \in [1 .. lt -> Nat]
      /\ \A i \in 1 .. lt : b[i] \in 1 .. Len(seqs[a[i]]) /\ t[i] = seqs[a[i]][b[i]]
      /\ \A i, j \in 1 .. lt : i < j => a[i] < a[j] \/ (a[i] = a[j] /\ b[i] < b[j])
      /\ \A p \in 1 .. n : \A l \in 1 .. Len(seqs[p]) : \E i \in 1 .. lt : a[i] = p /\ b[i] = l
  BY DEF ComesFrom
<1>4. /\ \A i \in 1 .. lt : c[i] = a[i] /\ d[i] = b[i]
      /\ \A i \in lt + 1 .. lt + ls : c[i] = n + 1 /\ d[i] = i - lt
      /\ DOMAIN c = 1 .. lt + ls /\ DOMAIN d = 1 .. lt + ls
  <2> HIDE DEF u, s
  <2> QED BY <1>1, <1>2
<1>5. lt \in Nat /\ ls \in Nat
  BY <1>1
<1>d. c = [i \in 1 .. lt + ls |-> c[i]] /\ d = [i \in 1 .. lt + ls |-> d[i]]
  <2>2. c = [i \in DOMAIN c |-> c[i]] /\ d = [i \in DOMAIN d |-> d[i]]
    OBVIOUS
  <2> HIDE DEF c, d
  <2> QED BY <2>2, <1>4
<1>6. seqs[n + 1] = s /\ ls = Len(s)
  OBVIOUS
<1>u. t \o seqs[n + 1] = u
  OBVIOUS
<1> HIDE DEF c, d, u, s, lt, ls
<1>7. \A i \in 1 .. lt + ls : i \in 1 .. lt \/ (i \in lt + 1 .. lt + ls /\ i - lt \in 1 .. ls)
  BY <1>5
<1>8. \A i \in 1 .. lt + ls :
         /\ c[i] \in 1 .. n + 1 /\ d[i] \in Nat
         /\ d[i] \in 1 .. Len(seqs[c[i]]) /\ u[i] = seqs[c[i]][d[i]]
  <2> TAKE i \in 1 .. lt + ls
  <2>1. CASE i \in 1 .. lt
    <3>0. a[i] \in 1 .. n /\ b[i] \in Nat
      BY <2>1, <1>3
    <3>1. a[i] \in 1 .. n /\ b[i] \in Nat /\ c[i] = a[i] /\ d[i] = b[i] /\ u[i] = t[i]
      BY <3>0, <2>1, <1>2, <1>4, <1>5
    <3> QED BY <3>1, <2>1, <1>3
  <2>2. CASE i \in lt + 1 .. lt + ls
    BY <2>2, <1>2, <1>4, <1>5, <1>6, SMTT(40)
  <2> QED BY <2>1, <2>2, <1>7
<1>9. \A i, j \in 1 .. lt + ls : i < j => c[i] < c[j] \/ (c[i] = c[j] /\ d[i] < d[j])
  <2> TAKE i, j \in 1 .. lt + ls
  <2> HAVE i < j
  <2>1. CASE i \in 1 .. lt /\ j \in 1 .. lt
    BY <2>1, <1>3, <1>4
  <2>2. CASE i \in 1 .. lt /\ j \in lt + 1 .. lt + ls
    <3>1. a[i] \in 1 .. n
      BY <2>2, <1>3
    <3> QED BY <3>1, <2>2, <1>4
  <2>3. CASE i \in lt + 1 .. lt + ls
    <3>1. j \in lt + 1 .. lt + ls
      BY <2>3, <1>5
    <3> QED BY <3>1, <2>3, <1>4, <1>5
  <2> QED BY <2>1, <2>2, <2>3, <1>7
<1>10. ASSUME NEW p \in 1 .. n + 1, NEW l \in 1 .. Len(seqs[p])
       PROVE  \E i \in 1 .. lt + ls : c[i] = p /\ d[i] = l
  <2>1. CASE p \in 1 .. n
    <3>1. PICK i \in 1 .. lt : a[i] = p /\ b[i] = l
      BY <2>1, <1>3
    <3>2. i \in 1 .. lt + ls /\ c[i] = p /\ d[i] = l
      BY <3>1, <1>4, <1>5
    <3> QED BY <3>2
  <2>2. CASE p = n + 1
    <3>1. lt + l \in lt + 1 .. lt + ls /\ (lt + l) - lt = l
      BY <2>2, <1>5, <1>6
    <3>2. PICK i \in lt + 1 .. lt + ls : i = lt + l /\ i - lt = l
      BY <3>1
    <3>3. c[i] = p /\ d[i] = l /\ i \in 1 .. lt + ls
      BY <3>2, <2>2, <1>4, <1>5
    <3> QED BY <3>3
  <2> QED BY <2>1, <2>2
<1>11. /\ c \in [1 .. Len(u) -> 1 .. n + 1]
       /\ d \in [1 .. Len(u) -> Nat]
  BY <1>2, <1>d, <1>8
<1>12. ComesFrom(seqs, n + 1, u, c, d)
  BY <1>2, <1>8, <1>9, <1>10, <1>11 DEF ComesFrom
<1> QED
  BY <1>12, <1>u

(* What Joined puts where. *)
LEMMA JoinedFrom ==
  ASSUME NEW S, NEW n \in Nat, NEW seqs, \A i \in 1 .. n : seqs[i] \in Seq(S)
  PROVE  /\ Joined(n, seqs) \in Seq(S)
         /\ \E a, b : ComesFrom(seqs, n, Joined(n, seqs), a, b)
<1>0. PICK h : Unfolds(S, n, seqs, h)
  BY JoinedUnfolds
<1>1. /\ h \in [0 .. n -> Seq(S)]
      /\ h[0] = <<>>
      /\ \A i \in 1 .. n : h[i] = h[i - 1] \o seqs[i]
      /\ Joined(n, seqs) = h[n]
  BY <1>0 DEF Unfolds
<1> DEFINE Good == {k \in Nat : k <= n => \E a, b : ComesFrom(seqs, k, h[k], a, b)}
<1>2. 0 \in Good
  <2>1. ComesFrom(seqs, 0, <<>>, [i \in 1 .. 0 |-> i], [i \in 1 .. 0 |-> i])
    BY DEF ComesFrom
  <2> QED BY <2>1, <1>1
<1>3. ASSUME NEW k \in Nat, k \in Good PROVE k + 1 \in Good
  <2> SUFFICES ASSUME k + 1 <= n PROVE \E a, b : ComesFrom(seqs, k + 1, h[k + 1], a, b)
    OBVIOUS
  <2>1. PICK a, b : ComesFrom(seqs, k, h[k], a, b)
    BY <1>3
  <2>2. k + 1 \in 1 .. n /\ k \in 0 .. n /\ (k + 1) - 1 = k
    OBVIOUS
  <2>3. h[k + 1] = h[(k + 1) - 1] \o seqs[k + 1]
    BY <1>1, <2>2, Zenon
  <2>4. h[k] \in Seq(S) /\ seqs[k + 1] \in Seq(S) /\ h[k + 1] = h[k] \o seqs[k + 1]
    BY <1>1, <2>2, <2>3
  <2> QED BY <2>1, <2>4, OneMoreSequence
<1>4. n \in Good
  <2> HIDE DEF Good
  <2> QED BY <1>2, <1>3, Induction
<1> QED
  BY <1>1, <1>4

(* Lists of work, none of them empty.                                      *)
WorkLists(J, E) == {t \in Seq([job : J, work : Seq(E)]) :
                       \A k \in 1 .. Len(t) : t[k].work # <<>>}

(* rest[i] is what is left of list f[i] of pool.                           *)
IsLeftOf(rest, pool, f) ==
    /\ f \in [1 .. Len(rest) -> 1 .. Len(pool)]
    /\ \A i, j \in 1 .. Len(rest) : i < j => f[i] < f[j]
    /\ \A i \in 1 .. Len(rest) :
          /\ rest[i].job = pool[f[i]].job
          /\ \A m \in 1 .. Len(rest[i].work) :
                \E l \in 1 .. Len(pool[f[i]].work) : rest[i].work[m] = pool[f[i]].work[l]

(* All but the first entry of list k is left.                              *)
AllButFirstLeft(rest, pool, k) ==
    \A j \in 1 .. Len(pool) : \A l \in 1 .. Len(pool[j].work) :
        j # k \/ l # 1 =>
            \E i \in 1 .. Len(rest) :
                /\ rest[i].job = pool[j].job
                /\ \E m \in 1 .. Len(rest[i].work) : rest[i].work[m] = pool[j].work[l]

(* RemoveAt leaves out the element at k and moves up those behind it.         *)
LEMMA RemoveAtFrom ==
  ASSUME NEW S, NEW s \in Seq(S), NEW k \in 1 .. Len(s)
  PROVE  /\ RemoveAt(s, k) \in Seq(S)
         /\ Len(RemoveAt(s, k)) = Len(s) - 1
         /\ \A i \in 1 .. Len(s) - 1 : RemoveAt(s, k)[i] = IF i < k THEN s[i] ELSE s[i + 1]
<1> DEFINE front == SubSeq(s, 1, k - 1)
           back == SubSeq(s, k + 1, Len(s))
<1>1. Len(s) \in Nat /\ k \in Int /\ k - 1 \in Int /\ k + 1 \in Int /\ Len(s) \in Int
  BY LenProperties
<1>2. \A i \in 1 .. Len(s) : s[i] \in S
  BY ElementOfSeq
<1>3. /\ front \in Seq(S)
      /\ Len(front) = k - 1
      /\ \A i \in 1 .. k - 1 : front[i] = s[i]
  <2>1. \A i \in 1 .. k - 1 : s[i] \in S
    BY <1>1, <1>2
  <2>2. /\ front \in Seq(S)
        /\ Len(front) = IF 1 <= k - 1 THEN (k - 1) - 1 + 1 ELSE 0
        /\ \A i \in 1 .. (k - 1) - 1 + 1 : front[i] = s[1 + i - 1]
    BY <2>1, <1>1, SubSeqProperties
  <2> HIDE DEF front
  <2> QED BY <2>2, <1>1
<1>4. /\ back \in Seq(S)
      /\ Len(back) = Len(s) - k
      /\ \A i \in 1 .. Len(s) - k : back[i] = s[k + i]
  <2>1. \A i \in k + 1 .. Len(s) : s[i] \in S
    BY <1>1, <1>2
  <2>2. /\ back \in Seq(S)
        /\ Len(back) = IF k + 1 <= Len(s) THEN Len(s) - (k + 1) + 1 ELSE 0
        /\ \A i \in 1 .. Len(s) - (k + 1) + 1 : back[i] = s[(k + 1) + i - 1]
    BY <2>1, <1>1, SubSeqProperties
  <2> HIDE DEF back
  <2> QED BY <2>2, <1>1
<1>5. RemoveAt(s, k) = front \o back
  BY DEF RemoveAt
<1> HIDE DEF front, back
<1>6. /\ front \o back \in Seq(S)
      /\ Len(front \o back) = Len(front) + Len(back)
      /\ \A i \in 1 .. Len(front) + Len(back) :
            (front \o back)[i] = IF i <= Len(front) THEN front[i] ELSE back[i - Len(front)]
  BY <1>3, <1>4, ConcatProperties
<1> DEFINE both == front \o back
<1>7. ASSUME NEW i \in 1 .. Len(s) - 1
      PROVE  both[i] = IF i < k THEN s[i] ELSE s[i + 1]
  <2>1. both[i] = IF i <= k - 1 THEN front[i] ELSE back[i - (k - 1)]
    BY <1>1, <1>3, <1>4, <1>6
  <2> HIDE DEF both
  <2>2. CASE i < k
    BY <2>1, <2>2, <1>1, <1>3
  <2>3. CASE ~(i < k)
    <3>1. i - (k - 1) \in 1 .. Len(s) - k /\ k + (i - (k - 1)) = i + 1 /\ ~(i <= k - 1)
      BY <2>3, <1>1
    <3> QED BY <3>1, <2>1, <2>3, <1>4
  <2> QED BY <2>2, <2>3
<1>8. both \in Seq(S) /\ Len(both) = Len(s) - 1
  BY <1>1, <1>3, <1>4, <1>6
<1> HIDE DEF both
<1>9. RemoveAt(s, k) = both
  BY <1>5 DEF both
<1> QED
  BY <1>7, <1>8, <1>9

(* An iteration takes the first entry off list k, or the list if it was the  *)
(* last: the other entries are left, in lists in the same order.             *)
LEMMA WorkRemoved ==
  ASSUME NEW J, NEW E, NEW pool \in WorkLists(J, E), NEW k \in 1 .. Len(pool), NEW rest,
         rest = IF Len(pool[k].work) = 1 THEN RemoveAt(pool, k)
                ELSE [pool EXCEPT ![k].work = Tail(@)]
  PROVE  /\ rest \in WorkLists(J, E)
         /\ \E f : IsLeftOf(rest, pool, f)
         /\ AllButFirstLeft(rest, pool, k)
<1> DEFINE Task == [job : J, work : Seq(E)]
           n == Len(pool)
<1>1. pool \in Seq(Task) /\ \A j \in 1 .. n : pool[j].work # <<>>
  BY DEF WorkLists
<1>2. n \in Nat /\ \A j \in 1 .. n : pool[j] \in Task
  BY <1>1, LenProperties, ElementOfSeq
<1>3. \A j \in 1 .. n : pool[j].job \in J /\ pool[j].work \in Seq(E) /\ Len(pool[j].work) \in Nat \ {0}
  <2> TAKE j \in 1 .. n
  <2>1. pool[j].job \in J /\ pool[j].work \in Seq(E) /\ pool[j].work # <<>>
    BY <1>1, <1>2
  <2> QED BY <2>1, EmptySeq
<1>4. CASE Len(pool[k].work) = 1
  <2>1. /\ rest \in Seq(Task)
        /\ Len(rest) = n - 1
        /\ \A i \in 1 .. n - 1 : rest[i] = IF i < k THEN pool[i] ELSE pool[i + 1]
    <3> HIDE DEF Task
    <3> QED BY <1>1, <1>4, RemoveAtFrom
  <2> DEFINE f == [i \in 1 .. n - 1 |-> IF i < k THEN i ELSE i + 1]
  <2>2. /\ \A i \in 1 .. n - 1 : f[i] \in 1 .. n /\ rest[i] = pool[f[i]]
        /\ f \in [1 .. n - 1 -> 1 .. n]
    <3>1. ASSUME NEW i \in 1 .. n - 1 PROVE f[i] \in 1 .. n /\ rest[i] = pool[f[i]]
      <4>1. CASE i < k
        BY <4>1, <2>1, <1>2
      <4>2. CASE ~(i < k)
        <5>1. i + 1 \in 1 .. n /\ f[i] = i + 1 /\ rest[i] = pool[i + 1]
          BY <4>2, <2>1, <1>2
        <5> QED BY <5>1
      <4> QED BY <4>1, <4>2
    <3> QED BY <3>1
  <2>3. \A i, j \in 1 .. n - 1 : i < j => f[i] < f[j]
    BY <1>2
  <2>4. \A j \in 1 .. n : j # k => \E i \in 1 .. n - 1 : f[i] = j
    <3> TAKE j \in 1 .. n
    <3> HAVE j # k
    <3>1. CASE j < k
      <4>1. j \in 1 .. n - 1 /\ f[j] = j
        BY <3>1, <1>2
      <4> QED BY <4>1
    <3>2. CASE j > k
      <4>1. j - 1 \in 1 .. n - 1 /\ ~(j - 1 < k) /\ (j - 1) + 1 = j
        BY <3>2, <1>2
      <4>2. PICK i \in 1 .. n - 1 : ~(i < k) /\ i + 1 = j
        BY <4>1
      <4>3. f[i] = j
        BY <4>2
      <4> QED BY <4>3
    <3> QED BY <3>1, <3>2, <1>2
  <2> HIDE DEF f
  <2>5. rest \in WorkLists(J, E)
    <3>1. \A i \in 1 .. Len(rest) : rest[i].work # <<>>
      BY <2>1, <2>2, <1>1, ZenonT(60)
    <3> QED BY <3>1, <2>1 DEF WorkLists
  <2>6. IsLeftOf(rest, pool, f)
    <3>1. \A i \in 1 .. n - 1 : \A m \in 1 .. Len(rest[i].work) :
             \E l \in 1 .. Len(pool[f[i]].work) : rest[i].work[m] = pool[f[i]].work[l]
      BY <2>2
    <3> QED BY <3>1, <2>1, <2>2, <2>3 DEF IsLeftOf
  <2>7. AllButFirstLeft(rest, pool, k)
    <3> SUFFICES ASSUME NEW j \in 1 .. n, NEW l \in 1 .. Len(pool[j].work), j # k \/ l # 1
                 PROVE  \E i \in 1 .. Len(rest) :
                            /\ rest[i].job = pool[j].job
                            /\ \E m \in 1 .. Len(rest[i].work) : rest[i].work[m] = pool[j].work[l]
      BY DEF AllButFirstLeft
    <3>1. j # k
      <4>1. j = k => l \in 1 .. 1
        BY <1>4
      <4> QED BY <4>1
    <3>2. PICK i \in 1 .. n - 1 : f[i] = j
      BY <3>1, <2>4
    <3>3. rest[i] = pool[j]
      BY <3>2, <2>2
    <3> QED BY <3>3, <2>1
  <2> QED BY <2>5, <2>6, <2>7
<1>5. CASE Len(pool[k].work) # 1
  <2> DEFINE w == pool[k].work
             t == Tail(w)
  <2>1. w \in Seq(E) /\ w # <<>> /\ Len(w) \in Nat /\ Len(w) # 1 /\ Len(w) # 0
    BY <1>1, <1>3, <1>5
  <2>2. /\ t \in Seq(E)
        /\ Len(t) = Len(w) - 1
        /\ \A i \in 1 .. Len(t) : t[i] = w[i + 1]
    <3> HIDE DEF w
    <3> QED BY <2>1, HeadTailProperties
  <2>3. t # <<>>
    <3> HIDE DEF w, t
    <3> QED BY <2>1, <2>2, EmptySeq
  <2>4. /\ DOMAIN rest = 1 .. n
        /\ rest[k] = [job |-> pool[k].job, work |-> t]
        /\ \A j \in 1 .. n : j # k => rest[j] = pool[j]
    <3>1. pool \in [1 .. n -> Task]
      BY <1>1, LenProperties
    <3>2. pool[k] = [job |-> pool[k].job, work |-> pool[k].work]
      BY <1>2
    <3>3. rest = [pool EXCEPT ![k] = [pool[k] EXCEPT !.work = t]]
      BY <1>5
    <3> QED BY <3>1, <3>2, <3>3
  <2> HIDE DEF t
  <2>5. rest \in Seq(Task) /\ Len(rest) = n
    <3>1. ASSUME NEW j \in 1 .. n PROVE rest[j] \in Task
      <4>1. CASE j # k
        <5> HIDE DEF Task
        <5> QED BY <4>1, <2>4, <1>2
      <4>2. CASE j = k
        BY <4>2, <2>2, <2>4, <1>3
      <4> QED BY <4>1, <4>2
    <3>2. rest = [j \in 1 .. n |-> rest[j]]
      <4>1. pool \in [1 .. n -> Task]
        BY <1>1, LenProperties
      <4> QED BY <4>1, <1>5
    <3>3. rest \in [1 .. n -> Task]
      BY <3>1, <3>2
    <3> HIDE DEF Task
    <3> QED BY <3>3, <1>2
  <2>6. rest \in WorkLists(J, E)
    <3>1. ASSUME NEW j \in 1 .. n PROVE rest[j].work # <<>>
      <4>1. CASE j # k
        BY <4>1, <2>4, <1>1
      <4>2. CASE j = k
        <5>1. rest[j].work = t
          BY <4>2, <2>4
        <5> QED BY <5>1, <2>3
      <4> QED BY <4>1, <4>2
    <3> QED BY <3>1, <2>5 DEF WorkLists
  <2>7. \A j \in 1 .. n :
            /\ rest[j].job = pool[j].job
            /\ \A m \in 1 .. Len(rest[j].work) :
                  \E l \in 1 .. Len(pool[j].work) : rest[j].work[m] = pool[j].work[l]
    <3> TAKE j \in 1 .. n
    <3>1. CASE j # k
      BY <3>1, <2>4
    <3>2. CASE j = k
      <4>1. rest[j].job = pool[j].job /\ rest[j].work = t /\ pool[j].work = w
        BY <3>2, <2>4
      <4> HIDE DEF w
      <4>2. \A m \in 1 .. Len(t) : m + 1 \in 1 .. Len(w) /\ t[m] = w[m + 1]
        BY <2>1, <2>2, SMTT(40)
      <4> QED BY <4>1, <4>2
    <3> QED BY <3>1, <3>2
  <2> DEFINE f == [j \in 1 .. n |-> j]
  <2>f. f \in [1 .. n -> 1 .. n] /\ \A j \in 1 .. n : f[j] = j
    OBVIOUS
  <2>8. IsLeftOf(rest, pool, f)
    <3> HIDE DEF f
    <3>1. \A i \in 1 .. n :
             /\ rest[i].job = pool[f[i]].job
             /\ \A m \in 1 .. Len(rest[i].work) :
                   \E l \in 1 .. Len(pool[f[i]].work) : rest[i].work[m] = pool[f[i]].work[l]
      BY <2>f, <2>7
    <3>2. \A i, j \in 1 .. n : i < j => f[i] < f[j]
      BY <2>f
    <3> HIDE DEF n
    <3>3. Len(rest) = n /\ Len(pool) = n
      BY <2>5 DEF n
    <3> QED BY <3>1, <3>2, <3>3, <2>f DEF IsLeftOf
  <2>9. AllButFirstLeft(rest, pool, k)
    <3> SUFFICES ASSUME NEW j \in 1 .. n, NEW l \in 1 .. Len(pool[j].work), j # k \/ l # 1
                 PROVE  /\ rest[j].job = pool[j].job
                        /\ \E m \in 1 .. Len(rest[j].work) : rest[j].work[m] = pool[j].work[l]
      BY <2>5 DEF AllButFirstLeft
    <3>1. CASE j # k
      BY <3>1, <2>4
    <3>2. CASE j = k
      <4>1. l # 1 /\ rest[j].job = pool[j].job /\ rest[j].work = t /\ pool[j].work = w
        BY <3>2, <2>4
      <4> HIDE DEF w
      <4>2. l - 1 \in 1 .. Len(t) /\ (l - 1) + 1 = l
        BY <4>1, <2>1, <2>2
      <4>3. t[l - 1] = w[l]
        BY <4>2, <2>2
      <4> QED BY <4>1, <4>2, <4>3
    <3> QED BY <3>1, <3>2
  <2> QED BY <2>6, <2>8, <2>9
<1> QED
  BY <1>4, <1>5

(* Joined has the elements of the sequences and no others.                 *)
LEMMA JoinedElements ==
  ASSUME NEW S, NEW n \in Nat, NEW seqs, \A i \in 1 .. n : seqs[i] \in Seq(S)
  PROVE  /\ Joined(n, seqs) \in Seq(S)
         /\ Range(Joined(n, seqs)) = UNION {Range(seqs[p]) : p \in 1 .. n}
<1> DEFINE t == Joined(n, seqs)
<1>1. t \in Seq(S)
  BY JoinedFrom
<1>2. PICK a, b : ComesFrom(seqs, n, t, a, b)
  BY JoinedFrom
<1> HIDE DEF t
<1>3. /\ \A i \in 1 .. Len(t) : a[i] \in 1 .. n /\ b[i] \in 1 .. Len(seqs[a[i]]) /\ t[i] = seqs[a[i]][b[i]]
      /\ \A p \in 1 .. n : \A l \in 1 .. Len(seqs[p]) : \E i \in 1 .. Len(t) : a[i] = p /\ b[i] = l
  BY <1>2 DEF ComesFrom
<1>4. DOMAIN t = 1 .. Len(t) /\ \A p \in 1 .. n : DOMAIN seqs[p] = 1 .. Len(seqs[p])
  BY <1>1, LenProperties
<1>5. ASSUME NEW e \in Range(t) PROVE \E p \in 1 .. n : e \in Range(seqs[p])
  <2>1. PICK i \in 1 .. Len(t) : e = t[i]
    BY <1>4 DEF Range
  <2>2. a[i] \in 1 .. n /\ b[i] \in DOMAIN seqs[a[i]] /\ e = seqs[a[i]][b[i]]
    BY <2>1, <1>3, <1>4
  <2> QED BY <2>2 DEF Range
<1>6. ASSUME NEW p \in 1 .. n, NEW e \in Range(seqs[p]) PROVE e \in Range(t)
  <2>1. PICK l \in 1 .. Len(seqs[p]) : e = seqs[p][l]
    BY <1>4 DEF Range
  <2>2. PICK i \in 1 .. Len(t) : a[i] = p /\ b[i] = l
    BY <1>3
  <2>3. i \in DOMAIN t /\ e = t[i]
    BY <2>1, <2>2, <1>3, <1>4
  <2> QED BY <2>3 DEF Range
<1>7. Range(t) = UNION {Range(seqs[p]) : p \in 1 .. n}
  BY <1>5, <1>6
<1> QED
  BY <1>1, <1>7 DEF t

(* The elements of the first n of seqs, and those of them in bucket t.      *)
SeqsOver(S, n, seqs) == \A i \in 1 .. n : seqs[i] \in Seq(S)
ElementsIn(n, seqs) == UNION {Range(seqs[i]) : i \in 1 .. n}
InBucket(E, bucket, t) == {e \in E : bucket[e] = t}
ElementsAre(S, n, seqs, E) == SeqsOver(S, n, seqs) /\ ElementsIn(n, seqs) = E
ListIs(S, s, E) == s \in Seq(S) /\ Range(s) = E

(* One element for each number in P, none for the others.                  *)
OneForEach(S, n, E, P, f, seqs) ==
    /\ P \subseteq 1 .. n
    /\ E = {f[i] : i \in P}
    /\ \A i \in P : f[i] \in S
    /\ \A i \in 1 .. n : seqs[i] = IF i \in P THEN <<f[i]>> ELSE <<>>

(* The elements are those, and in the type.                                  *)
LEMMA OneOfEach ==
  ASSUME NEW S, NEW n \in Nat, NEW E, NEW P, NEW f, NEW seqs,
         OneForEach(S, n, E, P, f, seqs)
  PROVE  ElementsAre(S, n, seqs, E)
<1>0. /\ P \subseteq 1 .. n
      /\ E = {f[i] : i \in P}
      /\ \A i \in P : f[i] \in S
      /\ \A i \in 1 .. n : seqs[i] = IF i \in P THEN <<f[i]>> ELSE <<>>
  BY DEF OneForEach
<1>1. \A i \in 1 .. n : /\ seqs[i] \in Seq(S)
                        /\ Range(seqs[i]) = IF i \in P THEN {f[i]} ELSE {}
  <2> TAKE i \in 1 .. n
  <2>1. <<>> \in Seq(S) /\ Range(<<>>) = {}
    BY DEF Range
  <2>2. i \in P => <<f[i]>> \in Seq(S) /\ Range(<<f[i]>>) = {f[i]}
    BY <1>0 DEF Range
  <2> QED BY <1>0, <2>1, <2>2
<1>2. ASSUME NEW i \in P PROVE f[i] \in ElementsIn(n, seqs)
  <2>1. i \in 1 .. n /\ f[i] \in Range(seqs[i])
    BY <1>0, <1>1
  <2> QED BY <2>1 DEF ElementsIn
<1>3. ASSUME NEW e \in ElementsIn(n, seqs) PROVE e \in {f[i] : i \in P}
  <2>1. PICK p \in 1 .. n : e \in Range(seqs[p])
    BY DEF ElementsIn
  <2>2. p \in P /\ e = f[p]
    BY <1>1, <2>1
  <2> QED BY <2>2
<1> QED
  BY <1>1, <1>2, <1>3, <1>0 DEF SeqsOver, ElementsAre

(* One entry for each transaction of a set P, none for the others.         *)
LEMMA OnceHolds ==
  ASSUME NEW n \in Nat, NEW P, P \subseteq 1 .. n, NEW entries,
         \A p \in 1 .. n : entries[p] = IF p \in P THEN Once(p) ELSE <<>>
  PROVE  ElementsAre(Entries, n, entries, {e \in Entries : e[1] \in P /\ e[2] = None})
<1> DEFINE once == [p \in P |-> <<p, None>>]
<1>0. \A p \in P : p \in Nat
  OBVIOUS
<1>1. \A p \in P : once[p] = <<p, None>> /\ once[p] \in Entries
  <2>1. \A p \in P : once[p] = <<p, None>>
    OBVIOUS
  <2> HIDE DEF once
  <2> TAKE p \in P
  <2>2. p \in Nat /\ None \in Int /\ once[p] = <<p, None>>
    <3>1. once[p] = <<p, None>>
      BY <2>1, Zenon
    <3>2. None \in Int
      BY DEF None
    <3>3. p \in Nat
      BY <1>0
    <3> QED BY <3>1, <3>2, <3>3
  <2> QED BY <2>2 DEF Entries
<1>2. \A p \in 1 .. n : entries[p] = IF p \in P THEN <<once[p]>> ELSE <<>>
  BY <1>1 DEF Once
<1> HIDE DEF once
<1> DEFINE E == {e \in Entries : e[1] \in P /\ e[2] = None}
<1>3. E = {once[p] : p \in P}
  BY <1>0, <1>1 DEF Entries
<1> HIDE DEF E
<1>4. OneForEach(Entries, n, E, P, once, entries)
  BY <1>1, <1>2, <1>3 DEF OneForEach
<1>5. ElementsAre(Entries, n, entries, E)
  BY <1>4, OneOfEach, Zenon
<1> QED
  BY <1>5 DEF E

(* Two loops in one.                                                       *)
LEMMA BothElements ==
  ASSUME NEW S, NEW n \in Nat, NEW s, SeqsOver(S, n, s), NEW t, SeqsOver(S, n, t),
         NEW u, \A i \in 1 .. n : u[i] = s[i] \o t[i]
  PROVE  ElementsAre(S, n, u, ElementsIn(n, s) \cup ElementsIn(n, t))
<1>1. ASSUME NEW i \in 1 .. n
      PROVE  u[i] \in Seq(S) /\ Range(u[i]) = Range(s[i]) \cup Range(t[i])
  <2>1. s[i] \in Seq(S) /\ t[i] \in Seq(S) /\ u[i] = s[i] \o t[i]
    BY DEF SeqsOver
  <2> DEFINE a == s[i]
             b == t[i]
             c == u[i]
  <2>2. a \in Seq(S) /\ b \in Seq(S) /\ c = a \o b
    BY <2>1
  <2> HIDE DEF a, b, c
  <2>3. c \in Seq(S) /\ Len(c) = Len(a) + Len(b) /\ Len(a) \in Nat /\ Len(b) \in Nat
        /\ DOMAIN c = 1 .. Len(c) /\ DOMAIN a = 1 .. Len(a) /\ DOMAIN b = 1 .. Len(b)
    BY <2>2, LenProperties, ConcatProperties
  <2>4. \A j \in 1 .. Len(a) + Len(b) : c[j] = IF j <= Len(a) THEN a[j] ELSE b[j - Len(a)]
    BY <2>2, ConcatProperties
  <2>5. ASSUME NEW e \in Range(c) PROVE e \in Range(a) \cup Range(b)
    <3>1. PICK j \in 1 .. Len(c) : e = c[j]
      BY <2>3 DEF Range
    <3>2. CASE j <= Len(a)
      <4>1. j \in 1 .. Len(a) /\ e = a[j]
        BY <3>1, <3>2, <2>3, <2>4
      <4> QED BY <4>1, <2>3 DEF Range
    <3>3. CASE ~(j <= Len(a))
      <4>1. j - Len(a) \in 1 .. Len(b) /\ e = b[j - Len(a)]
        BY <3>1, <3>3, <2>3, <2>4
      <4> QED BY <4>1, <2>3 DEF Range
    <3> QED BY <3>2, <3>3
  <2>6. ASSUME NEW e \in Range(a) PROVE e \in Range(c)
    <3>1. PICK j \in 1 .. Len(a) : e = a[j]
      BY <2>3 DEF Range
    <3>2. j \in 1 .. Len(c) /\ e = c[j]
      BY <3>1, <2>3, <2>4
    <3> QED BY <3>2, <2>3 DEF Range
  <2>7. ASSUME NEW e \in Range(b) PROVE e \in Range(c)
    <3>1. PICK j \in 1 .. Len(b) : e = b[j]
      BY <2>3 DEF Range
    <3>2. j + Len(a) \in 1 .. Len(c) /\ ~(j + Len(a) <= Len(a)) /\ (j + Len(a)) - Len(a) = j
      BY <3>1, <2>3
    <3>3. c[j + Len(a)] = b[(j + Len(a)) - Len(a)]
      BY <3>2, <2>3, <2>4
    <3>4. e = c[j + Len(a)]
      BY <3>1, <3>2, <3>3
    <3> QED BY <3>2, <3>4, <2>3 DEF Range
  <2> QED BY <2>3, <2>5, <2>6, <2>7 DEF a, b, c
<1> QED
  <2>0. \A i \in 1 .. n : Range(u[i]) = Range(s[i]) \cup Range(t[i])
    BY <1>1
  <2>1. ElementsIn(n, u) = ElementsIn(n, s) \cup ElementsIn(n, t)
    <3>1. ASSUME NEW e \in ElementsIn(n, u) PROVE e \in ElementsIn(n, s) \cup ElementsIn(n, t)
      <4>1. PICK i \in 1 .. n : e \in Range(u[i])
        BY DEF ElementsIn
      <4>2. e \in Range(s[i]) \/ e \in Range(t[i])
        BY <4>1, <2>0
      <4> QED BY <4>2 DEF ElementsIn
    <3>2. ASSUME NEW e \in ElementsIn(n, s) PROVE e \in ElementsIn(n, u)
      <4>1. PICK i \in 1 .. n : e \in Range(s[i])
        BY DEF ElementsIn
      <4>2. e \in Range(u[i])
        BY <4>1, <2>0
      <4> QED BY <4>2 DEF ElementsIn
    <3>3. ASSUME NEW e \in ElementsIn(n, t) PROVE e \in ElementsIn(n, u)
      <4>1. PICK i \in 1 .. n : e \in Range(t[i])
        BY DEF ElementsIn
      <4>2. e \in Range(u[i])
        BY <4>1, <2>0
      <4> QED BY <4>2 DEF ElementsIn
    <3> QED BY <3>1, <3>2, <3>3
  <2> QED BY <1>1, <2>1 DEF SeqsOver, ElementsAre

(* What is kept of s are its elements in the bucket.                       *)
LEMMA KeptElements ==
  ASSUME NEW S, NEW s \in Seq(S), NEW bucket, NEW t
  PROVE  /\ Kept(s, bucket, t) \in Seq(S)
         /\ Range(Kept(s, bucket, t)) = {e \in Range(s) : bucket[e] = t}
<1> DEFINE seqs == [i \in 1 .. Len(s) |-> IF bucket[s[i]] = t THEN <<s[i]>> ELSE <<>>]
<1>1. Len(s) \in Nat /\ DOMAIN s = 1 .. Len(s) /\ \A i \in 1 .. Len(s) : s[i] \in S
  BY LenProperties
<1>2. Kept(s, bucket, t) = Joined(Len(s), seqs)
  BY DEF Kept
<1>3. \A i \in 1 .. Len(s) : seqs[i] = IF bucket[s[i]] = t THEN <<s[i]>> ELSE <<>>
  OBVIOUS
<1> HIDE DEF seqs
<1>4. \A i \in 1 .. Len(s) : /\ seqs[i] \in Seq(S)
                             /\ Range(seqs[i]) = IF bucket[s[i]] = t THEN {s[i]} ELSE {}
  <2> TAKE i \in 1 .. Len(s)
  <2>1. s[i] \in S /\ seqs[i] = IF bucket[s[i]] = t THEN <<s[i]>> ELSE <<>>
    BY <1>1, <1>3
  <2>2. /\ <<s[i]>> \in Seq(S) /\ <<>> \in Seq(S)
        /\ Range(<<s[i]>>) = {s[i]} /\ Range(<<>>) = {}
    BY <2>1 DEF Range
  <2> QED BY <2>1, <2>2
<1>5. \A i \in 1 .. Len(s) : seqs[i] \in Seq(S)
  BY <1>4
<1>6. /\ Joined(Len(s), seqs) \in Seq(S)
      /\ Range(Joined(Len(s), seqs)) = UNION {Range(seqs[i]) : i \in 1 .. Len(s)}
  BY <1>1, <1>5, JoinedElements
<1>7. Range(s) = {s[i] : i \in 1 .. Len(s)}
  BY <1>1 DEF Range
<1>8. UNION {Range(seqs[i]) : i \in 1 .. Len(s)} = {e \in Range(s) : bucket[e] = t}
  BY <1>4, <1>7, ZenonT(60)
<1> QED
  BY <1>2, <1>6, <1>8

(* A bucket holds those of the elements of all sequences that belong there. *)
LEMMA DealtElements ==
  ASSUME NEW S, NEW n \in Nat, NEW seqs, SeqsOver(S, n, seqs),
         NEW bucket, NEW t
  PROVE  ListIs(S, Dealt(n, seqs, bucket, t), InBucket(ElementsIn(n, seqs), bucket, t))
<1> DEFINE kept == [i \in 1 .. n |-> Kept(seqs[i], bucket, t)]
<1>1. Dealt(n, seqs, bucket, t) = Joined(n, kept)
  BY DEF Dealt
<1>2. \A i \in 1 .. n : /\ kept[i] \in Seq(S)
                        /\ Range(kept[i]) = {e \in Range(seqs[i]) : bucket[e] = t}
  BY KeptElements DEF SeqsOver
<1> HIDE DEF kept
<1>3. \A i \in 1 .. n : kept[i] \in Seq(S)
  BY <1>2
<1>4. /\ Joined(n, kept) \in Seq(S)
      /\ Range(Joined(n, kept)) = UNION {Range(kept[i]) : i \in 1 .. n}
  BY <1>3, JoinedElements
<1>5. UNION {Range(kept[i]) : i \in 1 .. n} = InBucket(ElementsIn(n, seqs), bucket, t)
  BY <1>2 DEF ElementsIn, InBucket
<1> QED
  BY <1>1, <1>4, <1>5 DEF ListIs

(* One list for each bucket that is not empty.                             *)
AreTasks(tasks, job, n, buckets, b) ==
    /\ b \in [1 .. Len(tasks) -> 0 .. n - 1]
    /\ \A i, j \in 1 .. Len(tasks) : i < j => b[i] < b[j]
    /\ \A i \in 1 .. Len(tasks) : tasks[i] = [job |-> job, work |-> buckets[b[i]]]
    /\ \A c \in 0 .. n - 1 : buckets[c] # <<>> =>
          \E i \in 1 .. Len(tasks) : tasks[i] = [job |-> job, work |-> buckets[c]]

(* The lists that are made of n buckets: one for each that is not empty.      *)
LEMMA TasksOfBuckets ==
  ASSUME NEW J, NEW E, NEW job \in J, NEW n \in Nat, NEW buckets,
         \A c \in 0 .. n - 1 : buckets[c] \in Seq(E), NEW seqs,
         \A t \in 1 .. n : seqs[t] = IF buckets[t - 1] = <<>> THEN <<>>
                                     ELSE << [job |-> job, work |-> buckets[t - 1]] >>,
         NEW tasks, tasks = Joined(n, seqs)
  PROVE  /\ tasks \in WorkLists(J, E)
         /\ \E b : AreTasks(tasks, job, n, buckets, b)
<1> DEFINE T == [job : J, work : Seq(E)]
<1>1. ASSUME NEW t \in 1 .. n
      PROVE  /\ t - 1 \in 0 .. n - 1
             /\ seqs[t] \in Seq(T)
             /\ Len(seqs[t]) # 0 => buckets[t - 1] # <<>>
             /\ buckets[t - 1] # <<>> =>
                   Len(seqs[t]) = 1 /\ seqs[t][1] = [job |-> job, work |-> buckets[t - 1]]
  <2>1. t - 1 \in 0 .. n - 1
    OBVIOUS
  <2>2. [job |-> job, work |-> buckets[t - 1]] \in T
    BY <2>1
  <2>3. seqs[t] = IF buckets[t - 1] = <<>> THEN <<>>
                  ELSE << [job |-> job, work |-> buckets[t - 1]] >>
    OBVIOUS
  <2> HIDE DEF T
  <2> QED BY <2>1, <2>2, <2>3
<1>2. \A t \in 1 .. n : seqs[t] \in Seq(T)
  BY <1>1
<1>3. tasks \in Seq(T)
  <2> HIDE DEF T
  <2> QED BY <1>2, JoinedFrom
<1>4. PICK a, d : ComesFrom(seqs, n, tasks, a, d)
  <2> HIDE DEF T
  <2> QED BY <1>2, JoinedFrom
<1> DEFINE m == Len(tasks)
<1>5. /\ a \in [1 .. m -> 1 .. n]
      /\ \A i \in 1 .. m : d[i] \in 1 .. Len(seqs[a[i]]) /\ tasks[i] = seqs[a[i]][d[i]]
      /\ \A i, j \in 1 .. m : i < j => a[i] < a[j] \/ (a[i] = a[j] /\ d[i] < d[j])
      /\ \A p \in 1 .. n : \A l \in 1 .. Len(seqs[p]) : \E i \in 1 .. m : a[i] = p /\ d[i] = l
  BY <1>4 DEF ComesFrom
<1> HIDE DEF m
<1>6. ASSUME NEW i \in 1 .. m
      PROVE  /\ a[i] \in 1 .. n /\ a[i] - 1 \in 0 .. n - 1 /\ d[i] = 1
             /\ buckets[a[i] - 1] # <<>>
             /\ tasks[i] = [job |-> job, work |-> buckets[a[i] - 1]]
  <2>1. a[i] \in 1 .. n /\ d[i] \in 1 .. Len(seqs[a[i]]) /\ tasks[i] = seqs[a[i]][d[i]]
    BY <1>5
  <2>2. buckets[a[i] - 1] # <<>>
    <3>1. Len(seqs[a[i]]) # 0
      BY <2>1
    <3> QED BY <2>1, <3>1, <1>1
  <2>3. Len(seqs[a[i]]) = 1 /\ seqs[a[i]][1] = [job |-> job, work |-> buckets[a[i] - 1]]
    BY <2>1, <2>2, <1>1
  <2>4. d[i] = 1
    BY <2>1, <2>3
  <2> QED BY <2>1, <2>2, <2>3, <2>4, <1>1
<1> DEFINE b == [i \in 1 .. m |-> a[i] - 1]
<1>7. b \in [1 .. m -> 0 .. n - 1] /\ \A i \in 1 .. m : b[i] = a[i] - 1
  BY <1>6
<1> HIDE DEF b
<1>8. \A i, j \in 1 .. m : i < j => b[i] < b[j]
  <2> TAKE i, j \in 1 .. m
  <2> HAVE i < j
  <2>4. /\ a[i] \in 1 .. n /\ d[i] = 1
        /\ a[j] \in 1 .. n /\ d[j] = 1
    BY <1>6
  <2>0. /\ d[i] = 1 /\ d[j] = 1
        /\ a[i] \in Int /\ a[j] \in Int
    BY <2>4
  <2>2. a[i] < a[j] \/ (a[i] = a[j] /\ d[i] < d[j])
    BY <1>5
  <2>1. a[i] < a[j]
    BY <2>0, <2>2
  <2>3. b[i] = a[i] - 1 /\ b[j] = a[j] - 1
    BY <1>7
  <2> QED BY <2>0, <2>1, <2>3
<1>9. \A i \in 1 .. m : tasks[i] = [job |-> job, work |-> buckets[b[i]]]
  BY <1>6, <1>7
<1>10. ASSUME NEW c \in 0 .. n - 1, buckets[c] # <<>>
       PROVE  \E i \in 1 .. m : tasks[i] = [job |-> job, work |-> buckets[c]]
  <2>1. PICK p \in 1 .. n : p - 1 = c
    <3>1. c + 1 \in 1 .. n /\ (c + 1) - 1 = c
      OBVIOUS
    <3> QED BY <3>1
  <2>4. Len(seqs[p]) = 1
    BY <2>1, <1>1, <1>10
  <2>2. 1 \in 1 .. Len(seqs[p])
    BY <2>4
  <2>3. PICK i \in 1 .. m : a[i] = p
    BY <2>2, <1>5
  <2> QED BY <2>1, <2>3, <1>6
<1>11. AreTasks(tasks, job, n, buckets, b)
  BY <1>7, <1>8, <1>9, <1>10 DEF AreTasks, m
<1>12. \A k \in 1 .. m : tasks[k].work # <<>>
  <2> TAKE k \in 1 .. m
  <2>1. tasks[k] = [job |-> job, work |-> buckets[a[k] - 1]] /\ buckets[a[k] - 1] # <<>>
    BY <1>6
  <2> QED BY <2>1
<1> QED
  BY <1>3, <1>11, <1>12 DEF WorkLists, m

(* Lists of work enqueued behind others.                                   *)
LEMMA WorkEnqueued ==
  ASSUME NEW J, NEW E, NEW s \in WorkLists(J, E), NEW t \in WorkLists(J, E)
  PROVE  /\ s \o t \in WorkLists(J, E)
         /\ Len(s \o t) = Len(s) + Len(t)
         /\ Len(s) \in Nat /\ Len(t) \in Nat
         /\ \A i \in 1 .. Len(s) + Len(t) :
               (s \o t)[i] = IF i <= Len(s) THEN s[i] ELSE t[i - Len(s)]
<1> DEFINE T == [job : J, work : Seq(E)]
           u == s \o t
<1>1. /\ s \in Seq(T) /\ t \in Seq(T) /\ Len(s) \in Nat /\ Len(t) \in Nat
      /\ \A k \in 1 .. Len(s) : s[k].work # <<>>
      /\ \A k \in 1 .. Len(t) : t[k].work # <<>>
  BY LenProperties DEF WorkLists
<1>2. /\ u \in Seq(T)
      /\ Len(u) = Len(s) + Len(t)
      /\ \A i \in 1 .. Len(s) + Len(t) : u[i] = IF i <= Len(s) THEN s[i] ELSE t[i - Len(s)]
  <2> HIDE DEF T
  <2> QED BY <1>1, ConcatProperties
<1> HIDE DEF u
<1>3. ASSUME NEW i \in 1 .. Len(s) + Len(t) PROVE u[i].work # <<>>
  <2>1. CASE i <= Len(s)
    <3>1. i \in 1 .. Len(s) /\ u[i] = s[i]
      BY <2>1, <1>1, <1>2
    <3> QED BY <3>1, <1>1
  <2>2. CASE ~(i <= Len(s))
    <3>1. i - Len(s) \in 1 .. Len(t) /\ u[i] = t[i - Len(s)]
      BY <2>2, <1>1, <1>2
    <3> QED BY <3>1, <1>1
  <2> QED BY <2>1, <2>2
<1>4. u \in WorkLists(J, E)
  BY <1>2, <1>3 DEF WorkLists
<1> QED
  BY <1>1, <1>2, <1>4 DEF u
-----------------------------------------------------------------------------
(* What is left to do: entries with the job of their list.  Lists are apart *)
(* under B when B never has the same value for entries of two lists of one  *)
(* job.                                                                    *)
Pending(pool) ==
    UNION {{<<pool[k].job, pool[k].work[i]>> : i \in 1 .. Len(pool[k].work)} :
              k \in 1 .. Len(pool)}

Apart(pool, B) ==
    \A j, k \in 1 .. Len(pool) : j # k /\ pool[j].job = pool[k].job =>
        \A i \in 1 .. Len(pool[j].work), l \in 1 .. Len(pool[k].work) :
            B[<<pool[j].job, pool[j].work[i]>>] # B[<<pool[k].job, pool[k].work[l]>>]

(* The elements of Pending.                                                *)
LEMMA PendingIs ==
  ASSUME NEW pool, NEW x
  PROVE  x \in Pending(pool) <=>
            \E k \in 1 .. Len(pool) : \E i \in 1 .. Len(pool[k].work) :
                x = <<pool[k].job, pool[k].work[i]>>
BY SMTT(40) DEF Pending

(* The first entry of a list is pending.                                   *)
LEMMA FirstIsPending ==
  ASSUME NEW J, NEW E, NEW pool \in WorkLists(J, E), NEW k \in 1 .. Len(pool)
  PROVE  /\ pool[k].job \in J /\ Head(pool[k].work) \in E
         /\ Len(pool[k].work) \in Nat \ {0} /\ 1 \in 1 .. Len(pool[k].work)
         /\ Head(pool[k].work) = pool[k].work[1]
         /\ <<pool[k].job, Head(pool[k].work)>> \in Pending(pool)
<1>1. pool \in Seq([job : J, work : Seq(E)]) /\ pool[k].work # <<>>
  BY DEF WorkLists
<1>2. pool[k] \in [job : J, work : Seq(E)]
  <2> DEFINE T == [job : J, work : Seq(E)]
  <2>1. pool \in Seq(T)
    BY <1>1
  <2> HIDE DEF T
  <2>2. pool[k] \in T
    BY <2>1, ElementOfSeq
  <2> QED BY <2>2 DEF T
<1>3. pool[k].job \in J /\ pool[k].work \in Seq(E)
  BY <1>2
<1>4. Head(pool[k].work) \in E /\ Len(pool[k].work) \in Nat \ {0}
  BY <1>1, <1>3, HeadTailProperties, EmptySeq, LenProperties
<1>5. Head(pool[k].work) = pool[k].work[1]
  BY <1>3, <1>1
<1>6. 1 \in 1 .. Len(pool[k].work)
  BY <1>4
<1>7. <<pool[k].job, Head(pool[k].work)>> \in Pending(pool)
  BY <1>5, <1>6, PendingIs
<1> QED
  BY <1>3, <1>4, <1>5, <1>6, <1>7

(* Entries go away one by one: nothing becomes pending and lists stay apart. *)
LeftAfter(rest, pool, k) ==
    /\ Pending(rest) \subseteq Pending(pool)
    /\ Pending(pool) \subseteq Pending(rest) \cup {<<pool[k].job, Head(pool[k].work)>>}
    /\ \A B : Apart(pool, B) => Apart(rest, B)

(* What is left when the first entry of list k is done.                    *)
LEMMA PendingLeft ==
  ASSUME NEW J, NEW E, NEW pool \in WorkLists(J, E), NEW k \in 1 .. Len(pool),
         NEW rest, NEW f, IsLeftOf(rest, pool, f), AllButFirstLeft(rest, pool, k)
  PROVE  LeftAfter(rest, pool, k)
<1>1. AllButFirstLeft(rest, pool, k)
  OBVIOUS
<1>2. IsLeftOf(rest, pool, f)
  OBVIOUS
<1>3. \A i \in 1 .. Len(rest) :
          /\ f[i] \in 1 .. Len(pool)
          /\ rest[i].job = pool[f[i]].job
          /\ \A m \in 1 .. Len(rest[i].work) :
                \E l \in 1 .. Len(pool[f[i]].work) : rest[i].work[m] = pool[f[i]].work[l]
  BY <1>2 DEF IsLeftOf
<1>4. ASSUME NEW x \in Pending(rest) PROVE x \in Pending(pool)
  <2>1. PICK i \in 1 .. Len(rest) : \E m \in 1 .. Len(rest[i].work) :
                x = <<rest[i].job, rest[i].work[m]>>
    BY PendingIs
  <2>2. PICK m \in 1 .. Len(rest[i].work) : x = <<rest[i].job, rest[i].work[m]>>
    BY <2>1
  <2>3. PICK l \in 1 .. Len(pool[f[i]].work) : rest[i].work[m] = pool[f[i]].work[l]
    BY <1>3
  <2>4. f[i] \in 1 .. Len(pool) /\ x = <<pool[f[i]].job, pool[f[i]].work[l]>>
    BY <1>3, <2>2, <2>3
  <2> QED BY <2>4, PendingIs
<1>5. ASSUME NEW x \in Pending(pool), x # <<pool[k].job, Head(pool[k].work)>>
      PROVE  x \in Pending(rest)
  <2>1. PICK j \in 1 .. Len(pool) : \E l \in 1 .. Len(pool[j].work) :
                x = <<pool[j].job, pool[j].work[l]>>
    BY PendingIs
  <2>2. PICK l \in 1 .. Len(pool[j].work) : x = <<pool[j].job, pool[j].work[l]>>
    BY <2>1
  <2>3. j # k \/ l # 1
    <3>1. Head(pool[k].work) = pool[k].work[1]
      BY FirstIsPending
    <3> QED BY <3>1, <2>2, <1>5
  <2>4. PICK i \in 1 .. Len(rest) :
                /\ rest[i].job = pool[j].job
                /\ \E m \in 1 .. Len(rest[i].work) : rest[i].work[m] = pool[j].work[l]
    BY <2>3, <1>1 DEF AllButFirstLeft
  <2>5. PICK m \in 1 .. Len(rest[i].work) : rest[i].work[m] = pool[j].work[l]
    BY <2>4
  <2>6. x = <<rest[i].job, rest[i].work[m]>>
    BY <2>2, <2>4, <2>5
  <2> QED BY <2>6, PendingIs
<1>6. ASSUME NEW B, Apart(pool, B) PROVE Apart(rest, B)
  <2> SUFFICES ASSUME NEW i \in 1 .. Len(rest), NEW j \in 1 .. Len(rest),
                      i # j, rest[i].job = rest[j].job,
                      NEW m \in 1 .. Len(rest[i].work), NEW l \in 1 .. Len(rest[j].work)
               PROVE  B[<<rest[i].job, rest[i].work[m]>>] # B[<<rest[j].job, rest[j].work[l]>>]
    BY Zenon DEF Apart
  <2>1. f[i] # f[j]
    <3>2. i \in Int /\ j \in Int
      OBVIOUS
    <3>3. CASE i < j
      <4>1. f[i] < f[j]
        BY <3>3, <1>2 DEF IsLeftOf
      <4>2. f[i] \in Int /\ f[j] \in Int
        BY <1>3
      <4> QED BY <4>1, <4>2
    <3>4. CASE j < i
      <4>1. f[j] < f[i]
        BY <3>4, <1>2 DEF IsLeftOf
      <4>2. f[i] \in Int /\ f[j] \in Int
        BY <1>3
      <4> QED BY <4>1, <4>2
    <3> QED BY <3>2, <3>3, <3>4
  <2>2. f[i] \in 1 .. Len(pool) /\ f[j] \in 1 .. Len(pool)
        /\ rest[i].job = pool[f[i]].job /\ rest[j].job = pool[f[j]].job
    BY <1>3
  <2>3. PICK a \in 1 .. Len(pool[f[i]].work) : rest[i].work[m] = pool[f[i]].work[a]
    BY <1>3
  <2>4. PICK b \in 1 .. Len(pool[f[j]].work) : rest[j].work[l] = pool[f[j]].work[b]
    BY <1>3
  <2>5. B[<<pool[f[i]].job, pool[f[i]].work[a]>>] # B[<<pool[f[j]].job, pool[f[j]].work[b]>>]
    BY <2>1, <2>2, <1>6 DEF Apart
  <2> QED BY <2>2, <2>3, <2>4, <2>5
<1> QED
  BY <1>4, <1>5, <1>6 DEF LeftAfter

(* An iteration takes away the first entry of its list and no other.       *)
LEMMA PendingAfter ==
  ASSUME NEW J, NEW E, NEW pool \in WorkLists(J, E), NEW k \in 1 .. Len(pool), NEW rest,
         rest = IF Len(pool[k].work) = 1 THEN RemoveAt(pool, k)
                ELSE [pool EXCEPT ![k].work = Tail(@)]
  PROVE  /\ rest \in WorkLists(J, E)
         /\ LeftAfter(rest, pool, k)
<1>1. rest \in WorkLists(J, E) /\ AllButFirstLeft(rest, pool, k)
  BY WorkRemoved
<1>2. PICK f : IsLeftOf(rest, pool, f)
  BY WorkRemoved
<1>3. LeftAfter(rest, pool, k)
  BY <1>1, <1>2, PendingLeft, Zenon
<1> QED
  BY <1>1, <1>3

(* Lists enqueued behind others whose jobs are others.                     *)
LEMMA PendingEnqueued ==
  ASSUME NEW J, NEW E, NEW s \in WorkLists(J, E), NEW t \in WorkLists(J, E)
  PROVE  /\ s \o t \in WorkLists(J, E)
         /\ Pending(s \o t) = Pending(s) \cup Pending(t)
         /\ \A B : /\ Apart(s, B) /\ Apart(t, B)
                   /\ \A x \in Pending(s), y \in Pending(t) : x[1] # y[1]
                   => Apart(s \o t, B)
<1> DEFINE u == s \o t
           n == Len(s)
           m == Len(t)
<1>1. u \in WorkLists(J, E) /\ Len(u) = n + m /\ n \in Nat /\ m \in Nat
  BY WorkEnqueued
<1>2. \A i \in 1 .. n + m : u[i] = IF i <= n THEN s[i] ELSE t[i - n]
  BY WorkEnqueued
<1> HIDE DEF u
<1>3. \A i \in 1 .. n : i \in 1 .. Len(u) /\ u[i] = s[i]
  <2> TAKE i \in 1 .. n
  <2>1. i \in 1 .. n + m /\ i <= n
    BY <1>1
  <2> QED BY <2>1, <1>1, <1>2
<1>4. \A i \in 1 .. m : i + n \in 1 .. Len(u) /\ u[i + n] = t[i]
  <2> TAKE i \in 1 .. m
  <2>1. i + n \in 1 .. n + m /\ ~(i + n <= n) /\ (i + n) - n = i
    BY <1>1
  <2>2. u[i + n] = t[(i + n) - n]
    BY <2>1, <1>2
  <2> QED BY <2>1, <2>2, <1>1
<1>5. \A i \in 1 .. Len(u) : \/ i \in 1 .. n /\ u[i] = s[i]
                             \/ i - n \in 1 .. m /\ u[i] = t[i - n] /\ ~(i \in 1 .. n)
  <2> TAKE i \in 1 .. Len(u)
  <2>1. i \in 1 .. n + m
    BY <1>1
  <2>2. CASE i <= n
    BY <2>1, <2>2, <1>1, <1>2
  <2>3. CASE ~(i <= n)
    BY <2>1, <2>3, <1>1, <1>2
  <2> QED BY <2>2, <2>3
<1>n. n = Len(s) /\ m = Len(t)
  OBVIOUS
<1> HIDE DEF n, m
<1>6. ASSUME NEW x \in Pending(s) PROVE x \in Pending(u)
  <2>1. PICK k \in 1 .. n : \E i \in 1 .. Len(s[k].work) : x = <<s[k].job, s[k].work[i]>>
    BY PendingIs, <1>n
  <2>2. k \in 1 .. Len(u) /\ \E i \in 1 .. Len(u[k].work) : x = <<u[k].job, u[k].work[i]>>
    BY <2>1, <1>3
  <2> QED BY <2>2, PendingIs
<1>7. ASSUME NEW x \in Pending(t) PROVE x \in Pending(u)
  <2>1. PICK k \in 1 .. m : \E i \in 1 .. Len(t[k].work) : x = <<t[k].job, t[k].work[i]>>
    BY PendingIs, <1>n
  <2>2. k + n \in 1 .. Len(u) /\ \E i \in 1 .. Len(u[k + n].work) :
                                    x = <<u[k + n].job, u[k + n].work[i]>>
    BY <2>1, <1>4
  <2> QED BY <2>2, PendingIs
<1>8. ASSUME NEW x \in Pending(u) PROVE x \in Pending(s) \cup Pending(t)
  <2>1. PICK k \in 1 .. Len(u) : \E i \in 1 .. Len(u[k].work) : x = <<u[k].job, u[k].work[i]>>
    BY PendingIs
  <2>2. CASE k \in 1 .. n /\ u[k] = s[k]
    <3>1. \E i \in 1 .. Len(s[k].work) : x = <<s[k].job, s[k].work[i]>>
      BY <2>1, <2>2
    <3> QED BY <3>1, <2>2, <1>n, PendingIs
  <2>3. CASE k - n \in 1 .. m /\ u[k] = t[k - n]
    <3>1. \E i \in 1 .. Len(t[k - n].work) : x = <<t[k - n].job, t[k - n].work[i]>>
      BY <2>1, <2>3
    <3> QED BY <3>1, <2>3, <1>n, PendingIs
  <2> QED BY <2>2, <2>3, <1>5
<1>9. ASSUME NEW B, Apart(s, B), Apart(t, B),
             \A x \in Pending(s), y \in Pending(t) : x[1] # y[1]
      PROVE  Apart(u, B)
  <2> SUFFICES ASSUME NEW i \in 1 .. Len(u), NEW j \in 1 .. Len(u),
                      i # j, u[i].job = u[j].job,
                      NEW a \in 1 .. Len(u[i].work), NEW b \in 1 .. Len(u[j].work)
               PROVE  B[<<u[i].job, u[i].work[a]>>] # B[<<u[j].job, u[j].work[b]>>]
    BY DEF Apart
  <2>0. i \in Int /\ j \in Int
    OBVIOUS
  <2>1. CASE i \in 1 .. n /\ u[i] = s[i] /\ j \in 1 .. n /\ u[j] = s[j]
    <3>1. s[i].job = s[j].job /\ a \in 1 .. Len(s[i].work) /\ b \in 1 .. Len(s[j].work)
      BY <2>1
    <3>2. B[<<s[i].job, s[i].work[a]>>] # B[<<s[j].job, s[j].work[b]>>]
      BY <3>1, <2>1, <1>9, <1>n DEF Apart
    <3> QED BY <3>2, <2>1
  <2>2. CASE i - n \in 1 .. m /\ u[i] = t[i - n] /\ j - n \in 1 .. m /\ u[j] = t[j - n]
    <3>1. /\ t[i - n].job = t[j - n].job /\ a \in 1 .. Len(t[i - n].work)
          /\ b \in 1 .. Len(t[j - n].work)
      BY <2>2
    <3>2. i - n # j - n
      BY <2>0, <1>1
    <3>3. B[<<t[i - n].job, t[i - n].work[a]>>] # B[<<t[j - n].job, t[j - n].work[b]>>]
      BY <3>1, <3>2, <2>2, <1>9, <1>n, SMTT(40) DEF Apart
    <3> QED BY <3>3, <2>2
  <2>3. CASE i \in 1 .. n /\ u[i] = s[i] /\ j - n \in 1 .. m /\ u[j] = t[j - n]
    <3>1. <<s[i].job, s[i].work[a]>> \in Pending(s)
      BY <2>3, <1>n, PendingIs
    <3>2. <<t[j - n].job, t[j - n].work[b]>> \in Pending(t)
      BY <2>3, <1>n, PendingIs
    <3>3. <<s[i].job, s[i].work[a]>>[1] = <<t[j - n].job, t[j - n].work[b]>>[1]
      BY <2>3
    <3> QED BY <3>1, <3>2, <3>3, <1>9
  <2>4. CASE j \in 1 .. n /\ u[j] = s[j] /\ i - n \in 1 .. m /\ u[i] = t[i - n]
    <3>1. <<s[j].job, s[j].work[b]>> \in Pending(s)
      BY <2>4, <1>n, PendingIs
    <3>2. <<t[i - n].job, t[i - n].work[a]>> \in Pending(t)
      BY <2>4, <1>n, PendingIs
    <3>3. <<s[j].job, s[j].work[b]>>[1] = <<t[i - n].job, t[i - n].work[a]>>[1]
      BY <2>4
    <3> QED BY <3>1, <3>2, <3>3, <1>9
  <2> QED BY <2>1, <2>2, <2>3, <2>4, <1>5
<1>10. Pending(u) = Pending(s) \cup Pending(t)
  BY <1>6, <1>7, <1>8
<1> QED
  BY <1>1, <1>9, <1>10 DEF u

(* The entries of the buckets are pending, and what tells the bucket of an    *)
(* entry keeps the tasks apart.                                              *)
HoldBuckets(tasks, job, n, buckets) ==
    /\ Pending(tasks) = {job} \X UNION {Range(buckets[c]) : c \in 0 .. n - 1}
    /\ \A B : (\A c \in 0 .. n - 1 : \A e \in Range(buckets[c]) : B[<<job, e>>] = c)
              => Apart(tasks, B)

(* One list for each bucket that is not empty: what the buckets hold, and   *)
(* apart when B tells the bucket of an entry.                              *)
LEMMA PendingOfTasks ==
  ASSUME NEW E, NEW job, NEW n \in Nat, NEW buckets,
         \A c \in 0 .. n - 1 : buckets[c] \in Seq(E), NEW tasks, NEW b,
         AreTasks(tasks, job, n, buckets, b)
  PROVE  HoldBuckets(tasks, job, n, buckets)
<1>2. AreTasks(tasks, job, n, buckets, b)
  OBVIOUS
<1> DEFINE m == Len(tasks)
<1>3. \A i \in 1 .. m : /\ b[i] \in 0 .. n - 1
                        /\ tasks[i].job = job
                        /\ tasks[i].work = buckets[b[i]]
  <2> TAKE i \in 1 .. m
  <2>1. b[i] \in 0 .. n - 1 /\ tasks[i] = [job |-> job, work |-> buckets[b[i]]]
    BY <1>2 DEF AreTasks
  <2> QED BY <2>1
<1>4. \A c \in 0 .. n - 1 : buckets[c] # <<>> =>
          \E i \in 1 .. m : tasks[i] = [job |-> job, work |-> buckets[c]]
  BY <1>2 DEF AreTasks
<1>5. \A i, j \in 1 .. m : i # j => b[i] # b[j]
  <2> TAKE i, j \in 1 .. m
  <2> HAVE i # j
  <2>1. b[i] \in Int /\ b[j] \in Int
    BY <1>3
  <2>2. i < j => b[i] < b[j]
    BY <1>2 DEF AreTasks
  <2>3. j < i => b[j] < b[i]
    BY <1>2 DEF AreTasks
  <2>4. i < j \/ j < i
    OBVIOUS
  <2> QED BY <2>1, <2>2, <2>3, <2>4
<1>6. \A c \in 0 .. n - 1 : /\ DOMAIN buckets[c] = 1 .. Len(buckets[c])
                            /\ Range(buckets[c]) = {buckets[c][i] : i \in 1 .. Len(buckets[c])}
  <2> TAKE c \in 0 .. n - 1
  <2>1. DOMAIN buckets[c] = 1 .. Len(buckets[c])
    BY LenProperties
  <2> QED BY <2>1 DEF Range
<1>n. m = Len(tasks)
  OBVIOUS
<1> HIDE DEF m
<1>7. ASSUME NEW x \in Pending(tasks)
      PROVE  x \in {job} \X UNION {Range(buckets[c]) : c \in 0 .. n - 1}
  <2>1. PICK k \in 1 .. m : \E i \in 1 .. Len(tasks[k].work) :
                x = <<tasks[k].job, tasks[k].work[i]>>
    BY PendingIs, <1>n, SMTT(40)
  <2>2. tasks[k].job = job /\ tasks[k].work = buckets[b[k]] /\ b[k] \in 0 .. n - 1
    BY <1>3
  <2>3. PICK i \in 1 .. Len(buckets[b[k]]) : x = <<job, buckets[b[k]][i]>>
    BY <2>1, <2>2
  <2>4. buckets[b[k]][i] \in Range(buckets[b[k]])
    BY <2>2, <1>6
  <2> QED BY <2>2, <2>3, <2>4
<1>8. ASSUME NEW c \in 0 .. n - 1, NEW e \in Range(buckets[c])
      PROVE  <<job, e>> \in Pending(tasks)
  <2>1. PICK i \in 1 .. Len(buckets[c]) : e = buckets[c][i]
    BY <1>6
  <2>2. buckets[c] # <<>>
    BY <2>1
  <2>3. PICK k \in 1 .. m : tasks[k] = [job |-> job, work |-> buckets[c]]
    BY <2>2, <1>4
  <2>4. tasks[k].job = job /\ tasks[k].work = buckets[c]
    BY <2>3
  <2>5. \E l \in 1 .. Len(tasks[k].work) : <<job, e>> = <<tasks[k].job, tasks[k].work[l]>>
    BY <2>1, <2>4
  <2> QED BY <2>5, <1>n, PendingIs
<1>9. ASSUME NEW B, \A c \in 0 .. n - 1 : \A e \in Range(buckets[c]) : B[<<job, e>>] = c
      PROVE  Apart(tasks, B)
  <2> SUFFICES ASSUME NEW i \in 1 .. m, NEW j \in 1 .. m,
                      i # j, tasks[i].job = tasks[j].job,
                      NEW a \in 1 .. Len(tasks[i].work), NEW d \in 1 .. Len(tasks[j].work)
               PROVE  B[<<tasks[i].job, tasks[i].work[a]>>] # B[<<tasks[j].job, tasks[j].work[d]>>]
    BY <1>n, Zenon DEF Apart
  <2>1. /\ tasks[i].job = job /\ tasks[i].work = buckets[b[i]] /\ b[i] \in 0 .. n - 1
        /\ tasks[j].job = job /\ tasks[j].work = buckets[b[j]] /\ b[j] \in 0 .. n - 1
    BY <1>3
  <2>2. /\ tasks[i].work[a] \in Range(buckets[b[i]])
        /\ tasks[j].work[d] \in Range(buckets[b[j]])
    BY <2>1, <1>6
  <2>3. B[<<job, tasks[i].work[a]>>] = b[i] /\ B[<<job, tasks[j].work[d]>>] = b[j]
    BY <2>1, <2>2, <1>9
  <2> QED BY <2>1, <2>3, <1>5
<1>10. Pending(tasks) = {job} \X UNION {Range(buckets[c]) : c \in 0 .. n - 1}
  <2>1. \A y \in {job} \X UNION {Range(buckets[c]) : c \in 0 .. n - 1} : y \in Pending(tasks)
    BY <1>8
  <2> QED BY <2>1, <1>7
<1> QED
  BY <1>9, <1>10 DEF HoldBuckets

(* The tasks of a phase.                                                   *)
LEMMA PendingTasks ==
  ASSUME NEW J, NEW E, NEW job \in J, NEW n \in Nat, NEW buckets,
         \A c \in 0 .. n - 1 : buckets[c] \in Seq(E), NEW seqs,
         \A t \in 1 .. n : seqs[t] = IF buckets[t - 1] = <<>> THEN <<>>
                                     ELSE << [job |-> job, work |-> buckets[t - 1]] >>,
         NEW tasks, tasks = Joined(n, seqs)
  PROVE  /\ tasks \in WorkLists(J, E)
         /\ HoldBuckets(tasks, job, n, buckets)
<1>1. tasks \in WorkLists(J, E)
  BY TasksOfBuckets
<1>2. PICK b : AreTasks(tasks, job, n, buckets, b)
  BY TasksOfBuckets
<1>3. \A c \in 0 .. n - 1 : buckets[c] \in Seq(E)
  OBVIOUS
<1>4. HoldBuckets(tasks, job, n, buckets)
  BY <1>2, <1>3, PendingOfTasks, Zenon
<1> QED
  BY <1>1, <1>4

(* What is pending has the types of the lists.                             *)
LEMMA PendingTyped ==
  ASSUME NEW J, NEW E, NEW pool \in WorkLists(J, E)
  PROVE  Pending(pool) \subseteq J \X E
<1> DEFINE T == [job : J, work : Seq(E)]
<1>1. pool \in Seq(T)
  BY DEF WorkLists
<1>2. \A k \in 1 .. Len(pool) : pool[k] \in T
  <2> HIDE DEF T
  <2> QED BY <1>1, ElementOfSeq
<1>3. ASSUME NEW k \in 1 .. Len(pool), NEW i \in 1 .. Len(pool[k].work)
      PROVE  <<pool[k].job, pool[k].work[i]>> \in J \X E
  <2>1. pool[k].job \in J /\ pool[k].work \in Seq(E)
    BY <1>2
  <2>2. pool[k].work[i] \in E
    BY <2>1, ElementOfSeq
  <2> QED BY <2>1, <2>2
<1> QED
  BY <1>3, PendingIs

(* Lists stay apart when the pending entries keep their values.            *)
LEMMA ApartSame ==
  ASSUME NEW pool, NEW B, NEW C, Apart(pool, B), \A x \in Pending(pool) : C[x] = B[x]
  PROVE  Apart(pool, C)
<1> SUFFICES ASSUME NEW j \in 1 .. Len(pool), NEW k \in 1 .. Len(pool),
                    j # k, pool[j].job = pool[k].job,
                    NEW i \in 1 .. Len(pool[j].work), NEW l \in 1 .. Len(pool[k].work)
             PROVE  C[<<pool[j].job, pool[j].work[i]>>] # C[<<pool[k].job, pool[k].work[l]>>]
  BY Zenon DEF Apart
<1>1. /\ <<pool[j].job, pool[j].work[i]>> \in Pending(pool)
      /\ <<pool[k].job, pool[k].work[l]>> \in Pending(pool)
  BY PendingIs
<1>2. B[<<pool[j].job, pool[j].work[i]>>] # B[<<pool[k].job, pool[k].work[l]>>]
  BY DEF Apart
<1> QED
  BY <1>1, <1>2

(* An empty pool.                                                          *)
LEMMA NothingPending ==
  ASSUME NEW J, NEW E
  PROVE  /\ <<>> \in WorkLists(J, E) /\ Pending(<<>>) = {} /\ \A B : Apart(<<>>, B)
BY DEF WorkLists, Pending, Apart

-----------------------------------------------------------------------------
(* No element twice: in a sequence, in several, in each list of a pool.     *)
Distinct(s) == \A i, j \in 1 .. Len(s) : i # j => s[i] # s[j]
AllDistinct(n, seqs) ==
    /\ \A i \in 1 .. n : Distinct(seqs[i])
    /\ \A i, j \in 1 .. n : i # j => \A k \in 1 .. Len(seqs[i]), l \in 1 .. Len(seqs[j]) :
                                        seqs[i][k] # seqs[j][l]
NoneTwice(pool) == \A k \in 1 .. Len(pool) : Distinct(pool[k].work)

(* Joined has nothing twice when its sequences have not.                   *)
LEMMA JoinedDistinct ==
  ASSUME NEW S, NEW n \in Nat, NEW seqs, SeqsOver(S, n, seqs), AllDistinct(n, seqs)
  PROVE  Distinct(Joined(n, seqs))
<1> DEFINE t == Joined(n, seqs)
<1>1. PICK a, b : ComesFrom(seqs, n, t, a, b)
  BY JoinedFrom DEF SeqsOver
<1> HIDE DEF t
<1>2. \A i \in 1 .. Len(t) : /\ a[i] \in 1 .. n /\ b[i] \in 1 .. Len(seqs[a[i]])
                             /\ t[i] = seqs[a[i]][b[i]]
  BY <1>1 DEF ComesFrom
<1>3. \A i, j \in 1 .. Len(t) : i < j => a[i] # a[j] \/ b[i] # b[j]
  <2> TAKE i, j \in 1 .. Len(t)
  <2> HAVE i < j
  <2>1. a[i] < a[j] \/ (a[i] = a[j] /\ b[i] < b[j])
    BY <1>1 DEF ComesFrom
  <2>2. a[i] \in Int /\ a[j] \in Int /\ b[i] \in Int /\ b[j] \in Int
    BY <1>2
  <2> QED BY <2>1, <2>2
<1>4. ASSUME NEW i \in 1 .. Len(t), NEW j \in 1 .. Len(t), i # j PROVE t[i] # t[j]
  <2>1. i \in Int /\ j \in Int
    OBVIOUS
  <2>2. a[i] # a[j] \/ b[i] # b[j]
    BY <2>1, <1>3, <1>4
  <2>3. CASE a[i] = a[j]
    <3>1. Distinct(seqs[a[i]])
      BY <1>2 DEF AllDistinct
    <3> QED BY <3>1, <2>2, <2>3, <1>2, SMTT(40) DEF Distinct
  <2>4. CASE a[i] # a[j]
    <3>1. a[i] \in 1 .. n /\ a[j] \in 1 .. n
      BY <1>2
    <3>2. \A l \in 1 .. Len(seqs[a[i]]), m \in 1 .. Len(seqs[a[j]]) :
             seqs[a[i]][l] # seqs[a[j]][m]
      BY <3>1, <2>4 DEF AllDistinct
    <3> QED BY <3>2, <1>2, ZenonT(60)
  <2> QED BY <2>3, <2>4
<1> QED
  BY <1>4 DEF Distinct, t

(* What is kept of s is not there twice when it is not in s.               *)
LEMMA KeptDistinct ==
  ASSUME NEW S, NEW s \in Seq(S), Distinct(s), NEW bucket, NEW t
  PROVE  Distinct(Kept(s, bucket, t))
<1> DEFINE seqs == [i \in 1 .. Len(s) |-> IF bucket[s[i]] = t THEN <<s[i]>> ELSE <<>>]
<1>1. Len(s) \in Nat /\ \A i \in 1 .. Len(s) : s[i] \in S
  BY LenProperties
<1>2. Kept(s, bucket, t) = Joined(Len(s), seqs)
  BY DEF Kept
<1>3. \A i \in 1 .. Len(s) : seqs[i] = IF bucket[s[i]] = t THEN <<s[i]>> ELSE <<>>
  OBVIOUS
<1> HIDE DEF seqs
<1>4. \A i \in 1 .. Len(s) : /\ seqs[i] \in Seq(S)
                             /\ \A k \in 1 .. Len(seqs[i]) : k = 1 /\ seqs[i][k] = s[i]
  <2> TAKE i \in 1 .. Len(s)
  <2>1. s[i] \in S /\ seqs[i] = IF bucket[s[i]] = t THEN <<s[i]>> ELSE <<>>
    BY <1>1, <1>3
  <2> QED BY <2>1
<1>5. SeqsOver(S, Len(s), seqs)
  BY <1>4 DEF SeqsOver
<1>6. AllDistinct(Len(s), seqs)
  <2>1. \A i \in 1 .. Len(s) : Distinct(seqs[i])
    BY <1>4 DEF Distinct
  <2>2. ASSUME NEW i \in 1 .. Len(s), NEW j \in 1 .. Len(s), i # j,
               NEW k \in 1 .. Len(seqs[i]), NEW l \in 1 .. Len(seqs[j])
        PROVE  seqs[i][k] # seqs[j][l]
    <3>1. seqs[i][k] = s[i] /\ seqs[j][l] = s[j]
      BY <1>4
    <3> QED BY <3>1, <2>2 DEF Distinct
  <2> QED BY <2>1, <2>2 DEF AllDistinct
<1> QED
  BY <1>1, <1>2, <1>5, <1>6, JoinedDistinct

(* A bucket has no entry twice when the batch has not.                     *)
LEMMA DealtDistinct ==
  ASSUME NEW S, NEW n \in Nat, NEW seqs, SeqsOver(S, n, seqs), AllDistinct(n, seqs),
         NEW bucket, NEW t
  PROVE  Distinct(Dealt(n, seqs, bucket, t))
<1> DEFINE kept == [i \in 1 .. n |-> Kept(seqs[i], bucket, t)]
<1>1. Dealt(n, seqs, bucket, t) = Joined(n, kept)
  BY DEF Dealt
<1>2. \A i \in 1 .. n : /\ kept[i] \in Seq(S) /\ Distinct(kept[i])
                        /\ Range(kept[i]) = {e \in Range(seqs[i]) : bucket[e] = t}
  BY KeptElements, KeptDistinct DEF SeqsOver, AllDistinct
<1> HIDE DEF kept
<1>3. SeqsOver(S, n, kept)
  BY <1>2 DEF SeqsOver
<1>4. ASSUME NEW i \in 1 .. n, NEW j \in 1 .. n, i # j,
             NEW k \in 1 .. Len(kept[i]), NEW l \in 1 .. Len(kept[j])
      PROVE  kept[i][k] # kept[j][l]
  <2>0. /\ k \in DOMAIN kept[i] /\ l \in DOMAIN kept[j]
        /\ DOMAIN seqs[i] = 1 .. Len(seqs[i]) /\ DOMAIN seqs[j] = 1 .. Len(seqs[j])
    BY <1>2, LenProperties DEF SeqsOver
  <2>1. kept[i][k] \in Range(seqs[i]) /\ kept[j][l] \in Range(seqs[j])
    BY <1>2, <2>0 DEF Range
  <2>2. PICK a \in 1 .. Len(seqs[i]) : kept[i][k] = seqs[i][a]
    BY <2>0, <2>1 DEF Range
  <2>3. PICK b \in 1 .. Len(seqs[j]) : kept[j][l] = seqs[j][b]
    BY <2>0, <2>1 DEF Range
  <2> QED BY <2>2, <2>3, <1>4 DEF AllDistinct
<1>5. AllDistinct(n, kept)
  BY <1>2, <1>4 DEF AllDistinct
<1> QED
  BY <1>1, <1>3, <1>5, JoinedDistinct

(* The tasks of such buckets have none twice.                              *)
LEMMA TasksDistinct ==
  ASSUME NEW J, NEW E, NEW job \in J, NEW n \in Nat, NEW buckets,
         \A c \in 0 .. n - 1 : buckets[c] \in Seq(E) /\ Distinct(buckets[c]), NEW seqs,
         \A t \in 1 .. n : seqs[t] = IF buckets[t - 1] = <<>> THEN <<>>
                                     ELSE << [job |-> job, work |-> buckets[t - 1]] >>,
         NEW tasks, tasks = Joined(n, seqs)
  PROVE  NoneTwice(tasks)
<1>1. PICK b : AreTasks(tasks, job, n, buckets, b)
  BY TasksOfBuckets
<1>2. ASSUME NEW k \in 1 .. Len(tasks) PROVE Distinct(tasks[k].work)
  <2>1. b[k] \in 0 .. n - 1 /\ tasks[k] = [job |-> job, work |-> buckets[b[k]]]
    BY <1>1 DEF AreTasks
  <2>2. tasks[k].work = buckets[b[k]]
    BY <2>1
  <2> QED BY <2>1, <2>2
<1> QED
  BY <1>2 DEF NoneTwice

(* Neither have lists enqueued behind others.                              *)
LEMMA EnqueuedDistinct ==
  ASSUME NEW J, NEW E, NEW s \in WorkLists(J, E), NEW t \in WorkLists(J, E),
         NoneTwice(s), NoneTwice(t)
  PROVE  NoneTwice(s \o t)
<1> DEFINE u == s \o t
           n == Len(s)
           m == Len(t)
<1>1. Len(u) = n + m /\ n \in Nat /\ m \in Nat
  BY WorkEnqueued
<1>2. \A i \in 1 .. n + m : u[i] = IF i <= n THEN s[i] ELSE t[i - n]
  BY WorkEnqueued
<1> HIDE DEF u
<1>3. ASSUME NEW k \in 1 .. Len(u) PROVE Distinct(u[k].work)
  <2>1. CASE k <= n
    <3>1. k \in 1 .. Len(s) /\ u[k] = s[k]
      BY <2>1, <1>1, <1>2
    <3> QED BY <3>1 DEF NoneTwice
  <2>2. CASE ~(k <= n)
    <3>1. k - n \in 1 .. Len(t) /\ u[k] = t[k - n]
      BY <2>2, <1>1, <1>2
    <3> QED BY <3>1 DEF NoneTwice
  <2> QED BY <2>1, <2>2
<1> QED
  BY <1>3 DEF NoneTwice, u

(* Either list k was down to one entry and is gone, or it has lost its first. *)
WithoutFirst(rest, pool, k) ==
    \/ \A i \in 1 .. Len(rest) : \E j \in 1 .. Len(pool) : j # k /\ rest[i] = pool[j]
    \/ /\ Len(rest) = Len(pool)
       /\ \A j \in 1 .. Len(pool) : j # k => rest[j] = pool[j]
       /\ rest[k].job = pool[k].job
       /\ Len(rest[k].work) = Len(pool[k].work) - 1
       /\ \A m \in 1 .. Len(rest[k].work) : rest[k].work[m] = pool[k].work[m + 1]

(* What an iteration does to the pool.                                     *)
LEMMA FirstTaken ==
  ASSUME NEW J, NEW E, NEW pool \in WorkLists(J, E), NEW k \in 1 .. Len(pool), NEW rest,
         rest = IF Len(pool[k].work) = 1 THEN RemoveAt(pool, k)
                ELSE [pool EXCEPT ![k].work = Tail(@)]
  PROVE  WithoutFirst(rest, pool, k)
<1> DEFINE T == [job : J, work : Seq(E)]
           n == Len(pool)
<1>1. pool \in Seq(T) /\ n \in Nat
  BY LenProperties DEF WorkLists
<1>2. CASE Len(pool[k].work) = 1
  <2>1. /\ Len(rest) = n - 1
        /\ \A i \in 1 .. n - 1 : rest[i] = IF i < k THEN pool[i] ELSE pool[i + 1]
    <3> HIDE DEF T
    <3> QED BY <1>1, <1>2, RemoveAtFrom
  <2>2. ASSUME NEW i \in 1 .. n - 1
        PROVE  \E j \in 1 .. n : j # k /\ rest[i] = pool[j]
    <3>1. CASE i < k
      <4>1. i \in 1 .. n /\ i # k /\ rest[i] = pool[i]
        BY <3>1, <2>1, <1>1, SMTT(40)
      <4> QED BY <4>1
    <3>2. CASE ~(i < k)
      <4>1. i + 1 \in 1 .. n /\ i + 1 # k /\ rest[i] = pool[i + 1]
        BY <3>2, <2>1, <1>1, SMTT(40)
      <4> QED BY <4>1
    <3> QED BY <3>1, <3>2
  <2> QED BY <2>1, <2>2 DEF WithoutFirst
<1>3. CASE Len(pool[k].work) # 1
  <2> DEFINE w == pool[k].work
             t == Tail(w)
  <2>1. pool[k] \in T /\ w \in Seq(E) /\ w # <<>> /\ Len(w) \in Nat
    <3>1. pool[k] \in T
      <4> HIDE DEF T
      <4> QED BY <1>1, ElementOfSeq
    <3> QED BY <3>1, LenProperties DEF WorkLists
  <2>2. Len(t) = Len(w) - 1 /\ \A i \in 1 .. Len(t) : t[i] = w[i + 1]
    <3> HIDE DEF w
    <3> QED BY <2>1, HeadTailProperties
  <2>3. /\ DOMAIN rest = 1 .. n
        /\ rest[k].job = pool[k].job /\ rest[k].work = t
        /\ \A j \in 1 .. n : j # k => rest[j] = pool[j]
    <3>1. pool \in [1 .. n -> T]
      BY <1>1, LenProperties
    <3> HIDE DEF n
    <3>2. rest = [pool EXCEPT ![k].work = t]
      BY <1>3
    <3> HIDE DEF t
    <3> QED BY <2>1, <3>1, <3>2 DEF n
  <2>4. Len(rest) = n
    <3> HIDE DEF n
    <3> QED BY <2>3, <1>1
  <2> HIDE DEF t
  <2> QED BY <2>2, <2>3, <2>4 DEF WithoutFirst
<1> QED
  BY <1>2, <1>3

(* An entry that is done is not pending any more, in no list of its job.     *)
LEMMA DoneOnce ==
  ASSUME NEW J, NEW E, NEW pool \in WorkLists(J, E), NEW k \in 1 .. Len(pool), NEW rest,
         WithoutFirst(rest, pool, k), NoneTwice(pool), NEW B, Apart(pool, B)
  PROVE  /\ NoneTwice(rest)
         /\ <<pool[k].job, Head(pool[k].work)>> \notin Pending(rest)
<1>0. /\ Head(pool[k].work) = pool[k].work[1] /\ 1 \in 1 .. Len(pool[k].work)
      /\ Len(pool[k].work) \in Nat \ {0}
  <2>1. 1 \in 1 .. Len(pool[k].work)
    BY FirstIsPending, Zenon
  <2>2. Head(pool[k].work) = pool[k].work[1]
    BY FirstIsPending
  <2>3. Len(pool[k].work) \in Nat \ {0}
    BY FirstIsPending, Zenon
  <2> QED BY <2>1, <2>2, <2>3
<1> DEFINE w == pool[k].work
<1>1. Head(w) = w[1] /\ 1 \in 1 .. Len(w) /\ Len(w) \in Nat \ {0}
  BY <1>0
<1>2. ASSUME NEW j \in 1 .. Len(pool), j # k, pool[j].job = pool[k].job,
             NEW i \in 1 .. Len(pool[j].work)
      PROVE  pool[j].work[i] # w[1]
  BY <1>1, <1>2 DEF Apart
<1>3. Distinct(w)
  BY DEF NoneTwice
<1> SUFFICES /\ \A i \in 1 .. Len(rest) : Distinct(rest[i].work)
             /\ \A i \in 1 .. Len(rest) : \A m \in 1 .. Len(rest[i].work) :
                   ~(rest[i].job = pool[k].job /\ rest[i].work[m] = w[1])
  <2>1. ASSUME <<pool[k].job, Head(w)>> \in Pending(rest)
        PROVE  \E i \in 1 .. Len(rest) : \E m \in 1 .. Len(rest[i].work) :
                   rest[i].job = pool[k].job /\ rest[i].work[m] = w[1]
    <3> DEFINE x == <<pool[k].job, Head(w)>>
    <3>1. x \in Pending(rest) /\ x[1] = pool[k].job /\ x[2] = w[1]
      BY <2>1, <1>1
    <3> HIDE DEF x
    <3>2. PICK i \in 1 .. Len(rest) : \E m \in 1 .. Len(rest[i].work) :
               x = <<rest[i].job, rest[i].work[m]>>
      BY <3>1, PendingIs
    <3>3. PICK m \in 1 .. Len(rest[i].work) : x = <<rest[i].job, rest[i].work[m]>>
      BY <3>2
    <3>4. rest[i].job = x[1] /\ rest[i].work[m] = x[2]
      BY <3>3
    <3> QED BY <3>1, <3>4
  <2> QED BY <2>1 DEF NoneTwice
<1>4. CASE \A i \in 1 .. Len(rest) : \E j \in 1 .. Len(pool) : j # k /\ rest[i] = pool[j]
  <2> SUFFICES ASSUME NEW i \in 1 .. Len(rest)
               PROVE  /\ Distinct(rest[i].work)
                      /\ \A m \in 1 .. Len(rest[i].work) :
                            ~(rest[i].job = pool[k].job /\ rest[i].work[m] = w[1])
    OBVIOUS
  <2>1. PICK j \in 1 .. Len(pool) : j # k /\ rest[i] = pool[j]
    BY <1>4
  <2>2. Distinct(pool[j].work)
    BY DEF NoneTwice
  <2> HIDE DEF w
  <2> QED BY <2>1, <2>2, <1>2
<1>5. CASE /\ Len(rest) = Len(pool)
           /\ \A j \in 1 .. Len(pool) : j # k => rest[j] = pool[j]
           /\ rest[k].job = pool[k].job
           /\ Len(rest[k].work) = Len(w) - 1
           /\ \A m \in 1 .. Len(rest[k].work) : rest[k].work[m] = w[m + 1]
  <2> SUFFICES ASSUME NEW i \in 1 .. Len(rest)
               PROVE  /\ Distinct(rest[i].work)
                      /\ \A m \in 1 .. Len(rest[i].work) :
                            ~(rest[i].job = pool[k].job /\ rest[i].work[m] = w[1])
    OBVIOUS
  <2>1. CASE i # k
    <3>1. i \in 1 .. Len(pool) /\ rest[i] = pool[i]
      BY <2>1, <1>5
    <3>2. Distinct(pool[i].work)
      BY <3>1 DEF NoneTwice
    <3> HIDE DEF w
    <3> QED BY <3>1, <3>2, <2>1, <1>2
  <2>2. CASE i = k
    <3> DEFINE t == rest[k].work
    <3>1. Len(t) = Len(w) - 1 /\ \A m \in 1 .. Len(t) : t[m] = w[m + 1]
      BY <1>5
    <3> HIDE DEF t, w
    <3>2. \A m \in 1 .. Len(t) : m + 1 \in 1 .. Len(w) /\ m + 1 # 1 /\ t[m] = w[m + 1]
      BY <3>1, <1>1
    <3>3. ASSUME NEW a \in 1 .. Len(t), NEW b \in 1 .. Len(t), a # b PROVE t[a] # t[b]
      <4>1. a + 1 # b + 1
        BY <3>3
      <4> QED BY <4>1, <3>2, <1>3 DEF Distinct
    <3>4. ASSUME NEW m \in 1 .. Len(t) PROVE t[m] # w[1]
      BY <3>2, <1>1, <1>3 DEF Distinct
    <3> QED BY <3>3, <3>4, <2>2 DEF Distinct, t
  <2> QED BY <2>1, <2>2
<1>6. WithoutFirst(rest, pool, k)
  OBVIOUS
<1> QED
  BY <1>4, <1>5, <1>6 DEF WithoutFirst

-----------------------------------------------------------------------------
(* Folds and sums over finite sets.                                         *)

(* What holds of a set when it holds of the set without one of its elements,  *)
(* whichever, holds of every subset of a finite set.                        *)
LEMMA SubsetInduction ==
  ASSUME NEW S, IsFiniteSet(S), NEW Good,
         \A s \in SUBSET S : (\A x \in s : s \ {x} \in Good) => s \in Good
  PROVE  SUBSET S \subseteq Good
<1> DEFINE Upto == {n \in Nat : \A s \in SUBSET S : Cardinality(s) = n => s \in Good}
<1>1. \A s \in SUBSET S : IsFiniteSet(s) /\ Cardinality(s) \in Nat /\ (Cardinality(s) = 0 <=> s = {})
  BY FS_Subset, FS_CardinalityType, FS_EmptySet
<1>2. 0 \in Upto
  BY <1>1
<1>3. ASSUME NEW n \in Nat, n \in Upto PROVE n + 1 \in Upto
  <2> SUFFICES ASSUME NEW s \in SUBSET S, Cardinality(s) = n + 1 PROVE s \in Good
    OBVIOUS
  <2>1. SUFFICES ASSUME NEW x \in s PROVE s \ {x} \in Good
    OBVIOUS
  <2>2. IsFiniteSet(s) /\ s \ {x} \in SUBSET S
    BY <1>1
  <2>3. Cardinality(s \ {x}) = Cardinality(s) - 1
    BY <2>2, FS_RemoveElement
  <2> QED BY <2>2, <2>3, <1>3
<1>4. Nat \subseteq Upto
  <2> HIDE DEF Upto
  <2> QED BY <1>2, <1>3, Induction
<1> QED BY <1>1, <1>4

(* Two recursive functions over the subsets of a finite set are the same     *)
(* when their steps are.                                                   *)
LEMMA SameRecursion ==
  ASSUME NEW S, IsFiniteSet(S), NEW f, NEW g,
         \A t \in SUBSET S : (\A x \in t : f[t \ {x}] = g[t \ {x}]) => f[t] = g[t]
  PROVE  f[S] = g[S]
<1> DEFINE Good == {t \in SUBSET S : f[t] = g[t]}
<1>1. ASSUME NEW t \in SUBSET S, \A x \in t : t \ {x} \in Good PROVE t \in Good
  BY <1>1
<1>2. SUBSET S \subseteq Good
  <2> HIDE DEF Good
  <2> QED BY <1>1, SubsetInduction
<1> QED BY <1>2

(* A set of numbers has a least one, which is what Min returns.             *)
LEMMA LeastElement ==
  ASSUME NEW S \in SUBSET Nat, S # {}
  PROVE  Min(S) \in S /\ \A x \in S : Min(S) <= x
<1> DEFINE R == OpToRel(<, Nat)
<1>1. IsWellFoundedOn(R, Nat)
  BY NatLessThanWellFounded
<1>2. \A x, y \in Nat : <<y, x>> \in R <=> y < x
  BY DEF OpToRel
<1> HIDE DEF R
<1>3. PICK x \in S : \A y \in S : ~(<<y, x>> \in R)
  BY <1>1, WFMin
<1>4. \A y \in S : x <= y
  <2> TAKE y \in S
  <2>1. x \in Nat /\ y \in Nat /\ ~(<<y, x>> \in R)
    BY <1>3
  <2> QED BY <2>1, <1>2
<1> QED BY <1>3, <1>4 DEF Min

(* The numbers up to i, the last of which FoldLeft takes first.             *)
LEMMA UptoLast ==
  ASSUME NEW i \in Nat \ {0}
  PROVE  Max(1 .. i) = i /\ (1 .. i) \ {i} = 1 .. (i - 1) /\ 1 .. i # {}
<1>1. i \in 1 .. i /\ \A y \in 1 .. i : i >= y
  OBVIOUS
<1>2. \A x \in 1 .. i : (\A y \in 1 .. i : x >= y) => x = i
  BY <1>1
<1>3. Max(1 .. i) = i
  BY <1>1, <1>2 DEF Max
<1> QED BY <1>1, <1>3

(* The greatest element of a set of numbers up to n.                        *)
LEMMA GreatestElement ==
  ASSUME NEW n \in Nat, NEW S \in SUBSET (1 .. n), S # {}
  PROVE  Max(S) \in S
<1> DEFINE T == {n - x : x \in S}
<1>1. T \in SUBSET Nat /\ T # {}
  <2>1. \A x \in S : n - x \in Nat
    OBVIOUS
  <2> QED BY <2>1
<1>2. Min(T) \in T /\ \A y \in T : Min(T) <= y
  BY <1>1, LeastElement, Zenon
<1> DEFINE m == Min(T)
<1> HIDE DEF m
<1>3. PICK x \in S : m = n - x
  BY <1>2 DEF m
<1>4. \A y \in S : x >= y
  <2> TAKE y \in S
  <2>1. n - y \in T
    OBVIOUS
  <2>2. m <= n - y
    BY <2>1, <1>2 DEF m
  <2> QED BY <2>2, <1>3
<1> QED BY <1>4 DEF Max

(* A fold whose step F keeps to a set V, as a function on the sets of        *)
(* positions: the recursive function in FoldLeft exists.                    *)
Folds(n, base, F, g) ==
    g = [s \in SUBSET (1 .. n) |-> IF s = {} THEN base ELSE F[<<Max(s), g[s \ {Max(s)}]>>]]

(* Such a function exists, with values in V.                                *)
LEMMA FoldExists ==
  ASSUME NEW n \in Nat, NEW V, NEW base \in V, NEW F \in [(1 .. n) \X V -> V]
  PROVE  \E g \in [SUBSET (1 .. n) -> V] : Folds(n, base, F, g)
<1> DEFINE D == SUBSET (1 .. n)
           step(g) == [s \in D |-> IF s = {} THEN base ELSE F[<<Max(s), g[s \ {Max(s)}]>>]]
           Good == {k \in Nat : \E g \in [D -> V] :
                        \A s \in D : Cardinality(s) <= k => g[s] = step(g)[s]}
<1>1. \A s \in D : IsFiniteSet(s) /\ Cardinality(s) \in Nat /\ (Cardinality(s) = 0 <=> s = {})
                   /\ Cardinality(s) <= n
  <2>1. IsFiniteSet(1 .. n) /\ Cardinality(1 .. n) = n
    <3>1. 1 \in Int /\ n \in Int
      OBVIOUS
    <3>2. IsFiniteSet(1 .. n) /\ Cardinality(1 .. n) = IF 1 > n THEN 0 ELSE n - 1 + 1
      BY <3>1, FS_Interval, Zenon
    <3> QED BY <3>2
  <2>2. \A s \in D : IsFiniteSet(s) /\ Cardinality(s) <= n
    <3> TAKE s \in D
    <3>1. s \in SUBSET (1 .. n)
      OBVIOUS
    <3>2. IsFiniteSet(s) /\ Cardinality(s) <= Cardinality(1 .. n)
      BY <2>1, <3>1, FS_Subset, Zenon
    <3> QED BY <3>2, <2>1
  <2>3. \A s \in D : Cardinality(s) \in Nat /\ (Cardinality(s) = 0 <=> s = {})
    BY <2>2, FS_CardinalityType, FS_EmptySet
  <2> QED BY <2>2, <2>3
<1>2. \A s \in D : s # {} => /\ Max(s) \in s
                             /\ s \ {Max(s)} \in D
                             /\ Cardinality(s \ {Max(s)}) = Cardinality(s) - 1
  <2> SUFFICES ASSUME NEW s \in D, s # {}
               PROVE  /\ Max(s) \in s
                      /\ s \ {Max(s)} \in D
                      /\ Cardinality(s \ {Max(s)}) = Cardinality(s) - 1
    OBVIOUS
  <2>1. Max(s) \in s
    BY GreatestElement
  <2>2. IsFiniteSet(s)
    BY <1>1
  <2>3. Cardinality(s \ {Max(s)}) = Cardinality(s) - 1
    BY <2>1, <2>2, FS_RemoveElement
  <2> QED BY <2>1, <2>3
<1> HIDE DEF D
<1>3. \A g \in [D -> V] : step(g) \in [D -> V]
  <2> SUFFICES ASSUME NEW g \in [D -> V], NEW s \in D, s # {}
               PROVE  F[<<Max(s), g[s \ {Max(s)}]>>] \in V
    OBVIOUS
  <2>1. Max(s) \in 1 .. n /\ g[s \ {Max(s)}] \in V
    BY <1>2 DEF D
  <2> QED BY <2>1
<1>4. 0 \in Good
  <2> DEFINE g == [s \in D |-> base]
  <2>1. g \in [D -> V]
    OBVIOUS
  <2>2. \A s \in D : Cardinality(s) <= 0 => g[s] = step(g)[s]
    BY <1>1
  <2> HIDE DEF g, step
  <2> QED BY <2>1, <2>2
<1>5. ASSUME NEW k \in Nat, k \in Good PROVE k + 1 \in Good
  <2>1. PICK g \in [D -> V] : \A s \in D : Cardinality(s) <= k => g[s] = step(g)[s]
    BY <1>5
  <2> DEFINE h == step(g)
  <2>2. \A s \in D : h[s] = IF s = {} THEN base ELSE F[<<Max(s), g[s \ {Max(s)}]>>]
    OBVIOUS
  <2>3. \A s \in D : step(h)[s] = IF s = {} THEN base ELSE F[<<Max(s), h[s \ {Max(s)}]>>]
    BY Zenon
  <2>4. h \in [D -> V]
    BY <1>3
  <2>5. \A s \in D : Cardinality(s) <= k => g[s] = h[s]
    BY <2>1
  <2> HIDE DEF h, step
  <2>6. \A s \in D : Cardinality(s) <= k + 1 => h[s] = step(h)[s]
    <3> SUFFICES ASSUME NEW s \in D, Cardinality(s) <= k + 1, s # {}
                 PROVE  h[s] = step(h)[s]
      BY <2>2, <2>3
    <3> DEFINE rest == s \ {Max(s)}
    <3>1. rest \in D /\ Cardinality(rest) = Cardinality(s) - 1 /\ Cardinality(s) \in Nat
      BY <1>1, <1>2
    <3>2. Cardinality(rest) <= k
      BY <3>1
    <3>3. g[rest] = h[rest]
      BY <2>5, <3>1, <3>2
    <3>4. h[s] = F[<<Max(s), g[rest]>>] /\ step(h)[s] = F[<<Max(s), h[rest]>>]
      BY <2>2, <2>3
    <3> QED BY <3>3, <3>4
  <2>7. \E f \in [D -> V] : \A s \in D : Cardinality(s) <= k + 1 => f[s] = step(f)[s]
    BY <2>4, <2>6, Zenon
  <2>8. k + 1 \in Nat
    OBVIOUS
  <2> QED BY <2>7, <2>8, Zenon
<1>6. PICK g \in [D -> V] : \A s \in D : Cardinality(s) <= n => g[s] = step(g)[s]
  <2> HIDE DEF Good
  <2>1. n \in Good
    BY <1>4, <1>5, Induction
  <2> QED BY <2>1, Zenon DEF Good
<1>7. \A s \in D : g[s] = IF s = {} THEN base ELSE F[<<Max(s), g[s \ {Max(s)}]>>]
  BY <1>1, <1>6
<1>8. g = [s \in D |-> IF s = {} THEN base ELSE F[<<Max(s), g[s \ {Max(s)}]>>]]
  BY <1>7
<1> QED BY <1>8 DEF Folds, D

-----------------------------------------------------------------------------
(* The sum over the values of a function, by the definition of the library. *)
First(s) == CHOOSE x \in s : TRUE
Sums(f, g) == g = [s \in SUBSET DOMAIN f |->
                      IF s = {} THEN 0 ELSE f[First(s)] + g[s \ {First(s)}]]
ChosenSums(f) == CHOOSE g : Sums(f, g)

(* SumFunction is the recursive function at the whole domain.               *)
LEMMA SumFunctionIs ==
  ASSUME NEW f
  PROVE  SumFunction(f) = ChosenSums(f)[DOMAIN f]
BY Zenon DEF SumFunction, SumFunctionOnSet, FoldFunctionOnSet, MapThenFoldSet, ChosenSums, Sums, First

(* The recursive function exists.                                          *)
LEMMA SumsExist ==
  ASSUME NEW f, IsFiniteSet(DOMAIN f)
  PROVE  Sums(f, ChosenSums(f))
<1> DEFINE S == DOMAIN f
           step(g) == [s \in SUBSET S |-> IF s = {} THEN 0 ELSE f[First(s)] + g[s \ {First(s)}]]
           Good == {n \in Nat : \E g : /\ g = [s \in SUBSET S |-> g[s]]
                                       /\ \A s \in SUBSET S : Cardinality(s) <= n => g[s] = step(g)[s]}
<1>2. IsFiniteSet(S)
  OBVIOUS
<1> HIDE DEF S
<1>4. \A s \in SUBSET S : IsFiniteSet(s) /\ Cardinality(s) \in Nat /\ (Cardinality(s) = 0 <=> s = {})
  BY <1>2, FS_Subset, FS_CardinalityType, FS_EmptySet
<1>5. \A s \in SUBSET S : s # {} => /\ s \ {First(s)} \in SUBSET S
                                    /\ Cardinality(s \ {First(s)}) = Cardinality(s) - 1
  <2> SUFFICES ASSUME NEW s \in SUBSET S, s # {}
               PROVE  /\ s \ {First(s)} \in SUBSET S
                      /\ Cardinality(s \ {First(s)}) = Cardinality(s) - 1
    OBVIOUS
  <2>1. First(s) \in s
    BY DEF First
  <2> QED BY <2>1, <1>4, FS_RemoveElement
<1>6. 0 \in Good
  <2> DEFINE g == [s \in SUBSET S |-> 0]
  <2>1. \A s \in SUBSET S : Cardinality(s) <= 0 => g[s] = step(g)[s]
    BY <1>4
  <2>2. g = [s \in SUBSET S |-> g[s]]
    OBVIOUS
  <2> HIDE DEF g, step
  <2> QED BY <2>1, <2>2
<1>7. ASSUME NEW n \in Nat, n \in Good PROVE n + 1 \in Good
  <2>1. PICK g : \A s \in SUBSET S : Cardinality(s) <= n => g[s] = step(g)[s]
    BY <1>7
  <2> DEFINE h == step(g)
  <2>2. \A s \in SUBSET S : h[s] = IF s = {} THEN 0 ELSE f[First(s)] + g[s \ {First(s)}]
    OBVIOUS
  <2>3. \A s \in SUBSET S : step(h)[s] = IF s = {} THEN 0 ELSE f[First(s)] + h[s \ {First(s)}]
    BY Zenon
  <2>4. h = [s \in SUBSET S |-> h[s]]
    OBVIOUS
  <2>5. \A s \in SUBSET S : Cardinality(s) <= n => g[s] = h[s]
    BY <2>1
  <2> HIDE DEF h, step
  <2>6. \A s \in SUBSET S : Cardinality(s) <= n + 1 => h[s] = step(h)[s]
    <3> SUFFICES ASSUME NEW s \in SUBSET S, Cardinality(s) <= n + 1, s # {}
                 PROVE  h[s] = step(h)[s]
      BY <2>2, <2>3
    <3> DEFINE rest == s \ {First(s)}
    <3>1. rest \in SUBSET S /\ Cardinality(rest) = Cardinality(s) - 1 /\ Cardinality(s) \in Nat
      BY <1>4, <1>5
    <3>2. Cardinality(rest) <= n
      BY <3>1
    <3>3. g[rest] = h[rest]
      BY <2>5, <3>1, <3>2
    <3>4. h[s] = f[First(s)] + g[rest] /\ step(h)[s] = f[First(s)] + h[rest]
      BY <2>2, <2>3
    <3> QED BY <3>3, <3>4
  <2>7. \E e : /\ e = [s \in SUBSET S |-> e[s]]
               /\ \A s \in SUBSET S : Cardinality(s) <= n + 1 => e[s] = step(e)[s]
    BY <2>4, <2>6, Zenon
  <2>8. n + 1 \in Nat
    OBVIOUS
  <2> QED BY <2>7, <2>8, Zenon
<1>8. PICK g : /\ g = [s \in SUBSET S |-> g[s]]
               /\ \A s \in SUBSET S : Cardinality(s) <= Cardinality(S) => g[s] = step(g)[s]
  <2>1. Cardinality(S) \in Nat
    BY <1>4
  <2> HIDE DEF Good
  <2>2. Cardinality(S) \in Good
    BY <1>6, <1>7, <2>1, Induction
  <2> QED BY <2>2, Zenon DEF Good
<1>9. Sums(f, g)
  <2>1. \A s \in SUBSET S : Cardinality(s) <= Cardinality(S)
    BY <1>2, FS_Subset
  <2>2. \A s \in SUBSET S : g[s] = IF s = {} THEN 0 ELSE f[First(s)] + g[s \ {First(s)}]
    BY <1>8, <2>1
  <2>3. g = [s \in SUBSET S |-> IF s = {} THEN 0 ELSE f[First(s)] + g[s \ {First(s)}]]
    BY <1>8, <2>2
  <2> QED BY <2>3 DEF Sums, S
<1> QED BY <1>9 DEF ChosenSums

(* The sum over a subset of the domain does not depend on the order in       *)
(* which its elements are taken.                                            *)
SumOver(f, s) == ChosenSums(f)[s]
AnyFirst(f, g, s) == g[s] \in Int /\ \A x \in s : g[s] = f[x] + g[s \ {x}]
TakesAny(f, s) == /\ SumOver(f, s) \in Int
                  /\ \A x \in s : SumOver(f, s) = f[x] + SumOver(f, s \ {x})

(* A function that takes the chosen element first could have taken any.     *)
LEMMA SumsTakeAny ==
  ASSUME NEW S, IsFiniteSet(S), NEW f, \A x \in S : f[x] \in Int, NEW g,
         \A s \in SUBSET S : g[s] = IF s = {} THEN 0 ELSE f[First(s)] + g[s \ {First(s)}]
  PROVE  \A s \in SUBSET S : AnyFirst(f, g, s)
<1>1. \A s \in SUBSET S : s # {} => First(s) \in s
  BY DEF First
<1>2. g[{}] = 0
  OBVIOUS
<1>3. \A s \in SUBSET S : IsFiniteSet(s) /\ Cardinality(s) \in Nat /\ (Cardinality(s) = 0 <=> s = {})
  BY FS_Subset, FS_CardinalityType, FS_EmptySet
<1> DEFINE Good == {n \in Nat : \A s \in SUBSET S : Cardinality(s) <= n => AnyFirst(f, g, s)}
<1>4. 0 \in Good
  <2> SUFFICES ASSUME NEW s \in SUBSET S, Cardinality(s) <= 0 PROVE AnyFirst(f, g, s)
    OBVIOUS
  <2>1. s = {}
    BY <1>3
  <2> QED BY <2>1, <1>2 DEF AnyFirst
<1>5. ASSUME NEW n \in Nat, n \in Good PROVE n + 1 \in Good
  <2>6. AnyFirst(f, g, {})
    BY <1>2 DEF AnyFirst
  <2>7. SUFFICES ASSUME NEW s \in SUBSET S, Cardinality(s) <= n + 1 PROVE AnyFirst(f, g, s)
    OBVIOUS
  <2>8. SUFFICES ASSUME s # {} PROVE AnyFirst(f, g, s)
    BY <2>6
  <2> DEFINE y == First(s)
  <2>1. y \in s /\ y \in S
    BY <1>1, <2>8
  <2>2. g[s] = f[y] + g[s \ {y}]
    BY <2>8
  <2> HIDE DEF y
  <2>0. IsFiniteSet(s) /\ Cardinality(s) \in Nat
    BY <1>3
  <2>3. \A x \in s : /\ s \ {x} \in SUBSET S /\ IsFiniteSet(s \ {x})
                     /\ Cardinality(s \ {x}) = Cardinality(s) - 1
                     /\ Cardinality(s \ {x}) <= n
                     /\ g[s \ {x}] \in Int
                     /\ \A z \in s \ {x} : g[s \ {x}] = f[z] + g[(s \ {x}) \ {z}]
    <3> TAKE x \in s
    <3>1. s \ {x} \in SUBSET S
      OBVIOUS
    <3>2. Cardinality(s \ {x}) = Cardinality(s) - 1 /\ IsFiniteSet(s \ {x})
      BY <2>0, FS_RemoveElement
    <3>3. Cardinality(s \ {x}) <= n
      BY <3>2, <2>0, <2>7
    <3>4. AnyFirst(f, g, s \ {x})
      BY <3>1, <3>3, <1>5
    <3> QED BY <3>1, <3>2, <3>3, <3>4 DEF AnyFirst
  <2>4. g[s \ {y}] \in Int /\ f[y] \in Int
    BY <2>1, <2>3
  <2>5. ASSUME NEW x \in s PROVE g[s] = f[x] + g[s \ {x}]
    <3>1. CASE x = y
      BY <3>1, <2>2
    <3>2. CASE x # y
      <4> DEFINE rest == (s \ {y}) \ {x}
      <4>1. x \in s \ {y} /\ y \in s \ {x} /\ rest = (s \ {x}) \ {y}
        BY <3>2, <2>1
      <4>2. g[s \ {y}] = f[x] + g[rest]
        BY <4>1, <2>1, <2>3
      <4>3. g[s \ {x}] = f[y] + g[rest]
        BY <4>1, <2>3, ZenonT(60)
      <4>4. rest \in SUBSET S /\ Cardinality(rest) <= n
        <5>1. Cardinality(rest) = Cardinality(s \ {y}) - 1
          BY <4>1, <2>1, <2>3, FS_RemoveElement
        <5>2. Cardinality(s \ {y}) = Cardinality(s) - 1
          BY <2>1, <2>3
        <5> QED BY <5>1, <5>2, <2>0, <2>7
      <4>5. g[rest] \in Int
        BY <4>4, <1>5 DEF AnyFirst
      <4>6. f[x] \in Int
        OBVIOUS
      <4> HIDE DEF rest
      <4> QED BY <4>2, <4>3, <4>5, <4>6, <2>2, <2>4
    <3> QED BY <3>1, <3>2
  <2>9. g[s] \in Int
    <3> HIDE DEF Good
    <3> QED BY <2>2, <2>4
  <2> QED BY <2>5, <2>9 DEF AnyFirst
<1>6. Nat \subseteq Good
  <2> HIDE DEF Good
  <2> QED BY <1>4, <1>5, Induction
<1>7. ASSUME NEW s \in SUBSET S PROVE AnyFirst(f, g, s)
  <2>1. Cardinality(s) \in Nat
    BY <1>3
  <2> QED BY <2>1, <1>6
<1> QED BY <1>7

(* SumFunction's own recursive function is one.                             *)
LEMMA SumOverTakesAny ==
  ASSUME NEW f, IsFiniteSet(DOMAIN f), \A x \in DOMAIN f : f[x] \in Int
  PROVE  /\ SumOver(f, {}) = 0
         /\ \A s \in SUBSET DOMAIN f : TakesAny(f, s)
<1> DEFINE g == ChosenSums(f)
<1>1. \A s \in SUBSET DOMAIN f : g[s] = IF s = {} THEN 0 ELSE f[First(s)] + g[s \ {First(s)}]
  BY SumsExist DEF Sums
<1>2. g[{}] = 0
  BY <1>1
<1> HIDE DEF g
<1>3. \A s \in SUBSET DOMAIN f : AnyFirst(f, g, s)
  BY <1>1, SumsTakeAny
<1> QED BY <1>2, <1>3 DEF SumOver, TakesAny, AnyFirst, g

(* Sums of functions that agree on a set agree on it.                       *)
LEMMA SumsAgree ==
  ASSUME NEW f, IsFiniteSet(DOMAIN f), \A x \in DOMAIN f : f[x] \in Int,
         NEW g, IsFiniteSet(DOMAIN g), \A x \in DOMAIN g : g[x] \in Int,
         NEW S, S \subseteq DOMAIN f, S \subseteq DOMAIN g, \A x \in S : f[x] = g[x]
  PROVE  SumOver(f, S) = SumOver(g, S)
<1> DEFINE Good == {s \in SUBSET S : SumOver(f, s) = SumOver(g, s)}
<1>1. IsFiniteSet(S)
  BY FS_Subset
<1>2. SumOver(f, {}) = 0 /\ \A s \in SUBSET S : TakesAny(f, s)
  <2>1. \A s \in SUBSET S : s \in SUBSET DOMAIN f
    OBVIOUS
  <2> QED BY <2>1, SumOverTakesAny
<1>3. SumOver(g, {}) = 0 /\ \A s \in SUBSET S : TakesAny(g, s)
  <2>1. \A s \in SUBSET S : s \in SUBSET DOMAIN g
    OBVIOUS
  <2> QED BY <2>1, SumOverTakesAny
<1>4. {} \in Good
  BY <1>2, <1>3
<1>5. ASSUME NEW s \in SUBSET S, \A x \in s : s \ {x} \in Good PROVE s \in Good
  <2>0. SUFFICES ASSUME s # {} PROVE s \in Good
    BY <1>4
  <2>4. PICK x : x \in s
    BY <2>0
  <2>1. SumOver(f, s) = f[x] + SumOver(f, s \ {x})
    BY <1>2, <2>4 DEF TakesAny
  <2>2. SumOver(g, s) = g[x] + SumOver(g, s \ {x})
    BY <1>3, <2>4 DEF TakesAny
  <2>3. f[x] = g[x] /\ SumOver(f, s \ {x}) = SumOver(g, s \ {x})
    BY <1>5, <2>4
  <2> QED BY <2>1, <2>2, <2>3
<1>6. SUBSET S \subseteq Good
  <2> HIDE DEF Good
  <2> QED BY <1>1, <1>5, SubsetInduction
<1> QED BY <1>6

Summable(f) == IsFiniteSet(DOMAIN f) /\ \A x \in DOMAIN f : f[x] \in Int

(* A sum with an element more.                                              *)
LEMMA SumWith ==
  ASSUME NEW f, Summable(f), NEW g, NEW x, x \notin DOMAIN f,
         DOMAIN g = DOMAIN f \cup {x}, \A y \in DOMAIN f : g[y] = f[y], g[x] \in Int
  PROVE  Summable(g) /\ SumFunction(g) = SumFunction(f) + g[x]
<1> DEFINE D == DOMAIN f
<1>1. IsFiniteSet(DOMAIN g) /\ \A y \in DOMAIN g : g[y] \in Int
  <2>1. IsFiniteSet(D \cup {x})
    BY FS_AddElement DEF Summable
  <2>2. \A y \in DOMAIN g : g[y] \in Int
    BY DEF Summable
  <2> QED BY <2>1, <2>2
<1>2. SumOver(g, D) = SumOver(f, D)
  BY <1>1, SumsAgree DEF Summable
<1>3. TakesAny(g, D \cup {x})
  BY <1>1, SumOverTakesAny
<1>4. (D \cup {x}) \ {x} = D
  OBVIOUS
<1>5. SumOver(g, D \cup {x}) = g[x] + SumOver(g, D)
  BY <1>3, <1>4 DEF TakesAny
<1>6. TakesAny(f, D)
  BY SumOverTakesAny DEF Summable
<1>7. SumFunction(f) = SumOver(f, D) /\ SumFunction(g) = SumOver(g, D \cup {x})
  BY SumFunctionIs DEF SumOver
<1>8. SumOver(f, D) \in Int
  BY <1>6 DEF TakesAny
<1> HIDE DEF D
<1>9. SumFunction(g) = SumFunction(f) + g[x]
  BY <1>2, <1>5, <1>7, <1>8
<1> QED BY <1>1, <1>9 DEF Summable

(* A sum of which one number changes.                                       *)
LEMMA SumChanged ==
  ASSUME NEW f, Summable(f), NEW g, NEW x \in DOMAIN f, DOMAIN g = DOMAIN f,
         \A y \in DOMAIN f \ {x} : g[y] = f[y], g[x] \in Int
  PROVE  Summable(g) /\ SumFunction(g) = SumFunction(f) - f[x] + g[x]
<1> DEFINE D == DOMAIN f
<1>1. IsFiniteSet(DOMAIN g) /\ \A y \in DOMAIN g : g[y] \in Int
  BY DEF Summable
<1>2. SumOver(g, D \ {x}) = SumOver(f, D \ {x})
  BY <1>1, SumsAgree DEF Summable
<1>3. TakesAny(g, D)
  BY <1>1, SumOverTakesAny
<1>4. TakesAny(f, D) /\ TakesAny(f, D \ {x})
  BY SumOverTakesAny DEF Summable
<1>5. SumOver(g, D) = g[x] + SumOver(g, D \ {x})
  BY <1>3 DEF TakesAny
<1>6. SumOver(f, D) = f[x] + SumOver(f, D \ {x})
  BY <1>4 DEF TakesAny
<1>7. SumFunction(f) = SumOver(f, D) /\ SumFunction(g) = SumOver(g, D)
  BY SumFunctionIs DEF SumOver
<1>8. SumOver(f, D \ {x}) \in Int /\ f[x] \in Int
  BY <1>4 DEF TakesAny, Summable
<1> HIDE DEF D
<1>9. SumFunction(g) = SumFunction(f) - f[x] + g[x]
  BY <1>2, <1>5, <1>6, <1>7, <1>8
<1> QED BY <1>1, <1>9 DEF Summable

(* The sum of nothing, and of zeros.                                        *)
LEMMA SumOfZeros ==
  ASSUME NEW f, IsFiniteSet(DOMAIN f), \A x \in DOMAIN f : f[x] = 0
  PROVE  SumFunction(f) = 0
<1> DEFINE S == DOMAIN f
           Good == {s \in SUBSET S : SumOver(f, s) = 0}
<1>1. SumOver(f, {}) = 0 /\ \A s \in SUBSET S : TakesAny(f, s)
  BY SumOverTakesAny
<1>2. {} \in Good
  BY <1>1
<1>3. ASSUME NEW s \in SUBSET S, \A x \in s : s \ {x} \in Good PROVE s \in Good
  <2>4. SUFFICES ASSUME s # {} PROVE s \in Good
    BY <1>2
  <2>5. PICK x : x \in s
    BY <2>4
  <2>1. SumOver(f, s) = f[x] + SumOver(f, s \ {x})
    BY <1>1, <2>5 DEF TakesAny
  <2>2. f[x] = 0 /\ SumOver(f, s \ {x}) = 0
    BY <1>3, <2>5
  <2> QED BY <2>1, <2>2
<1>4. SUBSET S \subseteq Good
  <2> HIDE DEF Good, S
  <2>1. IsFiniteSet(S)
    BY DEF S
  <2> QED BY <2>1, <1>3, SubsetInduction
<1> QED BY <1>4, SumFunctionIs DEF SumOver

(* A sum of integers is one, of natural numbers too.                        *)
LEMMA SumIsInt ==
  ASSUME NEW f, Summable(f)
  PROVE  SumFunction(f) \in Int
BY SumOverTakesAny, SumFunctionIs DEF Summable, SumOver, TakesAny

(* And natural ones give a natural number.                                  *)
LEMMA SumIsNat ==
  ASSUME NEW f, IsFiniteSet(DOMAIN f), \A x \in DOMAIN f : f[x] \in Nat
  PROVE  SumFunction(f) \in Nat
<1> DEFINE S == DOMAIN f
           Good == {s \in SUBSET S : SumOver(f, s) \in Nat}
<1>1. SumOver(f, {}) = 0 /\ \A s \in SUBSET S : TakesAny(f, s)
  BY SumOverTakesAny
<1>2. {} \in Good
  BY <1>1
<1>3. ASSUME NEW s \in SUBSET S, \A x \in s : s \ {x} \in Good PROVE s \in Good
  <2>4. SUFFICES ASSUME s # {} PROVE s \in Good
    BY <1>2
  <2>5. PICK x : x \in s
    BY <2>4
  <2>1. SumOver(f, s) = f[x] + SumOver(f, s \ {x})
    BY <1>1, <2>5 DEF TakesAny
  <2>2. f[x] \in Nat /\ SumOver(f, s \ {x}) \in Nat
    BY <1>3, <2>5
  <2>3. SumOver(f, s) \in Nat
    BY <2>1, <2>2
  <2> QED BY <2>3
<1>4. SUBSET S \subseteq Good
  <2> HIDE DEF Good, S
  <2>1. IsFiniteSet(S)
    BY DEF S
  <2> QED BY <2>1, <1>3, SubsetInduction
<1> QED BY <1>4, SumFunctionIs DEF SumOver

-----------------------------------------------------------------------------
(* Sequences that lie one behind the other, and ordered ones.               *)

(* The recursive function of FlattenSeq.                                   *)
Flattens(seqs, g) ==
    g = [i \in 1 .. Len(seqs) |-> IF i = 1 THEN seqs[i] ELSE g[i - 1] \o seqs[i]]

(* h[i] is the first i sequences, one after the other.                     *)
Flattened(S, n, seqs, h) ==
    /\ h \in [0 .. n -> Seq(S)]
    /\ h[0] = <<>>
    /\ \A i \in 1 .. n : h[i] = h[i - 1] \o seqs[i]
    /\ FlattenSeq(seqs) = h[n]

(* FlattenSeq puts the sequences one after the other.                       *)
LEMMA FlattenUnfolds ==
  ASSUME NEW S, NEW n \in Nat \ {0}, NEW seqs \in Seq(Seq(S)), Len(seqs) = n
  PROVE  \E h : Flattened(S, n, seqs, h)
<1>1. DOMAIN seqs = 1 .. n /\ \A i \in 1 .. n : seqs[i] \in Seq(S)
  OBVIOUS
<1>2. PICK h : Unfolds(S, n, seqs, h)
  BY <1>1, JoinedUnfolds
<1>3. /\ h \in [0 .. n -> Seq(S)] /\ h[0] = <<>>
      /\ \A i \in 1 .. n : h[i] = h[i - 1] \o seqs[i]
  BY <1>2 DEF Unfolds
<1> DEFINE g == [i \in 1 .. n |-> h[i]]
           f == CHOOSE e : Flattens(seqs, e)
<1>4. Flattens(seqs, g)
  <2>1. ASSUME NEW i \in 1 .. n
        PROVE  h[i] = IF i = 1 THEN seqs[i] ELSE g[i - 1] \o seqs[i]
    <3>1. CASE i = 1
      <4>1. i \in 1 .. n /\ i - 1 = 0
        BY <3>1
      <4>2. h[i] = h[i - 1] \o seqs[i] /\ seqs[i] \in Seq(S)
        BY <4>1, <1>1, <1>3
      <4>3. h[i] = <<>> \o seqs[i]
        BY <4>1, <4>2, <1>3
      <4> QED BY <4>2, <4>3, <3>1, ConcatEmptySeq
    <3>2. CASE i # 1
      <4>1. i - 1 \in 1 .. n
        BY <3>2
      <4> QED BY <4>1, <3>2, <1>3
    <3> QED BY <3>1, <3>2
  <2>2. g = [i \in 1 .. n |-> IF i = 1 THEN seqs[i] ELSE g[i - 1] \o seqs[i]]
    BY <2>1
  <2> QED BY <2>2 DEF Flattens
<1>5. Flattens(seqs, f)
  BY <1>4
<1>6. FlattenSeq(seqs) = f[n]
  BY Zenon DEF FlattenSeq, Flattens
<1> HIDE DEF f, g
<1>7. \A i \in 1 .. n : f[i] = IF i = 1 THEN seqs[i] ELSE f[i - 1] \o seqs[i]
  BY <1>5 DEF Flattens
<1> DEFINE Good == {i \in Nat : i + 1 <= n => f[i + 1] = h[i + 1]}
<1>8. 0 \in Good
  <2>1. f[1] = seqs[1] /\ h[1] = h[0] \o seqs[1] /\ seqs[1] \in Seq(S)
    <3>1. 1 \in 1 .. n /\ 1 - 1 = 0
      OBVIOUS
    <3> QED BY <3>1, <1>1, <1>3, <1>7
  <2> QED BY <2>1, <1>3, ConcatEmptySeq
<1>9. \A i \in Nat : i \in Good => i + 1 \in Good
  <2> SUFFICES ASSUME NEW i \in Nat, i \in Good, i + 2 <= n PROVE f[i + 2] = h[i + 2]
    <3>1. \A i \in Nat : (i + 1) + 1 = i + 2
      OBVIOUS
    <3> QED BY <3>1
  <2>1. f[i + 1] = h[i + 1] /\ i + 2 \in 1 .. n /\ (i + 2) - 1 = i + 1 /\ i + 2 # 1
    OBVIOUS
  <2>2. f[i + 2] = f[i + 1] \o seqs[i + 2]
    BY <2>1, <1>7
  <2>3. h[i + 2] = h[i + 1] \o seqs[i + 2]
    BY <2>1, <1>3
  <2> QED BY <2>1, <2>2, <2>3
<1>10. f[n] = h[n]
  <2>1. Nat \subseteq Good
    <3> HIDE DEF Good
    <3> QED BY <1>8, <1>9, Induction
  <2>2. n - 1 \in Nat /\ (n - 1) + 1 = n
    OBVIOUS
  <2> QED BY <2>1, <2>2
<1>11. FlattenSeq(seqs) = h[n]
  BY <1>6, <1>10
<1> QED BY <1>3, <1>11 DEF Flattened

(* Two sequences that are equal have their front and their rest equal, when  *)
(* those are as long.                                                      *)
LEMMA ConcatSplits ==
  ASSUME NEW S, NEW a \in Seq(S), NEW b \in Seq(S), NEW c \in Seq(S), NEW d \in Seq(S),
         Len(a) = Len(c), Len(b) = Len(d), a \o b = c \o d
  PROVE  a = c /\ b = d
<1>1. \A i \in 1 .. Len(a) : a[i] = c[i]
  <2> TAKE i \in 1 .. Len(a)
  <2>1. (a \o b)[i] = a[i] /\ (c \o d)[i] = c[i]
    BY ConcatProperties
  <2> QED BY <2>1
<1>2. \A i \in 1 .. Len(b) : b[i] = d[i]
  <2> TAKE i \in 1 .. Len(b)
  <2>0. Len(a) \in Nat /\ Len(b) \in Nat
    OBVIOUS
  <2>1. (a \o b)[Len(a) + i] = b[i] /\ (c \o d)[Len(c) + i] = d[i]
    <3>1. Len(a) + i \in 1 .. Len(a) + Len(b) /\ ~(Len(a) + i <= Len(a))
          /\ (Len(a) + i) - Len(a) = i
      BY <2>0
    <3>2. (a \o b)[Len(a) + i] = IF Len(a) + i <= Len(a) THEN a[Len(a) + i] ELSE b[(Len(a) + i) - Len(a)]
      BY <3>1, ConcatProperties
    <3>3. (c \o d)[Len(c) + i] = IF Len(c) + i <= Len(c) THEN c[Len(c) + i] ELSE d[(Len(c) + i) - Len(c)]
      BY <3>1, ConcatProperties
    <3> QED BY <3>1, <3>2, <3>3
  <2> QED BY <2>1
<1>3. a = [i \in 1 .. Len(a) |-> a[i]] /\ c = [i \in 1 .. Len(a) |-> c[i]]
      /\ b = [i \in 1 .. Len(b) |-> b[i]] /\ d = [i \in 1 .. Len(b) |-> d[i]]
  OBVIOUS
<1> QED BY <1>1, <1>2, <1>3

(* Sequences of which each two are as long can be told from what they are   *)
(* one after the other.                                                    *)
LEMMA FlattenInjective ==
  ASSUME NEW S, NEW n \in Nat \ {0}, NEW s \in Seq(Seq(S)), NEW t \in Seq(Seq(S)),
         Len(s) = n, Len(t) = n, \A i \in 1 .. n : Len(s[i]) = Len(t[i]),
         FlattenSeq(s) = FlattenSeq(t)
  PROVE  \A i \in 1 .. n : s[i] = t[i]
<1>1. PICK g : Flattened(S, n, s, g)
  BY FlattenUnfolds
<1>2. PICK h : Flattened(S, n, t, h)
  BY FlattenUnfolds
<1>3. /\ g \in [0 .. n -> Seq(S)] /\ g[0] = <<>> /\ \A i \in 1 .. n : g[i] = g[i - 1] \o s[i]
      /\ h \in [0 .. n -> Seq(S)] /\ h[0] = <<>> /\ \A i \in 1 .. n : h[i] = h[i - 1] \o t[i]
      /\ g[n] = h[n]
  BY <1>1, <1>2 DEF Flattened
<1>4. \A i \in 1 .. n : s[i] \in Seq(S) /\ t[i] \in Seq(S)
  OBVIOUS
<1> DEFINE Long == {i \in Nat : i <= n => Len(g[i]) = Len(h[i])}
           Good == {i \in Nat : i <= n /\ g[i] = h[i] => \A j \in 1 .. i : s[j] = t[j]}
<1>5. Nat \subseteq Long
  <2>1. 0 \in Long
    BY <1>3
  <2>2. \A i \in Nat : i \in Long => i + 1 \in Long
    <3> SUFFICES ASSUME NEW i \in Nat, i \in Long, i + 1 <= n PROVE Len(g[i + 1]) = Len(h[i + 1])
      OBVIOUS
    <3>1. Len(g[i]) = Len(h[i]) /\ i + 1 \in 1 .. n /\ (i + 1) - 1 = i /\ i \in 0 .. n
      OBVIOUS
    <3>2. g[i + 1] = g[i] \o s[i + 1] /\ h[i + 1] = h[i] \o t[i + 1]
      BY <3>1, <1>3
    <3>3. g[i] \in Seq(S) /\ h[i] \in Seq(S) /\ s[i + 1] \in Seq(S) /\ t[i + 1] \in Seq(S)
      BY <3>1, <1>3, <1>4
    <3>4. Len(s[i + 1]) = Len(t[i + 1])
      BY <3>1
    <3>5. Len(g[i + 1]) = Len(g[i]) + Len(s[i + 1]) /\ Len(h[i + 1]) = Len(h[i]) + Len(t[i + 1])
      BY <3>2, <3>3, ConcatProperties
    <3> QED BY <3>1, <3>4, <3>5
  <2> HIDE DEF Long
  <2> QED BY <2>1, <2>2, Induction
<1>6. 0 \in Good
  OBVIOUS
<1>7. ASSUME NEW i \in Nat, i \in Good PROVE i + 1 \in Good
  <2> SUFFICES ASSUME i + 1 <= n, g[i + 1] = h[i + 1], NEW j \in 1 .. i + 1
               PROVE  s[j] = t[j]
    OBVIOUS
  <2>1. i + 1 \in 1 .. n /\ (i + 1) - 1 = i /\ i \in 0 .. n /\ i <= n
    OBVIOUS
  <2>2. g[i + 1] = g[i] \o s[i + 1] /\ h[i + 1] = h[i] \o t[i + 1]
    BY <2>1, <1>3
  <2>3. g[i] \in Seq(S) /\ h[i] \in Seq(S) /\ s[i + 1] \in Seq(S) /\ t[i + 1] \in Seq(S)
    BY <2>1, <1>3, <1>4
  <2>4. Len(s[i + 1]) = Len(t[i + 1]) /\ Len(g[i]) = Len(h[i])
    BY <2>1, <1>5
  <2>5. g[i] \o s[i + 1] = h[i] \o t[i + 1]
    BY <2>2
  <2>6. g[i] = h[i] /\ s[i + 1] = t[i + 1]
    <3> DEFINE a == g[i]
               b == s[i + 1]
               c == h[i]
               d == t[i + 1]
    <3>1. /\ a \in Seq(S) /\ b \in Seq(S) /\ c \in Seq(S) /\ d \in Seq(S)
          /\ Len(a) = Len(c) /\ Len(b) = Len(d) /\ a \o b = c \o d
      BY <2>3, <2>4, <2>5
    <3> HIDE DEF a, b, c, d
    <3>2. a = c /\ b = d
      BY <3>1, ConcatSplits
    <3> QED BY <3>2 DEF a, b, c, d
  <2>7. \A k \in 1 .. i : s[k] = t[k]
    BY <2>1, <2>6, <1>7
  <2>8. j \in 1 .. i \/ j = i + 1
    OBVIOUS
  <2> QED BY <2>6, <2>7, <2>8
<1>8. n \in Good
  <2> HIDE DEF Good
  <2> QED BY <1>6, <1>7, Induction
<1> QED BY <1>3, <1>8

(* A set of numbers, one after the other.                                   *)
InOrder(s, W) ==
    /\ s \in Seq(Nat)
    /\ Range(s) = W
    /\ \A i, j \in 1 .. Len(s) : i < j => s[i] < s[j]

(* It has as many elements as the sequence.                                 *)
LEMMA OrderedCount ==
  ASSUME NEW s, NEW W, InOrder(s, W)
  PROVE  IsFiniteSet(W) /\ Cardinality(W) = Len(s) /\ Len(s) \in Nat
<1> DEFINE n == Len(s)
<1>1. n \in Nat /\ s \in [1 .. n -> Nat] /\ Range(s) = {s[i] : i \in 1 .. n}
  BY DEF InOrder, Range
<1>2. \A i, j \in 1 .. n : i # j => s[i] # s[j]
  <2> TAKE i, j \in 1 .. n
  <2>1. i < j \/ j < i \/ i = j
    OBVIOUS
  <2>2. s[i] \in Nat /\ s[j] \in Nat
    BY <1>1
  <2> QED BY <2>1, <2>2 DEF InOrder
<1>3. W = {s[i] : i \in 1 .. n}
  BY <1>1 DEF InOrder
<1> HIDE DEF n
<1>4. s \in Bijection(1 .. n, W)
  BY <1>1, <1>2, <1>3 DEF Bijection, Injection, Surjection, IsInjective
<1>5. ExistsBijection(1 .. n, W)
  BY <1>4 DEF ExistsBijection
<1>6. Cardinality(W) = n
  BY <1>1, <1>5, FS_CountingElements
<1>7. IsFiniteSet(W)
  BY <1>1, <1>5, FS_NatBijection
<1> QED BY <1>1, <1>6, <1>7 DEF n

(* One more in front.                                                      *)
LEMMA OneInFront ==
  ASSUME NEW a \in Nat, NEW t, NEW W, InOrder(t, W), \A w \in W : a < w
  PROVE  InOrder(<<a>> \o t, {a} \cup W)
<1> DEFINE s == <<a>> \o t
           n == Len(t)
<1>1. t \in Seq(Nat) /\ n \in Nat /\ Range(t) = W
      /\ \A i, j \in 1 .. n : i < j => t[i] < t[j]
  BY DEF InOrder
<1>2. <<a>> \in Seq(Nat) /\ Len(<<a>>) = 1 /\ <<a>>[1] = a
  OBVIOUS
<1>3. s \in Seq(Nat) /\ Len(s) = n + 1
      /\ \A i \in 1 .. n + 1 : s[i] = IF i <= 1 THEN <<a>>[i] ELSE t[i - 1]
  <2>1. /\ s \in Seq(Nat) /\ Len(s) = 1 + n
        /\ \A i \in 1 .. 1 + n : s[i] = IF i <= 1 THEN <<a>>[i] ELSE t[i - 1]
    BY <1>1, <1>2, ConcatProperties
  <2>2. 1 + n = n + 1
    BY <1>1
  <2> QED BY <2>1, <2>2
<1> HIDE DEF s
<1>4. s[1] = a /\ \A i \in 1 .. n : i + 1 \in 1 .. n + 1 /\ s[i + 1] = t[i]
  <2>1. 1 \in 1 .. n + 1 /\ 1 <= 1
    BY <1>1
  <2>2. s[1] = a
    BY <2>1, <1>2, <1>3
  <2>3. \A i \in 1 .. n : i + 1 \in 1 .. n + 1 /\ ~(i + 1 <= 1) /\ (i + 1) - 1 = i
    BY <1>1
  <2> QED BY <2>2, <2>3, <1>3
<1>5. DOMAIN t = 1 .. n /\ DOMAIN s = 1 .. n + 1
  BY <1>1, <1>3
<1>6. \A i \in 1 .. n + 1 : i = 1 \/ (i - 1 \in 1 .. n /\ (i - 1) + 1 = i)
  BY <1>1
<1> HIDE DEF n
<1>7. Range(s) = {a} \cup W
  <2>1. Range(s) = {s[i] : i \in 1 .. n + 1} /\ W = {t[i] : i \in 1 .. n}
    BY <1>1, <1>5 DEF Range
  <2>2. \A x \in Range(s) : x \in {a} \cup W
    BY <2>1, <1>4, <1>6
  <2>3. 1 \in 1 .. n + 1
    BY <1>1 DEF n
  <2>4. \A x \in {a} \cup W : x \in Range(s)
    BY <2>1, <2>3, <1>4
  <2> QED BY <2>2, <2>4
<1>8. ASSUME NEW i \in 1 .. n + 1, NEW j \in 1 .. n + 1, i < j PROVE s[i] < s[j]
  <2>1. j - 1 \in 1 .. n /\ s[j] = t[j - 1]
    <3>1. j # 1
      BY <1>8
    <3> QED BY <3>1, <1>4, <1>6
  <2>2. CASE i = 1
    <3>1. t[j - 1] \in W
      BY <2>1, <1>1, <1>5 DEF Range
    <3> QED BY <2>1, <2>2, <3>1, <1>4
  <2>3. CASE i # 1
    <3>1. i - 1 \in 1 .. n /\ s[i] = t[i - 1]
      BY <2>3, <1>4, <1>6
    <3>2. i - 1 < j - 1
      BY <1>8
    <3> QED BY <2>1, <3>1, <3>2, <1>1
  <2> QED BY <2>2, <2>3
<1> QED BY <1>3, <1>7, <1>8 DEF InOrder, s

-----------------------------------------------------------------------------
(* The positions of a list of entries go up.                                *)
Rising(s) == \A i, j \in 1 .. Len(s) : i < j => s[i][1] < s[j][1]
AllRising(pool) == \A k \in 1 .. Len(pool) : Rising(pool[k].work)

(* A bucket has the positions in the order of the batch.                    *)
LEMMA DealtRising ==
  ASSUME NEW n \in Nat, NEW P, P \subseteq 1 .. n, NEW entries,
         \A p \in 1 .. n : entries[p] = IF p \in P THEN Once(p) ELSE <<>>,
         NEW bucket, NEW t
  PROVE  Rising(Dealt(n, entries, bucket, t))
<1> DEFINE kept == [i \in 1 .. n |-> Kept(entries[i], bucket, t)]
           u == Joined(n, kept)
<1>1. Dealt(n, entries, bucket, t) = u
  BY DEF Dealt
<1>2. ASSUME NEW p \in 1 .. n
      PROVE  /\ kept[p] \in Seq(Entries)
             /\ \A l \in 1 .. Len(kept[p]) : l = 1 /\ kept[p][l][1] = p
  <2>1. entries[p] \in Seq(Entries) /\ Len(entries[p]) <= 1
        /\ \A e \in Range(entries[p]) : e[1] = p
    <3>1. CASE p \in P
      <4>0. entries[p] = Once(p) /\ p \in Nat
        BY <3>1
      <4>1. entries[p] = << <<p, None>> >> /\ p \in Nat /\ None \in Int
        BY <4>0 DEF Once, None
      <4>2. <<p, None>> \in Entries
        BY <4>1 DEF Entries
      <4> DEFINE e == <<p, None>>
      <4>3. e[1] = p
        OBVIOUS
      <4> HIDE DEF e
      <4>4. entries[p] = <<e>> /\ e \in Entries
        BY <4>1, <4>2 DEF e
      <4> QED BY <4>3, <4>4 DEF Range
    <3>2. CASE p \notin P
      <4>1. entries[p] = <<>>
        BY <3>2
      <4>2. Range(entries[p]) = {} /\ Len(entries[p]) = 0
        BY <4>1 DEF Range
      <4>3. <<>> \in Seq(Entries)
        OBVIOUS
      <4> QED BY <4>1, <4>2, <4>3
    <3> QED BY <3>1, <3>2
  <2>2. Distinct(entries[p])
    <3>1. Len(entries[p]) \in Nat
      BY <2>1
    <3> QED BY <2>1, <3>1 DEF Distinct
  <2>3. /\ kept[p] \in Seq(Entries) /\ Distinct(kept[p])
        /\ Range(kept[p]) = {e \in Range(entries[p]) : bucket[e] = t}
    BY <2>1, <2>2, KeptElements, KeptDistinct
  <2> HIDE DEF kept
  <2>4. Len(kept[p]) \in Nat /\ DOMAIN kept[p] = 1 .. Len(kept[p])
    BY <2>3
  <2>5. \A l \in 1 .. Len(kept[p]) : kept[p][l] \in Range(entries[p])
    BY <2>3, <2>4 DEF Range
  <2>6. \A e, f \in Range(entries[p]) : e = f
    <3>1. DOMAIN entries[p] = 1 .. Len(entries[p]) /\ Len(entries[p]) \in Nat
      BY <2>1
    <3>2. \A i, j \in 1 .. Len(entries[p]) : i = j
      BY <2>1, <3>1
    <3> QED BY <3>1, <3>2 DEF Range
  <2>7. \A l \in 1 .. Len(kept[p]) : l = 1
    <3> TAKE l \in 1 .. Len(kept[p])
    <3>1. 1 \in 1 .. Len(kept[p])
      BY <2>4
    <3>2. kept[p][l] = kept[p][1]
      BY <3>1, <2>5, <2>6
    <3> QED BY <3>1, <3>2, <2>3 DEF Distinct
  <2> QED BY <2>1, <2>3, <2>5, <2>7
<1>3. \E a, b : ComesFrom(kept, n, u, a, b)
  <2> HIDE DEF kept
  <2> QED BY <1>2, JoinedFrom
<1>4. PICK a, b : ComesFrom(kept, n, u, a, b)
  BY <1>3
<1> HIDE DEF kept, u
<1>5. \A i \in 1 .. Len(u) : /\ a[i] \in 1 .. n /\ b[i] \in 1 .. Len(kept[a[i]])
                             /\ u[i] = kept[a[i]][b[i]]
  BY <1>4 DEF ComesFrom
<1>6. \A i \in 1 .. Len(u) : b[i] = 1 /\ u[i][1] = a[i]
  BY <1>2, <1>5
<1>7. \A i, j \in 1 .. Len(u) : i < j => a[i] < a[j] \/ (a[i] = a[j] /\ b[i] < b[j])
  BY <1>4, Zenon DEF ComesFrom
<1>8. \A i, j \in 1 .. Len(u) : i < j => u[i][1] < u[j][1]
  BY <1>6, <1>7
<1> QED
  BY <1>1, <1>8 DEF Rising

(* So have the tasks of such buckets.                                       *)
LEMMA TasksRising ==
  ASSUME NEW J, NEW E, NEW job \in J, NEW n \in Nat, NEW buckets,
         \A c \in 0 .. n - 1 : buckets[c] \in Seq(E) /\ Rising(buckets[c]), NEW seqs,
         \A t \in 1 .. n : seqs[t] = IF buckets[t - 1] = <<>> THEN <<>>
                                     ELSE << [job |-> job, work |-> buckets[t - 1]] >>,
         NEW tasks, tasks = Joined(n, seqs)
  PROVE  AllRising(tasks)
<1>1. PICK b : AreTasks(tasks, job, n, buckets, b)
  BY TasksOfBuckets
<1>2. ASSUME NEW k \in 1 .. Len(tasks) PROVE Rising(tasks[k].work)
  <2>1. b[k] \in 0 .. n - 1 /\ tasks[k] = [job |-> job, work |-> buckets[b[k]]]
    BY <1>1 DEF AreTasks
  <2>2. tasks[k].work = buckets[b[k]]
    BY <2>1
  <2> QED BY <2>1, <2>2
<1> QED
  BY <1>2 DEF AllRising

(* So have lists enqueued behind others.                                    *)
LEMMA EnqueuedRising ==
  ASSUME NEW J, NEW E, NEW s \in WorkLists(J, E), NEW t \in WorkLists(J, E),
         AllRising(s), AllRising(t)
  PROVE  AllRising(s \o t)
<1> DEFINE u == s \o t
           n == Len(s)
           m == Len(t)
<1>1. Len(u) = n + m /\ n \in Nat /\ m \in Nat
  BY WorkEnqueued
<1>2. \A i \in 1 .. n + m : u[i] = IF i <= n THEN s[i] ELSE t[i - n]
  BY WorkEnqueued
<1> HIDE DEF u
<1>3. ASSUME NEW k \in 1 .. Len(u) PROVE Rising(u[k].work)
  <2>1. CASE k <= n
    <3>1. k \in 1 .. Len(s) /\ u[k] = s[k]
      BY <2>1, <1>1, <1>2
    <3> QED BY <3>1 DEF AllRising
  <2>2. CASE ~(k <= n)
    <3>1. k - n \in 1 .. Len(t) /\ u[k] = t[k - n]
      BY <2>2, <1>1, <1>2
    <3> QED BY <3>1 DEF AllRising
  <2> QED BY <2>1, <2>2
<1> QED
  BY <1>3 DEF AllRising, u

(* A list in which positions go up has none twice, in its order and in what  *)
(* is left when an entry is done; the entry is the first of its list.       *)
LEMMA RisingAfter ==
  ASSUME NEW J, NEW pool \in WorkLists(J, Entries), NEW k \in 1 .. Len(pool), NEW rest,
         WithoutFirst(rest, pool, k), AllRising(pool)
  PROVE  /\ NoneTwice(pool)
         /\ AllRising(rest)
         /\ \A i \in 1 .. Len(pool[k].work) : pool[k].work[1][1] <= pool[k].work[i][1]
<1> DEFINE w == pool[k].work
<1>1. \A j \in 1 .. Len(pool) : /\ pool[j].work \in Seq(Entries) /\ Len(pool[j].work) \in Nat
                                /\ \A i \in 1 .. Len(pool[j].work) : pool[j].work[i][1] \in Nat
  <2> TAKE j \in 1 .. Len(pool)
  <2>1. pool \in Seq([job : J, work : Seq(Entries)])
    BY DEF WorkLists
  <2> DEFINE T == [job : J, work : Seq(Entries)]
  <2> HIDE DEF T
  <2>2. pool[j] \in T
    BY <2>1, ElementOfSeq DEF T
  <2>3. pool[j].work \in Seq(Entries)
    BY <2>2 DEF T
  <2>4. Len(pool[j].work) \in Nat /\ \A i \in 1 .. Len(pool[j].work) : pool[j].work[i] \in Entries
    BY <2>3, ElementOfSeq, LenProperties
  <2> QED BY <2>3, <2>4 DEF Entries
<1>2. \A j \in 1 .. Len(pool) : Rising(pool[j].work)
  BY DEF AllRising
<1>3. ASSUME NEW j \in 1 .. Len(pool) PROVE Distinct(pool[j].work)
  <2> DEFINE v == pool[j].work
  <2>1. Rising(v) /\ \A i \in 1 .. Len(v) : v[i][1] \in Nat
    BY <1>1, <1>2
  <2> HIDE DEF v
  <2>2. ASSUME NEW a \in 1 .. Len(v), NEW b \in 1 .. Len(v), a # b PROVE v[a] # v[b]
    <3>1. a < b \/ b < a
      BY <2>2
    <3>2. v[a][1] # v[b][1]
      BY <2>1, <3>1 DEF Rising
    <3> QED BY <3>2
  <2> QED BY <2>2 DEF Distinct, v
<1>4. ASSUME NEW i \in 1 .. Len(w) PROVE w[1][1] <= w[i][1]
  <2>1. Rising(w) /\ Len(w) \in Nat /\ \A m \in 1 .. Len(w) : w[m][1] \in Nat
    BY <1>1, <1>2
  <2> HIDE DEF w
  <2>2. 1 \in 1 .. Len(w) /\ (i = 1 \/ 1 < i)
    BY <2>1, <1>4
  <2> QED BY <2>1, <2>2 DEF Rising
<1>5. ASSUME \A i \in 1 .. Len(rest) : \E j \in 1 .. Len(pool) : j # k /\ rest[i] = pool[j]
      PROVE  AllRising(rest)
  BY <1>2, <1>5 DEF AllRising
<1>6. ASSUME /\ Len(rest) = Len(pool)
             /\ \A j \in 1 .. Len(pool) : j # k => rest[j] = pool[j]
             /\ rest[k].job = pool[k].job
             /\ Len(rest[k].work) = Len(w) - 1
             /\ \A m \in 1 .. Len(rest[k].work) : rest[k].work[m] = w[m + 1]
      PROVE  AllRising(rest)
  <2>1. ASSUME NEW i \in 1 .. Len(rest) PROVE Rising(rest[i].work)
    <3>1. CASE i # k
      <4>1. i \in 1 .. Len(pool) /\ rest[i] = pool[i]
        BY <3>1, <1>6
      <4> QED BY <4>1, <1>2
    <3>2. CASE i = k
      <4> DEFINE t == rest[k].work
      <4>1. Len(t) = Len(w) - 1 /\ \A m \in 1 .. Len(t) : t[m] = w[m + 1]
        BY <1>6
      <4>2. Rising(w) /\ Len(w) \in Nat
        BY <1>1, <1>2
      <4> HIDE DEF t, w
      <4>3. ASSUME NEW a \in 1 .. Len(t), NEW b \in 1 .. Len(t), a < b PROVE t[a][1] < t[b][1]
        <5>1. a + 1 \in 1 .. Len(w) /\ b + 1 \in 1 .. Len(w) /\ a + 1 < b + 1
          BY <4>1, <4>2, <4>3
        <5> QED BY <5>1, <4>1, <4>2 DEF Rising
      <4>4. Rising(t)
        BY <4>3 DEF Rising
      <4> QED BY <4>4, <3>2 DEF t
    <3> QED BY <3>1, <3>2
  <2> QED BY <2>1 DEF AllRising
<1>7. AllRising(rest)
  BY <1>5, <1>6 DEF WithoutFirst
<1> QED
  BY <1>3, <1>4, <1>7 DEF NoneTwice
=============================================================================
