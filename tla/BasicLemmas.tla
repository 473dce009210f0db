----------------------------- MODULE BasicLemmas ----------------------------
(***************************************************************************)
(* What the proofs share: induction over numbers and functions defined by  *)
(* recursion, in a form SMT can use; and facts about the lists of idle     *)
(* objects that workerpool.go and connmanager.go keep.                     *)
(***************************************************************************)
EXTENDS Integers, SequencesExt, SequenceTheorems, WellFoundedInduction, TLAPS

-----------------------------------------------------------------------------
(* Least numbers, and functions defined by recursion *)

\* A set of natural numbers has a least element.
LEMMA Least ==
    ASSUME NEW T, T \subseteq Nat, T # {}
    PROVE  \E m \in T : \A k \in T : m <= k
  <1> DEFINE Less == {ss \in Nat \X Nat : ss[1] < ss[2]}
  <1>1. IsWellFoundedOn(Less, Nat)
    BY NatLessThanWellFounded DEF OpToRel
  <1>2. PICK m \in T : \A k \in T : ~ (<<k, m>> \in Less)
    <2> HIDE DEF Less
    <2> QED BY <1>1, WFMin
  <1>3. ASSUME NEW k \in T PROVE m <= k
    <2>1. k \in Nat /\ m \in Nat
      OBVIOUS
    <2>2. ~(<<k, m>>[1] < <<k, m>>[2])
      BY <1>2, <2>1
    <2> QED BY <2>1, <2>2
  <1> QED BY <1>3

\* Induction, as SMT can use it: a set of numbers that holds 0 and the successor
\* of each of its elements up to n holds all numbers up to n.
LEMMA Upto ==
    ASSUME NEW n \in Nat, NEW T, 0 \in T, \A k \in 0 .. n - 1 : k \in T => k + 1 \in T
    PROVE  \A k \in 0 .. n : k \in T
  <1> DEFINE Bad == {k \in 0 .. n : k \notin T}
  <1>1. SUFFICES ASSUME Bad # {} PROVE FALSE
    OBVIOUS
  <1>2. PICK m \in Bad : \A k \in Bad : m <= k
    <2>1. Bad \subseteq Nat
      OBVIOUS
    <2> HIDE DEF Bad
    <2> QED BY <1>1, <2>1, Least
  <1>3. m \in 1 .. n /\ m \notin T
    BY <1>2
  <1>4. m - 1 \in 0 .. n - 1 /\ m - 1 \notin Bad
    BY <1>2, <1>3
  <1> QED BY <1>3, <1>4

\* Min and Max of a set of numbers.
LEMMA MinOf ==
    ASSUME NEW T, T \subseteq Nat, T # {}
    PROVE  Min(T) \in T /\ \A k \in T : Min(T) <= k
  BY Least DEF Min

LEMMA MaxOf ==
    ASSUME NEW n \in Nat, NEW T, T \subseteq 1 .. n, T # {}
    PROVE  Max(T) \in T
  <1> DEFINE U == {n - k : k \in T}
  <1>1. PICK m \in U : \A k \in U : m <= k
    <2>1. U \subseteq Nat
      OBVIOUS
    <2>2. U # {}
      OBVIOUS
    <2> HIDE DEF U
    <2> QED BY <2>1, <2>2, Least
  <1>2. PICK x \in T : m = n - x
    OBVIOUS
  <1>3. ASSUME NEW k \in T PROVE x >= k
    <2>1. n - k \in U
      OBVIOUS
    <2>2. n - x <= n - k
      BY <1>1, <1>2, <2>1
    <2>3. x \in 1 .. n /\ k \in 1 .. n
      OBVIOUS
    <2> QED BY <2>2, <2>3
  <1> HIDE DEF U
  <1> QED BY <1>2, <1>3 DEF Max

LEMMA MinPair ==
    ASSUME NEW a \in Int, NEW b \in Int
    PROVE  Min({a, b}) = IF a <= b THEN a ELSE b
  BY DEF Min

LEMMA MaxPair ==
    ASSUME NEW a \in Int, NEW b \in Int
    PROVE  Max({a, b}) = IF a >= b THEN a ELSE b
  BY DEF Max

\* A function on 1 .. n that takes its value at i from the one it has at to[i],
\* if that is a greater place, or else has one of its own there.
Recursive(f, n, to, own, F) ==
    \A i \in 1 .. n : f[i] = IF to[i] \in i + 1 .. n THEN F[i][f[to[i]]] ELSE own[i]

\* Such a recursive definition has a solution.
LEMMA Recursion ==
    ASSUME NEW n \in Nat, NEW V, NEW to, NEW own, NEW F,
           \A i \in 1 .. n : own[i] \in V /\ \A v \in V : F[i][v] \in V
    PROVE  \E f \in [1 .. n -> V] : Recursive(f, n, to, own, F)
  <1> DEFINE At(f, i) == f[i] = IF to[i] \in i + 1 .. n THEN F[i][f[to[i]]] ELSE own[i]
             T == {k \in 0 .. n : \E f \in [1 .. n -> V] : \A i \in n - k + 1 .. n : At(f, i)}
  <1>1. 0 \in T
    <2>1. [i \in 1 .. n |-> own[i]] \in [1 .. n -> V]
      OBVIOUS
    <2>2. n - 0 + 1 .. n = {} /\ 0 \in 0 .. n
      OBVIOUS
    <2> HIDE DEF At
    <2> QED BY <2>1, <2>2
  <1>2. ASSUME NEW k \in 0 .. n - 1, k \in T PROVE k + 1 \in T
    <2>1. PICK f \in [1 .. n -> V] : \A i \in n - k + 1 .. n : At(f, i)
      BY <1>2
    <2> DEFINE j == n - k
               v == IF to[j] \in j + 1 .. n THEN F[j][f[to[j]]] ELSE own[j]
               g == [f EXCEPT ![j] = v]
    <2>2. j \in 1 .. n /\ v \in V
      <3>1. j \in 1 .. n
        OBVIOUS
      <3>2. own[j] \in V
        BY <3>1
      <3>3. to[j] \in j + 1 .. n => f[to[j]] \in V
        BY <3>1
      <3> HIDE DEF j
      <3> QED BY <3>1, <3>2, <3>3
    <2>3. g \in [1 .. n -> V]
      <3> HIDE DEF v
      <3> QED BY <2>2
    <2>4. ASSUME NEW i \in n - (k + 1) + 1 .. n PROVE At(g, i)
      <3>1. i \in j .. n /\ i \in 1 .. n
        BY <2>2
      <3>2. to[i] \in i + 1 .. n => g[to[i]] = f[to[i]]
        BY <2>2, <3>1
      <3>3. CASE i = j
        <4>1. g[j] = v
          BY <2>2
        <4> HIDE DEF g
        <4> QED BY <3>2, <3>3, <4>1
      <3>4. CASE i # j
        <4>1. g[i] = f[i] /\ i \in n - k + 1 .. n
          BY <3>1, <3>4, <2>2
        <4>2. At(f, i)
          BY <2>1, <4>1
        <4> HIDE DEF g
        <4> QED BY <3>2, <4>1, <4>2
      <3> QED BY <3>3, <3>4
    <2>5. k + 1 \in 0 .. n
      OBVIOUS
    <2> HIDE DEF At, g
    <2> QED BY <2>3, <2>4, <2>5
  <1>3. n \in T
    <2> HIDE DEF T
    <2> QED BY <1>1, <1>2, Upto
  <1>4. PICK f \in [1 .. n -> V] : \A i \in n - n + 1 .. n : At(f, i)
    BY <1>3
  <1>5. \A i \in 1 .. n : At(f, i)
    BY <1>4
  <1> QED BY <1>5 DEF Recursive

-----------------------------------------------------------------------------
(* Lists of idle objects: sequences without repetition that grow at the    *)
(* end (release, ReleaseConn), shrink at the end (getCh, AcquireConn),     *)
(* shrink at the front (the loops over scratch and ready) and are cut in   *)
(* two (clean, connsCleaner).                                              *)

\* The empty list holds nothing.
LEMMA EmptyList ==
    /\ IsInjective(<<>>)
    /\ \A y : ~Contains(<<>>, y)
  BY DEF Contains, IsInjective

\* release, ReleaseConn: append(list, x) of an x that is not in the list.
LEMMA AppendList ==
    ASSUME NEW S, NEW s \in Seq(S), NEW x \in S, IsInjective(s), ~Contains(s, x)
    PROVE  /\ Append(s, x) \in Seq(S)
           /\ IsInjective(Append(s, x))
           /\ \A y : Contains(Append(s, x), y) <=> Contains(s, y) \/ y = x
  BY DEF Contains, IsInjective

\* getCh, AcquireConn: the last one is taken.
LEMMA FrontList ==
    ASSUME NEW S, NEW s \in Seq(S), IsInjective(s), s # <<>>
    PROVE  /\ Front(s) \in Seq(S)
           /\ Last(s) \in S
           /\ IsInjective(Front(s))
           /\ \A y : Contains(s, y) <=> Contains(Front(s), y) \/ y = Last(s)
           /\ ~Contains(Front(s), Last(s))
  BY DEF Contains, IsInjective, Front, Last

\* clean, connsCleaner: the first i leave the list.
LEMMA SplitList ==
    ASSUME NEW S, NEW s \in Seq(S), IsInjective(s), NEW i \in 0 .. Len(s)
    PROVE  /\ SubSeq(s, 1, i) \in Seq(S)
           /\ SubSeq(s, i + 1, Len(s)) \in Seq(S)
           /\ IsInjective(SubSeq(s, 1, i))
           /\ IsInjective(SubSeq(s, i + 1, Len(s)))
           /\ \A y : Contains(s, y) <=>
                 Contains(SubSeq(s, 1, i), y) \/ Contains(SubSeq(s, i + 1, Len(s)), y)
           /\ \A y : ~(Contains(SubSeq(s, 1, i), y)
                         /\ Contains(SubSeq(s, i + 1, Len(s)), y))
<1> DEFINE n == Len(s)
           p == SubSeq(s, 1, i)
           t == SubSeq(s, i + 1, n)
<1>1. /\ n \in Nat
      /\ DOMAIN s = 1 .. n
      /\ \A j \in 1 .. n : s[j] \in S
  BY LenProperties, ElementOfSeq
<1>2. /\ p \in Seq(S)
      /\ Len(p) = i
      /\ \A j \in 1 .. i : p[j] = s[j]
  BY <1>1
<1>3. /\ t \in Seq(S)
      /\ Len(t) = n - i
      /\ \A j \in 1 .. n - i : t[j] = s[i + j]
  <2>1. i + 1 \in Int /\ n \in Int /\ \A j \in i + 1 .. n : s[j] \in S
    BY <1>1
  <2>2. /\ t \in Seq(S)
        /\ Len(t) = IF i + 1 <= n THEN n - (i + 1) + 1 ELSE 0
        /\ \A j \in 1 .. n - (i + 1) + 1 : t[j] = s[(i + 1) + j - 1]
    BY <2>1, SubSeqProperties
  <2> HIDE DEF t
  <2>3. n \in Nat /\ i \in Nat /\ i <= n
    BY <1>1
  <2> QED BY <2>2, <2>3
<1>4. DOMAIN p = 1 .. i /\ DOMAIN t = 1 .. n - i
  BY <1>2, <1>3, LenProperties
<1> HIDE DEF n, p, t
<1>5. IsInjective(p) /\ IsInjective(t)
  <2>1. ASSUME NEW a \in 1 .. i, NEW b \in 1 .. i, p[a] = p[b] PROVE a = b
    BY <1>1, <1>2, <2>1 DEF IsInjective, n
  <2>2. ASSUME NEW a \in 1 .. n - i, NEW b \in 1 .. n - i, t[a] = t[b] PROVE a = b
    <3>1. i + a \in 1 .. n /\ i + b \in 1 .. n /\ s[i + a] = s[i + b]
      BY <1>1, <1>3, <2>2 DEF n
    <3>2. i + a = i + b
      BY <1>1, <3>1 DEF IsInjective
    <3> QED BY <3>2, <1>1
  <2> QED BY <1>4, <2>1, <2>2 DEF IsInjective
<1>6. ASSUME NEW y, Contains(s, y) PROVE Contains(p, y) \/ Contains(t, y)
  <2>1. PICK j \in 1 .. n : s[j] = y
    BY <1>6 DEF Contains, n
  <2>2. CASE j <= i
    BY <1>1, <1>2, <2>1, <2>2 DEF Contains
  <2>3. CASE j > i
    <3>1. j - i \in 1 .. n - i /\ t[j - i] = s[i + (j - i)] /\ i + (j - i) = j
      BY <1>1, <1>3, <2>1, <2>3
    <3> QED BY <1>3, <2>1, <3>1 DEF Contains
  <2> QED BY <1>1, <2>1, <2>2, <2>3
<1>7. ASSUME NEW y, Contains(p, y) \/ Contains(t, y) PROVE Contains(s, y)
  <2>1. CASE Contains(p, y)
    BY <1>1, <1>2, <2>1 DEF Contains, n
  <2>2. CASE Contains(t, y)
    <3>1. PICK j \in 1 .. n - i : t[j] = y
      BY <1>3, <2>2 DEF Contains
    <3>2. i + j \in 1 .. n /\ s[i + j] = y
      BY <1>1, <1>3, <3>1 DEF n
    <3> QED BY <3>2 DEF Contains, n
  <2> QED BY <1>7, <2>1, <2>2
<1>8. ASSUME NEW y, Contains(p, y), Contains(t, y) PROVE FALSE
  <2>1. PICK a \in 1 .. i : p[a] = y
    BY <1>2, <1>8 DEF Contains
  <2>2. PICK b \in 1 .. n - i : t[b] = y
    BY <1>3, <1>8 DEF Contains
  <2>3. a \in 1 .. n /\ i + b \in 1 .. n /\ s[a] = s[i + b]
    BY <1>1, <1>2, <1>3, <2>1, <2>2 DEF n
  <2>4. a = i + b
    BY <1>1, <2>3 DEF IsInjective
  <2> QED BY <2>1, <2>2, <2>4, <1>1
<1> QED BY <1>2, <1>3, <1>5, <1>6, <1>7, <1>8 DEF n, p, t

\* The loops over ready (Stop) and scratch: the first one is taken.
LEMMA TailList ==
    ASSUME NEW S, NEW s \in Seq(S), IsInjective(s), s # <<>>
    PROVE  /\ Tail(s) \in Seq(S)
           /\ Head(s) \in S
           /\ IsInjective(Tail(s))
           /\ \A y : Contains(s, y) <=> Contains(Tail(s), y) \/ y = Head(s)
           /\ ~Contains(Tail(s), Head(s))
<1>1. /\ Len(s) \in Nat
      /\ 1 \in 0 .. Len(s)
      /\ Head(s) \in S
      /\ Tail(s) \in Seq(S)
      /\ Head(s) = s[1]
      /\ Tail(s) = SubSeq(s, 1 + 1, Len(s))
  BY HeadTailProperties, TailIsSubSeq
<1>2. \A y : Contains(SubSeq(s, 1, 1), y) <=> y = Head(s)
  BY <1>1 DEF Contains
<1>3. /\ IsInjective(SubSeq(s, 1 + 1, Len(s)))
      /\ \A y : Contains(s, y) <=>
            Contains(SubSeq(s, 1, 1), y) \/ Contains(SubSeq(s, 1 + 1, Len(s)), y)
      /\ \A y : ~(Contains(SubSeq(s, 1, 1), y)
                    /\ Contains(SubSeq(s, 1 + 1, Len(s)), y))
  BY <1>1, SplitList
<1> HIDE DEF Contains
<1> QED BY <1>1, <1>2, <1>3, Zenon
=============================================================================
