------------------------------- MODULE Lists -------------------------------
(***************************************************************************)
(* Filtering a list, as JavaScript's filter does, written so that it can   *)
(* be proved about: SelectSeq is beyond the provers.  Each of the facts    *)
(* below is an induction over the length of a list.                        *)
(***************************************************************************)
EXTENDS Naturals, Sequences, SequencesExt, FiniteSetTheorems, WellFoundedInduction, TLAPS

\* The elements of s that are in T, in their order.
Selected(s, T) ==
    LET picked[n \in 0..Len(s)] ==
            IF n = 0 THEN <<>> ELSE IF s[n] \in T THEN Append(picked[n - 1], s[n]) ELSE picked[n - 1]
    IN  picked[Len(s)]

---------------------------------------------------------------------------
\* Range of the community modules, under a name of its own.
ValuesOf(s) == {s[i] : i \in DOMAIN s}

\* Induction: a set of numbers has a least one.
LEMMA LeastNumber ==
    ASSUME NEW T \in SUBSET Nat, T # {}
    PROVE  \E n \in T : \A m \in T : n <= m
  <1> DEFINE Intervals == {0..n : n \in T}
  <1>1. Intervals \subseteq FiniteSubsetsOf(Nat)
    <2> SUFFICES ASSUME NEW n \in T PROVE 0..n \in FiniteSubsetsOf(Nat)
      OBVIOUS
    <2>1. IsFiniteSet(0..n)
      BY FS_Interval
    <2> QED BY <2>1 DEF FiniteSubsetsOf
  <1>2. IsWellFoundedOn(StrictSubsetOrdering(Nat), FiniteSubsetsOf(Nat))
    BY FS_StrictSubsetOrderingWellFounded
  <1>3. PICK x \in Intervals : \A y \in Intervals : ~ (<<y, x>> \in StrictSubsetOrdering(Nat))
    <2>1. Intervals # {}
      OBVIOUS
    <2> HIDE DEF Intervals
    <2> QED BY <1>1, <1>2, <2>1, WFMin
  <1>4. PICK n \in T : x = 0..n
    OBVIOUS
  <1> SUFFICES ASSUME NEW m \in T, m < n PROVE FALSE
    BY <1>4
  <1>5. <<0..m, 0..n>> \in StrictSubsetOrdering(Nat)
    BY DEF StrictSubsetOrdering
  <1> QED BY <1>3, <1>4, <1>5

LEMMA InductionBelow ==
    ASSUME NEW m \in Nat, NEW T, 0 \in T,
           \A n \in 0..m : n \in T /\ n < m => n + 1 \in T
    PROVE  \A n \in 0..m : n \in T
  <1> DEFINE Rest == {n \in 0..m : n \notin T}
  <1> SUFFICES ASSUME Rest # {} PROVE FALSE
    OBVIOUS
  <1>1. PICK n \in Rest : \A k \in Rest : n <= k
    <2>1. Rest \in SUBSET Nat
      OBVIOUS
    <2> HIDE DEF Rest
    <2> QED BY <2>1, LeastNumber
  <1>2. n # 0 /\ n \in 0..m
    BY <1>1
  <1>3. n - 1 \in T
    BY <1>1, <1>2
  <1> QED BY <1>1, <1>2, <1>3

LEMMA Induction ==
    ASSUME NEW N \in Nat, NEW P, 0 \in P, \A i \in 1..N : i - 1 \in P => i \in P
    PROVE  0..N \subseteq P
  <1>1. ASSUME NEW n \in 0..N, n \in P, n < N PROVE n + 1 \in P
    <2>1. n + 1 \in 1..N /\ (n + 1) - 1 = n
      BY <1>1
    <2> QED BY <1>1, <2>1
  <1> QED BY <1>1, InductionBelow

Steps(next, N, S) == next \in [1..N -> [S -> S]]

IsIteration(f, N, S, a, next) ==
    /\ f \in [0..N -> S]
    /\ f[0] = a
    /\ \A i \in 1..N : f[i] = next[i][f[i - 1]]

\* A function that is defined step by step exists.
LEMMA Iterates ==
    ASSUME NEW N \in Nat, NEW S, NEW a \in S, NEW next, Steps(next, N, S)
    PROVE  \E f : IsIteration(f, N, S, a, next)
  <1> USE DEF Steps
  <1> DEFINE Good(k, f) == f[0] = a /\ \A i \in 1..k : f[i] = next[i][f[i - 1]]
             Reached == {k \in 0..N : \E f \in [0..k -> S] : Good(k, f)}
  <1>1. 0 \in Reached
    <2> DEFINE f == [i \in 0..0 |-> a]
    <2>1. f \in [0..0 -> S] /\ Good(0, f) OBVIOUS
    <2> HIDE DEF Good, f
    <2> QED BY <2>1
  <1>2. ASSUME NEW k \in 1..N, k - 1 \in Reached
        PROVE  k \in Reached
    <2>1. PICK f \in [0..(k - 1) -> S] : Good(k - 1, f) BY <1>2
    <2> DEFINE g == [i \in 0..k |-> IF i = k THEN next[k][f[k - 1]] ELSE f[i]]
    <2>2. next[k][f[k - 1]] \in S OBVIOUS
    <2>3. g \in [0..k -> S] BY <2>2
    <2>4. g[0] = a BY <2>1
    <2>5. ASSUME NEW i \in 1..k
          PROVE  g[i] = next[i][g[i - 1]]
      <3>1. i - 1 \in 0..k /\ i - 1 # k OBVIOUS
      <3>2. i # k => i \in 1..(k - 1) OBVIOUS
      <3> QED BY <2>1, <3>1, <3>2
    <2>6. Good(k, g) BY <2>4, <2>5
    <2> HIDE DEF Good, g
    <2> QED BY <2>3, <2>6
  <1>3. 0..N \subseteq Reached
    <2> HIDE DEF Reached
    <2> QED BY <1>1, <1>2, Induction
  <1>4. PICK f \in [0..N -> S] : Good(N, f) BY <1>3
  <1> QED BY <1>4 DEF IsIteration

---------------------------------------------------------------------------
(* Selected.                                                               *)

\* What has been picked of s[1..n], given what was before.
PickStep(s, T, f, n) ==
    IF n = 0 THEN <<>> ELSE IF s[n] \in T THEN Append(f[n - 1], s[n]) ELSE f[n - 1]

LEMMA PickingIsDefined ==
    ASSUME NEW S, NEW s \in Seq(S), NEW T
    PROVE  \E picked : picked = [n \in 0..Len(s) |-> PickStep(s, T, picked, n)]
  <1> DEFINE Good == {n \in 0..Len(s) : \E f : f = [k \in 0..n |-> PickStep(s, T, f, k)]}
  <1>1. 0 \in Good
    <2> DEFINE f == [k \in 0..0 |-> <<>>]
    <2>1. f = [k \in 0..0 |-> PickStep(s, T, f, k)]
      BY DEF PickStep
    <2> QED BY <2>1
  <1>2. ASSUME NEW n \in 0..Len(s), n \in Good, n < Len(s)
        PROVE  n + 1 \in Good
    <2>1. PICK f : f = [k \in 0..n |-> PickStep(s, T, f, k)]
      BY <1>2
    <2> DEFINE g == [k \in 0..n + 1 |-> IF k = n + 1 THEN PickStep(s, T, f, k) ELSE f[k]]
    <2>2. \A k \in 0..n : g[k] = f[k]
      OBVIOUS
    <2>3. ASSUME NEW k \in 0..n + 1 PROVE PickStep(s, T, g, k) = g[k]
      <3>1. CASE k = 0
        <4>1. f[0] = <<>>
          BY <2>1 DEF PickStep
        <4> QED BY <3>1, <4>1 DEF PickStep
      <3>2. CASE k # 0
        <4>1. k - 1 \in 0..n
          BY <3>2
        <4>2. g[k - 1] = f[k - 1]
          BY <4>1, <2>2
        <4>3. PickStep(s, T, g, k) = PickStep(s, T, f, k)
          BY <4>2 DEF PickStep
        <4>4. CASE k = n + 1
          BY <4>3, <4>4
        <4>5. CASE k # n + 1
          <5>1. k \in 0..n
            BY <4>5
          <5> QED BY <5>1, <2>1, <2>2, <4>3
        <4> QED BY <4>4, <4>5
      <3> QED BY <3>1, <3>2
    <2>4. g = [k \in 0..n + 1 |-> PickStep(s, T, g, k)]
      <3>1. g = [k \in 0..n + 1 |-> g[k]]
        OBVIOUS
      <3> HIDE DEF g
      <3> QED BY <2>3, <3>1
    <2>5. n + 1 \in 0..Len(s)
      BY <1>2
    <2> HIDE DEF g
    <2> QED BY <2>4, <2>5
  <1>3. Len(s) \in Nat
    OBVIOUS
  <1>4. Len(s) \in Good
    <2> HIDE DEF Good
    <2>1. \A n \in 0..Len(s) : n \in Good
      BY <1>1, <1>2, <1>3, InductionBelow
    <2> QED BY <2>1, <1>3
  <1> QED BY <1>4

\* Where the elements of r come from: position i of r is position g[i] of s.
Embeds(r, s, g, n, T) ==
    /\ g \in [1..Len(r) -> 1..n]
    /\ \A i \in 1..Len(r) : r[i] = s[g[i]] /\ s[g[i]] \in T
    /\ \A i, j \in 1..Len(r) : i < j => g[i] < g[j]
    /\ \A k \in 1..n : s[k] \in T => \E i \in 1..Len(r) : g[i] = k

(***************************************************************************)
(* Selected keeps exactly the positions whose element is in T, in order.   *)
(***************************************************************************)
LEMMA SelectedEmbeds ==
    ASSUME NEW S, NEW s \in Seq(S), NEW T
    PROVE  /\ Selected(s, T) \in Seq(S)
           /\ \E g : Embeds(Selected(s, T), s, g, Len(s), T)
  <1> DEFINE picked == CHOOSE f : f = [n \in 0..Len(s) |-> PickStep(s, T, f, n)]
  <1>1. picked = [n \in 0..Len(s) |-> PickStep(s, T, picked, n)]
    BY PickingIsDefined
  <1>2. Selected(s, T) = picked[Len(s)]
    BY DEF Selected, PickStep
  <1> DEFINE Good == {n \in 0..Len(s) : picked[n] \in Seq(S) /\ \E g : Embeds(picked[n], s, g, n, T)}
  <1> HIDE DEF picked
  <1>3. 0 \in Good
    <2>1. picked[0] = <<>>
      BY <1>1 DEF PickStep
    <2>2. Embeds(<<>>, s, <<>>, 0, T)
      BY DEF Embeds
    <2>3. \E g : Embeds(picked[0], s, g, 0, T)
      BY <2>1, <2>2
    <2>4. picked[0] \in Seq(S)
      BY <2>1
    <2> QED BY <2>3, <2>4
  <1>4. ASSUME NEW n \in 0..Len(s), n \in Good, n < Len(s)
        PROVE  n + 1 \in Good
    <2> DEFINE r == picked[n]
               r1 == picked[n + 1]
    <2>1. PICK g : Embeds(r, s, g, n, T)
      BY <1>4
    <2>2. r \in Seq(S) /\ n + 1 \in 0..Len(s) /\ s[n + 1] \in S
      BY <1>4
    <2>3. r1 = IF s[n + 1] \in T THEN Append(r, s[n + 1]) ELSE r
      <3>1. r1 = PickStep(s, T, picked, n + 1)
        BY <1>1, <2>2
      <3>2. n + 1 # 0 /\ (n + 1) - 1 = n
        OBVIOUS
      <3> QED BY <3>1, <3>2 DEF PickStep
    <2> HIDE DEF r, r1
    <2>4. CASE s[n + 1] \in T
      <3> DEFINE h == [i \in 1..Len(r) + 1 |-> IF i = Len(r) + 1 THEN n + 1 ELSE g[i]]
      <3>1. r1 = Append(r, s[n + 1]) /\ r1 \in Seq(S) /\ Len(r1) = Len(r) + 1
        BY <2>2, <2>3, <2>4
      <3>2. Embeds(r1, s, h, n + 1, T)
        <4>1. h \in [1..Len(r1) -> 1..n + 1]
          BY <3>1, <2>1, <2>2 DEF Embeds
        <4>2. ASSUME NEW i \in 1..Len(r1) PROVE r1[i] = s[h[i]] /\ s[h[i]] \in T
          <5>1. CASE i = Len(r) + 1
            BY <3>1, <2>2, <2>4, <5>1
          <5>2. CASE i # Len(r) + 1
            <6>1. i \in 1..Len(r) /\ h[i] = g[i] /\ r1[i] = r[i]
              BY <3>1, <2>2, <5>2
            <6> HIDE DEF h
            <6> QED BY <6>1, <2>1 DEF Embeds
          <5> QED BY <5>1, <5>2
        <4>3. ASSUME NEW i \in 1..Len(r1), NEW j \in 1..Len(r1), i < j PROVE h[i] < h[j]
          <5>0. i \in 1..Len(r)
            BY <3>1, <2>2, <4>3
          <5>1. h[i] = g[i] /\ g[i] \in 1..n
            <6>1. h[i] = g[i]
              BY <5>0, <2>2
            <6>2. g[i] \in 1..n
              BY <5>0, <2>1 DEF Embeds
            <6> QED BY <6>1, <6>2
          <5>2. CASE j = Len(r) + 1
            BY <5>1, <5>2, <2>2
          <5>3. CASE j # Len(r) + 1
            <6>1. j \in 1..Len(r) /\ h[j] = g[j]
              BY <3>1, <2>2, <5>3
            <6> HIDE DEF h
            <6> QED BY <5>0, <5>1, <6>1, <2>1, <4>3 DEF Embeds
          <5> QED BY <5>2, <5>3
        <4>4. ASSUME NEW k \in 1..n + 1, s[k] \in T PROVE \E i \in 1..Len(r1) : h[i] = k
          <5>1. CASE k = n + 1
            BY <5>1, <3>1, <2>2
          <5>2. CASE k # n + 1
            <6>1. PICK i \in 1..Len(r) : g[i] = k
              BY <2>1, <2>2, <4>4, <5>2 DEF Embeds
            <6> QED BY <6>1, <3>1, <2>2
          <5> QED BY <5>1, <5>2
        <4> HIDE DEF h
        <4> QED BY <4>1, <4>2, <4>3, <4>4 DEF Embeds
      <3> HIDE DEF h
      <3> QED BY <3>1, <3>2, <2>2 DEF r1
    <2>5. CASE s[n + 1] \notin T
      <3>1. r1 = r
        BY <2>3, <2>5
      <3>2. Embeds(r1, s, g, n + 1, T)
        BY <3>1, <2>1, <2>2, <2>5 DEF Embeds
      <3> QED BY <3>1, <3>2, <2>2 DEF r1
    <2> QED BY <2>4, <2>5
  <1>5. Len(s) \in Nat
    OBVIOUS
  <1>6. Len(s) \in Good
    <2> HIDE DEF Good
    <2>1. \A n \in 0..Len(s) : n \in Good
      BY <1>3, <1>4, <1>5, InductionBelow
    <2> QED BY <2>1, <1>5
  <1> QED BY <1>2, <1>6

LEMMA SelectedRange ==
    ASSUME NEW S, NEW s \in Seq(S), NEW T
    PROVE  /\ Selected(s, T) \in Seq(S \cap T)
           /\ ValuesOf(Selected(s, T)) = ValuesOf(s) \cap T
  <1> DEFINE r == Selected(s, T)
  <1>1. PICK g : Embeds(r, s, g, Len(s), T)
    BY SelectedEmbeds
  <1>2. r \in Seq(S)
    BY SelectedEmbeds
  <1> HIDE DEF r
  <1>3. ASSUME NEW i \in 1..Len(r) PROVE r[i] \in S \cap T /\ g[i] \in 1..Len(s) /\ r[i] = s[g[i]]
    BY <1>1, <1>2 DEF Embeds
  <1>4. r \in Seq(S \cap T)
    BY <1>2, <1>3
  <1>5. ASSUME NEW k \in 1..Len(s), s[k] \in T PROVE \E i \in 1..Len(r) : r[i] = s[k]
    BY <1>1, <1>5 DEF Embeds
  <1>6. DOMAIN r = 1..Len(r) /\ DOMAIN s = 1..Len(s)
    BY <1>2
  <1>7. {r[i] : i \in 1..Len(r)} = {s[k] : k \in 1..Len(s)} \cap T
    BY <1>3, <1>5
  <1> QED BY <1>4, <1>6, <1>7 DEF r, ValuesOf

\* What occurs once in a list occurs once in what is selected of it.
LEMMA SelectedOnce ==
    ASSUME NEW S, NEW s \in Seq(S), NEW T,
           \A i, j \in 1..Len(s) : s[i] = s[j] => i = j
    PROVE  \A i, j \in 1..Len(Selected(s, T)) : Selected(s, T)[i] = Selected(s, T)[j] => i = j
  <1> DEFINE r == Selected(s, T)
  <1>1. PICK g : Embeds(r, s, g, Len(s), T)
    BY SelectedEmbeds
  <1> HIDE DEF r
  <1> SUFFICES ASSUME NEW i \in 1..Len(r), NEW j \in 1..Len(r), r[i] = r[j], i # j PROVE FALSE
    BY DEF r
  <1>2. g[i] \in 1..Len(s) /\ g[j] \in 1..Len(s) /\ s[g[i]] = s[g[j]]
    BY <1>1 DEF Embeds
  <1>3. g[i] = g[j]
    BY <1>2
  <1>4. i < j \/ j < i
    OBVIOUS
  <1> QED BY <1>1, <1>2, <1>3, <1>4 DEF Embeds

---------------------------------------------------------------------------
(* FlattenSeq.                                                             *)

\* What the first n lists make, given what those before them do.
JoinStep(ss, f, n) == IF n = 1 THEN ss[n] ELSE f[n - 1] \o ss[n]

LEMMA JoiningIsDefined ==
    ASSUME NEW S, NEW ss \in Seq(Seq(S))
    PROVE  \E f : f = [n \in 1..Len(ss) |-> JoinStep(ss, f, n)]
  <1> DEFINE Good == {n \in 0..Len(ss) : \E f : f = [k \in 1..n |-> JoinStep(ss, f, k)]}
  <1>1. 0 \in Good
    <2> DEFINE f == [k \in 1..0 |-> <<>>]
    <2>1. f = [k \in 1..0 |-> JoinStep(ss, f, k)]
      OBVIOUS
    <2> HIDE DEF f
    <2>2. \E h : h = [k \in 1..0 |-> JoinStep(ss, h, k)]
      BY <2>1, Zenon
    <2>3. 0 \in 0..Len(ss)
      OBVIOUS
    <2> QED BY <2>2, <2>3
  <1>2. ASSUME NEW n \in 0..Len(ss), n \in Good, n < Len(ss)
        PROVE  n + 1 \in Good
    <2>1. PICK f : f = [k \in 1..n |-> JoinStep(ss, f, k)]
      BY <1>2
    <2> DEFINE g == [k \in 1..n + 1 |-> IF k = n + 1 THEN JoinStep(ss, f, k) ELSE f[k]]
    <2>2. \A k \in 1..n : g[k] = f[k]
      OBVIOUS
    <2>3. ASSUME NEW k \in 1..n + 1 PROVE JoinStep(ss, g, k) = g[k]
      <3>1. JoinStep(ss, g, k) = JoinStep(ss, f, k)
        <4>1. CASE k = 1
          BY <4>1 DEF JoinStep
        <4>2. CASE k # 1
          <5>1. g[k - 1] = f[k - 1]
            BY <2>2, <4>2
          <5> QED BY <5>1 DEF JoinStep
        <4> QED BY <4>1, <4>2
      <3>2. CASE k = n + 1
        BY <3>1, <3>2
      <3>3. CASE k # n + 1
        <4>1. k \in 1..n
          BY <3>3
        <4> QED BY <4>1, <2>1, <2>2, <3>1
      <3> QED BY <3>2, <3>3
    <2>4. g = [k \in 1..n + 1 |-> JoinStep(ss, g, k)]
      <3>1. g = [k \in 1..n + 1 |-> g[k]]
        OBVIOUS
      <3> HIDE DEF g
      <3> QED BY <2>3, <3>1
    <2>5. n + 1 \in 0..Len(ss)
      BY <1>2
    <2> HIDE DEF g
    <2> QED BY <2>4, <2>5
  <1>3. Len(ss) \in Nat
    OBVIOUS
  <1>4. Len(ss) \in Good
    <2> HIDE DEF Good
    <2>1. \A n \in 0..Len(ss) : n \in Good
      BY <1>1, <1>2, <1>3, InductionBelow
    <2> QED BY <2>1, <1>3
  <1> QED BY <1>4

ValuesUpTo(ss, n) == UNION {ValuesOf(ss[k]) : k \in 1..n}

LEMMA ValuesOfBoth ==
    ASSUME NEW S, NEW q \in Seq(S), NEW r \in Seq(S)
    PROVE  ValuesOf(q \o r) = ValuesOf(q) \cup ValuesOf(r)
  <1>1. DOMAIN (q \o r) = 1..(Len(q) + Len(r)) /\ DOMAIN q = 1..Len(q) /\ DOMAIN r = 1..Len(r)
    OBVIOUS
  <1>2. ASSUME NEW i \in 1..Len(q) + Len(r)
        PROVE  (q \o r)[i] \in ValuesOf(q) \cup ValuesOf(r)
    <2>1. CASE i <= Len(q)
      BY <2>1, <1>1 DEF ValuesOf
    <2>2. CASE i > Len(q)
      <3>1. i - Len(q) \in DOMAIN r /\ (q \o r)[i] = r[i - Len(q)]
        BY <2>2, <1>1
      <3> QED BY <3>1 DEF ValuesOf
    <2> QED BY <2>1, <2>2
  <1>3. ASSUME NEW i \in 1..Len(q) PROVE q[i] \in ValuesOf(q \o r)
    <2>1. i \in DOMAIN (q \o r) /\ (q \o r)[i] = q[i]
      BY <1>1
    <2> QED BY <2>1 DEF ValuesOf
  <1>4. ASSUME NEW i \in 1..Len(r) PROVE r[i] \in ValuesOf(q \o r)
    <2>1. i + Len(q) \in DOMAIN (q \o r) /\ (q \o r)[i + Len(q)] = r[i]
      BY <1>1
    <2> QED BY <2>1 DEF ValuesOf
  <1> QED BY <1>1, <1>2, <1>3, <1>4 DEF ValuesOf

(***************************************************************************)
(* FlattenSeq of the community modules makes a list, of the elements of    *)
(* the lists it is given.                                                  *)
(***************************************************************************)
LEMMA FlattenRange ==
    ASSUME NEW S, NEW ss \in Seq(Seq(S))
    PROVE  /\ FlattenSeq(ss) \in Seq(S)
           /\ ValuesOf(FlattenSeq(ss)) = UNION {ValuesOf(ss[k]) : k \in DOMAIN ss}
  <1> DEFINE flat == CHOOSE f : f = [n \in 1..Len(ss) |-> JoinStep(ss, f, n)]
  <1>1. flat = [n \in 1..Len(ss) |-> JoinStep(ss, flat, n)]
    BY JoiningIsDefined
  <1>2. FlattenSeq(ss) = IF Len(ss) = 0 THEN ss ELSE flat[Len(ss)]
    BY DEF FlattenSeq, JoinStep
  <1> HIDE DEF flat
  <1> DEFINE Good == {n \in 0..Len(ss) :
                          n = 0 \/ (flat[n] \in Seq(S) /\ ValuesOf(flat[n]) = ValuesUpTo(ss, n))}
  <1>3. 0 \in Good
    OBVIOUS
  <1>4. ASSUME NEW n \in 0..Len(ss), n \in Good, n < Len(ss)
        PROVE  n + 1 \in Good
    <2>1. ss[n + 1] \in Seq(S) /\ n + 1 \in 1..Len(ss) /\ n + 1 \in 0..Len(ss)
      BY <1>4
    <2>2. flat[n + 1] = JoinStep(ss, flat, n + 1)
      BY <1>1, <2>1
    <2>3. CASE n = 0
      <3>1. flat[n + 1] = ss[n + 1]
        BY <2>2, <2>3 DEF JoinStep
      <3>2. ValuesUpTo(ss, n + 1) = ValuesOf(ss[n + 1])
        <4>1. 1..n + 1 = {n + 1}
          BY <2>3
        <4> QED BY <4>1, Zenon DEF ValuesUpTo
      <3> QED BY <2>1, <3>1, <3>2
    <2>4. CASE n # 0
      <3>1. flat[n + 1] = flat[n] \o ss[n + 1]
        <4>1. n + 1 # 1 /\ (n + 1) - 1 = n
          BY <2>4
        <4> QED BY <2>2, <4>1 DEF JoinStep
      <3>2. flat[n] \in Seq(S) /\ ValuesOf(flat[n]) = ValuesUpTo(ss, n)
        BY <1>4, <2>4
      <3>3. ValuesUpTo(ss, n + 1) = ValuesUpTo(ss, n) \cup ValuesOf(ss[n + 1])
        <4>1. 1..n + 1 = (1..n) \cup {n + 1}
          OBVIOUS
        <4> QED BY <4>1, Zenon DEF ValuesUpTo
      <3>4. ValuesOf(flat[n] \o ss[n + 1]) = ValuesOf(flat[n]) \cup ValuesOf(ss[n + 1])
        BY <3>2, <2>1, ValuesOfBoth
      <3>5. flat[n + 1] \in Seq(S) /\ ValuesOf(flat[n + 1]) = ValuesUpTo(ss, n + 1)
        BY <3>1, <3>2, <3>3, <3>4, <2>1
      <3> QED BY <2>1, <3>5
    <2> QED BY <2>3, <2>4
  <1>5. Len(ss) \in Nat
    OBVIOUS
  <1>6. Len(ss) \in Good
    <2> HIDE DEF Good
    <2>1. \A n \in 0..Len(ss) : n \in Good
      BY <1>3, <1>4, <1>5, InductionBelow
    <2> QED BY <2>1, <1>5
  <1>7. DOMAIN ss = 1..Len(ss)
    OBVIOUS
  <1>8. FlattenSeq(ss) \in Seq(S) /\ ValuesOf(FlattenSeq(ss)) = ValuesUpTo(ss, Len(ss))
    <2>1. CASE Len(ss) = 0
      <3>1. FlattenSeq(ss) = <<>>
        BY <1>2, <2>1
      <3> QED BY <3>1, <2>1 DEF ValuesOf, ValuesUpTo
    <2>2. CASE Len(ss) # 0
      BY <1>2, <1>6, <2>2
    <2> QED BY <2>1, <2>2
  <1> QED BY <1>7, <1>8 DEF ValuesOf, ValuesUpTo
=============================================================================
