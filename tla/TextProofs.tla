----------------------------- MODULE TextProofs -----------------------------
(***************************************************************************)
(* What the chain types write as text, and read back: keys and signatures  *)
(* of every owner, type and content, names, slugs, symbols, amounts,       *)
(* times, block numbers, and bytes in base 58 and base 64, of any length   *)
(* and in any base.                                                        *)
(***************************************************************************)
EXTENDS ArithmeticProofs

---------------------------------------------------------------------------
(* Keys: lists of parts.                                                   *)

\* A short list is its elements.
LEMMA ShortLists ==
    ASSUME NEW T, NEW s \in Seq(T)
    PROVE  /\ Len(s) = 1 => s = <<s[1]>>
           /\ Len(s) = 2 => s = <<s[1], s[2]>>
           /\ Len(s) = 3 => s = <<s[1], s[2], s[3]>>
           /\ Len(s) = 4 => s = <<s[1], s[2], s[3], s[4]>>
  <1>1. Len(s) = 1 => s = <<s[1]>>
    OBVIOUS
  <1>2. Len(s) = 2 => s = <<s[1], s[2]>>
    OBVIOUS
  <1>3. Len(s) = 3 => s = <<s[1], s[2], s[3]>>
    OBVIOUS
  <1>4. Len(s) = 4 => s = <<s[1], s[2], s[3], s[4]>>
    OBVIOUS
  <1> QED BY <1>1, <1>2, <1>3, <1>4

LEMMA Joined ==
    ASSUME NEW a, NEW b, NEW c, NEW d
    PROVE  /\ <<a>> \o <<b>> = <<a, b>>
           /\ <<a>> \o <<b, c>> = <<a, b, c>>
           /\ <<a, b>> \o <<c>> = <<a, b, c>>
           /\ <<a, b, c>> \o <<d>> = <<a, b, c, d>>
           /\ <<a>> \o <<b, c, d>> = <<a, b, c, d>>
  <1> DEFINE T == {a, b, c, d}
  <1>1. <<a>> \o <<b>> = <<a, b>>
    <2> DEFINE s == <<a>> \o <<b>>
    <2>1. s \in Seq(T) /\ Len(s) = 2 /\ s[1] = a /\ s[2] = b
      OBVIOUS
    <2> HIDE DEF s, T
    <2>2. s = <<a, b>>
      BY <2>1, ShortLists
    <2> QED BY <2>2 DEF s
  <1>2. <<a>> \o <<b, c>> = <<a, b, c>>
    <2> DEFINE s == <<a>> \o <<b, c>>
    <2>1. s \in Seq(T) /\ Len(s) = 3 /\ s[1] = a /\ s[2] = b /\ s[3] = c
      OBVIOUS
    <2> HIDE DEF s, T
    <2>2. s = <<a, b, c>>
      BY <2>1, ShortLists
    <2> QED BY <2>2 DEF s
  <1>3. <<a, b>> \o <<c>> = <<a, b, c>>
    <2> DEFINE s == <<a, b>> \o <<c>>
    <2>1. s \in Seq(T) /\ Len(s) = 3 /\ s[1] = a /\ s[2] = b /\ s[3] = c
      OBVIOUS
    <2> HIDE DEF s, T
    <2>2. s = <<a, b, c>>
      BY <2>1, ShortLists
    <2> QED BY <2>2 DEF s
  <1>4. <<a, b, c>> \o <<d>> = <<a, b, c, d>>
    <2> DEFINE s == <<a, b, c>> \o <<d>>
    <2>1. s \in Seq(T) /\ Len(s) = 4 /\ s[1] = a /\ s[2] = b /\ s[3] = c /\ s[4] = d
      OBVIOUS
    <2> HIDE DEF s, T
    <2>2. s = <<a, b, c, d>>
      BY <2>1, ShortLists
    <2> QED BY <2>2 DEF s
  <1>5. <<a>> \o <<b, c, d>> = <<a, b, c, d>>
    <2> DEFINE s == <<a>> \o <<b, c, d>>
    <2>1. s \in Seq(T) /\ Len(s) = 4 /\ s[1] = a /\ s[2] = b /\ s[3] = c /\ s[4] = d
      OBVIOUS
    <2> HIDE DEF s, T
    <2>2. s = <<a, b, c, d>>
      BY <2>1, ShortLists
    <2> QED BY <2>2 DEF s
  <1> QED BY <1>1, <1>2, <1>3, <1>4, <1>5

LEMMA Parted ==
    ASSUME NEW a, NEW b, NEW c, NEW d
    PROVE  /\ Tail(<<a, b>>) = <<b>> /\ Tail(<<a, b, c>>) = <<b, c>> /\ Tail(<<a, b, c, d>>) = <<b, c, d>>
           /\ Head(<<a, b>>) = a /\ Head(<<a, b, c>>) = a
  <1>1. Tail(<<a, b>>) = <<b>>
    OBVIOUS
  <1>2. Tail(<<a, b, c>>) = <<b, c>>
    OBVIOUS
  <1>3. Tail(<<a, b, c, d>>) = <<b, c, d>>
    OBVIOUS
  <1>4. Head(<<a, b>>) = a /\ Head(<<a, b, c>>) = a
    OBVIOUS
  <1> QED BY <1>1, <1>2, <1>3, <1>4

LEMMA Prefix ==
    ASSUME NEW T, NEW t \in Seq(T), NEW n \in 0..Len(t)
    PROVE  /\ SubSeq(t, 1, n) \in Seq(T) /\ Len(SubSeq(t, 1, n)) = n
           /\ \A i \in 1..n : SubSeq(t, 1, n)[i] = t[i]
  <1>1. \A i \in 1..n : t[i] \in T
    OBVIOUS
  <1>2. /\ SubSeq(t, 1, n) \in Seq(T)
        /\ Len(SubSeq(t, 1, n)) = (IF 1 <= n THEN n - 1 + 1 ELSE 0)
        /\ \A i \in 1..(n - 1 + 1) : SubSeq(t, 1, n)[i] = t[1 + i - 1]
    BY <1>1, SubSeqProperties
  <1> QED BY <1>2

LEMMA FrontLast ==
    ASSUME NEW a, NEW b, NEW c, NEW d
    PROVE  /\ Front(<<a, b>>) = <<a>> /\ Front(<<a, b, c>>) = <<a, b>> /\ Front(<<a, b, c, d>>) = <<a, b, c>>
           /\ Last(<<a, b>>) = b /\ Last(<<a, b, c>>) = c /\ Last(<<a, b, c, d>>) = d
  <1> DEFINE T == {a, b, c, d}
  <1>1. Front(<<a, b>>) = <<a>>
    <2> DEFINE t == <<a, b>>
               s == SubSeq(t, 1, 1)
    <2>1. t \in Seq(T) /\ Len(t) = 2 /\ t[1] = a
      OBVIOUS
    <2>2. s \in Seq(T) /\ Len(s) = 1 /\ s[1] = a
      <3> HIDE DEF T, t
      <3> QED BY <2>1, Prefix
    <2> HIDE DEF s, t, T
    <2>3. s = <<a>>
      BY <2>2, ShortLists
    <2>4. Front(t) = s
      BY <2>1 DEF Front, s
    <2> QED BY <2>3, <2>4 DEF t
  <1>2. Front(<<a, b, c>>) = <<a, b>>
    <2> DEFINE t == <<a, b, c>>
               s == SubSeq(t, 1, 2)
    <2>1. t \in Seq(T) /\ Len(t) = 3 /\ t[1] = a /\ t[2] = b
      OBVIOUS
    <2>2. s \in Seq(T) /\ Len(s) = 2 /\ s[1] = a /\ s[2] = b
      <3> HIDE DEF T, t
      <3> QED BY <2>1, Prefix
    <2> HIDE DEF s, t, T
    <2>3. s = <<a, b>>
      BY <2>2, ShortLists
    <2>4. Front(t) = s
      BY <2>1 DEF Front, s
    <2> QED BY <2>3, <2>4 DEF t
  <1>3. Front(<<a, b, c, d>>) = <<a, b, c>>
    <2> DEFINE t == <<a, b, c, d>>
               s == SubSeq(t, 1, 3)
    <2>1. t \in Seq(T) /\ Len(t) = 4 /\ t[1] = a /\ t[2] = b /\ t[3] = c
      OBVIOUS
    <2>2. s \in Seq(T) /\ Len(s) = 3 /\ s[1] = a /\ s[2] = b /\ s[3] = c
      <3> HIDE DEF T, t
      <3>1. s \in Seq(T) /\ Len(s) = 3 /\ \A i \in 1..3 : s[i] = t[i]
        BY <2>1, Prefix
      <3> HIDE DEF s
      <3> QED BY <2>1, <3>1
    <2> HIDE DEF s, t, T
    <2>3. s = <<a, b, c>>
      BY <2>2, ShortLists
    <2>4. Front(t) = s
      BY <2>1 DEF Front, s
    <2> QED BY <2>3, <2>4 DEF t
  <1>4. Last(<<a, b>>) = b /\ Last(<<a, b, c>>) = c /\ Last(<<a, b, c, d>>) = d
    BY DEF Last
  <1> QED BY <1>1, <1>2, <1>3, <1>4
---------------------------------------------------------------------------
(* Bytes are sequences of parts.                                           *)

\* ByteCount adds up the sizes of the parts.
LEMMA ByteCountValues ==
    ASSUME NEW data, Len(data) \in Nat, \A i \in 1..Len(data) : data[i][2] \in Int
    PROVE  \E f \in [0..Len(data) -> Int] :
               /\ f[0] = 0
               /\ \A i \in 1..Len(data) : f[i] = f[i - 1] + data[i][2]
               /\ ByteCount(data) = f[Len(data)]
  <1> DEFINE N == Len(data)
             next == [i \in 1..N |-> [x \in Int |-> x + data[i][2]]]
             Obeys(f) == f = [i \in 0..N |-> IF i = 0 THEN 0 ELSE f[i - 1] + data[i][2]]
  <1>1. Steps(next, N, Int)
    <2>1. ASSUME NEW i \in 1..N, NEW x \in Int
          PROVE  x + data[i][2] \in Int
      OBVIOUS
    <2> QED BY <2>1 DEF Steps
  <1>2. PICK f : IsIteration(f, N, Int, 0, next)
    <2>1. N \in Nat /\ 0 \in Int
      OBVIOUS
    <2> HIDE DEF N, next
    <2> QED BY <1>1, <2>1, Iterates
  <1>3. Obeys(f)
    <2>1. ASSUME NEW i \in 0..N
          PROVE  f[i] = IF i = 0 THEN 0 ELSE f[i - 1] + data[i][2]
      <3>1. i # 0 => i \in 1..N /\ f[i - 1] \in Int
        BY <1>2 DEF IsIteration
      <3> QED BY <1>2, <3>1 DEF IsIteration
    <2>2. f = [i \in 0..N |-> f[i]]
      BY <1>2 DEF IsIteration
    <2> QED BY <2>1, <2>2
  <1>4. PICK g : Obeys(g) /\ ByteCount(data) = g[N]
    <2>1. ByteCount(data) = (CHOOSE g : Obeys(g))[N]
      BY DEF ByteCount
    <2>2. Obeys(CHOOSE g : Obeys(g))
      <3> HIDE DEF Obeys
      <3> QED BY <1>3
    <2> HIDE DEF Obeys
    <2> QED BY <2>1, <2>2
  <1> DEFINE P == {i \in 0..N : g[i] \in Int}
  <1>5. 0..N \subseteq P
    <2>1. 0 \in P
      BY <1>4
    <2>2. ASSUME NEW i \in 1..N, i - 1 \in P
          PROVE  i \in P
      <3>1. g[i] = g[i - 1] + data[i][2]
        BY <1>4
      <3>2. g[i - 1] \in Int /\ data[i][2] \in Int
        BY <2>2
      <3> QED BY <3>1, <3>2
    <2>3. N \in Nat
      OBVIOUS
    <2> HIDE DEF P, N
    <2> QED BY <2>1, <2>2, <2>3, Induction
  <1>6. g \in [0..N -> Int]
    BY <1>4, <1>5
  <1>7. g[0] = 0 /\ \A i \in 1..N : g[i] = g[i - 1] + data[i][2]
    BY <1>4
  <1> QED BY <1>4, <1>6, <1>7

LEMMA CountOfOne ==
    ASSUME NEW a, a[2] \in Int
    PROVE  ByteCount(<<a>>) = a[2] /\ ByteCount(<<>>) = 0
  <1>1. ByteCount(<<a>>) = a[2]
    <2>1. PICK f \in [0..Len(<<a>>) -> Int] :
               /\ f[0] = 0
               /\ \A i \in 1..Len(<<a>>) : f[i] = f[i - 1] + <<a>>[i][2]
               /\ ByteCount(<<a>>) = f[Len(<<a>>)]
      BY ByteCountValues
    <2> QED BY <2>1
  <1>2. ByteCount(<<>>) = 0
    <2>1. PICK f \in [0..Len(<<>>) -> Int] :
               /\ f[0] = 0
               /\ ByteCount(<<>>) = f[Len(<<>>)]
      <3>1. \A i \in 1..Len(<<>>) : <<>>[i][2] \in Int
        OBVIOUS
      <3>2. Len(<<>>) \in Nat
        OBVIOUS
      <3> QED BY <3>1, <3>2, ByteCountValues
    <2> QED BY <2>1
  <1> QED BY <1>1, <1>2

LEMMA CountOfTwo ==
    ASSUME NEW a, NEW b, a[2] \in Int, b[2] \in Int
    PROVE  ByteCount(<<a, b>>) = a[2] + b[2]
  <1> DEFINE s == <<a, b>>
  <1>0. /\ Len(s) = 2 /\ Len(s) \in Nat
        /\ s[1] = a /\ s[2] = b
        /\ \A i \in 1..Len(s) : s[i][2] \in Int
    OBVIOUS
  <1> HIDE DEF s
  <1>1. PICK f \in [0..Len(s) -> Int] :
             /\ f[0] = 0
             /\ \A i \in 1..Len(s) : f[i] = f[i - 1] + s[i][2]
             /\ ByteCount(s) = f[Len(s)]
    BY <1>0, ByteCountValues
  <1>2. f[1] = f[0] + a[2] /\ f[2] = f[1] + b[2]
    BY <1>0, <1>1
  <1>3. ByteCount(s) = a[2] + b[2]
    BY <1>0, <1>1, <1>2
  <1> QED BY <1>3 DEF s

LEMMA CountOfThree ==
    ASSUME NEW a, NEW b, NEW c, a[2] \in Int, b[2] \in Int, c[2] \in Int
    PROVE  ByteCount(<<a, b, c>>) = a[2] + b[2] + c[2]
  <1> DEFINE s == <<a, b, c>>
  <1>0. /\ Len(s) = 3 /\ Len(s) \in Nat
        /\ s[1] = a /\ s[2] = b /\ s[3] = c
        /\ \A i \in 1..Len(s) : s[i][2] \in Int
    OBVIOUS
  <1> HIDE DEF s
  <1>1. PICK f \in [0..Len(s) -> Int] :
             /\ f[0] = 0
             /\ \A i \in 1..Len(s) : f[i] = f[i - 1] + s[i][2]
             /\ ByteCount(s) = f[Len(s)]
    BY <1>0, ByteCountValues
  <1>2. f[1] = f[0] + a[2] /\ f[2] = f[1] + b[2] /\ f[3] = f[2] + c[2]
    BY <1>0, <1>1
  <1>3. ByteCount(s) = a[2] + b[2] + c[2]
    BY <1>0, <1>1, <1>2
  <1> QED BY <1>3 DEF s

\* What is kept as bytes: parts of some size each.
AreParts(T, data) == data \in Seq(T) /\ \A i \in 1..Len(data) : data[i][2] \in Nat \ {0}

LEMMA CheckedIsRead ==
    ASSUME NEW T, NEW data \in Seq(T), data # <<>>, NEW suffix, NEW size,
           size = AnySize \/ ByteCount(data) = size
    PROVE  /\ Unchecked(WithCheck(data, suffix), size, suffix) = data
           /\ WithCheck(data, suffix) # NoBytes
  <1> DEFINE c == << <<"ripemd160", data, suffix>>, 4>>
             U == T \cup {c}
             all == data \o <<c>>
  <1>1. WithCheck(data, suffix) = all
    BY DEF WithCheck, CheckOf, Part
  <1>2. data \in Seq(U) /\ <<c>> \in Seq(U) /\ Len(<<c>>) = 1
    <2> HIDE DEF c
    <2> QED OBVIOUS
  <1> HIDE DEF c, U
  <1>3. all \in Seq(U) /\ Len(all) = Len(data) + 1 /\ Len(data) \in Nat /\ Len(data) > 0
    BY <1>2
  <1>4. all # NoBytes /\ ~(Len(all) < 2)
    <2>1. Len(NoBytes) = 1
      BY DEF NoBytes, Part
    <2> HIDE DEF all
    <2> QED BY <1>3, <2>1
  <1>5. Front(all) = data
    <2>1. Front(all) = SubSeq(all, 1, Len(data))
      BY <1>3 DEF Front
    <2>2. SubSeq(all, 1, Len(data)) = data
      <3>1. \A i \in 1..Len(data) : SubSeq(all, 1, Len(data))[i] = data[i]
        <4>1. \A i \in 1..Len(data) : SubSeq(all, 1, Len(data))[i] = all[i]
          BY <1>3, Prefix
        <4>2. \A i \in 1..Len(data) : all[i] = data[i]
          BY <1>2
        <4> QED BY <4>1, <4>2
      <3>2. SubSeq(all, 1, Len(data)) \in Seq(U) /\ Len(SubSeq(all, 1, Len(data))) = Len(data)
        BY <1>3, Prefix
      <3> HIDE DEF all
      <3> QED BY <3>1, <3>2, <1>2, SeqEqual
    <2> QED BY <2>1, <2>2
  <1> HIDE DEF all
  <1>6. Unchecked(all, size, suffix) = data
    BY <1>1, <1>4, <1>5 DEF Unchecked
  <1> QED BY <1>1, <1>4, <1>6

\* The sizes of the parts of the front add up as they do in the whole.
LEMMA CountOfPrefix ==
    ASSUME NEW T, NEW data \in Seq(T), \A i \in 1..Len(data) : data[i][2] \in Nat \ {0},
           NEW n \in 0..Len(data), NEW m \in 0..Len(data), n < m
    PROVE  /\ ByteCount(SubSeq(data, 1, n)) \in Nat /\ ByteCount(SubSeq(data, 1, m)) \in Nat
           /\ ByteCount(SubSeq(data, 1, n)) < ByteCount(SubSeq(data, 1, m))
  <1> DEFINE L == Len(data)
  <1>1. PICK f \in [0..L -> Int] :
             /\ f[0] = 0
             /\ \A i \in 1..L : f[i] = f[i - 1] + data[i][2]
    <2>1. L \in Nat /\ \A i \in 1..L : data[i][2] \in Int
      OBVIOUS
    <2> QED BY <2>1, ByteCountValues
  <1>2. ASSUME NEW k \in 0..L
        PROVE  ByteCount(SubSeq(data, 1, k)) = f[k]
    <2> DEFINE s == SubSeq(data, 1, k)
    <2>1. Len(s) = k /\ \A i \in 1..k : s[i] = data[i]
      BY Prefix
    <2> HIDE DEF s
    <2>2. PICK g \in [0..k -> Int] :
               /\ g[0] = 0
               /\ \A i \in 1..k : g[i] = g[i - 1] + s[i][2]
               /\ ByteCount(s) = g[k]
      BY <2>1, ByteCountValues
    <2> DEFINE P == {i \in 0..k : g[i] = f[i]}
    <2>3. 0 \in P
      BY <1>1, <2>2
    <2>4. ASSUME NEW i \in 1..k, i - 1 \in P
          PROVE  i \in P
      <3>1. g[i] = g[i - 1] + data[i][2] /\ f[i] = f[i - 1] + data[i][2]
        BY <1>1, <2>1, <2>2
      <3> QED BY <2>4, <3>1
    <2>5. 0..k \subseteq P
      <3>1. k \in Nat
        OBVIOUS
      <3> HIDE DEF P
      <3> QED BY <2>3, <2>4, <3>1, Induction
    <2> QED BY <2>2, <2>5 DEF s
  <1> DEFINE Q == {i \in 0..L : f[i] \in Nat /\ \A j \in 0..(i - 1) : f[j] < f[i]}
  <1>3. 0 \in Q
    BY <1>1
  <1>4. ASSUME NEW i \in 1..L, i - 1 \in Q
        PROVE  i \in Q
    <2>1. f[i] = f[i - 1] + data[i][2] /\ data[i][2] \in Nat \ {0} /\ f[i - 1] \in Nat
      BY <1>1, <1>4
    <2>2. ASSUME NEW j \in 0..(i - 1)
          PROVE  f[j] < f[i]
      <3>1. j = i - 1 \/ (j \in 0..(i - 1 - 1) /\ f[j] < f[i - 1])
        BY <1>4
      <3>2. f[j] \in Int /\ f[i] \in Int
        BY <1>1
      <3> QED BY <2>1, <3>1, <3>2
    <2> QED BY <2>1, <2>2
  <1>5. 0..L \subseteq Q
    <2>1. L \in Nat
      OBVIOUS
    <2> HIDE DEF L, Q
    <2> QED BY <1>3, <1>4, <2>1, Induction
  <1>6. n \in Q /\ m \in Q /\ n \in 0..(m - 1)
    BY <1>5
  <1>7. f[n] \in Nat /\ f[m] \in Nat /\ f[n] < f[m]
    BY <1>6
  <1> QED BY <1>2, <1>7

LEMMA ArrayIsRead ==
    ASSUME NEW T, NEW front, NEW after, AreParts(T, front), AreParts(T, after)
    PROVE  ReadArray(front \o after, ByteCount(front)) = [data |-> front, rest |-> after]
  <1> DEFINE data == front \o after
             L == Len(front)
  <1> USE DEF AreParts
  <1>1. data \in Seq(T) /\ Len(data) = L + Len(after) /\ L \in Nat /\ Len(after) \in Nat
    OBVIOUS
  <1>2. \A i \in 1..Len(data) : data[i][2] \in Nat \ {0}
    <2>1. ASSUME NEW i \in 1..Len(data)
          PROVE  data[i][2] \in Nat \ {0}
      <3>1. CASE i <= L
        <4>1. data[i] = front[i] /\ i \in 1..L
          BY <3>1, <1>1
        <4> QED BY <4>1
      <3>2. CASE i > L
        <4>1. data[i] = after[i - L] /\ i - L \in 1..Len(after)
          BY <3>2, <1>1
        <4> QED BY <4>1
      <3> QED BY <1>1, <3>1, <3>2
    <2> QED BY <2>1
  <1>3. SubSeq(data, 1, L) = front
    <2>1. \A i \in 1..L : SubSeq(data, 1, L)[i] = front[i]
      <3>1. \A i \in 1..L : SubSeq(data, 1, L)[i] = data[i]
        BY <1>1, Prefix
      <3>2. \A i \in 1..L : data[i] = front[i]
        OBVIOUS
      <3> QED BY <3>1, <3>2
    <2>2. SubSeq(data, 1, L) \in Seq(T) /\ Len(SubSeq(data, 1, L)) = L
      BY <1>1, Prefix
    <2> HIDE DEF data
    <2> QED BY <2>1, <2>2, SeqEqual
  <1>4. SubSeq(data, L + 1, Len(data)) = after
    <2> DEFINE s == SubSeq(data, L + 1, Len(data))
    <2>1. \A i \in (L + 1)..Len(data) : data[i] \in T
      BY <1>1
    <2>2. /\ s \in Seq(T) /\ Len(s) = (IF L + 1 <= Len(data) THEN Len(data) - (L + 1) + 1 ELSE 0)
          /\ \A i \in 1..(Len(data) - (L + 1) + 1) : s[i] = data[L + 1 + i - 1]
      <3> HIDE DEF data
      <3> QED BY <1>1, <2>1, SubSeqProperties
    <2>3. Len(s) = Len(after)
      BY <1>1, <2>2
    <2>4. ASSUME NEW i \in 1..Len(after)
          PROVE  s[i] = after[i]
      <3>1. s[i] = data[L + i]
        BY <1>1, <2>2
      <3>2. data[L + i] = after[i]
        BY <1>1
      <3> QED BY <3>1, <3>2
    <2> HIDE DEF s
    <2>5. s = after
      BY <2>2, <2>3, <2>4, SeqEqual
    <2> QED BY <2>5 DEF s
  <1> HIDE DEF data
  <1> DEFINE size == ByteCount(front)
             n == CHOOSE n \in 0..Len(data) : ByteCount(SubSeq(data, 1, n)) = size
  <1>5. L \in 0..Len(data) /\ ByteCount(SubSeq(data, 1, L)) = size
    <2> HIDE DEF n
    <2>1. L \in 0..Len(data)
      BY <1>1
    <2> QED BY <1>3, <2>1
  <1>6. n \in 0..Len(data) /\ ByteCount(SubSeq(data, 1, n)) = size
    BY <1>5
  <1> HIDE DEF size, L
  <1>7. n = L
    <2>1. ~(n < L)
      <3> SUFFICES ASSUME n < L PROVE FALSE
        OBVIOUS
      <3> HIDE DEF n
      <3>1. ByteCount(SubSeq(data, 1, n)) < ByteCount(SubSeq(data, 1, L))
           /\ ByteCount(SubSeq(data, 1, n)) \in Nat
        BY <1>1, <1>2, <1>5, <1>6, CountOfPrefix
      <3> QED BY <1>5, <1>6, <3>1
    <2>2. ~(L < n)
      <3> SUFFICES ASSUME L < n PROVE FALSE
        OBVIOUS
      <3> HIDE DEF n
      <3>1. ByteCount(SubSeq(data, 1, L)) < ByteCount(SubSeq(data, 1, n))
           /\ ByteCount(SubSeq(data, 1, n)) \in Nat
        BY <1>1, <1>2, <1>5, <1>6, CountOfPrefix
      <3> QED BY <1>5, <1>6, <3>1
    <2> HIDE DEF n
    <2> QED BY <1>1, <1>6, <2>1, <2>2
  <1>8. ReadArray(data, size) = [data |-> SubSeq(data, 1, n), rest |-> SubSeq(data, n + 1, Len(data))]
    BY DEF ReadArray
  <1> QED BY <1>3, <1>4, <1>7, <1>8 DEF L, data, size

---------------------------------------------------------------------------
(* Keys.                                                                   *)

LEMMA PartIsOne ==
    ASSUME NEW content, NEW size \in Int
    PROVE  /\ Part(content, size) = << <<content, size>> >>
           /\ Part(content, size)[1] = <<content, size>>
           /\ Part(content, size)[1][1] = content
           /\ ByteCount(Part(content, size)) = size
           /\ size >= 0 => Part(content, size) # NoBytes
  <1> DEFINE a == <<content, size>>
  <1>1. a[2] = size /\ a[1] = content
    OBVIOUS
  <1>2. Part(content, size) = <<a>>
    BY DEF Part
  <1>3. ByteCount(<<a>>) = size
    <2> HIDE DEF a
    <2> QED BY <1>1, CountOfOne
  <1>4. NoBytes[1][2] = -1
    BY DEF NoBytes, Part
  <1>5. <<a>>[1][2] = size
    OBVIOUS
  <1> HIDE DEF a
  <1>6. size >= 0 => <<a>> # NoBytes
    <2> SUFFICES ASSUME size >= 0, <<a>> = NoBytes PROVE FALSE
      OBVIOUS
    <2> QED BY <1>4, <1>5
  <1> QED BY <1>1, <1>2, <1>3, <1>6 DEF a

LEMMA SizesOfKeys ==
    ASSUME NEW type \in SigningTypes
    PROVE  /\ SecretSizes[type] \in Nat \ {0} /\ PublicSizes[type] \in Nat \ {0}
           /\ type \in DOMAIN SecretSizes
  BY DEF SigningTypes, SecretSizes, PublicSizes

LEMMA KeysOfOwners ==
    ASSUME NEW type \in SigningTypes, NEW owner
    PROVE  /\ Secret(type, owner) = [type |-> type, data |-> SecretBytes(type, owner)]
           /\ Secret(type, owner).data[1][1][3] = owner
           /\ ToPublic(Secret(type, owner)) = [type |-> type, data |-> PublicBytes(type, owner)]
  <1> DEFINE secret == SecretBytes(type, owner)
             content == <<"secret", CurveOf(type), owner>>
             publicContent == <<"public", CurveOf(type), owner>>
             public == PublicBytes(type, owner)
  <1>1. secret = Part(content, SecretSizes[type]) /\ public = Part(publicContent, PublicSizes[type])
    BY DEF SecretBytes, PublicBytes
  <1>2. content[3] = owner
    OBVIOUS
  <1> HIDE DEF secret, content, public, publicContent
  <1>3. SecretSizes[type] \in Nat \ {0} /\ PublicSizes[type] \in Nat \ {0}
    BY SizesOfKeys
  <1>4. secret # NoBytes /\ ByteCount(secret) = SecretSizes[type] /\ secret[1][1] = content
    BY <1>1, <1>3, PartIsOne
  <1>5. public # NoBytes
    BY <1>1, <1>3, PartIsOne
  <1>6. PrivateKey(type, secret) = [type |-> type, data |-> secret]
    BY <1>4 DEF PrivateKey, Sized, KeyOf
  <1>7. Secret(type, owner) = [type |-> type, data |-> secret]
    BY <1>6 DEF Secret, secret
  <1>8. Secret(type, owner).data[1][1][3] = owner
    BY <1>2, <1>4, <1>7
  <1>9. ToPublic(Secret(type, owner)) = KeyOf(type, public)
    BY <1>7, <1>8 DEF ToPublic, public
  <1>10. KeyOf(type, public) = [type |-> type, data |-> public]
    BY <1>5 DEF KeyOf
  <1> QED BY <1>7, <1>8, <1>9, <1>10 DEF public, secret

LEMMA KeysDiffer ==
    ASSUME NEW type \in SigningTypes, NEW other \in SigningTypes, NEW owner, NEW another
    PROVE  PublicBytes(type, owner) = PublicBytes(other, another)
               <=> CurveOf(type) = CurveOf(other) /\ owner = another
  <1> DEFINE a == <<"public", CurveOf(type), owner>>
             b == <<"public", CurveOf(other), another>>
  <1>1. a[2] = CurveOf(type) /\ a[3] = owner /\ b[2] = CurveOf(other) /\ b[3] = another
    OBVIOUS
  <1>2. a = b <=> CurveOf(type) = CurveOf(other) /\ owner = another
    BY <1>1
  <1>3. PublicBytes(type, owner) = Part(a, PublicSizes[type]) /\ PublicBytes(other, another) = Part(b, PublicSizes[other])
    BY DEF PublicBytes
  <1> HIDE DEF a, b
  <1>4. PublicBytes(type, owner)[1][1] = a /\ PublicBytes(other, another)[1][1] = b
    BY <1>3, SizesOfKeys, PartIsOne
  <1>5. CurveOf(type) = CurveOf(other) => PublicSizes[type] = PublicSizes[other]
    BY DEF CurveOf, SigningTypes, PublicSizes
  <1> QED BY <1>2, <1>3, <1>4, <1>5

---------------------------------------------------------------------------
(* Signatures are carried.                                                 *)

BytePart(n) == << <<"byte", n>>, 1>>

LEMMA Bytes ==
    ASSUME NEW n
    PROVE  One(n) = <<BytePart(n)>> /\ BytePart(n)[1][2] = n /\ BytePart(n)[2] = 1
  <1>1. BytePart(n)[1][2] = n /\ BytePart(n)[2] = 1
    BY DEF BytePart
  <1>2. One(n) = <<BytePart(n)>>
    BY DEF One, Part, BytePart
  <1> QED BY <1>1, <1>2

\* What is kept as one, two or three parts is not what stands for an error.
LEMMA LongIsSomething ==
    ASSUME NEW a, NEW b, NEW c, NEW d
    PROVE  <<a, b>> # NoBytes /\ <<a, b, c>> # NoBytes
  <1>1. Len(NoBytes) = 1
    BY DEF NoBytes, Part
  <1>2. Len(<<a, b>>) = 2 /\ Len(<<a, b, c>>) = 3
    OBVIOUS
  <1> QED BY <1>1, <1>2

Classic(type, n, r, s) == [type |-> type, data |-> <<BytePart(n), r, s>>]

LEMMA ClassicSigs ==
    ASSUME NEW type, NEW n, NEW r, NEW s
    PROVE  /\ Classic(type, n, r, s).type = type
           /\ Classic(type, n, r, s).data = <<BytePart(n), r, s>>
           /\ KeyOf(type, <<BytePart(n), r, s>>) = Classic(type, n, r, s)
           /\ One(n) \o <<r, s>> = <<BytePart(n), r, s>>
  <1>1. One(n) \o <<r, s>> = <<BytePart(n), r, s>>
    <2>1. One(n) = <<BytePart(n)>>
      BY Bytes
    <2>2. <<BytePart(n)>> \o <<r, s>> = <<BytePart(n), r, s>>
      BY Joined
    <2> QED BY <2>1, <2>2
  <1>2. KeyOf(type, <<BytePart(n), r, s>>) = Classic(type, n, r, s)
    <2>1. <<BytePart(n), r, s>> # NoBytes
      BY LongIsSomething
    <2> QED BY <2>1 DEF KeyOf, Classic
  <1> QED BY <1>1, <1>2 DEF Classic

LEMMA TypesHaveIndices ==
    ASSUME NEW type \in SigningTypes
    PROVE  TypeIndex(type) \in 0..5 /\ CurveTypes[TypeIndex(type) + 1] = type
  <1>1. \E i \in 0..5 : CurveTypes[i + 1] = type
    <2>1. CASE type = "K1"
      BY <2>1, CurveTypes[0 + 1] = "K1" DEF CurveTypes
    <2>2. CASE type = "R1"
      BY <2>2, CurveTypes[1 + 1] = "R1" DEF CurveTypes
    <2>3. CASE type = "EM"
      BY <2>3, CurveTypes[3 + 1] = "EM" DEF CurveTypes
    <2>4. CASE type = "ED"
      BY <2>4, CurveTypes[4 + 1] = "ED" DEF CurveTypes
    <2>5. CASE type = "BLS"
      BY <2>5, CurveTypes[5 + 1] = "BLS" DEF CurveTypes
    <2> QED BY <2>1, <2>2, <2>3, <2>4, <2>5 DEF SigningTypes
  <1> QED BY <1>1 DEF TypeIndex

LEMMA ClassicIsCarried ==
    ASSUME NEW type \in {"K1", "R1"}, NEW n \in Int, NEW r, NEW s, r[2] = 32, s[2] = 32
    PROVE  /\ SignatureFromText(SignatureToText(Classic(type, n, r, s), FALSE)) = Classic(type, n, r, s)
           /\ FromRawBytes(type, ToHexBytes(Classic(type, n, r, s))) = Classic(type, n, r, s)
           /\ Unpacked(Packed(Classic(type, n, r, s))) = Classic(type, n, r, s)
  <1> DEFINE sig == Classic(type, n, r, s)
             data == <<BytePart(n), r, s>>
             T == {BytePart(n), r, s}
             checked == WithCheck(data, type)
             text == Base58Text(checked, FALSE)
             raw == <<r, s, BytePart(n - WireOffset)>>
  <1>1. sig.type = type /\ sig.data = data /\ KeyOf(type, data) = sig /\ One(n) \o <<r, s>> = data
    BY ClassicSigs
  <1>2. ByteCount(data) = 65
    <2>1. BytePart(n)[2] = 1
      BY Bytes
    <2>2. ByteCount(data) = 1 + 32 + 32
      BY <2>1, CountOfThree
    <2> QED BY <2>2
  <1>3. data \in Seq(T) /\ data # <<>> /\ data[2] = r /\ data[3] = s /\ data[1] = BytePart(n)
    OBVIOUS
  <1>4. data # NoBytes
    BY LongIsSomething
  <1> HIDE DEF sig, data, T
  <1>5. Unchecked(checked, 65, type) = data /\ checked # NoBytes
    BY <1>2, <1>3, CheckedIsRead
  <1> HIDE DEF checked
  <1>6. SignatureToText(sig, FALSE) = [prefix |-> "SIG", type |-> type, text |-> text]
    BY <1>1 DEF SignatureToText, checked
  <1>7. ReadBase58(text) = checked
    BY DEF ReadBase58, Base58Text, Text
  <1> HIDE DEF text
  <1>8. SignatureFromText([prefix |-> "SIG", type |-> type, text |-> text]) = sig
    <2> DEFINE t == [prefix |-> "SIG", type |-> type, text |-> text]
    <2>1. t.type = type /\ t.text = text
      OBVIOUS
    <2> HIDE DEF t
    <2>2. SignatureFromText(t) = KeyOf(type, OrHex(Unchecked(ReadBase58(text), 65, type), text))
      BY <2>1 DEF SignatureFromText
    <2>3. OrHex(data, text) = data
      BY <1>4 DEF OrHex
    <2> QED BY <1>1, <1>5, <1>7, <2>2, <2>3 DEF t
  <1>9. SignatureFromText(SignatureToText(sig, FALSE)) = sig
    BY <1>6, <1>8
  <1>10. Unpacked(Packed(sig)) = sig
    <2>1. PadEdForTx(sig) = sig
      BY <1>1 DEF PadEdForTx
    <2>2. StripEdPad(sig) = sig
      BY <1>1 DEF StripEdPad
    <2> QED BY <1>9, <2>1, <2>2 DEF Packed, Unpacked
  <1>11. ToHexBytes(sig) = raw
    <2>1. ToHexBytes(sig) = <<data[2], data[3]>> \o One(data[1][1][2] - WireOffset)
      BY <1>1 DEF ToHexBytes
    <2>2. data[1][1][2] = n
      BY <1>3, Bytes
    <2>3. One(n - WireOffset) = <<BytePart(n - WireOffset)>>
      BY Bytes
    <2>4. <<r, s>> \o <<BytePart(n - WireOffset)>> = raw
      BY Joined
    <2> QED BY <1>3, <2>1, <2>2, <2>3, <2>4
  <1>12. FromRawBytes(type, raw) = sig
    <2>1. ByteCount(raw) = 65
      <3>1. BytePart(n - WireOffset)[2] = 1
        BY Bytes
      <3>2. ByteCount(raw) = 32 + 32 + 1
        BY <3>1, CountOfThree
      <3> QED BY <3>2
    <2>2. raw[3][1][2] = n - WireOffset /\ raw[1] = r /\ raw[2] = s
      BY Bytes
    <2> HIDE DEF raw
    <2>3. raw[3][1][2] + WireOffset = n
      BY <2>2 DEF WireOffset
    <2>4. FromRawBytes(type, raw) = KeyOf(type, One(raw[3][1][2] + WireOffset) \o <<raw[1], raw[2]>>)
      BY <2>1 DEF FromRawBytes
    <2> QED BY <1>1, <2>2, <2>3, <2>4
  <1> QED BY <1>9, <1>10, <1>11, <1>12 DEF sig

LEMMA TypedBytesAreRead ==
    ASSUME NEW type \in SigningTypes, NEW T, NEW front, NEW after,
           AreParts(T, front), AreParts(T, after)
    PROVE  /\ (One(TypeIndex(type)) \o front \o after)[1] = BytePart(TypeIndex(type))
           /\ ReadArray(Tail(One(TypeIndex(type)) \o front \o after), ByteCount(front))
                  = [data |-> front, rest |-> after]
  <1> DEFINE data == One(TypeIndex(type)) \o front \o after
             b == BytePart(TypeIndex(type))
             U == T \cup {b}
             rest == front \o after
  <1>1. One(TypeIndex(type)) = <<b>> /\ b[1][2] = TypeIndex(type)
    BY Bytes
  <1> HIDE DEF b
  <1>2. front \in Seq(U) /\ after \in Seq(U) /\ <<b>> \in Seq(U)
    BY DEF AreParts
  <1> HIDE DEF U
  <1>3. data = <<b>> \o rest
    BY <1>1, <1>2, ConcatAssociative
  <1> HIDE DEF data
  <1>4. rest \in Seq(U)
    BY <1>2
  <1>5. data[1] = b /\ Tail(data) = rest
    <2>1. data \in Seq(U) /\ Len(data) = Len(rest) + 1 /\ Len(rest) \in Nat /\ data[1] = b
      <3> HIDE DEF rest
      <3> QED BY <1>2, <1>3, <1>4
    <2>2. Len(Tail(data)) = Len(rest) /\ Tail(data) \in Seq(U)
      <3> HIDE DEF rest
      <3>1. data # <<>>
        BY <2>1
      <3> QED BY <2>1, <3>1
    <2>3. ASSUME NEW i \in 1..Len(rest)
          PROVE  Tail(data)[i] = rest[i]
      <3> HIDE DEF rest
      <3>1. Tail(data)[i] = data[i + 1]
        BY <2>1
      <3>2. data[i + 1] = rest[i]
        BY <1>2, <1>3, <1>4
      <3> QED BY <3>1, <3>2
    <2> HIDE DEF rest
    <2> QED BY <1>4, <2>1, <2>2, <2>3, SeqEqual
  <1>6. ReadArray(rest, ByteCount(front)) = [data |-> front, rest |-> after]
    BY ArrayIsRead
  <1> HIDE DEF rest
  <1> QED BY <1>5, <1>6 DEF b, data

SignatureSize(type) == CASE type = "BLS" -> 192 [] type = "ED" -> 64 [] OTHER -> 65

\* The bytes of a signature are read as its type says.
LEMMA SignatureBytesAreRead ==
    ASSUME NEW type \in SigningTypes, NEW T, NEW front, AreParts(T, front),
           ByteCount(front) = SignatureSize(type)
    PROVE  SignatureFromAbi(One(TypeIndex(type)) \o front).sig
               = KeyOf(type, IF type = "EM" THEN FromEthereum(front) ELSE front)
  <1> DEFINE data == One(TypeIndex(type)) \o front
             size == SignatureSize(type)
             got == ReadArray(Tail(data), size)
             b == BytePart(TypeIndex(type))
             U == T \cup {b}
  <1> DEFINE none == <<>>
  <1>1. AreParts(T, none)
    BY DEF AreParts
  <1>2. data = data \o <<>>
    <2>1. One(TypeIndex(type)) = <<b>>
      BY Bytes
    <2> HIDE DEF b
    <2>2. <<b>> \in Seq(U) /\ front \in Seq(U)
      BY DEF AreParts
    <2> HIDE DEF U
    <2>3. data \in Seq(U)
      BY <2>1, <2>2
    <2> HIDE DEF data
    <2> QED BY <2>3, ConcatEmptySeq
  <1>3. CurveTypes[data[1][1][2] + 1] = type /\ got = [data |-> front, rest |-> none]
    <2> DEFINE all == One(TypeIndex(type)) \o front \o none
    <2>1. data = all
      BY <1>2
    <2>2. size = ByteCount(front)
      OBVIOUS
    <2> HIDE DEF none
    <2>3. all[1] = BytePart(TypeIndex(type))
      BY <1>1, TypedBytesAreRead
    <2>4. ReadArray(Tail(all), ByteCount(front)) = [data |-> front, rest |-> none]
      BY <1>1, TypedBytesAreRead
    <2> HIDE DEF data, size, all
    <2> QED BY <2>1, <2>2, <2>3, <2>4, Bytes, TypesHaveIndices
  <1> HIDE DEF data, U, b
  <1>4. got.data = front
    BY <1>3
  <1> DEFINE key == KeyOf(type, IF type = "EM" THEN FromEthereum(got.data) ELSE got.data)
  <1>5. SignatureFromAbi(data) = [sig |-> key, rest |-> got.rest]
    BY <1>3 DEF SignatureFromAbi, SignatureSize
  <1> HIDE DEF got
  <1>6. SignatureFromAbi(data).sig = key
    BY <1>5
  <1> QED BY <1>4, <1>6 DEF data

LEMMA PublicBytesAreRead ==
    ASSUME NEW type \in SigningTypes, NEW owner
    PROVE  LET key == [type |-> type, data |-> PublicBytes(type, owner)]
           IN  PublicFromAbi(PublicToAbi(key) \o One(7)) = [key |-> key, rest |-> One(7)]
  <1> DEFINE key == [type |-> type, data |-> PublicBytes(type, owner)]
             front == PublicBytes(type, owner)
             after == One(7)
             data == PublicToAbi(key) \o after
             size == CASE type = "BLS" -> 96 [] type = "ED" -> 32 [] OTHER -> 33
             part == << <<"public", CurveOf(type), owner>>, PublicSizes[type]>>
             T == {part, BytePart(7)}
  <1>1. front = <<part>> /\ after = <<BytePart(7)>> /\ ByteCount(front) = PublicSizes[type] /\ front # NoBytes
    <2>1. PublicSizes[type] \in Nat \ {0}
      BY SizesOfKeys
    <2> QED BY <2>1, PartIsOne, Bytes DEF PublicBytes
  <1>2. part[2] \in Nat \ {0} /\ BytePart(7)[2] \in Nat \ {0}
    BY SizesOfKeys, Bytes
  <1>3. size = PublicSizes[type]
    BY DEF SigningTypes, PublicSizes
  <1> HIDE DEF part, front, after, size
  <1>4. AreParts(T, front) /\ AreParts(T, after)
    BY <1>1, <1>2 DEF AreParts
  <1> DEFINE all == One(TypeIndex(type)) \o front \o after
  <1>5. data = all
    BY DEF PublicToAbi, front
  <1>6. CurveTypes[data[1][1][2] + 1] = type /\ ReadArray(Tail(data), size) = [data |-> front, rest |-> after]
    <2>1. all[1] = BytePart(TypeIndex(type))
      BY <1>4, TypedBytesAreRead
    <2>2. ReadArray(Tail(all), ByteCount(front)) = [data |-> front, rest |-> after]
      BY <1>4, TypedBytesAreRead
    <2> HIDE DEF all, data
    <2> QED BY <1>1, <1>3, <1>5, <2>1, <2>2, Bytes, TypesHaveIndices
  <1> HIDE DEF data, all, T
  <1> DEFINE got == ReadArray(Tail(data), size)
  <1>7. PublicFromAbi(data) = [key |-> KeyOf(type, got.data), rest |-> got.rest]
    BY <1>6 DEF PublicFromAbi, size
  <1>8. got.data = front /\ got.rest = after
    BY <1>6
  <1> HIDE DEF got
  <1>9. KeyOf(type, front) = [type |-> type, data |-> front]
    BY <1>1 DEF KeyOf
  <1> QED BY <1>7, <1>8, <1>9 DEF front, after, data

\* An r, an s and what is sent with them.
LEMMA ThreeParts ==
    ASSUME NEW a, NEW b, NEW c, a[2] \in Nat \ {0}, b[2] \in Nat \ {0}, c[2] \in Nat \ {0}
    PROVE  /\ AreParts({a, b, c}, <<a, b, c>>) /\ AreParts({a, b, c}, <<a, b>>) /\ AreParts({a, b, c}, <<a>>)
           /\ ByteCount(<<a, b, c>>) = a[2] + b[2] + c[2]
           /\ ByteCount(<<a, b>>) = a[2] + b[2] /\ ByteCount(<<a>>) = a[2]
  <1>1. ByteCount(<<a, b, c>>) = a[2] + b[2] + c[2]
    BY CountOfThree
  <1>2. ByteCount(<<a, b>>) = a[2] + b[2]
    BY CountOfTwo
  <1>3. ByteCount(<<a>>) = a[2]
    BY CountOfOne
  <1>4. AreParts({a, b, c}, <<a, b, c>>)
    BY DEF AreParts
  <1>5. AreParts({a, b, c}, <<a, b>>)
    BY DEF AreParts
  <1>6. AreParts({a, b, c}, <<a>>)
    BY DEF AreParts
  <1> QED BY <1>1, <1>2, <1>3, <1>4, <1>5, <1>6

LEMMA ClassicBytesAreRead ==
    ASSUME NEW type \in {"K1", "R1"}, NEW n \in Int, NEW r, NEW s, r[2] = 32, s[2] = 32
    PROVE  SignatureFromAbi(SignatureToAbi(Classic(type, n, r, s))).sig = Classic(type, n, r, s)
  <1> DEFINE b == BytePart(n)
             data == <<BytePart(n), r, s>>
             sig == Classic(type, n, r, s)
  <1>1. sig.type = type /\ sig.data = data /\ KeyOf(type, data) = sig
    <2>1. sig.type = type
      BY DEF Classic
    <2>2. sig.data = data
      BY DEF Classic
    <2>3. data # NoBytes
      BY LongIsSomething
    <2>4. KeyOf(type, data) = sig
      BY <2>3 DEF KeyOf, Classic
    <2> QED BY <2>1, <2>2, <2>4
  <1>2. b[2] = 1
    BY Bytes
  <1>3. AreParts({b, r, s}, data) /\ ByteCount(data) = 65
    <2>1. data = <<b, r, s>>
      OBVIOUS
    <2> HIDE DEF b, data
    <2>2. b[2] \in Nat \ {0} /\ r[2] \in Nat \ {0} /\ s[2] \in Nat \ {0}
      BY <1>2
    <2>3. AreParts({b, r, s}, <<b, r, s>>)
      BY <2>2, ThreeParts
    <2>4. ByteCount(<<b, r, s>>) = 1 + 32 + 32
      BY <1>2, CountOfThree
    <2> QED BY <1>2, <2>1, <2>3, <2>4
  <1> HIDE DEF b, sig, data
  <1>4. type \in SigningTypes /\ SignatureSize(type) = 65 /\ type # "EM"
    BY DEF SigningTypes, SignatureSize
  <1>5. SignatureToAbi(sig) = One(TypeIndex(type)) \o data
    BY <1>1, <1>4 DEF SignatureToAbi
  <1>6. SignatureFromAbi(One(TypeIndex(type)) \o data).sig = KeyOf(type, IF type = "EM" THEN FromEthereum(data) ELSE data)
    BY <1>3, <1>4, SignatureBytesAreRead
  <1> QED BY <1>1, <1>4, <1>5, <1>6 DEF sig

\* In Ethereum the bit comes last and has an offset of its own.
LEMMA EthereumAndBack ==
    ASSUME NEW n \in Int, NEW r, NEW s
    PROVE  LET wire == <<BytePart(n), r, s>>
               raw == <<r, s, BytePart(n - Recovery)>>
           IN  ToEthereum(wire) = raw /\ FromEthereum(raw) = wire /\ FromEthereum(ToEthereum(wire)) = wire
  <1> DEFINE wire == <<BytePart(n), r, s>>
             raw == <<r, s, BytePart(n - Recovery)>>
  <1>1. wire[1] = BytePart(n) /\ wire[2] = r /\ wire[3] = s
    OBVIOUS
  <1>2. raw[1] = r /\ raw[2] = s /\ raw[3] = BytePart(n - Recovery)
    OBVIOUS
  <1>3. <<r, s>> \o <<BytePart(n - Recovery)>> = raw /\ <<BytePart(n)>> \o <<r, s>> = wire
    BY Joined
  <1> HIDE DEF wire, raw
  <1>4. ToEthereum(wire) = raw
    <2>1. One(wire[1][1][2] - Recovery) = <<BytePart(n - Recovery)>>
      BY <1>1, Bytes
    <2>2. ToEthereum(wire) = <<r, s>> \o One(wire[1][1][2] - Recovery)
      BY <1>1 DEF ToEthereum
    <2> QED BY <1>3, <2>1, <2>2
  <1>5. FromEthereum(raw) = wire
    <2>1. raw[3][1][2] = n - Recovery
      BY <1>2, Bytes
    <2>2. raw[3][1][2] + Recovery = n
      BY <2>1 DEF Recovery, WireOffset, EthOffset
    <2>3. One(raw[3][1][2] + Recovery) = <<BytePart(n)>>
      BY <2>2, Bytes
    <2>4. FromEthereum(raw) = One(raw[3][1][2] + Recovery) \o <<r, s>>
      BY <1>2 DEF FromEthereum
    <2> QED BY <1>3, <2>3, <2>4
  <1> QED BY <1>4, <1>5 DEF wire, raw

LEMMA EthereumIsCarried ==
    ASSUME NEW n \in Int, NEW r, NEW s, r[2] = 32, s[2] = 32
    PROVE  LET sig == Classic("EM", n, r, s)
           IN  /\ SignatureFromText(SignatureToText(sig, FALSE)) = sig
               /\ SignatureFromAbi(SignatureToAbi(sig)).sig = sig
               /\ FromRawBytes("EM", ToHexBytes(sig)) = sig
               /\ FromRawBytes("EM", ToEthereum(sig.data)) = sig
               /\ Unpacked(Packed(sig)) = sig
  <1> DEFINE sig == Classic("EM", n, r, s)
             wire == <<BytePart(n), r, s>>
             b == BytePart(n - Recovery)
             raw == <<r, s, b>>
             text == Text("hex", raw, FALSE)
  <1>1. sig.type = "EM" /\ sig.data = wire /\ KeyOf("EM", wire) = sig
    <2>1. sig.type = "EM"
      BY DEF Classic
    <2>2. sig.data = wire
      BY DEF Classic
    <2>3. wire # NoBytes
      BY LongIsSomething
    <2>4. KeyOf("EM", wire) = sig
      BY <2>3 DEF KeyOf, Classic
    <2> QED BY <2>1, <2>2, <2>4
  <1>2. ToEthereum(wire) = raw /\ FromEthereum(raw) = wire
    BY EthereumAndBack
  <1>3. AreParts({r, s, b}, raw) /\ ByteCount(raw) = 65 /\ Len(raw) = 3
    <2>1. b[2] = 1
      BY Bytes
    <2> HIDE DEF b
    <2>2. b[2] \in Nat \ {0} /\ r[2] \in Nat \ {0} /\ s[2] \in Nat \ {0}
      BY <2>1
    <2>3. AreParts({r, s, b}, raw) /\ ByteCount(raw) = r[2] + s[2] + b[2]
      BY <2>2, ThreeParts, Zenon
    <2>4. Len(raw) = 3
      OBVIOUS
    <2> QED BY <2>1, <2>3, <2>4
  <1> HIDE DEF sig, wire, raw, b
  <1>4. SignatureFromText(SignatureToText(sig, FALSE)) = sig
    <2> DEFINE t == [prefix |-> "SIG", type |-> "EM", text |-> text]
    <2>1. SignatureToText(sig, FALSE) = t
      BY <1>1, <1>2 DEF SignatureToText
    <2>2. t.type = "EM" /\ ReadHex(t.text) = raw
      BY DEF ReadHex, Text
    <2> HIDE DEF t
    <2>3. SignatureFromText(t) = KeyOf("EM", FromEthereum(raw))
      BY <1>3, <2>2 DEF SignatureFromText
    <2> QED BY <1>1, <1>2, <2>1, <2>3
  <1>5. SignatureFromAbi(SignatureToAbi(sig)).sig = sig
    <2>1. "EM" \in SigningTypes /\ SignatureSize("EM") = 65
      BY DEF SigningTypes, SignatureSize
    <2>2. SignatureToAbi(sig) = One(TypeIndex("EM")) \o raw
      BY <1>1, <1>2 DEF SignatureToAbi
    <2>3. SignatureFromAbi(One(TypeIndex("EM")) \o raw).sig
              = KeyOf("EM", IF "EM" = "EM" THEN FromEthereum(raw) ELSE raw)
      BY <1>3, <2>1, SignatureBytesAreRead
    <2> QED BY <1>1, <1>2, <2>2, <2>3
  <1>6. FromRawBytes("EM", raw) = sig
    BY <1>1, <1>2, <1>3 DEF FromRawBytes
  <1>7. ToHexBytes(sig) = raw /\ ToEthereum(sig.data) = raw
    BY <1>1, <1>2 DEF ToHexBytes
  <1>8. Unpacked(Packed(sig)) = sig
    <2>1. PadEdForTx(sig) = sig
      BY <1>1 DEF PadEdForTx
    <2>2. StripEdPad(sig) = sig
      BY <1>1 DEF StripEdPad
    <2> QED BY <1>4, <2>1, <2>2 DEF Packed, Unpacked
  <1> QED BY <1>4, <1>5, <1>6, <1>7, <1>8 DEF sig

LEMMA SolanaIsCarried ==
    ASSUME NEW r, NEW s, r[2] = 32, s[2] = 32
    PROVE  LET sig == [type |-> "ED", data |-> <<r, s>>]
           IN  /\ SignatureFromText(SignatureToText(sig, FALSE)) = sig
               /\ SignatureFromAbi(SignatureToAbi(sig)).sig = sig
               /\ FromRawBytes("ED", ToHexBytes(sig)) = sig
               /\ FromRawBytes("ED", sig.data) = sig
               /\ Unpacked(Packed(sig)) = sig
  <1> DEFINE sig == [type |-> "ED", data |-> <<r, s>>]
             data == <<r, s>>
             zero == BytePart(0)
             padded == <<r, s, zero>>
             long == [type |-> "ED", data |-> padded]
  <1>1. sig.type = "ED" /\ sig.data = data /\ long.type = "ED" /\ long.data = padded
    OBVIOUS
  <1>2. KeyOf("ED", data) = sig /\ KeyOf("ED", padded) = long
    BY LongIsSomething DEF KeyOf
  <1>3. data # NoBytes /\ padded # NoBytes
    BY LongIsSomething
  <1>4. /\ AreParts({r, s, zero}, data) /\ ByteCount(data) = 64
        /\ AreParts({r, s, zero}, padded) /\ ByteCount(padded) = 65
    <2>1. zero[2] = 1
      BY Bytes
    <2> HIDE DEF zero
    <2>2. zero[2] \in Nat \ {0} /\ r[2] \in Nat \ {0} /\ s[2] \in Nat \ {0}
      BY <2>1
    <2>3. /\ AreParts({r, s, zero}, data) /\ ByteCount(data) = r[2] + s[2]
          /\ AreParts({r, s, zero}, padded) /\ ByteCount(padded) = r[2] + s[2] + zero[2]
      BY <2>2, ThreeParts, Zenon
    <2> QED BY <2>1, <2>3
  <1>5. One(0) = <<zero>> /\ data \o <<zero>> = padded /\ Front(padded) = data /\ Last(padded) = zero
    <2>1. One(0) = <<zero>>
      BY Bytes
    <2> HIDE DEF zero
    <2>2. Front(<<r, s, zero>>) = <<r, s>>
      BY FrontLast
    <2>3. Last(<<r, s, zero>>) = zero
      BY DEF Last
    <2>4. <<r, s>> \o <<zero>> = <<r, s, zero>>
      BY Joined
    <2> QED BY <2>1, <2>2, <2>3, <2>4
  <1> HIDE DEF data, padded, zero
  <1>6. ASSUME NEW d, d # NoBytes
        PROVE  SignatureFromText(SignatureToText([type |-> "ED", data |-> d], FALSE)) = KeyOf("ED", d)
    <2> DEFINE text == Base58Text(d, FALSE)
               t == [prefix |-> "SIG", type |-> "ED", text |-> text]
               any == [type |-> "ED", data |-> d]
    <2>1. any.type = "ED" /\ any.data = d
      OBVIOUS
    <2> HIDE DEF any
    <2>2. SignatureToText(any, FALSE) = t
      BY <2>1 DEF SignatureToText
    <2>3. t.type = "ED" /\ t.text = text /\ ReadBase58(text) = d
      BY DEF ReadBase58, Base58Text, Text
    <2> HIDE DEF t, text
    <2>4. SignatureFromText(t) = KeyOf("ED", OrHex(ReadBase58(text), text))
      BY <2>3 DEF SignatureFromText
    <2> QED BY <1>6, <2>2, <2>3, <2>4 DEF OrHex, any
  <1>7. SignatureFromText(SignatureToText(sig, FALSE)) = sig
    BY <1>2, <1>3, <1>6 DEF data
  <1>8. SignatureFromText(SignatureToText(long, FALSE)) = long
    BY <1>2, <1>3, <1>6
  <1>9. SignatureFromAbi(SignatureToAbi(sig)).sig = sig
    <2>1. "ED" \in SigningTypes /\ SignatureSize("ED") = 64
      BY DEF SigningTypes, SignatureSize
    <2>2. SignatureToAbi(sig) = One(TypeIndex("ED")) \o data
      BY <1>1 DEF SignatureToAbi
    <2>3. SignatureFromAbi(One(TypeIndex("ED")) \o data).sig
              = KeyOf("ED", IF "ED" = "EM" THEN FromEthereum(data) ELSE data)
      BY <1>4, <2>1, SignatureBytesAreRead
    <2> QED BY <1>2, <2>2, <2>3
  <1>10. FromRawBytes("ED", data) = sig
    <2> HIDE DEF sig, long
    <2> QED BY <1>2, <1>4 DEF FromRawBytes
  <1>11. ToHexBytes(sig) = data
    BY <1>1 DEF ToHexBytes
  <1>12. Unpacked(Packed(sig)) = sig
    <2>1. PadEdForTx(sig) = [sig EXCEPT !.data = sig.data \o One(0)]
      BY <1>1, <1>4 DEF PadEdForTx
    <2>2. [sig EXCEPT !.data = sig.data \o One(0)] = long
      BY <1>1, <1>5
    <2>3. StripEdPad(long) = [long EXCEPT !.data = Front(long.data)]
      BY <1>1, <1>4, <1>5 DEF StripEdPad
    <2>4. [long EXCEPT !.data = Front(long.data)] = sig
      BY <1>1, <1>5 DEF data
    <2> QED BY <1>8, <2>1, <2>2, <2>3, <2>4 DEF Packed, Unpacked
  <1> QED BY <1>1, <1>7, <1>9, <1>10, <1>11, <1>12

LEMMA BlsIsCarried ==
    ASSUME NEW b, b[2] = 192
    PROVE  LET sig == [type |-> "BLS", data |-> <<b>>]
           IN  /\ SignatureFromText(SignatureToText(sig, FALSE)) = sig
               /\ SignatureFromAbi(SignatureToAbi(sig)).sig = sig
               /\ ToHexBytes(sig) = NoBytes
               /\ Unpacked(Packed(sig)) = sig
  <1> DEFINE sig == [type |-> "BLS", data |-> <<b>>]
             data == <<b>>
             checked == WithCheck(data, "")
             text == Text("64", checked, FALSE)
             t == [prefix |-> "SIG", type |-> "BLS", text |-> text]
  <1>1. sig.type = "BLS" /\ sig.data = data
    OBVIOUS
  <1>2. data # NoBytes
    <2>1. NoBytes[1][2] = -1
      BY DEF NoBytes, Part
    <2>2. data[1][2] = 192
      OBVIOUS
    <2> QED BY <2>1, <2>2
  <1>3. KeyOf("BLS", data) = sig
    BY <1>2 DEF KeyOf
  <1>4. AreParts({b}, data) /\ ByteCount(data) = 192 /\ data # <<>>
    BY CountOfOne DEF AreParts
  <1> HIDE DEF sig, data
  <1>5. Unchecked(checked, 192, "") = data
    <2>1. data \in Seq({b})
      BY <1>4 DEF AreParts
    <2> QED BY <1>4, <2>1, CheckedIsRead, Zenon
  <1> HIDE DEF checked
  <1>6. SignatureToText(sig, FALSE) = t
    BY <1>1 DEF SignatureToText, checked
  <1>7. t.type = "BLS" /\ t.text = text /\ text.form = "64" /\ text.data = checked
    BY DEF Text
  <1> HIDE DEF t, text
  <1>8. SignatureFromText(t) = KeyOf("BLS", ReadBls(text, 192))
    BY <1>7 DEF SignatureFromText
  <1>9. ReadBls(text, 192) = data
    BY <1>5, <1>7 DEF ReadBls
  <1>10. SignatureFromText(SignatureToText(sig, FALSE)) = sig
    BY <1>3, <1>6, <1>8, <1>9
  <1>11. SignatureFromAbi(SignatureToAbi(sig)).sig = sig
    <2>1. "BLS" \in SigningTypes /\ SignatureSize("BLS") = 192
      BY DEF SigningTypes, SignatureSize
    <2>2. SignatureToAbi(sig) = One(TypeIndex("BLS")) \o data
      BY <1>1 DEF SignatureToAbi
    <2>3. SignatureFromAbi(One(TypeIndex("BLS")) \o data).sig
              = KeyOf("BLS", IF "BLS" = "EM" THEN FromEthereum(data) ELSE data)
      BY <1>4, <2>1, SignatureBytesAreRead
    <2> QED BY <1>3, <2>2, <2>3
  <1>12. ToHexBytes(sig) = NoBytes
    BY <1>1 DEF ToHexBytes
  <1>13. Unpacked(Packed(sig)) = sig
    <2>1. PadEdForTx(sig) = sig
      BY <1>1 DEF PadEdForTx
    <2>2. StripEdPad(sig) = sig
      BY <1>1 DEF StripEdPad
    <2> QED BY <1>10, <2>1, <2>2 DEF Packed, Unpacked
  <1> QED BY <1>10, <1>11, <1>12, <1>13 DEF sig

---------------------------------------------------------------------------
(* What a key makes of a message.                                          *)

Made(part, type, owner, m, recid) == << <<part, CurveOf(type), owner, SignedOf(type, m), recid>>, 32>>
BlsPart(owner, m) == << <<"bls", owner, m>>, 192>>

Signature(type, owner, m, recid) ==
    CASE type = "ED" -> [type |-> "ED", data |-> <<Made("r", "ED", owner, m, recid), Made("s", "ED", owner, m, recid)>>]
      [] type = "BLS" -> [type |-> "BLS", data |-> <<BlsPart(owner, m)>>]
      [] OTHER -> Classic(type, recid + WireOffset, Made("r", type, owner, m, recid), Made("s", type, owner, m, recid))

LEMMA MadeOf ==
    ASSUME NEW part, NEW type, NEW owner, NEW m, NEW recid
    PROVE  /\ Made(part, type, owner, m, recid)[2] = 32
           /\ Made(part, type, owner, m, recid)[1][3] = owner
           /\ Made("r", type, owner, m, recid) = << <<"r", CurveOf(type), owner, SignedOf(type, m), recid>>, 32>>
           /\ <<Made("r", type, owner, m, recid)>> = R(CurveOf(type), owner, SignedOf(type, m), recid)
           /\ <<Made("s", type, owner, m, recid)>> = S(CurveOf(type), owner, SignedOf(type, m), recid)
  <1>1. Made(part, type, owner, m, recid)[2] = 32
    BY DEF Made
  <1>2. Made(part, type, owner, m, recid)[1][3] = owner
    BY DEF Made
  <1>3. <<Made("r", type, owner, m, recid)>> = R(CurveOf(type), owner, SignedOf(type, m), recid)
    BY DEF Made, R, Part
  <1>4. <<Made("s", type, owner, m, recid)>> = S(CurveOf(type), owner, SignedOf(type, m), recid)
    BY DEF Made, S, Part
  <1> QED BY <1>1, <1>2, <1>3, <1>4 DEF Made

LEMMA MadeDiffer ==
    ASSUME NEW part, NEW type, NEW owner, NEW m, NEW recid, NEW another, NEW n, NEW bit
    PROVE  Made(part, type, owner, m, recid) = Made(part, type, another, n, bit)
               => owner = another /\ SignedOf(type, m) = SignedOf(type, n) /\ recid = bit
  <1> DEFINE a == Made(part, type, owner, m, recid)
             b == Made(part, type, another, n, bit)
  <1>1. a[1][3] = owner /\ a[1][4] = SignedOf(type, m) /\ a[1][5] = recid
    BY DEF Made
  <1>2. b[1][3] = another /\ b[1][4] = SignedOf(type, n) /\ b[1][5] = bit
    BY DEF Made
  <1> HIDE DEF a, b
  <1>3. a = b => owner = another /\ SignedOf(type, m) = SignedOf(type, n) /\ recid = bit
    BY <1>1, <1>2
  <1> QED BY <1>3 DEF a, b

LEMMA SignedDiffer ==
    ASSUME NEW type, NEW m, NEW n
    PROVE  /\ SignedOf(type, m) = SignedOf(type, n) <=> m = n
           /\ Sha256(m) = Sha256(n) <=> m = n
  <1>1. Sha256(m) = Sha256(n) <=> m = n
    <2>1. Sha256(m)[2] = m /\ Sha256(n)[2] = n
      BY DEF Sha256
    <2> QED BY <2>1
  <1>2. PersonalMessage(m) = PersonalMessage(n) <=> m = n
    <2>1. PersonalMessage(m)[2] = m /\ PersonalMessage(n)[2] = n
      BY DEF PersonalMessage
    <2> QED BY <2>1
  <1> QED BY <1>1, <1>2 DEF SignedOf

LEMMA BlsDiffer ==
    ASSUME NEW owner, NEW another, NEW m, NEW n
    PROVE  BlsPart(owner, m) = BlsPart(another, n) <=> owner = another /\ m = n
  <1> DEFINE a == BlsPart(owner, m)
             b == BlsPart(another, n)
  <1>1. a[1][2] = owner /\ a[1][3] = m /\ b[1][2] = another /\ b[1][3] = n
    BY DEF BlsPart
  <1> HIDE DEF a, b
  <1>2. a = b => owner = another /\ m = n
    BY <1>1
  <1> QED BY <1>2 DEF a, b

LEMMA SignatureIsMade ==
    ASSUME NEW type \in SigningTypes, NEW owner, NEW m, NEW recid \in {0, 1}
    PROVE  SignBytes(Secret(type, owner), m, recid) = Signature(type, owner, m, recid)
  <1> DEFINE key == Secret(type, owner)
             signed == SignedOf(type, m)
             curve == CurveOf(type)
             r == Made("r", type, owner, m, recid)
             s == Made("s", type, owner, m, recid)
  <1>1. key.type = type /\ key.data[1][1][3] = owner
    <2>1. key.data[1][1][3] = owner
      BY KeysOfOwners
    <2>2. key = [type |-> type, data |-> SecretBytes(type, owner)]
      BY KeysOfOwners
    <2> QED BY <2>1, <2>2
  <1>2. <<r>> = R(curve, owner, signed, recid) /\ <<s>> = S(curve, owner, signed, recid)
    BY MadeOf
  <1>3. <<r>> \o <<s>> = <<r, s>>
    BY Joined
  <1>4. One(recid + WireOffset) \o <<r, s>> = <<BytePart(recid + WireOffset), r, s>>
    BY ClassicSigs
  <1>5. One(recid + WireOffset) \o <<r>> \o <<s>> = <<BytePart(recid + WireOffset), r, s>>
    <2>1. One(recid + WireOffset) = <<BytePart(recid + WireOffset)>>
      BY Bytes
    <2> DEFINE b == BytePart(recid + WireOffset)
    <2> HIDE DEF b, r, s
    <2>2. <<b>> \o <<r>> = <<b, r>>
      BY Joined
    <2>3. <<b, r>> \o <<s>> = <<b, r, s>>
      BY Joined
    <2> QED BY <2>1, <2>2, <2>3 DEF b
  <1> HIDE DEF key, r, s
  <1>6. CASE type = "BLS"
    <2>1. SignBytes(key, m, recid) = SignatureFromParts("BLS", Part(<<"bls", owner, signed>>, 192), <<>>, 0)
      BY <1>1, <1>6 DEF SignBytes
    <2>2. signed = m
      BY <1>6 DEF SignedOf
    <2>3. Part(<<"bls", owner, signed>>, 192) = <<BlsPart(owner, m)>>
      BY <2>2 DEF Part, BlsPart
    <2>4. SignBytes(key, m, recid) = [type |-> "BLS", data |-> <<BlsPart(owner, m)>>]
      BY <2>1, <2>3 DEF SignatureFromParts
    <2> QED BY <1>6, <2>4 DEF Signature, key
  <1>7. CASE type # "BLS"
    <2>1. SignBytes(key, m, recid) = SignatureFromParts(type, <<r>>, <<s>>, recid)
      BY <1>1, <1>2, <1>7 DEF SignBytes
    <2>2. CASE type = "ED"
      <3>1. SignatureFromParts(type, <<r>>, <<s>>, recid) = [type |-> "ED", data |-> <<r, s>>]
        BY <1>3, <2>2 DEF SignatureFromParts
      <3> QED BY <2>1, <2>2, <3>1 DEF Signature, key, r, s
    <2>3. CASE type # "ED"
      <3>1. SignatureFromParts(type, <<r>>, <<s>>, recid)
                = [type |-> type, data |-> <<BytePart(recid + WireOffset), r, s>>]
        BY <1>5, <1>7, <2>3 DEF SignatureFromParts
      <3>2. Signature(type, owner, m, recid) = Classic(type, recid + WireOffset, r, s)
        BY <1>7, <2>3 DEF Signature, r, s
      <3> QED BY <2>1, <3>1, <3>2 DEF key, Classic
    <2> QED BY <2>2, <2>3
  <1> QED BY <1>6, <1>7

LEMMA SignatureIsTyped ==
    ASSUME NEW type \in SigningTypes, NEW owner, NEW m, NEW recid \in {0, 1}
    PROVE  Signature(type, owner, m, recid).type = type
  <1>1. CASE type = "ED"
    BY <1>1 DEF Signature
  <1>2. CASE type = "BLS"
    BY <1>2 DEF Signature
  <1>3. CASE type # "ED" /\ type # "BLS"
    BY <1>3 DEF Signature, Classic
  <1> QED BY <1>1, <1>2, <1>3

LEMMA SignatureIsCarried ==
    ASSUME NEW type \in SigningTypes, NEW owner, NEW m, NEW recid \in {0, 1}
    PROVE  LET sig == Signature(type, owner, m, recid)
           IN  /\ SignatureFromText(SignatureToText(sig, FALSE)) = sig
               /\ SignatureFromAbi(SignatureToAbi(sig)).sig = sig
               /\ Unpacked(Packed(sig)) = sig
               /\ ToHexBytes(sig) # NoBytes => FromRawBytes(type, ToHexBytes(sig)) = sig
  <1> DEFINE sig == Signature(type, owner, m, recid)
             r == Made("r", type, owner, m, recid)
             s == Made("s", type, owner, m, recid)
             n == recid + WireOffset
  <1>1. r[2] = 32 /\ s[2] = 32
    BY MadeOf
  <1>2. n \in Int
    BY DEF WireOffset
  <1> HIDE DEF r, s, n
  <1>3. CASE type = "ED"
    <2> DEFINE one == [type |-> "ED", data |-> <<r, s>>]
    <2>1. sig = one
      BY <1>3 DEF Signature, r, s
    <2>2. SignatureFromText(SignatureToText(one, FALSE)) = one
      BY <1>1, SolanaIsCarried
    <2>3. SignatureFromAbi(SignatureToAbi(one)).sig = one
      BY <1>1, SolanaIsCarried
    <2>4. Unpacked(Packed(one)) = one
      BY <1>1, SolanaIsCarried
    <2>5. FromRawBytes("ED", ToHexBytes(one)) = one
      BY <1>1, SolanaIsCarried
    <2> HIDE DEF sig, one
    <2> QED BY <1>3, <2>1, <2>2, <2>3, <2>4, <2>5 DEF sig
  <1>4. CASE type = "BLS"
    <2> DEFINE b == BlsPart(owner, m)
    <2>1. b[2] = 192
      BY DEF BlsPart
    <2> DEFINE one == [type |-> "BLS", data |-> <<b>>]
    <2>2. sig = one
      BY <1>4 DEF Signature
    <2> HIDE DEF b
    <2>3. SignatureFromText(SignatureToText(one, FALSE)) = one
      BY <2>1, BlsIsCarried
    <2>4. SignatureFromAbi(SignatureToAbi(one)).sig = one
      BY <2>1, BlsIsCarried
    <2>5. Unpacked(Packed(one)) = one
      BY <2>1, BlsIsCarried
    <2>6. ToHexBytes(one) = NoBytes
      BY <2>1, BlsIsCarried
    <2> HIDE DEF sig, one
    <2> QED BY <2>2, <2>3, <2>4, <2>5, <2>6 DEF sig
  <1>5. CASE type = "EM"
    <2> DEFINE one == Classic("EM", n, r, s)
    <2>1. sig = one
      BY <1>5 DEF Signature, r, s, n
    <2>2. SignatureFromText(SignatureToText(one, FALSE)) = one
      BY <1>1, <1>2, EthereumIsCarried
    <2>3. SignatureFromAbi(SignatureToAbi(one)).sig = one
      BY <1>1, <1>2, EthereumIsCarried
    <2>4. Unpacked(Packed(one)) = one
      BY <1>1, <1>2, EthereumIsCarried
    <2>5. FromRawBytes("EM", ToHexBytes(one)) = one
      BY <1>1, <1>2, EthereumIsCarried
    <2> HIDE DEF sig, one
    <2> QED BY <1>5, <2>1, <2>2, <2>3, <2>4, <2>5 DEF sig
  <1>6. CASE type \in {"K1", "R1"}
    <2> DEFINE one == Classic(type, n, r, s)
    <2>1. sig = one
      BY <1>6 DEF Signature, r, s, n
    <2>2. SignatureFromText(SignatureToText(one, FALSE)) = one
      BY <1>1, <1>2, <1>6, ClassicIsCarried
    <2>3. SignatureFromAbi(SignatureToAbi(one)).sig = one
      BY <1>1, <1>2, <1>6, ClassicBytesAreRead
    <2>4. Unpacked(Packed(one)) = one
      BY <1>1, <1>2, <1>6, ClassicIsCarried
    <2>5. FromRawBytes(type, ToHexBytes(one)) = one
      BY <1>1, <1>2, <1>6, ClassicIsCarried
    <2> HIDE DEF sig, one
    <2> QED BY <2>1, <2>2, <2>3, <2>4, <2>5 DEF sig
  <1> QED BY <1>3, <1>4, <1>5, <1>6 DEF SigningTypes

\* What an application has signed by a key or a wallet is the signature of its key.
LEMMA ExternalIsRead ==
    ASSUME NEW type \in SigningTypes, type # "BLS", NEW owner, NEW m, NEW recid \in {0, 1}
    PROVE  FromRawBytes(type, ExternalSign(Secret(type, owner), m, recid)) = Signature(type, owner, m, recid)
  <1> DEFINE key == Secret(type, owner)
             sig == Signature(type, owner, m, recid)
             r == Made("r", type, owner, m, recid)
             s == Made("s", type, owner, m, recid)
             n == recid + WireOffset
  <1>1. r[2] = 32 /\ s[2] = 32
    BY MadeOf
  <1>2. n \in Int
    BY DEF WireOffset
  <1>3. key.type = type
    <2>1. key = [type |-> type, data |-> SecretBytes(type, owner)]
      BY KeysOfOwners
    <2> QED BY <2>1
  <1>4. SignBytes(key, m, recid) = sig
    BY SignatureIsMade
  <1> HIDE DEF r, s, n, key
  <1>5. CASE type = "ED"
    <2> DEFINE one == [type |-> "ED", data |-> <<r, s>>]
    <2>1. sig = one
      BY <1>5 DEF Signature, r, s
    <2>2. FromRawBytes("ED", one.data) = one
      BY <1>1, SolanaIsCarried
    <2> HIDE DEF sig, one
    <2>3. ExternalSign(key, m, recid) = sig.data
      BY <1>3, <1>4, <1>5 DEF ExternalSign
    <2> QED BY <1>5, <2>1, <2>2, <2>3 DEF sig, key
  <1>6. CASE type = "EM"
    <2> DEFINE one == Classic("EM", n, r, s)
    <2>1. sig = one
      BY <1>6 DEF Signature, r, s, n
    <2>2. FromRawBytes("EM", ToEthereum(one.data)) = one
      BY <1>1, <1>2, EthereumIsCarried
    <2> HIDE DEF sig, one
    <2>3. ExternalSign(key, m, recid) = ToEthereum(sig.data)
      BY <1>3, <1>4, <1>6 DEF ExternalSign
    <2> QED BY <1>6, <2>1, <2>2, <2>3 DEF sig, key
  <1>7. CASE type \in {"K1", "R1"}
    <2> DEFINE one == Classic(type, n, r, s)
    <2>1. sig = one
      BY <1>7 DEF Signature, r, s, n
    <2>2. FromRawBytes(type, ToHexBytes(one)) = one
      BY <1>1, <1>2, <1>7, ClassicIsCarried
    <2> HIDE DEF sig, one
    <2>3. ExternalSign(key, m, recid) = ToHexBytes(sig)
      BY <1>3, <1>4, <1>7 DEF ExternalSign, SignDigest
    <2> QED BY <2>1, <2>2, <2>3 DEF sig, key
  <1> QED BY <1>5, <1>6, <1>7 DEF SigningTypes

\* The data a signature is verified by.
Sent(sig) == IF sig.type = "EM" THEN ToEthereum(sig.data) ELSE sig.data

(***************************************************************************)
(* A signature verifies for its message and a key of its owner on its      *)
(* curve, and for no other.                                                *)
(***************************************************************************)
LEMMA SignatureVerifies ==
    ASSUME NEW type \in SigningTypes, NEW owner \in Owners, NEW m, NEW recid \in {0, 1},
           NEW n, NEW other \in SigningTypes, NEW another \in Owners
    PROVE  VerifyBytes(type, Sent(Signature(type, owner, m, recid)), n, PublicBytes(other, another))
               <=> n = m /\ PublicBytes(other, another) = PublicBytes(type, owner)
  <1> DEFINE public == PublicBytes(other, another)
             sig == Signature(type, owner, m, recid)
             data == Sent(sig)
             r(o, x, bit) == Made("r", type, o, x, bit)
             s(o, x, bit) == Made("s", type, o, x, bit)
             curve == CurveOf(type)
  <1>1. public[1][1][3] = another
    <2> DEFINE content == <<"public", CurveOf(other), another>>
    <2>1. content[3] = another
      OBVIOUS
    <2>2. public = Part(content, PublicSizes[other])
      BY DEF PublicBytes
    <2>3. PublicSizes[other] \in Nat \ {0}
      BY SizesOfKeys
    <2> HIDE DEF content, public
    <2>4. public[1][1] = content
      BY <2>2, <2>3, PartIsOne
    <2> QED BY <2>1, <2>4
  <1>2. public = PublicBytes(type, another) <=> CurveOf(other) = curve
    BY KeysDiffer
  <1>3. public = PublicBytes(type, owner) <=> CurveOf(other) = curve /\ another = owner
    BY KeysDiffer
  <1>4. sig.type = type
    BY SignatureIsTyped
  <1>5. ASSUME NEW o, NEW x, NEW bit
        PROVE  /\ <<r(o, x, bit)>> = R(curve, o, SignedOf(type, x), bit)
               /\ <<s(o, x, bit)>> = S(curve, o, SignedOf(type, x), bit)
               /\ R(curve, o, SignedOf(type, x), bit) \o S(curve, o, SignedOf(type, x), bit) = <<r(o, x, bit), s(o, x, bit)>>
    <2>1. <<r(o, x, bit)>> = R(curve, o, SignedOf(type, x), bit)
      BY MadeOf
    <2>2. <<s(o, x, bit)>> = S(curve, o, SignedOf(type, x), bit)
      BY MadeOf
    <2>3. <<r(o, x, bit)>> \o <<s(o, x, bit)>> = <<r(o, x, bit), s(o, x, bit)>>
      BY Joined
    <2> QED BY <2>1, <2>2, <2>3
  <1>6. ASSUME NEW o, NEW x, NEW bit, r(o, x, bit) = r(owner, m, recid)
        PROVE  o = owner /\ SignedOf(type, x) = SignedOf(type, m) /\ bit = recid
    BY <1>6, MadeDiffer
  <1> HIDE DEF public, sig, data, r, s, curve
  <1>7. CASE type = "ED"
    <2>1. VerifyBytes(type, data, n, public)
              <=> /\ public = PublicBytes(type, another)
                  /\ \E bit \in {0, 1} : data = R(curve, another, n, bit) \o S(curve, another, n, bit)
      BY <1>1, <1>7 DEF VerifyBytes, curve
    <2>2. \A x : SignedOf(type, x) = x
      BY <1>7 DEF SignedOf
    <2>3. data = <<r(owner, m, recid), s(owner, m, recid)>>
      BY <1>4, <1>7 DEF Signature, Sent, data, sig, r, s
    <2>4. ASSUME NEW bit
          PROVE  R(curve, another, n, bit) \o S(curve, another, n, bit) = <<r(another, n, bit), s(another, n, bit)>>
      BY <1>5, <2>2
    <2>5. (\E bit \in {0, 1} : data = R(curve, another, n, bit) \o S(curve, another, n, bit))
              <=> another = owner /\ n = m
      <3>1. ASSUME NEW bit \in {0, 1}, data = R(curve, another, n, bit) \o S(curve, another, n, bit)
            PROVE  another = owner /\ n = m
        <4>1. <<r(another, n, bit), s(another, n, bit)>> = <<r(owner, m, recid), s(owner, m, recid)>>
          BY <2>3, <2>4, <3>1
        <4>2. r(another, n, bit) = r(owner, m, recid)
          BY <4>1
        <4> QED BY <1>6, <2>2, <4>2
      <3>2. data = R(curve, owner, m, recid) \o S(curve, owner, m, recid)
        BY <1>5, <2>2, <2>3
      <3> QED BY <3>1, <3>2
    <2> QED BY <1>2, <1>3, <2>1, <2>5 DEF data, sig, public
  <1>8. CASE type = "BLS"
    <2>1. VerifyBytes(type, data, n, public)
              <=> public = PublicBytes(type, another) /\ data = Part(<<"bls", another, n>>, 192)
      BY <1>1, <1>8 DEF VerifyBytes, curve
    <2>2. data = <<BlsPart(owner, m)>>
      BY <1>4, <1>8 DEF Signature, Sent, data, sig
    <2>3. Part(<<"bls", another, n>>, 192) = <<BlsPart(another, n)>>
      BY DEF Part, BlsPart
    <2>4. data = Part(<<"bls", another, n>>, 192) <=> another = owner /\ n = m
      BY <2>2, <2>3, BlsDiffer
    <2> QED BY <1>2, <1>3, <2>1, <2>4 DEF data, sig, public
  <1>9. CASE type = "EM"
    <2> DEFINE a == r(owner, m, recid)
               b == s(owner, m, recid)
               bits == recid + WireOffset
               c == BytePart(bits - Recovery)
    <2>1. data = <<a, b, c>>
      <3>1. sig = Classic("EM", bits, a, b)
        BY <1>9 DEF Signature, sig, r, s
      <3>2. bits \in Int
        BY DEF WireOffset
      <3> HIDE DEF bits, a, b
      <3>3. sig.data = <<BytePart(bits), a, b>>
        BY <3>1 DEF Classic
      <3>4. ToEthereum(<<BytePart(bits), a, b>>) = <<a, b, c>>
        BY <3>2, EthereumAndBack
      <3> QED BY <1>4, <1>9, <3>3, <3>4 DEF Sent, data
    <2>2. c[1][2] - EthOffset = recid
      <3>1. c[1][2] = bits - Recovery
        BY Bytes
      <3> HIDE DEF c
      <3> QED BY <3>1 DEF Recovery, WireOffset, EthOffset
    <2>3. a[1][3] = owner
      BY MadeOf DEF r
    <2>4. data[1] = a /\ data[2] = b /\ data[3] = c
      BY <2>1
    <2> HIDE DEF a, b, c
    <2> DEFINE got == Recovered(curve, a, b, recid, PersonalMessage(n))
    <2>5. VerifyBytes(type, data, n, public) <=> public = PublicBytes(type, another) /\ got = public
      <3>1. VerifyBytes(type, data, n, public)
                <=> /\ public = PublicBytes(type, another)
                    /\ Recovered(curve, data[1], data[2], data[3][1][2] - EthOffset, PersonalMessage(n)) = public
        BY <1>1, <1>9 DEF VerifyBytes, curve
      <3> QED BY <2>2, <2>4, <3>1
    <2>6. \A x : SignedOf(type, x) = PersonalMessage(x)
      BY <1>9 DEF SignedOf
    <2>7. CASE n = m
      <3>1. <<a>> = R(curve, owner, PersonalMessage(n), recid) /\ <<b>> = S(curve, owner, PersonalMessage(n), recid)
        BY <1>5, <2>6, <2>7 DEF a, b
      <3>2. got = Part(<<"public", curve, owner>>, 33)
        BY <2>3, <3>1 DEF Recovered
      <3>3. PublicBytes(type, owner) = Part(<<"public", curve, owner>>, 33)
        BY <1>9 DEF PublicBytes, PublicSizes, curve
      <3> QED BY <1>2, <1>3, <2>5, <2>7, <3>2, <3>3 DEF data, sig, public
    <2>8. CASE n # m
      <3>1. <<a>> # R(curve, owner, PersonalMessage(n), recid)
        <4>1. SUFFICES ASSUME <<a>> = R(curve, owner, PersonalMessage(n), recid) PROVE FALSE
          OBVIOUS
        <4>2. <<r(owner, n, recid)>> = R(curve, owner, PersonalMessage(n), recid)
          BY <1>5, <2>6
        <4>3. r(owner, n, recid) = a
          BY <4>1, <4>2
        <4>4. SignedOf(type, n) = SignedOf(type, m)
          BY <1>6, <4>3 DEF a
        <4> QED BY <2>8, <4>4, SignedDiffer
      <3>2. got = Part(<<"public", curve, "nobody">>, 33)
        BY <2>3, <3>1 DEF Recovered
      <3>3. PublicBytes(type, "nobody") = Part(<<"public", curve, "nobody">>, 33)
        BY <1>9 DEF PublicBytes, PublicSizes, curve
      <3>4. another # "nobody"
        BY ValuesAssumption
      <3>5. PublicBytes(type, another) # PublicBytes(type, "nobody")
        BY <3>4, KeysDiffer
      <3> QED BY <2>5, <2>8, <3>2, <3>3, <3>5 DEF data, sig, public
    <2> QED BY <2>7, <2>8
  <1>10. CASE type \in {"K1", "R1"}
    <2> DEFINE a == r(owner, m, recid)
               b == s(owner, m, recid)
               c == BytePart(recid + WireOffset)
    <2>1. data = <<c, a, b>>
      <3>1. sig = Classic(type, recid + WireOffset, a, b)
        BY <1>10 DEF Signature, sig, r, s
      <3>2. sig.data = <<c, a, b>>
        BY <3>1 DEF Classic
      <3> QED BY <1>4, <1>10, <3>2 DEF Sent, data
    <2>2. Tail(data) = <<a, b>>
      <3> HIDE DEF a, b, c
      <3>1. Tail(<<c, a, b>>) = <<a, b>>
        OBVIOUS
      <3> QED BY <2>1, <3>1
    <2>3. VerifyBytes(type, data, n, public)
              <=> /\ public = PublicBytes(type, another)
                  /\ \E bit \in {0, 1} : Tail(data) = R(curve, another, n, bit) \o S(curve, another, n, bit)
      BY <1>1, <1>10 DEF VerifyBytes, curve
    <2>4. \A x : SignedOf(type, x) = x
      BY <1>10 DEF SignedOf
    <2>5. ASSUME NEW bit
          PROVE  R(curve, another, n, bit) \o S(curve, another, n, bit) = <<r(another, n, bit), s(another, n, bit)>>
      BY <1>5, <2>4
    <2>6. (\E bit \in {0, 1} : Tail(data) = R(curve, another, n, bit) \o S(curve, another, n, bit))
              <=> another = owner /\ n = m
      <3>1. ASSUME NEW bit \in {0, 1}, Tail(data) = R(curve, another, n, bit) \o S(curve, another, n, bit)
            PROVE  another = owner /\ n = m
        <4>1. <<r(another, n, bit), s(another, n, bit)>> = <<r(owner, m, recid), s(owner, m, recid)>>
          BY <2>2, <2>5, <3>1
        <4>2. r(another, n, bit) = r(owner, m, recid)
          BY <4>1
        <4> QED BY <1>6, <2>4, <4>2
      <3>2. Tail(data) = R(curve, owner, m, recid) \o S(curve, owner, m, recid)
        BY <1>5, <2>2, <2>4
      <3> QED BY <3>1, <3>2
    <2> QED BY <1>2, <1>3, <2>3, <2>6 DEF data, sig, public
  <1> QED BY <1>7, <1>8, <1>9, <1>10 DEF SigningTypes, data, sig, public

LEMMA SignatureIsRecovered ==
    ASSUME NEW type \in {"K1", "R1", "EM"}, NEW owner, NEW m, NEW recid \in {0, 1}
    PROVE  RecoverDigest(Signature(type, owner, m, recid), m) = [type |-> type, data |-> PublicBytes(type, owner)]
  <1> DEFINE sig == Signature(type, owner, m, recid)
             r == Made("r", type, owner, m, recid)
             s == Made("s", type, owner, m, recid)
             bits == recid + WireOffset
             curve == CurveOf(type)
             signed == SignedOf(type, m)
  <1>1. sig = Classic(type, bits, r, s)
    BY DEF Signature
  <1>2. bits - WireOffset = recid
    BY DEF WireOffset
  <1>3. r[1][3] = owner /\ <<r>> = R(curve, owner, signed, recid) /\ <<s>> = S(curve, owner, signed, recid)
    <2>1. r[1][3] = owner
      BY MadeOf
    <2>2. <<r>> = R(curve, owner, signed, recid)
      BY MadeOf
    <2>3. <<s>> = S(curve, owner, signed, recid)
      BY MadeOf
    <2> QED BY <2>1, <2>2, <2>3
  <1> HIDE DEF r, s, bits, sig
  <1>4. sig.type = type /\ sig.data = <<BytePart(bits), r, s>>
    BY <1>1 DEF Classic
  <1>5. sig.data[1][1][2] = bits /\ sig.data[2] = r /\ sig.data[3] = s
    BY <1>4, Bytes
  <1>6. Recovered(curve, r, s, recid, signed) = PublicBytes(type, owner)
    <2>1. PublicSizes[type] = 33
      BY DEF PublicSizes
    <2> QED BY <1>3, <2>1 DEF Recovered, PublicBytes
  <1>7. RecoverDigest(sig, m) = KeyOf(type, Recovered(curve, r, s, recid, signed))
    BY <1>2, <1>4, <1>5 DEF RecoverDigest
  <1>8. PublicBytes(type, owner) # NoBytes
    <2> DEFINE content == <<"public", CurveOf(type), owner>>
    <2>1. PublicBytes(type, owner) = Part(content, PublicSizes[type])
      BY DEF PublicBytes
    <2>2. PublicSizes[type] \in Nat \ {0}
      BY DEF PublicSizes
    <2> HIDE DEF content
    <2> QED BY <2>1, <2>2, PartIsOne
  <1> QED BY <1>6, <1>7, <1>8 DEF KeyOf, sig

LEMMA PublicKeysAre ==
    ASSUME NEW key \in PublicKeys
    PROVE  \E type \in SigningTypes, owner \in Owners : key = [type |-> type, data |-> PublicBytes(type, owner)]
  <1>1. PICK type \in SigningTypes, owner \in Owners : key = ToPublic(Secret(type, owner))
    BY DEF PublicKeys
  <1>2. ToPublic(Secret(type, owner)) = [type |-> type, data |-> PublicBytes(type, owner)]
    BY KeysOfOwners
  <1> QED BY <1>1, <1>2

LEMMA MessageVerifies ==
    ASSUME NEW type \in SigningTypes, NEW owner \in Owners, NEW m, NEW recid \in {0, 1}, NEW n, NEW key \in PublicKeys
    PROVE  LET sig == Signature(type, owner, IF type \in {"K1", "R1"} THEN Sha256(m) ELSE m, recid)
           IN  VerifyMessage(sig, n, key) <=> n = m /\ key.data = PublicBytes(type, owner)
  <1> DEFINE signed(x) == IF type \in {"K1", "R1"} THEN Sha256(x) ELSE x
             sig == Signature(type, owner, signed(m), recid)
  <1>1. PICK other \in SigningTypes, another \in Owners : key = [type |-> other, data |-> PublicBytes(other, another)]
    BY PublicKeysAre
  <1>2. key.data = PublicBytes(other, another)
    BY <1>1
  <1>3. VerifyBytes(type, Sent(sig), signed(n), key.data) <=> signed(n) = signed(m) /\ key.data = PublicBytes(type, owner)
    <2> HIDE DEF signed
    <2> QED BY <1>2, SignatureVerifies
  <1>4. sig.type = type
    <2> HIDE DEF signed
    <2> QED BY SignatureIsTyped
  <1>5. signed(n) = signed(m) <=> n = m
    BY SignedDiffer
  <1> HIDE DEF sig
  <1>6. VerifyMessage(sig, n, key) <=> VerifyBytes(type, Sent(sig), signed(n), key.data)
    <2>1. CASE type \in {"K1", "R1"}
      BY <1>4, <2>1 DEF VerifyMessage, VerifyDigest, Sent
    <2>2. CASE type \notin {"K1", "R1"}
      BY <1>4, <2>2 DEF VerifyMessage, Sent
    <2> QED BY <2>1, <2>2
  <1> HIDE DEF signed
  <1>7. VerifyMessage(sig, n, key) <=> n = m /\ key.data = PublicBytes(type, owner)
    BY <1>3, <1>5, <1>6
  <1> QED BY <1>7 DEF sig, signed

LEMMA DigestVerifies ==
    ASSUME NEW type \in SigningTypes, NEW owner \in Owners, NEW m, NEW recid \in {0, 1}, NEW n, NEW key \in PublicKeys
    PROVE  VerifyDigest(Signature(type, owner, m, recid), n, key) <=> n = m /\ key.data = PublicBytes(type, owner)
  <1> DEFINE sig == Signature(type, owner, m, recid)
  <1>1. PICK other \in SigningTypes, another \in Owners : key = [type |-> other, data |-> PublicBytes(other, another)]
    BY PublicKeysAre
  <1>2. key.data = PublicBytes(other, another)
    BY <1>1
  <1>3. VerifyBytes(type, Sent(sig), n, key.data) <=> n = m /\ key.data = PublicBytes(type, owner)
    BY <1>2, SignatureVerifies
  <1>4. sig.type = type
    BY SignatureIsTyped
  <1> HIDE DEF sig
  <1>5. VerifyDigest(sig, n, key) <=> VerifyBytes(type, Sent(sig), n, key.data)
    BY <1>4 DEF VerifyDigest, Sent
  <1> QED BY <1>3, <1>5 DEF sig

LEMMA MessagesVerify ==
    ASSUME NEW type \in SigningTypes, NEW owner \in Owners, NEW message \in Contents, NEW recid \in {0, 1}
    PROVE  LET private == Secret(type, owner)
               key == ToPublic(private)
               sig == SignMessage(private, message, recid)
           IN  \A carried \in Carried(sig) :
                    /\ carried = sig
                    /\ \A other \in PublicKeys, m \in Contents \cup {Sha256(message), PersonalMessage(message)} :
                           VerifyMessage(carried, m, other) <=> m = message /\ other.data = key.data
                    /\ VerifyDigest(carried, Sha256(message), key) <=> sig.type \in {"K1", "R1"}
                    /\ sig.type \notin {"ED", "BLS"} => RecoverMessage(carried, message) = key
  <1> DEFINE private == Secret(type, owner)
             key == ToPublic(private)
             sig == SignMessage(private, message, recid)
             signed == IF type \in {"K1", "R1"} THEN Sha256(message) ELSE message
             made == Signature(type, owner, signed, recid)
             public == PublicBytes(type, owner)
  <1>1. private.type = type
    <2>1. private = [type |-> type, data |-> SecretBytes(type, owner)]
      BY KeysOfOwners
    <2> QED BY <2>1
  <1>2. key = [type |-> type, data |-> public]
    BY KeysOfOwners
  <1>3. key \in PublicKeys
    BY DEF PublicKeys
  <1>4. key.data = public
    BY <1>2
  <1>5. sig = made
    <2>1. sig = SignBytes(private, signed, recid)
      <3> HIDE DEF private
      <3> QED BY <1>1 DEF SignMessage, SigningTypes
    <2> HIDE DEF signed
    <2>2. SignBytes(private, signed, recid) = made
      BY SignatureIsMade
    <2> QED BY <2>1, <2>2
  <1>6. made.type = type
    <2> HIDE DEF signed
    <2> QED BY SignatureIsTyped
  <1> HIDE DEF private, sig, key, public
  <1>7. ASSUME NEW carried \in Carried(made)
        PROVE  carried = made
    <2> HIDE DEF signed
    <2>1. SignatureFromText(SignatureToText(made, FALSE)) = made
      BY SignatureIsCarried
    <2>2. SignatureFromAbi(SignatureToAbi(made)).sig = made
      BY SignatureIsCarried
    <2>3. Unpacked(Packed(made)) = made
      BY SignatureIsCarried
    <2>4. ToHexBytes(made) # NoBytes => FromRawBytes(type, ToHexBytes(made)) = made
      BY SignatureIsCarried
    <2> HIDE DEF made
    <2> QED BY <1>6, <2>1, <2>2, <2>3, <2>4 DEF Carried
  <1>8. ASSUME NEW other \in PublicKeys, NEW m
        PROVE  VerifyMessage(made, m, other) <=> m = message /\ other.data = public
    BY MessageVerifies DEF public
  <1>9. VerifyDigest(made, Sha256(message), key) <=> type \in {"K1", "R1"}
    <2>1. VerifyDigest(made, Sha256(message), key) <=> Sha256(message) = signed /\ key.data = public
      <3> HIDE DEF signed
      <3> QED BY <1>3, DigestVerifies DEF public
    <2>2. Sha256(message) # message
      BY ValuesAssumption
    <2> QED BY <1>4, <2>1, <2>2
  <1>10. type \notin {"ED", "BLS"} => RecoverMessage(made, message) = key
    <2> SUFFICES ASSUME type \notin {"ED", "BLS"} PROVE RecoverMessage(made, message) = key
      OBVIOUS
    <2>1. type \in {"K1", "R1", "EM"}
      BY DEF SigningTypes
    <2>2. RecoverDigest(made, signed) = [type |-> type, data |-> public]
      <3> HIDE DEF signed
      <3> QED BY <2>1, SignatureIsRecovered DEF public
    <2>3. RecoverMessage(made, message) = RecoverDigest(made, signed)
      BY <1>6, <2>1 DEF RecoverMessage
    <2> QED BY <1>2, <2>2, <2>3
  <1> HIDE DEF made
  <1>11. ASSUME NEW carried \in Carried(sig)
         PROVE  /\ carried = sig
                /\ \A other \in PublicKeys, m \in Contents \cup {Sha256(message), PersonalMessage(message)} :
                       VerifyMessage(carried, m, other) <=> m = message /\ other.data = key.data
                /\ VerifyDigest(carried, Sha256(message), key) <=> sig.type \in {"K1", "R1"}
                /\ sig.type \notin {"ED", "BLS"} => RecoverMessage(carried, message) = key
    <2>1. carried = made /\ sig = made
      BY <1>5, <1>7
    <2> QED BY <1>4, <1>6, <1>8, <1>9, <1>10, <2>1
  <1> QED BY <1>11 DEF sig, key, private

LEMMA SigningBytesDiffer ==
    ASSUME NEW type, NEW chain, NEW trx, NEW here, NEW other
    PROVE  SigningBytes(chain, trx, type) = SigningBytes(here, other, type) <=> chain = here /\ trx = other
  <1> DEFINE a == <<"signing", chain, trx>>
             b == <<"signing", here, other>>
  <1>1. a[2] = chain /\ a[3] = trx /\ b[2] = here /\ b[3] = other
    OBVIOUS
  <1>2. SigningDigest(chain, trx) = Sha256(a) /\ SigningDigest(here, other) = Sha256(b)
    BY DEF SigningDigest
  <1>3. a = b <=> chain = here /\ trx = other
    BY <1>1
  <1> HIDE DEF a, b
  <1>4. SigningDigest(chain, trx) = SigningDigest(here, other) <=> a = b
    BY <1>2, SignedDiffer
  <1>5. HexText(SigningDigest(chain, trx)) = HexText(SigningDigest(here, other))
            <=> SigningDigest(chain, trx) = SigningDigest(here, other)
    <2>1. \A x : HexText(x)[2] = x
      BY DEF HexText
    <2> QED BY <2>1
  <1> QED BY <1>3, <1>4, <1>5 DEF SigningBytes

LEMMA TransactionIsSigned ==
    ASSUME NEW type \in SigningTypes, type # "BLS", NEW owner \in Owners, NEW here \in Contents, NEW trx \in Contents,
           NEW recid \in {0, 1}
    PROVE  LET private == Secret(type, owner)
               key == ToPublic(private)
               sig == Unpacked(Packed(SignTransaction(private, here, trx, recid)))
           IN  \A chain, other \in Contents, k \in PublicKeys :
                   VerifyBytes(sig.type, IF sig.type = "EM" THEN ToEthereum(sig.data) ELSE sig.data,
                               SigningBytes(chain, other, sig.type), k.data)
                       <=> chain = here /\ other = trx /\ k.data = key.data
  <1> DEFINE private == Secret(type, owner)
             key == ToPublic(private)
             sig == Unpacked(Packed(SignTransaction(private, here, trx, recid)))
             signed == SigningBytes(here, trx, type)
             made == Signature(type, owner, signed, recid)
             public == PublicBytes(type, owner)
  <1>1. private.type = type
    <2>1. private = [type |-> type, data |-> SecretBytes(type, owner)]
      BY KeysOfOwners
    <2> QED BY <2>1
  <1>2. key.data = public
    <2>1. key = [type |-> type, data |-> public]
      BY KeysOfOwners
    <2> HIDE DEF key, public
    <2> QED BY <2>1
  <1> HIDE DEF signed
  <1>3. sig = made
    <2>1. SignTransaction(private, here, trx, recid) = FromRawBytes(type, ExternalSign(private, signed, recid))
      <3> HIDE DEF private
      <3> QED BY <1>1 DEF SignTransaction, signed
    <2>2. FromRawBytes(type, ExternalSign(private, signed, recid)) = made
      BY ExternalIsRead
    <2>3. Unpacked(Packed(made)) = made
      BY SignatureIsCarried
    <2> HIDE DEF made, private
    <2> QED BY <2>1, <2>2, <2>3
  <1>4. made.type = type
    BY SignatureIsTyped
  <1>5. ASSUME NEW n, NEW k \in PublicKeys
        PROVE  VerifyBytes(type, Sent(made), n, k.data) <=> n = signed /\ k.data = public
    <2>1. PICK t \in SigningTypes, another \in Owners : k = [type |-> t, data |-> PublicBytes(t, another)]
      BY PublicKeysAre
    <2>2. k.data = PublicBytes(t, another)
      BY <2>1
    <2> QED BY <2>2, SignatureVerifies
  <1> HIDE DEF made, sig, key, private, public
  <1>6. ASSUME NEW chain \in Contents, NEW other \in Contents, NEW k \in PublicKeys
        PROVE  VerifyBytes(sig.type, IF sig.type = "EM" THEN ToEthereum(sig.data) ELSE sig.data,
                           SigningBytes(chain, other, sig.type), k.data)
                   <=> chain = here /\ other = trx /\ k.data = key.data
    <2>1. SigningBytes(chain, other, type) = signed <=> chain = here /\ other = trx
      BY SigningBytesDiffer DEF signed
    <2>2. Sent(made) = IF type = "EM" THEN ToEthereum(made.data) ELSE made.data
      BY <1>4 DEF Sent
    <2>3. VerifyBytes(type, Sent(made), SigningBytes(chain, other, type), k.data)
              <=> SigningBytes(chain, other, type) = signed /\ k.data = public
      BY <1>5
    <2> QED BY <1>2, <1>3, <1>4, <2>1, <2>2, <2>3
  <1> QED BY <1>6 DEF sig, key, private

LEMMA PayloadsDiffer ==
    ASSUME NEW key, NEW kind, NEW account, NEW nonce, NEW another, NEW other
    PROVE  LinkPayload(LinkMessage(key, account, kind, nonce), kind) = LinkPayload(LinkMessage(key, another, kind, other), kind)
               <=> account = another /\ nonce = other
  <1> DEFINE a == LinkMessage(key, account, kind, nonce)
             b == LinkMessage(key, another, kind, other)
  <1>1. a[3] = account /\ a[5] = nonce /\ b[3] = another /\ b[5] = other
    <2> DEFINE text == PublicToText(key, FALSE)
    <2>1. a = <<"link", text, account, kind, nonce>> /\ b = <<"link", text, another, kind, other>>
      BY DEF LinkMessage
    <2> HIDE DEF text, a, b
    <2> QED BY <2>1
  <1>2. a = b <=> account = another /\ nonce = other
    <2>1. a = b => account = another /\ nonce = other
      <3> HIDE DEF a, b
      <3> QED BY <1>1
    <2> QED BY <2>1
  <1> HIDE DEF a, b
  <1>3. LinkPayload(a, kind) = LinkPayload(b, kind) <=> a = b
    <2>1. CASE kind = "EVM"
      <3>1. \A x : LinkPayload(x, kind) = <<"keccak256", x>>
        BY <2>1 DEF LinkPayload
      <3>2. LinkPayload(a, kind)[2] = a /\ LinkPayload(b, kind)[2] = b
        BY <3>1
      <3> QED BY <3>2
    <2>2. CASE kind # "EVM"
      <3>1. \A x : LinkPayload(x, kind) = HexText(<<"printable", Sha256(x)>>)
        BY <2>2 DEF LinkPayload
      <3>2. \A x : HexText(<<"printable", x>>)[2][2] = x
        BY DEF HexText
      <3>3. Sha256(a) = Sha256(b) <=> a = b
        BY SignedDiffer
      <3>4. LinkPayload(a, kind)[2][2] = Sha256(a) /\ LinkPayload(b, kind)[2][2] = Sha256(b)
        BY <3>1, <3>2
      <3> QED BY <3>3, <3>4
    <2> QED BY <2>1, <2>2
  <1> QED BY <1>2, <1>3 DEF a, b

LEMMA SolanaTextIsRead ==
    ASSUME NEW d, d # NoBytes
    PROVE  SignatureFromText(SignatureToText([type |-> "ED", data |-> d], FALSE)) = [type |-> "ED", data |-> d]
  <1> DEFINE text == Base58Text(d, FALSE)
             t == [prefix |-> "SIG", type |-> "ED", text |-> text]
             any == [type |-> "ED", data |-> d]
  <1>1. any.type = "ED" /\ any.data = d
    OBVIOUS
  <1> HIDE DEF any
  <1>2. SignatureToText(any, FALSE) = t
    BY <1>1 DEF SignatureToText
  <1>3. t.type = "ED" /\ t.text = text /\ ReadBase58(text) = d
    BY DEF ReadBase58, Base58Text, Text
  <1> HIDE DEF t, text
  <1>4. SignatureFromText(t) = KeyOf("ED", OrHex(ReadBase58(text), text))
    BY <1>3 DEF SignatureFromText
  <1> QED BY <1>2, <1>3, <1>4 DEF OrHex, KeyOf, any

LEMMA PlainVerifies ==
    ASSUME NEW type \in {"EM", "ED", "BLS"}, NEW owner \in Owners, NEW m, NEW recid \in {0, 1}, NEW n, NEW key \in PublicKeys
    PROVE  VerifyMessage(Signature(type, owner, m, recid), n, key) <=> n = m /\ key.data = PublicBytes(type, owner)
  <1> DEFINE signed == IF type \in {"K1", "R1"} THEN Sha256(m) ELSE m
  <1>1. type \in SigningTypes
    BY DEF SigningTypes
  <1>2. signed = m
    OBVIOUS
  <1>3. VerifyMessage(Signature(type, owner, signed, recid), n, key) <=> n = m /\ key.data = PublicBytes(type, owner)
    BY <1>1, MessageVerifies
  <1> HIDE DEF signed
  <1> QED BY <1>2, <1>3

\* Whether the proof of a link is one of another account or nonce.
LinkIsOf(type, owner, recid, kind, account, nonce, a, n) ==
    LET private == Secret(type, owner)
        key == ToPublic(private)
        proof == SignCreateLink(private, account, kind, nonce, recid)
        sig == SignatureFromText(SignatureToText(proof, FALSE))
        payload == LinkPayload(LinkMessage(key, a, kind, n), kind)
    IN  IF kind = "EVM" THEN VerifyMessage(sig, payload, key)
        ELSE /\ <<sig.data[1]>> = key.data
             /\ VerifyMessage([sig EXCEPT !.data = Tail(@)], payload, key)

LEMMA EthereumLinkIsSigned ==
    ASSUME NEW owner \in Owners, NEW account, NEW nonce, NEW recid \in {0, 1}, NEW a, NEW n
    PROVE  LinkIsOf("EM", owner, recid, "EVM", account, nonce, a, n) <=> a = account /\ n = nonce
  <1> DEFINE private == Secret("EM", owner)
             key == ToPublic(private)
             payload(x, y) == LinkPayload(LinkMessage(key, x, "EVM", y), "EVM")
             signed == payload(account, nonce)
             made == Signature("EM", owner, signed, recid)
             raw == ExternalSign(private, signed, recid)
             proof == SignCreateLink(private, account, "EVM", nonce, recid)
             sig == SignatureFromText(SignatureToText(proof, FALSE))
  <1>1. "EM" \in SigningTypes /\ "EM" # "BLS"
    BY DEF SigningTypes
  <1>2. key = [type |-> "EM", data |-> PublicBytes("EM", owner)]
    BY <1>1, KeysOfOwners
  <1>3. key.type = "EM" /\ key.data = PublicBytes("EM", owner) /\ key \in PublicKeys
    <2>1. key.type = "EM"
      BY <1>2
    <2>2. key.data = PublicBytes("EM", owner)
      BY <1>2
    <2>3. key \in PublicKeys
      BY <1>1 DEF PublicKeys
    <2> QED BY <2>1, <2>2, <2>3
  <1> HIDE DEF key
  <1>4. payload(a, n) = signed <=> a = account /\ n = nonce
    BY PayloadsDiffer
  <1> HIDE DEF payload, signed
  <1>5. proof = made
    <2>1. proof = LinkSignature(raw, key, "EVM")
      BY <1>3 DEF SignCreateLink, LinkTypes, key, signed, payload
    <2>2. LinkSignature(raw, key, "EVM") = FromRawBytes("EM", raw)
      <3> HIDE DEF raw
      <3> QED BY <1>3 DEF LinkSignature, LinkTypes
    <2>3. FromRawBytes("EM", raw) = made
      BY <1>1, ExternalIsRead
    <2> QED BY <2>1, <2>2, <2>3
  <1>6. sig = made
    <2>1. SignatureFromText(SignatureToText(made, FALSE)) = made
      BY <1>1, SignatureIsCarried
    <2> HIDE DEF made, proof
    <2> QED BY <1>5, <2>1
  <1>7. VerifyMessage(made, payload(a, n), key) <=> payload(a, n) = signed
    <2> DEFINE m == payload(a, n)
    <2> HIDE DEF m
    <2>1. VerifyMessage(made, m, key) <=> m = signed /\ key.data = PublicBytes("EM", owner)
      BY <1>3, PlainVerifies
    <2> QED BY <1>3, <2>1 DEF m
  <1> HIDE DEF sig, made
  <1>8. VerifyMessage(sig, payload(a, n), key) <=> a = account /\ n = nonce
    BY <1>4, <1>6, <1>7
  <1> QED BY <1>8 DEF LinkIsOf, sig, proof, key, private, payload

LEMMA SolanaLinkIsSigned ==
    ASSUME NEW owner \in Owners, NEW account, NEW nonce, NEW recid \in {0, 1}, NEW a, NEW n
    PROVE  LinkIsOf("ED", owner, recid, "SVM", account, nonce, a, n) <=> a = account /\ n = nonce
  <1> DEFINE private == Secret("ED", owner)
             key == ToPublic(private)
             payload(x, y) == LinkPayload(LinkMessage(key, x, "SVM", y), "SVM")
             signed == payload(account, nonce)
             made == Signature("ED", owner, signed, recid)
             raw == ExternalSign(private, signed, recid)
             proof == SignCreateLink(private, account, "SVM", nonce, recid)
             sig == SignatureFromText(SignatureToText(proof, FALSE))
             r == Made("r", "ED", owner, signed, recid)
             s == Made("s", "ED", owner, signed, recid)
             p == << <<"public", CurveOf("ED"), owner>>, 32>>
             long == [type |-> "ED", data |-> <<p, r, s>>]
  <1>1. "ED" \in SigningTypes /\ "ED" # "BLS"
    BY DEF SigningTypes
  <1>2. key = [type |-> "ED", data |-> PublicBytes("ED", owner)]
    BY <1>1, KeysOfOwners
  <1>3. key.type = "ED" /\ key.data = PublicBytes("ED", owner) /\ key \in PublicKeys
    <2>1. key.type = "ED"
      BY <1>2
    <2>2. key.data = PublicBytes("ED", owner)
      BY <1>2
    <2>3. key \in PublicKeys
      BY <1>1 DEF PublicKeys
    <2> QED BY <2>1, <2>2, <2>3
  <1>4. PublicBytes("ED", owner) = <<p>>
    BY DEF PublicBytes, PublicSizes, Part
  <1> HIDE DEF key, p
  <1>5. payload(a, n) = signed <=> a = account /\ n = nonce
    BY PayloadsDiffer
  <1> HIDE DEF payload, signed
  <1>6. r[2] = 32 /\ s[2] = 32
    BY MadeOf
  <1>7. made = [type |-> "ED", data |-> <<r, s>>]
    BY DEF Signature
  <1> HIDE DEF r, s
  <1>8. raw = <<r, s>> /\ ByteCount(raw) = 64
    <2>1. SignBytes(private, signed, recid) = made
      BY <1>1, SignatureIsMade
    <2>2. private.type = "ED"
      <3>1. private = [type |-> "ED", data |-> SecretBytes("ED", owner)]
        BY <1>1, KeysOfOwners
      <3> HIDE DEF private
      <3> QED BY <3>1
    <2> HIDE DEF made, private
    <2>3. raw = made.data
      BY <2>1, <2>2 DEF ExternalSign
    <2>4. made.data = <<r, s>>
      BY <1>7
    <2>5. ByteCount(<<r, s>>) = 32 + 32
      BY <1>6, CountOfTwo
    <2> QED BY <2>3, <2>4, <2>5
  <1>9. proof = long
    <2>1. proof = LinkSignature(raw, key, "SVM")
      BY <1>3 DEF SignCreateLink, LinkTypes, key, signed, payload
    <2> HIDE DEF raw, private, proof, long
    <2>2. LinkSignature(raw, key, "SVM") = KeyOf("ED", key.data \o raw)
      BY <1>3, <1>8 DEF LinkSignature, LinkTypes
    <2>3. <<p>> \o <<r, s>> = <<p, r, s>>
      BY Joined
    <2>4. <<p, r, s>> # NoBytes
      BY LongIsSomething
    <2>5. KeyOf("ED", <<p, r, s>>) = long
      BY <2>4 DEF KeyOf, long
    <2> QED BY <1>3, <1>4, <1>8, <2>1, <2>2, <2>3, <2>5
  <1>10. sig = long
    <2> DEFINE d == <<p, r, s>>
    <2>1. d # NoBytes
      BY LongIsSomething
    <2> HIDE DEF d
    <2>2. SignatureFromText(SignatureToText([type |-> "ED", data |-> d], FALSE)) = [type |-> "ED", data |-> d]
      BY <2>1, SolanaTextIsRead
    <2> HIDE DEF proof
    <2> QED BY <1>9, <2>2 DEF d
  <1>11. <<long.data[1]>> = key.data
    BY <1>3, <1>4
  <1>12. [long EXCEPT !.data = Tail(@)] = made
    <2>1. Tail(<<p, r, s>>) = <<r, s>>
      OBVIOUS
    <2>2. [long EXCEPT !.data = Tail(@)] = [type |-> "ED", data |-> Tail(<<p, r, s>>)]
      OBVIOUS
    <2> QED BY <1>7, <2>1, <2>2
  <1>13. VerifyMessage(made, payload(a, n), key) <=> payload(a, n) = signed
    <2> DEFINE m == payload(a, n)
    <2> HIDE DEF m
    <2>1. VerifyMessage(made, m, key) <=> m = signed /\ key.data = PublicBytes("ED", owner)
      BY <1>3, PlainVerifies
    <2> QED BY <1>3, <2>1 DEF m
  <1> HIDE DEF sig, made, long
  <1>14. <<sig.data[1]>> = key.data
    BY <1>10, <1>11
  <1>15. VerifyMessage([sig EXCEPT !.data = Tail(@)], payload(a, n), key) <=> a = account /\ n = nonce
    BY <1>5, <1>10, <1>12, <1>13
  <1> QED BY <1>14, <1>15 DEF LinkIsOf, sig, proof, key, private, payload

LEMMA LinkIsSigned ==
    ASSUME NEW type \in SigningTypes, NEW owner \in Owners, NEW kind \in {"EVM", "SVM"}, NEW account, NEW nonce,
           NEW recid \in {0, 1}, type # LinkTypes[kind]
    PROVE  SignCreateLink(Secret(type, owner), account, kind, nonce, recid) = Throws
  <1> DEFINE private == Secret(type, owner)
             key == ToPublic(private)
  <1>1. key = [type |-> type, data |-> PublicBytes(type, owner)]
    BY KeysOfOwners
  <1>2. key.type = type
    <2> HIDE DEF key
    <2> QED BY <1>1
  <1> HIDE DEF key
  <1> QED BY <1>2 DEF SignCreateLink, key

(***************************************************************************)
(* Signatures are verified for what they are of and by whom, and nothing   *)
(* else.                                                                   *)
(***************************************************************************)
THEOREM SignaturesAlwaysVerify == ValuesSpec => []SignedIsVerified
  <1> DEFINE Picked == input = <<>> \/ input \in ChainInputs
  <1>1. ValuesInit => Picked
    BY DEF ValuesInit
  <1>2. Picked /\ [ValuesNext]_input => Picked'
    BY DEF ValuesNext
  <1>3. ASSUME Picked, Is("sign")
        PROVE  input[2] \in SigningTypes /\ input[3] \in Owners /\ input[4] \in {0, 1}
    BY <1>3 DEF Is, ChainInputs, IntegerInputs, PricedInputs, WrittenInputs, KeyInputs
  <1>4. Picked => SignedIsVerified
    <2> SUFFICES ASSUME Picked PROVE SignedIsVerified
      OBVIOUS
    <2> HIDE DEF Picked
    <2>1. SignaturesVerify
      BY <1>3, MessagesVerify DEF SignaturesVerify
    <2>2. TransactionsAreSigned
      BY <1>3, TransactionIsSigned DEF TransactionsAreSigned
    <2>3. LinksAreSigned
      <3> DEFINE type == input[2]
                 owner == input[3]
                 recid == input[4]
      <3> SUFFICES ASSUME Is("sign") PROVE LinksAreSigned
        BY DEF LinksAreSigned
      <3>1. type \in SigningTypes /\ owner \in Owners /\ recid \in {0, 1}
        BY <1>3
      <3> HIDE DEF type, owner, recid
      <3>2. ASSUME NEW kind \in {"EVM", "SVM"}, NEW account, NEW nonce, type # LinkTypes[kind]
            PROVE  SignCreateLink(Secret(type, owner), account, kind, nonce, recid) = Throws
        BY <3>1, <3>2, LinkIsSigned
      <3>3. ASSUME NEW kind \in {"EVM", "SVM"}, NEW account, NEW nonce, NEW a, NEW n, type = LinkTypes[kind]
            PROVE  LinkIsOf(type, owner, recid, kind, account, nonce, a, n) <=> a = account /\ n = nonce
        <4>1. CASE kind = "EVM"
          <5>1. LinkIsOf("EM", owner, recid, "EVM", account, nonce, a, n) <=> a = account /\ n = nonce
            BY <3>1, EthereumLinkIsSigned
          <5>2. type = "EM"
            BY <3>3, <4>1 DEF LinkTypes
          <5> QED BY <4>1, <5>1, <5>2
        <4>2. CASE kind = "SVM"
          <5>1. LinkIsOf("ED", owner, recid, "SVM", account, nonce, a, n) <=> a = account /\ n = nonce
            BY <3>1, SolanaLinkIsSigned
          <5>2. type = "ED"
            BY <3>3, <4>2 DEF LinkTypes
          <5> QED BY <4>2, <5>1, <5>2
        <4> QED BY <4>1, <4>2
      <3>4. \A kind \in {"EVM", "SVM"}, account, nonce \in Contents :
                IF type # LinkTypes[kind] THEN SignCreateLink(Secret(type, owner), account, kind, nonce, recid) = Throws
                ELSE \A a, n \in Contents :
                         LinkIsOf(type, owner, recid, kind, account, nonce, a, n) <=> a = account /\ n = nonce
        BY <3>2, <3>3
      <3> QED BY <3>4 DEF LinksAreSigned, LinkIsOf, type, owner, recid
    <2> QED BY <2>1, <2>2, <2>3 DEF SignedIsVerified
  <1> QED BY <1>1, <1>2, <1>4, PTL DEF ValuesSpec

---------------------------------------------------------------------------
(* Keys are read back from their texts.                                    *)

LEMMA WrongCheck ==
    ASSUME NEW p, NEW a, NEW b, a # b, NEW size
    PROVE  Unchecked(WithCheck(<<p>>, a), size, b) = NoBytes
  <1> DEFINE check(x) == << <<"ripemd160", <<p>>, x>>, 4>>
  <1>1. ASSUME NEW x
        PROVE  WithCheck(<<p>>, x) = <<p, check(x)>>
    <2>1. CheckOf(<<p>>, x) = <<check(x)>>
      BY DEF CheckOf, Part
    <2>2. <<p>> \o <<check(x)>> = <<p, check(x)>>
      BY Joined
    <2> QED BY <2>1, <2>2 DEF WithCheck
  <1>2. check(a)[1][3] = a /\ check(b)[1][3] = b
    OBVIOUS
  <1> HIDE DEF check
  <1>3. check(a) # check(b)
    BY <1>2
  <1> DEFINE ca == check(a)
             cb == check(b)
  <1> HIDE DEF ca, cb
  <1>4. WithCheck(<<p>>, a) = <<p, ca>> /\ WithCheck(<<p>>, b) = <<p, cb>> /\ ca # cb
    BY <1>1, <1>3 DEF ca, cb
  <1>5. Front(<<p, ca>>) = <<p>>
    BY FrontLast
  <1>6. <<p, ca>> # <<p, cb>>
    BY <1>4
  <1> DEFINE all == <<p, ca>>
  <1> HIDE DEF all
  <1>7. Front(all) = <<p>> /\ all # WithCheck(Front(all), b)
    BY <1>4, <1>5, <1>6 DEF all
  <1>8. Unchecked(all, size, b) = NoBytes
    BY <1>7 DEF Unchecked
  <1> QED BY <1>4, <1>8 DEF all

LEMMA RightCheck ==
    ASSUME NEW p, NEW suffix, NEW size, size = AnySize \/ p[2] = size, p[2] \in Nat
    PROVE  /\ Unchecked(WithCheck(<<p>>, suffix), size, suffix) = <<p>>
           /\ WithCheck(<<p>>, suffix) # NoBytes
  <1>1. ByteCount(<<p>>) = p[2]
    BY CountOfOne
  <1> DEFINE data == <<p>>
  <1>2. data \in Seq({p}) /\ data # <<>>
    OBVIOUS
  <1> HIDE DEF data
  <1>3. size = AnySize \/ ByteCount(data) = size
    BY <1>1 DEF data
  <1> QED BY <1>2, <1>3, CheckedIsRead DEF data

LEMMA NoCheck ==
    ASSUME NEW p, NEW size, NEW suffix
    PROVE  Unchecked(<<p>>, size, suffix) = NoBytes /\ Unchecked(NoBytes, size, suffix) = NoBytes
  <1>1. Len(<<p>>) = 1
    OBVIOUS
  <1> QED BY <1>1 DEF Unchecked

LEMMA TextsAsRead ==
    ASSUME NEW data, NEW clean, NEW size
    PROVE  /\ ReadBase58(Base58Text(data, clean)) = data /\ Base58Text(data, clean).form = "58"
           /\ ReadHex(Text("hex", data, clean)) = data /\ Text("hex", data, clean).form = "hex"
           /\ ReadBls(Text("64", data, clean), size) = Unchecked(data, size, "")
           /\ ReadBls(Base58Text(data, clean), size) = NoBytes
           /\ ReadHex(Base58Text(data, FALSE)) = NoBytes
           /\ ReadBase58(Text("64", data, FALSE)) = NoBytes /\ ReadHex(Text("64", data, FALSE)) = NoBytes
           /\ ReadBase58(Text("hex", data, FALSE)) = NoBytes
  <1>1. ReadBase58(Base58Text(data, clean)) = data /\ Base58Text(data, clean).form = "58"
    BY DEF ReadBase58, Base58Text, Text
  <1>2. ReadHex(Text("hex", data, clean)) = data /\ Text("hex", data, clean).form = "hex"
    BY DEF ReadHex, Text
  <1>3. ReadBls(Text("64", data, clean), size) = Unchecked(data, size, "")
    BY DEF ReadBls, Text
  <1>4. ReadBls(Base58Text(data, clean), size) = NoBytes
    BY DEF ReadBls, Base58Text, Text
  <1>5. ReadHex(Base58Text(data, FALSE)) = NoBytes
    BY DEF ReadHex, Base58Text, Text
  <1>6. ReadBase58(Text("64", data, FALSE)) = NoBytes /\ ReadHex(Text("64", data, FALSE)) = NoBytes
    BY DEF ReadBase58, ReadHex, Text
  <1>7. ReadBase58(Text("hex", data, FALSE)) = NoBytes
    BY DEF ReadBase58, Text
  <1> QED BY <1>1, <1>2, <1>3, <1>4, <1>5, <1>6, <1>7

PublicPart(type, owner) == << <<"public", CurveOf(type), owner>>, PublicSizes[type]>>
SecretPart(type, owner) == << <<"secret", CurveOf(type), owner>>, SecretSizes[type]>>

LEMMA PartsOfKeys ==
    ASSUME NEW type \in SigningTypes, NEW owner
    PROVE  /\ PublicBytes(type, owner) = <<PublicPart(type, owner)>> /\ PublicPart(type, owner)[2] = PublicSizes[type]
           /\ SecretBytes(type, owner) = <<SecretPart(type, owner)>> /\ SecretPart(type, owner)[2] = SecretSizes[type]
           /\ <<PublicPart(type, owner)>> # NoBytes /\ <<SecretPart(type, owner)>> # NoBytes
           /\ ByteCount(<<PublicPart(type, owner)>>) = PublicSizes[type]
           /\ ByteCount(<<SecretPart(type, owner)>>) = SecretSizes[type]
  <1>1. PublicBytes(type, owner) = <<PublicPart(type, owner)>> /\ PublicPart(type, owner)[2] = PublicSizes[type]
    BY DEF PublicBytes, Part, PublicPart
  <1>2. SecretBytes(type, owner) = <<SecretPart(type, owner)>> /\ SecretPart(type, owner)[2] = SecretSizes[type]
    BY DEF SecretBytes, Part, SecretPart
  <1>3. PublicSizes[type] \in Nat \ {0} /\ SecretSizes[type] \in Nat \ {0}
    BY SizesOfKeys
  <1>4. ASSUME NEW p, p[2] \in Nat
        PROVE  <<p>> # NoBytes /\ ByteCount(<<p>>) = p[2]
    <2>1. NoBytes[1][2] = -1
      BY DEF NoBytes, Part
    <2>2. <<p>>[1][2] = p[2]
      OBVIOUS
    <2>3. <<p>> # NoBytes
      BY <1>4, <2>1, <2>2
    <2> QED BY <1>4, <2>3, CountOfOne
  <1>5. <<PublicPart(type, owner)>> # NoBytes /\ ByteCount(<<PublicPart(type, owner)>>) = PublicSizes[type]
    BY <1>1, <1>3, <1>4
  <1>6. <<SecretPart(type, owner)>> # NoBytes /\ ByteCount(<<SecretPart(type, owner)>>) = SecretSizes[type]
    BY <1>2, <1>3, <1>4
  <1> QED BY <1>1, <1>2, <1>5, <1>6

\* What is read of a text under a label.
LEMMA LabelsRead ==
    ASSUME NEW t, t.prefix = "PUB"
    PROVE  /\ t.type = "BLS" => PublicFromText(t) = KeyOf("BLS", ReadBls(t.text, 96))
           /\ t.type = "ED" => PublicFromText(t) = KeyOf("ED", OrHex(ReadBase58(t.text), t.text))
           /\ t.type \in {"K1", "R1", "EM"} =>
                  PublicFromText(t) = KeyOf(t.type, OrHex(Unchecked(ReadBase58(t.text), 33, t.type), t.text))
           /\ t.type = "WA" =>
                  PublicFromText(t) = KeyOf(t.type, OrHex(Unchecked(ReadBase58(t.text), AnySize, t.type), t.text))
  <1>1. t.type = "BLS" => PublicFromText(t) = KeyOf("BLS", ReadBls(t.text, 96))
    BY DEF PublicFromText
  <1>2. t.type = "ED" => PublicFromText(t) = KeyOf("ED", OrHex(ReadBase58(t.text), t.text))
    BY DEF PublicFromText
  <1>3. t.type \in {"K1", "R1", "EM"} =>
            PublicFromText(t) = KeyOf(t.type, OrHex(Unchecked(ReadBase58(t.text), 33, t.type), t.text))
    <2> SUFFICES ASSUME t.type \in {"K1", "R1", "EM"}
                 PROVE  PublicFromText(t) = KeyOf(t.type, OrHex(Unchecked(ReadBase58(t.text), 33, t.type), t.text))
      OBVIOUS
    <2>1. t.type \in DOMAIN CompressedSizes /\ CompressedSizes[t.type] = 33
      BY DEF CompressedSizes
    <2> QED BY <2>1 DEF PublicFromText
  <1>4. t.type = "WA" =>
            PublicFromText(t) = KeyOf(t.type, OrHex(Unchecked(ReadBase58(t.text), AnySize, t.type), t.text))
    <2> SUFFICES ASSUME t.type = "WA"
                 PROVE  PublicFromText(t) = KeyOf(t.type, OrHex(Unchecked(ReadBase58(t.text), AnySize, t.type), t.text))
      OBVIOUS
    <2>1. t.type \notin DOMAIN CompressedSizes
      BY DEF CompressedSizes
    <2> QED BY <2>1 DEF PublicFromText
  <1> QED BY <1>1, <1>2, <1>3, <1>4

LEMMA SecretLabelsRead ==
    ASSUME NEW t, t.prefix = "PVT"
    PROVE  /\ t.type = "BLS" => PrivateFromText(t) = PrivateKey("BLS", ReadBls(t.text, 32))
           /\ t.type \in {"K1", "R1", "EM"} =>
                  PrivateFromText(t) = PrivateKey(t.type, OrHex(Unchecked(ReadBase58(t.text), 32, t.type), t.text))
           /\ t.type \in {"WA", "ED"} =>
                  PrivateFromText(t) = PrivateKey(t.type, OrHex(Unchecked(ReadBase58(t.text), AnySize, t.type), t.text))
  <1>1. t.type = "BLS" => PrivateFromText(t) = PrivateKey("BLS", ReadBls(t.text, 32))
    BY DEF PrivateFromText
  <1>2. t.type \in {"K1", "R1", "EM"} =>
            PrivateFromText(t) = PrivateKey(t.type, OrHex(Unchecked(ReadBase58(t.text), 32, t.type), t.text))
    BY DEF PrivateFromText
  <1>3. t.type \in {"WA", "ED"} =>
            PrivateFromText(t) = PrivateKey(t.type, OrHex(Unchecked(ReadBase58(t.text), AnySize, t.type), t.text))
    BY DEF PrivateFromText
  <1> QED BY <1>1, <1>2, <1>3

LEMMA RelabeledTexts ==
    ASSUME NEW text, NEW prefix, NEW type, NEW form, text = [prefix |-> prefix, type |-> type, text |-> form], NEW other
    PROVE  /\ Relabeled(text, other).prefix = prefix /\ Relabeled(text, other).type = other
           /\ Relabeled(text, other).text = form
  <1> DEFINE re == Relabeled(text, other)
  <1>1. re = [prefix |-> prefix, type |-> other, text |-> form]
    BY DEF Relabeled
  <1> HIDE DEF re
  <1>2. re.prefix = prefix /\ re.type = other /\ re.text = form
    BY <1>1
  <1> QED BY <1>2 DEF re

\* The form a key of a type is written in.
PublicForm(type, p, clean) ==
    CASE type = "BLS" -> Text("64", WithCheck(<<p>>, ""), clean)
      [] type \in {"K1", "R1"} -> Base58Text(WithCheck(<<p>>, type), clean)
      [] type = "ED" -> Base58Text(<<p>>, clean)
      [] OTHER -> Text("hex", <<p>>, clean)

SecretForm(type, p) ==
    IF type = "BLS" THEN Text("64", WithCheck(<<p>>, ""), FALSE) ELSE Base58Text(WithCheck(<<p>>, type), FALSE)

LEMMA PublicTexts ==
    ASSUME NEW type \in SigningTypes, NEW owner, NEW clean \in BOOLEAN
    PROVE  LET key == [type |-> type, data |-> PublicBytes(type, owner)]
               text == PublicToText(key, clean)
               hex == PublicToHex(key, clean)
           IN  /\ text = [prefix |-> "PUB", type |-> type, text |-> PublicForm(type, PublicPart(type, owner), clean)]
               /\ text.prefix = "PUB" /\ text.type = type /\ text.text = PublicForm(type, PublicPart(type, owner), clean)
               /\ hex.prefix = "PUB" /\ hex.type = type /\ hex.text = Text("hex", <<PublicPart(type, owner)>>, clean)
  <1> DEFINE key == [type |-> type, data |-> PublicBytes(type, owner)]
             p == PublicPart(type, owner)
             form == PublicForm(type, p, clean)
             text == PublicToText(key, clean)
             hex == PublicToHex(key, clean)
  <1>1. key.type = type /\ key.data = <<p>>
    <2>1. key.data = <<p>>
      BY PartsOfKeys
    <2> QED BY <2>1
  <1>2. Sized(type, <<p>>, CompressedSizes)
    <2>1. type \in DOMAIN CompressedSizes => PublicSizes[type] = CompressedSizes[type]
      BY DEF CompressedSizes, PublicSizes
    <2>2. ByteCount(<<p>>) = PublicSizes[type]
      BY PartsOfKeys
    <2> HIDE DEF p
    <2> QED BY <2>1, <2>2 DEF Sized
  <1> HIDE DEF key, p
  <1>3. text = [prefix |-> "PUB", type |-> type, text |-> form]
    BY <1>1, <1>2 DEF PublicToText, PublicForm
  <1>4. hex = [prefix |-> "PUB", type |-> type, text |-> Text("hex", <<p>>, clean)]
    BY <1>1, <1>2 DEF PublicToHex
  <1> HIDE DEF text, hex, form
  <1>5. text.prefix = "PUB" /\ text.type = type /\ text.text = form
    BY <1>3
  <1>6. hex.prefix = "PUB" /\ hex.type = type /\ hex.text = Text("hex", <<p>>, clean)
    BY <1>4
  <1> QED BY <1>3, <1>5, <1>6 DEF text, hex, key, p, form

LEMMA SecretTexts ==
    ASSUME NEW type \in SigningTypes, NEW owner
    PROVE  LET text == PrivateToText(Secret(type, owner))
           IN  /\ text.prefix = "PVT" /\ text.type = type /\ text.text = SecretForm(type, SecretPart(type, owner))
               /\ \A other : /\ Relabeled(text, other).prefix = "PVT" /\ Relabeled(text, other).type = other
                             /\ Relabeled(text, other).text = text.text
  <1> DEFINE key == Secret(type, owner)
             p == SecretPart(type, owner)
             form == SecretForm(type, p)
             text == PrivateToText(key)
  <1>1. key.type = type /\ key.data = <<p>>
    <2>1. key = [type |-> type, data |-> SecretBytes(type, owner)]
      BY KeysOfOwners
    <2>2. SecretBytes(type, owner) = <<p>>
      BY PartsOfKeys
    <2> HIDE DEF key, p
    <2> QED BY <2>1, <2>2
  <1> HIDE DEF key, p
  <1>2. text = [prefix |-> "PVT", type |-> type, text |-> form]
    BY <1>1 DEF PrivateToText, SecretForm
  <1> HIDE DEF text, form
  <1>3. text.prefix = "PVT" /\ text.type = type /\ text.text = form
    BY <1>2
  <1>4. ASSUME NEW other
        PROVE  /\ Relabeled(text, other).prefix = "PVT" /\ Relabeled(text, other).type = other
               /\ Relabeled(text, other).text = text.text
    <2> DEFINE re == Relabeled(text, other)
    <2>1. re = [prefix |-> "PVT", type |-> other, text |-> form]
      BY <1>2 DEF Relabeled
    <2> HIDE DEF re
    <2>2. re.prefix = "PVT" /\ re.type = other /\ re.text = form
      BY <2>1
    <2> QED BY <1>3, <2>2 DEF re
  <1> QED BY <1>3, <1>4 DEF text, key, p, form

LEMMA HexHasNoCheck ==
    ASSUME NEW data, NEW clean, NEW size, NEW suffix
    PROVE  Unchecked(ReadBase58(Text("hex", data, clean)), size, suffix) = NoBytes
  <1> DEFINE text == Text("hex", data, clean)
             misread == << <<"misread", text.form>>, 0>>
  <1>1. Misread(text) = <<misread>>
    BY DEF Misread, Part
  <1>2. text.form # "58"
    BY DEF Text
  <1> HIDE DEF text, misread
  <1>3. ReadBase58(text) = NoBytes \/ ReadBase58(text) = <<misread>>
    BY <1>1, <1>2 DEF ReadBase58
  <1>4. Unchecked(ReadBase58(text), size, suffix) = NoBytes
    BY <1>3, NoCheck
  <1> QED BY <1>4 DEF text

LEMMA PlainCheck ==
    ASSUME NEW p, NEW size, size = AnySize \/ p[2] = size, p[2] \in Nat, NEW clean
    PROVE  /\ Unchecked(WithCheck(<<p>>, ""), size, "") = <<p>>
           /\ ReadBls(Text("64", WithCheck(<<p>>, ""), clean), size) = <<p>>
  <1> DEFINE plain == ""
  <1> HIDE DEF plain
  <1>1. Unchecked(WithCheck(<<p>>, plain), size, plain) = <<p>>
    BY RightCheck
  <1>2. Unchecked(WithCheck(<<p>>, ""), size, "") = <<p>>
    BY <1>1 DEF plain
  <1> DEFINE data == WithCheck(<<p>>, "")
  <1>3. ReadBls(Text("64", data, clean), size) = Unchecked(data, size, "")
    <2> HIDE DEF data
    <2> QED BY TextsAsRead
  <1> QED BY <1>2, <1>3

LEMMA FormIsRead ==
    ASSUME NEW type \in SigningTypes, NEW p, p[2] = PublicSizes[type], <<p>> # NoBytes, NEW clean \in BOOLEAN,
           NEW t, t.prefix = "PUB", t.type = type
    PROVE  /\ t.text = PublicForm(type, p, clean) => PublicFromText(t) = [type |-> type, data |-> <<p>>]
           /\ type # "BLS" /\ ~(type = "ED" /\ clean) /\ t.text = Text("hex", <<p>>, clean)
                  => PublicFromText(t) = [type |-> type, data |-> <<p>>]
  <1> DEFINE data == <<p>>
             key == [type |-> type, data |-> data]
  <1>1. KeyOf(type, data) = key /\ \A text : OrHex(data, text) = data
    BY DEF KeyOf, OrHex
  <1>2. CASE type = "BLS"
    <2>1. p[2] = 96
      BY <1>2 DEF PublicSizes
    <2>2. ReadBls(Text("64", WithCheck(<<p>>, ""), clean), 96) = <<p>>
      <3>1. p[2] \in Nat
        BY <2>1
      <3> QED BY <2>1, <3>1, PlainCheck, Zenon
    <2> HIDE DEF data, key
    <2> SUFFICES ASSUME t.text = PublicForm(type, p, clean) PROVE PublicFromText(t) = key
      BY <1>2 DEF key, data
    <2>3. t.text = Text("64", WithCheck(<<p>>, ""), clean)
      BY <1>2 DEF PublicForm
    <2>4. ReadBls(t.text, 96) = data
      BY <2>2, <2>3 DEF data
    <2>5. PublicFromText(t) = KeyOf("BLS", ReadBls(t.text, 96))
      BY <1>2, LabelsRead
    <2> QED BY <1>1, <1>2, <2>4, <2>5
  <1>3. CASE type = "ED"
    <2> HIDE DEF key
    <2>1. PublicFromText(t) = KeyOf("ED", OrHex(ReadBase58(t.text), t.text))
      BY <1>3, LabelsRead
    <2>2. ASSUME t.text = PublicForm(type, p, clean)
          PROVE  PublicFromText(t) = key
      <3>1. t.text = Base58Text(data, clean)
        BY <1>3, <2>2 DEF PublicForm
      <3>2. ReadBase58(t.text) = data
        BY <3>1, TextsAsRead
      <3> HIDE DEF data
      <3> QED BY <1>1, <1>3, <2>1, <3>2
    <2>3. ASSUME ~clean, t.text = Text("hex", <<p>>, clean)
          PROVE  PublicFromText(t) = key
      <3>1. t.text = Text("hex", data, FALSE)
        BY <2>3
      <3>2. ReadBase58(t.text) = NoBytes /\ ReadHex(t.text) = data
        BY <3>1, TextsAsRead
      <3> HIDE DEF data
      <3>3. OrHex(NoBytes, t.text) = ReadHex(t.text)
        BY DEF OrHex
      <3> QED BY <1>1, <1>3, <2>1, <3>2, <3>3
    <2> QED BY <1>3, <2>2, <2>3 DEF key, data
  <1>4. CASE type \in {"K1", "R1", "EM"}
    <2>1. p[2] = 33
      BY <1>4 DEF PublicSizes
    <2>2. Unchecked(WithCheck(<<p>>, type), 33, type) = <<p>>
      BY <2>1, RightCheck
    <2> HIDE DEF key
    <2>3. PublicFromText(t) = KeyOf(type, OrHex(Unchecked(ReadBase58(t.text), 33, type), t.text))
      BY <1>4, LabelsRead
    <2>4. ASSUME type # "EM", t.text = PublicForm(type, p, clean)
          PROVE  PublicFromText(t) = key
      <3>1. t.text = Base58Text(WithCheck(<<p>>, type), clean)
        BY <1>4, <2>4 DEF PublicForm
      <3>2. ReadBase58(t.text) = WithCheck(<<p>>, type)
        BY <3>1, TextsAsRead
      <3> QED BY <1>1, <2>2, <2>3, <3>2
    <2>5. ASSUME t.text = Text("hex", <<p>>, clean)
          PROVE  PublicFromText(t) = key
      <3>1. ReadHex(t.text) = data
        BY <2>5, TextsAsRead
      <3>3. Unchecked(ReadBase58(t.text), 33, type) = NoBytes
        BY <2>5, HexHasNoCheck
      <3>2. OrHex(NoBytes, t.text) = ReadHex(t.text)
        BY DEF OrHex
      <3> HIDE DEF data
      <3> QED BY <1>1, <2>3, <3>1, <3>2, <3>3
    <2>6. type = "EM" => PublicForm(type, p, clean) = Text("hex", <<p>>, clean)
      BY DEF PublicForm
    <2> QED BY <1>4, <2>4, <2>5, <2>6 DEF key, data
  <1> QED BY <1>2, <1>3, <1>4 DEF SigningTypes

LEMMA LegacyIsRead ==
    ASSUME NEW type \in SigningTypes, NEW owner
    PROVE  LET key == [type |-> type, data |-> PublicBytes(type, owner)]
               legacy == PublicToLegacy(key)
           IN  legacy # Throws => PublicFromText(legacy) = [key EXCEPT !.type = "K1"]
  <1> DEFINE key == [type |-> type, data |-> PublicBytes(type, owner)]
             p == PublicPart(type, owner)
             legacy == PublicToLegacy(key)
  <1>1. PublicBytes(type, owner) = <<p>> /\ <<p>> # NoBytes /\ p[2] = PublicSizes[type]
    BY PartsOfKeys
  <1>2. key.type = type /\ key.data = <<p>>
    <2> HIDE DEF p
    <2> QED BY <1>1
  <1>3. [key EXCEPT !.type = "K1"] = [type |-> "K1", data |-> <<p>>]
    <2> HIDE DEF p
    <2> QED BY <1>1
  <1> HIDE DEF key, p
  <1>4. CASE type \notin {"K1", "EM"}
    BY <1>2, <1>4 DEF PublicToLegacy, key
  <1>5. CASE type \in {"K1", "EM"}
    <2> DEFINE text == Base58Text(WithCheck(<<p>>, ""), FALSE)
    <2>1. p[2] = 33
      BY <1>1, <1>5 DEF PublicSizes
    <2>2. Unchecked(WithCheck(<<p>>, ""), AnySize, "") = <<p>>
      <3>1. p[2] \in Nat
        BY <2>1
      <3> QED BY <2>1, <3>1, PlainCheck, Zenon
    <2>3. ReadBase58(text) = WithCheck(<<p>>, "")
      BY TextsAsRead
    <2> HIDE DEF text
    <2>4. legacy = [prefix |-> "SYS", type |-> "", text |-> text]
      BY <1>2, <1>5 DEF PublicToLegacy, text
    <2> HIDE DEF legacy
    <2>5. legacy.prefix = "SYS" /\ legacy.text = text
      BY <2>4
    <2>6. PublicFromText(legacy) = KeyOf("K1", Unchecked(ReadBase58(text), AnySize, ""))
      BY <2>5 DEF PublicFromText
    <2>7. PublicFromText(legacy) = [type |-> "K1", data |-> <<p>>]
      BY <1>1, <2>2, <2>3, <2>6 DEF KeyOf
    <2> QED BY <1>3, <2>7 DEF legacy, key
  <1> QED BY <1>4, <1>5

LEMMA SecretIsMade ==
    ASSUME NEW type \in SigningTypes, NEW p, p[2] = SecretSizes[type], <<p>> # NoBytes
    PROVE  PrivateKey(type, <<p>>) = [type |-> type, data |-> <<p>>] /\ PrivateKey(type, NoBytes) = Throws
  <1>1. ByteCount(<<p>>) = SecretSizes[type]
    <2>1. p[2] \in Int
      BY SizesOfKeys
    <2> QED BY <2>1, CountOfOne
  <1>2. Sized(type, <<p>>, SecretSizes)
    BY <1>1 DEF Sized
  <1> QED BY <1>2 DEF PrivateKey, KeyOf

LEMMA SecretIsRead ==
    ASSUME NEW type \in SigningTypes, NEW owner
    PROVE  PrivateFromText(PrivateToText(Secret(type, owner))) = Secret(type, owner)
  <1> DEFINE private == Secret(type, owner)
             t == PrivateToText(private)
             p == SecretPart(type, owner)
  <1>1. t.prefix = "PVT" /\ t.type = type /\ t.text = SecretForm(type, p)
    BY SecretTexts
  <1>2. private = [type |-> type, data |-> <<p>>] /\ p[2] = SecretSizes[type] /\ <<p>> # NoBytes
    <2>1. private = [type |-> type, data |-> SecretBytes(type, owner)]
      BY KeysOfOwners
    <2>2. SecretBytes(type, owner) = <<p>> /\ p[2] = SecretSizes[type] /\ <<p>> # NoBytes
      BY PartsOfKeys
    <2> QED BY <2>1, <2>2
  <1> HIDE DEF private, t, p
  <1>3. PrivateKey(type, <<p>>) = private
    BY <1>2, SecretIsMade
  <1>4. \A text : OrHex(<<p>>, text) = <<p>>
    BY <1>2 DEF OrHex
  <1>5. CASE type = "BLS"
    <2>1. p[2] = 32
      BY <1>2, <1>5 DEF SecretSizes
    <2>2. ReadBls(Text("64", WithCheck(<<p>>, ""), FALSE), 32) = <<p>>
      <3>1. p[2] \in Nat
        BY <2>1
      <3> QED BY <2>1, <3>1, PlainCheck, Zenon
    <2>3. t.text = Text("64", WithCheck(<<p>>, ""), FALSE)
      BY <1>1, <1>5 DEF SecretForm
    <2>4. ReadBls(t.text, 32) = <<p>>
      BY <2>2, <2>3
    <2>5. PrivateFromText(t) = PrivateKey("BLS", ReadBls(t.text, 32))
      BY <1>1, <1>5, SecretLabelsRead
    <2> QED BY <1>3, <1>5, <2>4, <2>5 DEF t, private
  <1>6. CASE type # "BLS"
    <2> DEFINE size == IF type = "ED" THEN AnySize ELSE 32
    <2>1. size = AnySize \/ p[2] = size
      BY <1>2, <1>6 DEF SecretSizes, SigningTypes
    <2>2. p[2] \in Nat
      BY <1>2, SizesOfKeys
    <2>3. t.text = Base58Text(WithCheck(<<p>>, type), FALSE)
      BY <1>1, <1>6 DEF SecretForm
    <2>4. PrivateFromText(t) = PrivateKey(type, OrHex(Unchecked(ReadBase58(t.text), size, type), t.text))
      <3>1. CASE type = "ED"
        BY <1>1, <3>1, SecretLabelsRead
      <3>2. CASE type # "ED"
        <4>1. type \in {"K1", "R1", "EM"}
          BY <1>6, <3>2 DEF SigningTypes
        <4> QED BY <1>1, <3>2, <4>1, SecretLabelsRead
      <3> QED BY <3>1, <3>2
    <2> HIDE DEF size
    <2>5. Unchecked(WithCheck(<<p>>, type), size, type) = <<p>>
      BY <2>1, <2>2, RightCheck
    <2>6. ReadBase58(t.text) = WithCheck(<<p>>, type)
      BY <2>3, TextsAsRead
    <2> QED BY <1>3, <1>4, <2>4, <2>5, <2>6 DEF t, private
  <1> QED BY <1>5, <1>6

LEMMA WifIsRead ==
    ASSUME NEW type \in SigningTypes, NEW owner
    PROVE  LET private == Secret(type, owner)
               wif == PrivateToWif(private)
           IN  wif # Throws => PrivateFromText(wif) = [private EXCEPT !.type = "K1"]
  <1> DEFINE private == Secret(type, owner)
             wif == PrivateToWif(private)
             p == SecretPart(type, owner)
             b == BytePart(128)
  <1>1. private = [type |-> type, data |-> <<p>>] /\ p[2] = SecretSizes[type] /\ <<p>> # NoBytes
    <2>1. private = [type |-> type, data |-> SecretBytes(type, owner)]
      BY KeysOfOwners
    <2>2. SecretBytes(type, owner) = <<p>> /\ p[2] = SecretSizes[type] /\ <<p>> # NoBytes
      BY PartsOfKeys
    <2> QED BY <2>1, <2>2
  <1>2. One(128) = <<b>> /\ b[2] = 1
    BY Bytes
  <1> HIDE DEF p, b, private
  <1>3. private.type = type /\ private.data = <<p>> /\ [private EXCEPT !.type = "K1"] = [type |-> "K1", data |-> <<p>>]
    BY <1>1
  <1>4. CASE type \notin {"K1", "EM"}
    BY <1>3, <1>4 DEF PrivateToWif, private
  <1>5. CASE type \in {"K1", "EM"}
    <2> DEFINE data == <<b, p>>
               text == Base58Text(WithCheck(data, "dsha256"), FALSE)
    <2>1. p[2] = 32
      BY <1>1, <1>5 DEF SecretSizes
    <2>2. data # <<>> /\ data \in Seq({b, p}) /\ Head(data) = b /\ Tail(data) = <<p>>
      OBVIOUS
    <2>3. One(128) \o <<p>> = data
      BY <1>2, Joined
    <2>4. data # NoBytes
      BY LongIsSomething
    <2> HIDE DEF data
    <2>5. Unchecked(WithCheck(data, "dsha256"), AnySize, "dsha256") = data
      BY <2>2, CheckedIsRead
    <2>6. ReadBase58(text) = WithCheck(data, "dsha256")
      BY TextsAsRead
    <2> HIDE DEF text
    <2>7. wif = [prefix |-> "", type |-> "", text |-> text]
      BY <1>3, <1>5, <2>3 DEF PrivateToWif, text
    <2> HIDE DEF wif
    <2>8. wif.prefix = "" /\ wif.text = text
      BY <2>7
    <2>9. Head(One(128)) = b
      BY <1>2
    <2>10. PrivateFromText(wif) = PrivateKey("K1", Tail(data))
      BY <2>2, <2>4, <2>5, <2>6, <2>8, <2>9 DEF PrivateFromText
    <2>11. PrivateKey("K1", <<p>>) = [type |-> "K1", data |-> <<p>>]
      <3>1. "K1" \in SigningTypes /\ SecretSizes["K1"] = 32
        BY DEF SigningTypes, SecretSizes
      <3> QED BY <1>1, <2>1, <3>1, SecretIsMade
    <2> QED BY <1>3, <2>2, <2>10, <2>11 DEF wif, private
  <1> QED BY <1>4, <1>5

\* A text that has nothing to be read under a label.
Unreadable(text, other) ==
    /\ ReadHex(text) = NoBytes
    /\ IF other = "BLS" THEN \A size : ReadBls(text, size) = NoBytes
       ELSE \A size : Unchecked(ReadBase58(text), size, other) = NoBytes

LEMMA FormsAreUnreadable ==
    ASSUME NEW type, NEW p, NEW other, type # other
    PROVE  /\ type # "BLS" => Unreadable(Base58Text(WithCheck(<<p>>, type), FALSE), other)
           /\ Unreadable(Base58Text(<<p>>, FALSE), other)
           /\ other # "BLS" => Unreadable(Text("64", WithCheck(<<p>>, ""), FALSE), other)
  <1>1. Unreadable(Base58Text(WithCheck(<<p>>, type), FALSE), other)
    <2> DEFINE data == WithCheck(<<p>>, type)
               text == Base58Text(data, FALSE)
    <2>1. \A size : Unchecked(data, size, other) = NoBytes
      BY WrongCheck
    <2> HIDE DEF data
    <2>2. ReadHex(text) = NoBytes
      BY TextsAsRead
    <2>3. ReadBase58(text) = data
      BY TextsAsRead
    <2>4. ASSUME NEW size PROVE ReadBls(text, size) = NoBytes
      BY DEF ReadBls, Base58Text, Text
    <2> HIDE DEF text
    <2> QED BY <2>1, <2>2, <2>3, <2>4 DEF Unreadable, text, data
  <1>2. Unreadable(Base58Text(<<p>>, FALSE), other)
    <2> DEFINE data == <<p>>
               text == Base58Text(data, FALSE)
    <2>1. \A size : Unchecked(data, size, other) = NoBytes
      BY NoCheck
    <2> HIDE DEF data
    <2>2. ReadHex(text) = NoBytes
      BY TextsAsRead
    <2>3. ReadBase58(text) = data
      BY TextsAsRead
    <2>4. ASSUME NEW size PROVE ReadBls(text, size) = NoBytes
      BY DEF ReadBls, Base58Text, Text
    <2> HIDE DEF text
    <2> QED BY <2>1, <2>2, <2>3, <2>4 DEF Unreadable, text, data
  <1>3. other # "BLS" => Unreadable(Text("64", WithCheck(<<p>>, ""), FALSE), other)
    <2> DEFINE data == WithCheck(<<p>>, "")
               text == Text("64", data, FALSE)
    <2>1. \A size : Unchecked(NoBytes, size, other) = NoBytes
      BY NoCheck
    <2> HIDE DEF data
    <2>2. ReadHex(text) = NoBytes
      BY TextsAsRead
    <2>3. ReadBase58(text) = NoBytes
      BY TextsAsRead
    <2> HIDE DEF text
    <2>4. other # "BLS" => Unreadable(text, other)
      BY <2>1, <2>2, <2>3 DEF Unreadable
    <2> QED BY <2>4 DEF text, data
  <1> QED BY <1>1, <1>2, <1>3

LEMMA NothingIsRead ==
    ASSUME NEW t, NEW other \in {"K1", "R1", "WA", "EM", "ED", "BLS"}, t.type = other, Unreadable(t.text, other)
    PROVE  /\ t.prefix = "PUB" /\ other # "ED" => PublicFromText(t) = Throws
           /\ t.prefix = "PVT" => PrivateFromText(t) = Throws
  <1>1. OrHex(NoBytes, t.text) = NoBytes
    BY DEF OrHex, Unreadable
  <1>2. KeyOf(other, NoBytes) = Throws /\ PrivateKey(other, NoBytes) = Throws
    BY DEF KeyOf, PrivateKey
  <1>3. ASSUME t.prefix = "PUB", other # "ED"
        PROVE  PublicFromText(t) = Throws
    <2>1. CASE other = "BLS"
      BY <1>2, <1>3, <2>1, LabelsRead DEF Unreadable
    <2>2. CASE other \in {"K1", "R1", "EM"}
      <3>1. PublicFromText(t) = KeyOf(other, OrHex(Unchecked(ReadBase58(t.text), 33, other), t.text))
        BY <1>3, <2>2, LabelsRead
      <3>2. Unchecked(ReadBase58(t.text), 33, other) = NoBytes
        BY <2>2 DEF Unreadable
      <3> QED BY <1>1, <1>2, <3>1, <3>2
    <2>3. CASE other = "WA"
      <3>1. PublicFromText(t) = KeyOf(other, OrHex(Unchecked(ReadBase58(t.text), AnySize, other), t.text))
        BY <1>3, <2>3, LabelsRead
      <3>2. Unchecked(ReadBase58(t.text), AnySize, other) = NoBytes
        BY <2>3 DEF Unreadable
      <3> QED BY <1>1, <1>2, <3>1, <3>2
    <2> QED BY <1>3, <2>1, <2>2, <2>3
  <1>4. ASSUME t.prefix = "PVT"
        PROVE  PrivateFromText(t) = Throws
    <2>1. CASE other = "BLS"
      BY <1>2, <1>4, <2>1, SecretLabelsRead DEF Unreadable
    <2>2. CASE other \in {"K1", "R1", "EM"}
      <3>1. PrivateFromText(t) = PrivateKey(other, OrHex(Unchecked(ReadBase58(t.text), 32, other), t.text))
        BY <1>4, <2>2, SecretLabelsRead
      <3>2. Unchecked(ReadBase58(t.text), 32, other) = NoBytes
        BY <2>2 DEF Unreadable
      <3> QED BY <1>1, <1>2, <3>1, <3>2
    <2>3. CASE other \in {"WA", "ED"}
      <3>1. PrivateFromText(t) = PrivateKey(other, OrHex(Unchecked(ReadBase58(t.text), AnySize, other), t.text))
        BY <1>4, <2>3, SecretLabelsRead
      <3>2. Unchecked(ReadBase58(t.text), AnySize, other) = NoBytes
        BY <2>3 DEF Unreadable
      <3> QED BY <1>1, <1>2, <3>1, <3>2
    <2> QED BY <2>1, <2>2, <2>3
  <1> QED BY <1>3, <1>4

LEMMA OtherLabelsAreRefused ==
    ASSUME NEW type \in SigningTypes, NEW owner, NEW clean \in BOOLEAN, NEW other \in Range(CurveTypes) \ {type}
    PROVE  LET key == [type |-> type, data |-> PublicBytes(type, owner)]
               text == PublicToText(key, clean)
           IN  /\ \/ PublicFromText(Relabeled(text, other)) = Throws
                  \/ other = "ED" \/ text.text.form = "hex" \/ clean
               /\ PrivateFromText(Relabeled(PrivateToText(Secret(type, owner)), other)) = Throws
  <1> DEFINE key == [type |-> type, data |-> PublicBytes(type, owner)]
             text == PublicToText(key, clean)
             secret == PrivateToText(Secret(type, owner))
             p == PublicPart(type, owner)
             q == SecretPart(type, owner)
  <1>1. other \in {"K1", "R1", "WA", "EM", "ED", "BLS"} /\ type # other
    BY DEF Range, CurveTypes
  <1> DEFINE form == PublicForm(type, p, clean)
  <1>2. text = [prefix |-> "PUB", type |-> type, text |-> form] /\ text.text = form
    <2>1. text = [prefix |-> "PUB", type |-> type, text |-> form]
      BY PublicTexts
    <2>2. text.text = form
      BY PublicTexts
    <2> QED BY <2>1, <2>2
  <1>3. Relabeled(text, other).prefix = "PUB" /\ Relabeled(text, other).type = other /\ Relabeled(text, other).text = text.text
    <2> HIDE DEF text, form
    <2> QED BY <1>2, RelabeledTexts
  <1>4. secret.text = SecretForm(type, q)
    BY SecretTexts
  <1>5. Relabeled(secret, other).prefix = "PVT" /\ Relabeled(secret, other).type = other /\ Relabeled(secret, other).text = secret.text
    BY SecretTexts
  <1> HIDE DEF text, secret, p, q
  <1>6. PrivateFromText(Relabeled(secret, other)) = Throws
    <2>1. Unreadable(SecretForm(type, q), other)
      BY <1>1, FormsAreUnreadable DEF SecretForm
    <2> DEFINE t == Relabeled(secret, other)
    <2> HIDE DEF t
    <2>2. t.prefix = "PVT" /\ t.type = other /\ Unreadable(t.text, other)
      BY <1>4, <1>5, <2>1 DEF t
    <2>3. PrivateFromText(t) = Throws
      BY <1>1, <2>2, NothingIsRead
    <2> QED BY <2>3 DEF t
  <1>7. ASSUME other # "ED", text.text.form # "hex", ~clean
        PROVE  PublicFromText(Relabeled(text, other)) = Throws
    <2>1. Unreadable(PublicForm(type, p, clean), other)
      <3>1. CASE type = "BLS"
        <4>1. PublicForm(type, p, clean) = Text("64", WithCheck(<<p>>, ""), FALSE)
          BY <1>7, <3>1 DEF PublicForm
        <4> QED BY <1>1, <3>1, <4>1, FormsAreUnreadable
      <3>2. CASE type \in {"K1", "R1"}
        <4>1. PublicForm(type, p, clean) = Base58Text(WithCheck(<<p>>, type), FALSE)
          BY <1>7, <3>2 DEF PublicForm
        <4> QED BY <1>1, <3>2, <4>1, FormsAreUnreadable
      <3>3. CASE type = "ED"
        <4>1. PublicForm(type, p, clean) = Base58Text(<<p>>, FALSE)
          BY <1>7, <3>3 DEF PublicForm
        <4> QED BY <1>1, <4>1, FormsAreUnreadable
      <3>4. CASE type = "EM"
        <4>1. PublicForm(type, p, clean) = Text("hex", <<p>>, clean)
          BY <3>4 DEF PublicForm
        <4>2. text.text.form = "hex"
          BY <1>2, <4>1 DEF Text
        <4> QED BY <1>7, <4>2
      <3> QED BY <3>1, <3>2, <3>3, <3>4 DEF SigningTypes
    <2> DEFINE t == Relabeled(text, other)
    <2> HIDE DEF t
    <2>2. t.prefix = "PUB" /\ t.type = other /\ Unreadable(t.text, other)
      BY <1>2, <1>3, <2>1 DEF t
    <2>3. PublicFromText(t) = Throws
      BY <1>1, <1>7, <2>2, NothingIsRead
    <2> QED BY <2>3 DEF t
  <1> QED BY <1>6, <1>7 DEF text, secret

LEMMA KeyIsRead ==
    ASSUME NEW type \in SigningTypes, NEW owner, NEW clean \in BOOLEAN
    PROVE  LET key == [type |-> type, data |-> PublicBytes(type, owner)]
               text == PublicToText(key, clean)
               hex == PublicToHex(key, clean)
           IN  /\ PublicFromText(text) = key
               /\ type # "BLS" /\ ~(type = "ED" /\ clean) => PublicFromText(hex) = key
  <1> DEFINE key == [type |-> type, data |-> PublicBytes(type, owner)]
             text == PublicToText(key, clean)
             hex == PublicToHex(key, clean)
             p == PublicPart(type, owner)
  <1>1. text.prefix = "PUB" /\ text.type = type /\ text.text = PublicForm(type, p, clean)
    BY PublicTexts
  <1>2. hex.prefix = "PUB" /\ hex.type = type /\ hex.text = Text("hex", <<p>>, clean)
    BY PublicTexts
  <1>3. p[2] = PublicSizes[type] /\ <<p>> # NoBytes /\ key = [type |-> type, data |-> <<p>>]
    <2>1. p[2] = PublicSizes[type] /\ <<p>> # NoBytes /\ PublicBytes(type, owner) = <<p>>
      BY PartsOfKeys
    <2> HIDE DEF p
    <2> QED BY <2>1
  <1> HIDE DEF text, hex, p, key
  <1>4. PublicFromText(text) = key
    BY <1>1, <1>3, FormIsRead
  <1>5. type # "BLS" /\ ~(type = "ED" /\ clean) => PublicFromText(hex) = key
    BY <1>2, <1>3, FormIsRead
  <1> QED BY <1>4, <1>5 DEF text, hex, key

LEMMA KeysRead ==
    ASSUME input \in ChainInputs
    PROVE  KeysAreRead
  <1> SUFFICES ASSUME Is("key") PROVE KeysAreRead
    BY DEF KeysAreRead
  <1> DEFINE type == input[2]
             owner == input[3]
             clean == input[4]
             private == Secret(type, owner)
             key == ToPublic(private)
             pair == [type |-> type, data |-> PublicBytes(type, owner)]
             text == PublicToText(key, clean)
             hex == PublicToHex(key, clean)
             legacy == PublicToLegacy(key)
             wif == PrivateToWif(private)
  <1>1. type \in SigningTypes /\ clean \in BOOLEAN
    BY DEF Is, ChainInputs, IntegerInputs, PricedInputs, WrittenInputs, KeyInputs
  <1> HIDE DEF type, owner, clean
  <1>2. key = pair
    BY <1>1, KeysOfOwners
  <1>3. PublicFromText(text) = key
    <2>1. PublicFromText(PublicToText(pair, clean)) = pair
      BY <1>1, KeyIsRead
    <2> HIDE DEF key, pair
    <2> QED BY <1>2, <2>1
  <1>4. type # "BLS" /\ ~(type = "ED" /\ clean) => PublicFromText(hex) = key
    <2>1. type # "BLS" /\ ~(type = "ED" /\ clean) => PublicFromText(PublicToHex(pair, clean)) = pair
      BY <1>1, KeyIsRead
    <2> HIDE DEF key, pair
    <2> QED BY <1>2, <2>1
  <1>5. legacy # Throws => PublicFromText(legacy) = [key EXCEPT !.type = "K1"]
    <2>1. PublicToLegacy(pair) # Throws => PublicFromText(PublicToLegacy(pair)) = [pair EXCEPT !.type = "K1"]
      BY <1>1, LegacyIsRead
    <2> HIDE DEF key, pair
    <2> QED BY <1>2, <2>1
  <1>6. PublicFromAbi(PublicToAbi(key) \o One(7)) = [key |-> key, rest |-> One(7)]
    <2>1. PublicFromAbi(PublicToAbi(pair) \o One(7)) = [key |-> pair, rest |-> One(7)]
      BY <1>1, PublicBytesAreRead
    <2> HIDE DEF key, pair
    <2> QED BY <1>2, <2>1
  <1>7. PrivateFromText(PrivateToText(private)) = private
    BY <1>1, SecretIsRead
  <1>8. wif # Throws => PrivateFromText(wif) = [private EXCEPT !.type = "K1"]
    BY <1>1, WifIsRead
  <1>9. ASSUME NEW other \in Range(CurveTypes) \ {type}
        PROVE  /\ \/ PublicFromText(Relabeled(text, other)) = Throws
                  \/ other = "ED" \/ text.text.form = "hex" \/ clean
               /\ PrivateFromText(Relabeled(PrivateToText(private), other)) = Throws
    <2>1. /\ \/ PublicFromText(Relabeled(PublicToText(pair, clean), other)) = Throws
             \/ other = "ED" \/ PublicToText(pair, clean).text.form = "hex" \/ clean
          /\ PrivateFromText(Relabeled(PrivateToText(private), other)) = Throws
      BY <1>1, OtherLabelsAreRefused
    <2> HIDE DEF key, pair, private
    <2> QED BY <1>2, <2>1
  <1> HIDE DEF text, hex, legacy, wif, key, private
  <1> QED BY <1>3, <1>4, <1>5, <1>6, <1>7, <1>8, <1>9
          DEF KeysAreRead, text, hex, legacy, wif, key, private, type, owner, clean

---------------------------------------------------------------------------
(* What a list of digits reads as, and its digits.                         *)

LEMMA PowerIsPositive ==
    ASSUME NEW b \in Nat \ {0}, NEW n \in Nat
    PROVE  Power(b, n) \in Nat \ {0}
  BY PowersGrow

LEMMA DigitsAreInts ==
    ASSUME NEW n \in Int, NEW b \in Nat \ {0}, NEW len \in Nat
    PROVE  Digits(n, b, len) \in Seq(Int) /\ Len(Digits(n, b, len)) = len
  <1>1. Digits(n, b, len) \in Seq(Int)
    BY DigitsAre
  <1>2. Len(Digits(n, b, len)) = len
    BY DigitsAre
  <1> QED BY <1>1, <1>2

LEMMA NumberIsRead ==
    ASSUME NEW b \in Int, NEW s \in Seq(Int)
    PROVE  /\ Number(s, b) \in Int
           /\ Len(s) = 0 => Number(s, b) = 0
           /\ \A f : IsReading(f, s, b) =>
                  \A k \in 0..Len(s) : f[k] \in Int /\ Number(SubSeq(s, 1, k), b) = f[k]
  <1> DEFINE n == Len(s)
  <1>1. PICK f : IsReading(f, s, b) /\ Number(s, b) = f[n]
    BY NumberValues
  <1>2. Number(s, b) \in Int /\ (n = 0 => Number(s, b) = 0)
    <2>1. f \in [0..n -> Int] /\ f[0] = 0 /\ n \in Nat
      BY <1>1 DEF IsReading
    <2> HIDE DEF n
    <2> QED BY <1>1, <2>1
  <1>3. ASSUME NEW g, IsReading(g, s, b), NEW k \in 0..n
        PROVE  g[k] \in Int /\ Number(SubSeq(s, 1, k), b) = g[k]
    <2> DEFINE t == SubSeq(s, 1, k)
               h == [i \in 0..k |-> g[i]]
    <2>1. t \in Seq(Int) /\ Len(t) = k /\ \A i \in 1..k : t[i] = s[i]
      OBVIOUS
    <2>2. g \in [0..n -> Int] /\ g[0] = 0 /\ \A i \in 1..n : g[i] = b * g[i - 1] + s[i]
      BY <1>3 DEF IsReading
    <2>3. n \in Nat /\ k \in 0..n
      OBVIOUS
    <2> HIDE DEF t, n
    <2>4. IsReading(h, t, b)
      <3>1. h \in [0..k -> Int] /\ h[0] = 0
        BY <2>2, <2>3
      <3>2. ASSUME NEW i \in 1..k PROVE h[i] = b * h[i - 1] + t[i]
        <4>1. i \in 1..n /\ i \in 0..k /\ i - 1 \in 0..k
          BY <2>3
        <4>2. g[i] = b * g[i - 1] + s[i] /\ t[i] = s[i]
          BY <2>1, <2>2, <4>1
        <4>3. h[i] = g[i] /\ h[i - 1] = g[i - 1]
          BY <4>1
        <4> HIDE DEF h
        <4> QED BY <4>2, <4>3
      <3> HIDE DEF h
      <3> QED BY <2>1, <3>1, <3>2 DEF IsReading
    <2>5. h[k] = g[k] /\ g[k] \in Int
      BY <2>2, <2>3
    <2> HIDE DEF h
    <2>6. Number(t, b) = h[Len(t)]
      BY <2>1, <2>4, OneReading
    <2> QED BY <2>1, <2>5, <2>6 DEF t
  <1> QED BY <1>2, <1>3

\* Below its power of the base, digit by digit.
LEMMA ReadingInRange ==
    ASSUME NEW b \in Nat \ {0}, NEW s \in Seq(0..(b - 1)), NEW f, IsReading(f, s, b), NEW k \in 0..Len(s)
    PROVE  f[k] \in Nat /\ f[k] < Power(b, k)
  <1> DEFINE n == Len(s)
             P == {i \in 0..n : f[i] \in Nat /\ f[i] < Power(b, i)}
  <1>1. n \in Nat /\ k \in 0..n
    OBVIOUS
  <1>2. f[0] = 0 /\ \A i \in 1..n : f[i] = b * f[i - 1] + s[i]
    BY DEF IsReading
  <1>3. \A i \in 1..n : s[i] \in 0..(b - 1)
    OBVIOUS
  <1>4. Power(b, 0) = 1
    BY PowerIs
  <1> HIDE DEF n
  <1>5. 0 \in P
    BY <1>1, <1>2, <1>4
  <1>6. ASSUME NEW i \in 1..n, i - 1 \in P PROVE i \in P
    <2> DEFINE j == i - 1
               p == Power(b, j)
               r == s[i]
               x == f[j]
    <2>1. j \in Nat /\ j + 1 = i /\ i \in 0..n
      BY <1>1
    <2>2. x \in Nat /\ x < p
      BY <1>6
    <2>3. f[i] = b * x + r /\ r \in 0..(b - 1)
      BY <1>2, <1>3
    <2> HIDE DEF j
    <2>4. p \in Nat /\ Power(b, j + 1) = b * p
      BY <2>1, NaturalPower
    <2> HIDE DEF p, r, x
    <2>5. b * x + r \in Nat /\ b * x + r < b * p
      <3> DEFINE d == p - x - 1
      <3>1. d \in Nat /\ p = x + 1 + d
        BY <2>2, <2>4
      <3> HIDE DEF d
      <3>2. b * p = b * x + b + b * d
        BY <2>2, <3>1
      <3>3. b * d \in Nat /\ b * x \in Nat
        BY <2>2, <3>1
      <3> QED BY <2>3, <3>2, <3>3
    <2> QED BY <2>1, <2>3, <2>4, <2>5
  <1> HIDE DEF P
  <1>7. 0..n \subseteq P
    BY <1>1, <1>5, <1>6, Induction
  <1>8. k \in P
    BY <1>1, <1>7
  <1> QED BY <1>8 DEF P

\* What was read before the last k digits is a quotient.
LEMMA ReadingIsQuotient ==
    ASSUME NEW b \in Nat \ {0}, NEW s \in Seq(0..(b - 1)), NEW f, IsReading(f, s, b), NEW k \in 0..Len(s)
    PROVE  f[Len(s) - k] = f[Len(s)] \div Power(b, k)
  <1> DEFINE n == Len(s)
             m == f[n]
             P == {i \in 0..n : f[n - i] = m \div Power(b, i)}
  <1>1. n \in Nat /\ k \in 0..n
    OBVIOUS
  <1>2. f \in [0..n -> Int] /\ f[0] = 0 /\ \A i \in 1..n : f[i] = b * f[i - 1] + s[i]
    BY DEF IsReading
  <1>3. \A i \in 1..n : s[i] \in 0..(b - 1)
    OBVIOUS
  <1>4. Power(b, 0) = 1
    BY PowerIs
  <1> HIDE DEF n
  <1>5. m \in Int
    BY <1>1, <1>2
  <1>6. 0 \in P
    <2>1. n - 0 = n /\ 0 \in 0..n
      BY <1>1
    <2> HIDE DEF m
    <2>2. m \div 1 = m
      BY <1>5
    <2> QED BY <1>4, <2>1, <2>2 DEF m
  <1>7. ASSUME NEW i \in 1..n, i - 1 \in P PROVE i \in P
    <2> DEFINE j == i - 1
               l == n - j
               o == n - i
               p == Power(b, j)
               x == f[l]
               y == f[o]
               r == s[l]
    <2>1. j \in Nat /\ j + 1 = i /\ i \in 0..n /\ l \in 1..n /\ o \in 0..n /\ l - 1 = o
      BY <1>1
    <2>2. x = m \div p
      BY <1>7
    <2> HIDE DEF j, l, o
    <2>3. x = b * y + r /\ r \in 0..(b - 1) /\ y \in Int /\ x \in Int
      <3>1. f[l] = b * f[l - 1] + s[l]
        BY <1>2, <2>1
      <3>2. f[l] \in Int /\ f[o] \in Int /\ s[l] \in 0..(b - 1)
        <4>1. l \in 0..n
          BY <1>1, <2>1
        <4> QED BY <1>2, <1>3, <2>1, <4>1
      <3> QED BY <2>1, <3>1, <3>2
    <2>4. p \in Nat \ {0} /\ Power(b, j + 1) = b * p
      <3>1. p \in Nat \ {0}
        BY <2>1, PowerIsPositive
      <3> QED BY <2>1, <3>1, NaturalPower
    <2> HIDE DEF p, x, y, r, m
    <2>5. x \div b = y
      BY <2>3, QuotientAndRest
    <2>6. (m \div p) \div b = m \div (p * b)
      BY <1>5, <2>4, QuotientOfQuotient
    <2>7. p * b = b * p
      BY <2>4
    <2>8. y = m \div Power(b, i)
      BY <2>1, <2>2, <2>4, <2>5, <2>6, <2>7
    <2> QED BY <2>1, <2>8 DEF y, o
  <1> HIDE DEF P
  <1>8. 0..n \subseteq P
    BY <1>1, <1>6, <1>7, Induction
  <1>9. k \in P
    BY <1>1, <1>8
  <1> QED BY <1>9 DEF P, m, n

LEMMA DigitsAreOf ==
    ASSUME NEW b \in Nat \ {0}, NEW s \in Seq(0..(b - 1))
    PROVE  /\ Number(s, b) \in Nat /\ Number(s, b) < Power(b, Len(s))
           /\ \A k \in 0..Len(s) : Number(SubSeq(s, 1, k), b) = Number(s, b) \div Power(b, Len(s) - k)
           /\ \A i \in 1..Len(s) : s[i] = (Number(s, b) \div Power(b, Len(s) - i)) % b
  <1> DEFINE n == Len(s)
             m == Number(s, b)
  <1>1. b \in Int /\ s \in Seq(Int) /\ n \in Nat
    OBVIOUS
  <1>2. PICK f : IsReading(f, s, b) /\ m = f[n]
    BY <1>1, NumberValues
  <1>3. m \in Nat /\ m < Power(b, n)
    <2>1. n \in 0..Len(s)
      BY <1>1
    <2> HIDE DEF n
    <2>2. f[n] \in Nat /\ f[n] < Power(b, n)
      BY <1>2, <2>1, ReadingInRange
    <2> QED BY <1>2, <2>2
  <1>4. ASSUME NEW k \in 0..n PROVE Number(SubSeq(s, 1, k), b) = f[k] /\ f[k] = m \div Power(b, n - k)
    <2>1. Number(SubSeq(s, 1, k), b) = f[k]
      BY <1>1, <1>2, NumberIsRead
    <2> DEFINE j == n - k
    <2>2. j \in 0..Len(s) /\ n - j = k
      BY <1>1
    <2> HIDE DEF j
    <2>3. f[Len(s) - j] = f[Len(s)] \div Power(b, j)
      BY <1>2, <2>2, ReadingIsQuotient
    <2> QED BY <1>2, <2>1, <2>2, <2>3 DEF j
  <1>5. ASSUME NEW i \in 1..n PROVE s[i] = (m \div Power(b, n - i)) % b
    <2>1. f[i] = b * f[i - 1] + s[i] /\ i \in 0..n /\ i - 1 \in 0..n
      BY <1>1, <1>2 DEF IsReading
    <2>2. s[i] \in 0..(b - 1)
      OBVIOUS
    <2>3. f[i] = m \div Power(b, n - i)
      BY <1>4, <2>1
    <2>4. f[i] \in Int /\ f[i - 1] \in Int
      BY <1>2, <2>1 DEF IsReading
    <2> DEFINE x == f[i]
               y == f[i - 1]
               r == s[i]
    <2> HIDE DEF x, y, r, n, m
    <2>5. x % b = r
      BY <2>1, <2>2, <2>4, QuotientAndRest DEF x, y, r
    <2> QED BY <2>3, <2>5 DEF x, r
  <1> QED BY <1>3, <1>4, <1>5

LEMMA NumberHasDigits ==
    ASSUME NEW b \in Nat \ {0}, NEW s \in Seq(0..(b - 1))
    PROVE  Digits(Number(s, b), b, Len(s)) = s
  <1> DEFINE n == Len(s)
             m == Number(s, b)
             d == Digits(m, b, n)
  <1>1. n \in Nat /\ s \in Seq(Int) /\ Len(s) = n
    OBVIOUS
  <1>2. m \in Nat
    BY DigitsAreOf
  <1>3. \A i \in 1..n : s[i] = (m \div Power(b, n - i)) % b
    BY DigitsAreOf
  <1> HIDE DEF m, n
  <1>4. \A i \in 1..n : d[i] = (m \div Power(b, n - i)) % b
    BY <1>1, <1>2, DigitAt
  <1>5. d \in Seq(Int) /\ Len(d) = n
    <2>1. m \in Int /\ n \in Nat /\ b \in Nat \ {0}
      BY <1>1, <1>2
    <2> QED BY <2>1, DigitsAreInts, Zenon
  <1> HIDE DEF d
  <1>6. \A i \in 1..n : d[i] = s[i]
    BY <1>3, <1>4
  <1>7. d = s
    BY <1>1, <1>5, <1>6, SameList
  <1> QED BY <1>7 DEF d, m, n

LEMMA NextTerm ==
    ASSUME NEW b \in Int, NEW a \in Int, NEW p \in Int, NEW x \in Int, NEW c \in Int
    PROVE  b * (a * p + x) + c = a * (b * p) + (b * x + c)
  <1> DEFINE ap == a * p
  <1>1. ap \in Int /\ b * ap = a * (b * p)
    OBVIOUS
  <1> HIDE DEF ap
  <1>2. b * (ap + x) = b * ap + b * x
    BY <1>1
  <1>3. b * ap \in Int /\ b * x \in Int
    BY <1>1
  <1>4. b * (ap + x) + c = b * ap + (b * x + c)
    BY <1>2, <1>3
  <1> QED BY <1>1, <1>4 DEF ap

LEMMA NumberOfJoined ==
    ASSUME NEW b \in Nat, NEW s \in Seq(Int), NEW t \in Seq(Int)
    PROVE  Number(s \o t, b) = Number(s, b) * Power(b, Len(t)) + Number(t, b)
  <1> DEFINE u == s \o t
             n == Len(s)
             m == Len(t)
             a == Number(s, b)
  <1>1. /\ u \in Seq(Int) /\ Len(u) = n + m /\ n \in Nat /\ m \in Nat
        /\ \A j \in 1..m : u[n + j] = t[j]
    <2>1. u \in Seq(Int) /\ Len(u) = n + m /\ n \in Nat /\ m \in Nat
      BY ConcatProperties
    <2>2. ASSUME NEW j \in 1..m PROVE u[n + j] = t[j]
      OBVIOUS
    <2> QED BY <2>1, <2>2
  <1>2. SubSeq(u, 1, n) = s
    <2> DEFINE v == SubSeq(u, 1, n)
    <2>1. v \in Seq(Int) /\ Len(v) = n /\ \A i \in 1..n : v[i] = u[i]
      <3> HIDE DEF u
      <3>1. n \in 0..Len(u)
        BY <1>1
      <3> QED BY <1>1, <3>1, Prefix
    <2>2. \A i \in 1..n : u[i] = s[i]
      OBVIOUS
    <2> HIDE DEF v, u
    <2>3. \A i \in 1..n : v[i] = s[i]
      BY <2>1, <2>2
    <2>4. n \in Nat /\ s \in Seq(Int) /\ Len(s) = n
      OBVIOUS
    <2> HIDE DEF n
    <2>5. v = s
      BY <2>1, <2>3, <2>4, SameList
    <2> QED BY <2>5 DEF v
  <1>3. a \in Int
    BY NumberIsRead
  <1>b. b \in Int
    OBVIOUS
  <1> HIDE DEF u
  <1>4. PICK g : IsReading(g, u, b) /\ Number(u, b) = g[Len(u)]
    BY <1>1, <1>b, NumberValues
  <1>5. PICK f : IsReading(f, t, b) /\ Number(t, b) = f[m]
    BY <1>1, <1>b, NumberValues
  <1>6. g[n] = a
    <2>1. n \in 0..Len(u)
      BY <1>1
    <2>2. Number(SubSeq(u, 1, n), b) = g[n]
      BY <1>1, <1>4, <1>b, <2>1, NumberIsRead
    <2> QED BY <1>2, <2>2
  <1> HIDE DEF a, n
  <1> DEFINE P == {j \in 0..m : g[n + j] = a * Power(b, j) + f[j]}
  <1>7. f \in [0..m -> Int] /\ f[0] = 0 /\ \A j \in 1..m : f[j] = b * f[j - 1] + t[j]
    BY <1>5 DEF IsReading
  <1>8. \A i \in 1..(n + m) : g[i] = b * g[i - 1] + u[i]
    BY <1>1, <1>4 DEF IsReading
  <1>9. \A j \in 1..m : t[j] \in Int
    BY <1>1
  <1> HIDE DEF m
  <1>10. 0 \in P
    <2>1. Power(b, 0) = 1 /\ n + 0 = n /\ a * 1 + 0 = a /\ 0 \in 0..m
      BY <1>1, <1>3, NaturalPower
    <2> QED BY <1>6, <1>7, <2>1
  <1>11. ASSUME NEW j \in 1..m, j - 1 \in P PROVE j \in P
    <2> DEFINE i == j - 1
               p == Power(b, i)
               x == f[i]
               c == t[j]
               k == n + j
    <2>1. i \in Nat /\ i + 1 = j /\ i \in 0..m /\ j \in 0..m /\ k \in 1..(n + m) /\ k - 1 = n + i
      BY <1>1
    <2>2. g[n + i] = a * p + x
      BY <1>11
    <2>3. g[k] = b * g[n + i] + c
      <3>1. g[k] = b * g[k - 1] + u[k]
        BY <1>8, <2>1
      <3>2. u[k] = c
        BY <1>1
      <3> QED BY <2>1, <3>1, <3>2
    <2>4. f[j] = b * x + c
      BY <1>7
    <2>5. x \in Int /\ c \in Int
      BY <1>7, <1>9, <2>1
    <2> HIDE DEF i, k
    <2>6. p \in Nat /\ Power(b, i + 1) = b * p
      BY <2>1, NaturalPower
    <2> HIDE DEF p, x, c
    <2>7. b * (a * p + x) + c = a * (b * p) + (b * x + c)
      BY <1>3, <2>5, <2>6, NextTerm
    <2>8. g[k] = a * Power(b, j) + f[j]
      BY <2>1, <2>2, <2>3, <2>4, <2>6, <2>7
    <2> QED BY <2>1, <2>8 DEF k
  <1> HIDE DEF P
  <1>12. 0..m \subseteq P
    BY <1>1, <1>10, <1>11, Induction
  <1>13. m \in P
    BY <1>1, <1>12
  <1>14. Number(u, b) = a * Power(b, m) + f[m]
    BY <1>1, <1>4, <1>13 DEF P
  <1> QED BY <1>5, <1>14 DEF u, a, m

LEMMA ZerosAre ==
    ASSUME NEW k \in Nat
    PROVE  /\ Repeat(0, k) \in Seq(Int) /\ Len(Repeat(0, k)) = k
           /\ \A i \in 1..k : Repeat(0, k)[i] = 0
           /\ \A T : 0 \in T => Repeat(0, k) \in Seq(T)
  <1>1. ASSUME NEW T, 0 \in T PROVE Repeat(0, k) \in [1..k -> T]
    BY <1>1 DEF Repeat
  <1>2. \A i \in 1..k : Repeat(0, k)[i] = 0
    BY DEF Repeat
  <1>3. Repeat(0, k) \in [1..k -> Int]
    BY <1>1
  <1> DEFINE z == Repeat(0, k)
  <1> HIDE DEF z
  <1>4. ASSUME NEW T, 0 \in T PROVE z \in Seq(T)
    <2>1. z \in [1..k -> T]
      BY <1>1, <1>4 DEF z
    <2> QED BY <2>1
  <1>5. z \in Seq(Int) /\ Len(z) = k
    BY <1>3 DEF z
  <1> QED BY <1>2, <1>4, <1>5 DEF z

LEMMA NumberOfZeros ==
    ASSUME NEW b \in Nat, NEW k \in Nat
    PROVE  Number(Repeat(0, k), b) = 0
  <1> DEFINE z == Repeat(0, k)
             f == [i \in 0..k |-> 0]
  <1>1. z \in Seq(Int) /\ Len(z) = k /\ \A i \in 1..k : z[i] = 0
    BY ZerosAre
  <1> HIDE DEF z
  <1>2. IsReading(f, z, b)
    <2>1. f \in [0..k -> Int] /\ f[0] = 0
      OBVIOUS
    <2>2. ASSUME NEW i \in 1..k PROVE f[i] = b * f[i - 1] + z[i]
      <3>1. f[i] = 0 /\ f[i - 1] = 0 /\ z[i] = 0
        BY <1>1
      <3> HIDE DEF f
      <3>2. b * 0 + 0 = 0
        OBVIOUS
      <3> QED BY <3>1, <3>2
    <2> HIDE DEF f
    <2> QED BY <1>1, <2>1, <2>2 DEF IsReading
  <1>3. f[k] = 0
    OBVIOUS
  <1> HIDE DEF f
  <1>4. b \in Int
    OBVIOUS
  <1>5. Number(z, b) = f[Len(z)]
    BY <1>1, <1>2, <1>4, OneReading
  <1> QED BY <1>1, <1>3, <1>5 DEF z

\* Zeros in front say nothing, zeros behind multiply.
LEMMA NumberOfPadded ==
    ASSUME NEW b \in Nat, NEW s \in Seq(Int), NEW k \in Nat
    PROVE  /\ Number(Repeat(0, k) \o s, b) = Number(s, b)
           /\ Number(s \o Repeat(0, k), b) = Number(s, b) * Power(b, k)
  <1> DEFINE z == Repeat(0, k)
             a == Number(s, b)
             p == Power(b, Len(s))
             q == Power(b, k)
  <1>1. z \in Seq(Int) /\ Len(z) = k
    BY ZerosAre
  <1>2. Number(z, b) = 0
    BY NumberOfZeros
  <1>b. b \in Int
    OBVIOUS
  <1>3. a \in Int
    BY <1>b, NumberIsRead
  <1>4. p \in Nat /\ q \in Nat
    <2>1. Len(s) \in Nat
      OBVIOUS
    <2> QED BY <2>1, NaturalPower
  <1> HIDE DEF z
  <1>5. Number(z \o s, b) = Number(z, b) * p + a
    BY <1>1, NumberOfJoined
  <1>6. Number(s \o z, b) = a * Power(b, Len(z)) + Number(z, b)
    BY <1>1, NumberOfJoined
  <1>7. Number(s \o z, b) = a * q + 0
    BY <1>1, <1>2, <1>6
  <1> HIDE DEF a, p, q
  <1>8. 0 * p + a = a /\ a * q + 0 = a * q
    BY <1>3, <1>4
  <1> QED BY <1>2, <1>5, <1>7, <1>8 DEF z, a, q

---------------------------------------------------------------------------
(* Bytes in another base.                                                  *)

\* s begins with z zeros and no more.
ZerosOf(s, z) ==
    z \in 0..Len(s) /\ (\A j \in 1..z : s[j] = 0) /\ (z < Len(s) => s[z + 1] # 0)

LEMMA LeadingIs ==
    ASSUME NEW s \in Seq(Int), NEW z, ZerosOf(s, z)
    PROVE  Leading(s, 0) = z
  <1> DEFINE front == {i \in DOMAIN s : \A j \in 1..i : s[j] = 0}
  <1>1. z \in 0..Len(s) /\ (\A j \in 1..z : s[j] = 0) /\ (z < Len(s) => s[z + 1] # 0)
    BY DEF ZerosOf
  <1>2. front = 1..z
    <2>1. ASSUME NEW i \in front PROVE i \in 1..z
      <3>1. i \in 1..Len(s) /\ \A j \in 1..i : s[j] = 0
        OBVIOUS
      <3> SUFFICES ASSUME i > z PROVE FALSE
        BY <1>1, <3>1
      <3>2. z < Len(s) /\ z + 1 \in 1..i
        BY <1>1, <3>1
      <3> QED BY <1>1, <3>1, <3>2
    <2>2. ASSUME NEW i \in 1..z PROVE i \in front
      BY <1>1
    <2> QED BY <2>1, <2>2
  <1>3. Cardinality(1..z) = z
    BY <1>1, FS_Interval
  <1> QED BY <1>2, <1>3 DEF Leading

LEMMA LeadingExists ==
    ASSUME NEW s \in Seq(Int)
    PROVE  \E z : ZerosOf(s, z)
  <1> DEFINE n == Len(s)
             others == {i \in 1..n : s[i] # 0}
  <1>1. n \in Nat
    OBVIOUS
  <1>2. CASE others = {}
    <2>1. ZerosOf(s, n)
      BY <1>1, <1>2 DEF ZerosOf
    <2> QED BY <2>1
  <1>3. CASE others # {}
    <2>1. PICK k \in others : \A m \in others : k <= m
      <3>1. others \in SUBSET Nat
        BY <1>1
      <3> HIDE DEF others
      <3> QED BY <1>3, <3>1, LeastNumber
    <2> DEFINE z == k - 1
    <2>2. k \in 1..n /\ s[k] # 0
      OBVIOUS
    <2>3. z \in 0..n /\ z + 1 = k /\ \A j \in 1..z : s[j] = 0
      <3>1. z \in 0..n /\ z + 1 = k
        BY <1>1, <2>2
      <3>2. ASSUME NEW j \in 1..z PROVE s[j] = 0
        <4>1. j \in 1..n /\ j < k
          BY <1>1, <2>2
        <4>2. j \notin others
          BY <2>1, <2>2, <4>1
        <4> QED BY <4>1, <4>2
      <3> QED BY <3>1, <3>2
    <2> HIDE DEF z
    <2>4. ZerosOf(s, z)
      BY <2>2, <2>3 DEF ZerosOf
    <2> QED BY <2>4
  <1> QED BY <1>2, <1>3

LEMMA ZerosOfPadded ==
    ASSUME NEW z \in Nat, NEW d \in Seq(Int), Len(d) > 0 => d[1] # 0
    PROVE  /\ Repeat(0, z) \o d \in Seq(Int)
           /\ Leading(Repeat(0, z) \o d, 0) = z
  <1> DEFINE o == Repeat(0, z)
             s == o \o d
  <1>1. o \in Seq(Int) /\ Len(o) = z /\ \A i \in 1..z : o[i] = 0
    BY ZerosAre
  <1> HIDE DEF o
  <1>2. s \in Seq(Int) /\ Len(s) = z + Len(d)
    BY <1>1, ConcatProperties
  <1>3. \A i \in 1..z : s[i] = 0
    BY <1>1
  <1>4. Len(d) > 0 => s[z + 1] = d[1]
    BY <1>1
  <1>5. Len(d) \in Nat
    OBVIOUS
  <1> HIDE DEF s
  <1>6. ZerosOf(s, z)
    BY <1>2, <1>3, <1>4, <1>5 DEF ZerosOf
  <1>7. Leading(s, 0) = z
    BY <1>2, <1>6, LeadingIs
  <1> QED BY <1>2, <1>7 DEF s, o

LEMMA FirstDigit ==
    ASSUME NEW b \in Nat \ {0, 1}, NEW n \in Nat, NEW p \in Nat \ {0}, p <= n, n < b * p
    PROVE  (n \div p) % b # 0
  <1> DEFINE q == n \div p
  <1>1. 1 <= q
    <2>1. 1 * p <= n
      OBVIOUS
    <2> QED BY <2>1, QuotientAtLeast
  <1>2. q <= b - 1
    <2> DEFINE m == b - 1
    <2>1. m \in Int /\ n < (m + 1) * p
      <3>1. m + 1 = b
        OBVIOUS
      <3> HIDE DEF m
      <3>2. (m + 1) * p = b * p
        BY <3>1
      <3>3. m \in Int
        BY DEF m
      <3> QED BY <3>2, <3>3
    <2> HIDE DEF m
    <2>2. n \div p <= m
      BY <2>1, QuotientAtMost
    <2> QED BY <2>2 DEF m
  <1>3. q \in Int
    BY Divided
  <1> HIDE DEF q
  <1>4. q % b = q
    <2>1. q \in 0..(b - 1) /\ b \in Nat \ {0}
      BY <1>1, <1>2, <1>3
    <2> QED BY <1>3, <2>1, SmallRest
  <1> QED BY <1>1, <1>3, <1>4 DEF q

\* The fewest digits of a number.
LEMMA FewestDigits ==
    ASSUME NEW b \in Nat \ {0, 1}, NEW n \in Nat
    PROVE  LET d == Digits(n, b, DigitCount(n, b))
           IN  /\ d \in Seq(Int) /\ d \in Seq(0..(b - 1)) /\ Number(d, b) = n
               /\ Len(d) > 0 => d[1] # 0
  <1> DEFINE k == DigitCount(n, b)
             d == Digits(n, b, k)
  <1>1. k \in Nat /\ n < Power(b, k) /\ (k > 0 => Power(b, k - 1) <= n)
    BY DigitCountExists
  <1> HIDE DEF k
  <1>b. b \in Nat \ {0} /\ n \in Int
    OBVIOUS
  <1>2. d \in Seq(Int) /\ Len(d) = k
    BY <1>1, <1>b, DigitsAreInts
  <1>3. d \in Seq(0..(b - 1))
    BY <1>1, <1>b, DigitsAre, Zenon
  <1>4. Number(d, b) = n
    BY <1>1, <1>b, DigitsAreRead
  <1>5. ASSUME Len(d) > 0 PROVE d[1] # 0
    <2> DEFINE j == k - 1
               p == Power(b, j)
    <2>1. j \in Nat /\ j + 1 = k /\ 1 \in 1..k
      BY <1>1, <1>2, <1>5
    <2>2. d[1] = (n \div p) % b
      BY <1>1, <1>b, <2>1, DigitAt
    <2>3. p <= n
      BY <1>1, <1>2, <1>5
    <2> HIDE DEF j
    <2>4. p \in Nat \ {0} /\ Power(b, k) = b * p
      <3>1. p \in Nat \ {0}
        BY <1>b, <2>1, PowerIsPositive
      <3>2. Power(b, j + 1) = b * p
        BY <2>1, NaturalPower
      <3> QED BY <2>1, <3>1, <3>2
    <2> HIDE DEF p
    <2>5. (n \div p) % b # 0
      BY <1>1, <2>3, <2>4, FirstDigit
    <2> QED BY <2>2, <2>5
  <1> QED BY <1>2, <1>3, <1>4, <1>5 DEF k

LEMMA CountOfDigits ==
    ASSUME NEW b \in Nat \ {0, 1}, NEW d \in Seq(0..(b - 1)), Len(d) > 0 => d[1] # 0
    PROVE  DigitCount(Number(d, b), b) = Len(d)
  <1> DEFINE k == Len(d)
             n == Number(d, b)
  <1>b. b \in Nat \ {0}
    OBVIOUS
  <1>1. k \in Nat /\ n \in Nat /\ n < Power(b, k)
    BY <1>b, DigitsAreOf
  <1>2. ASSUME k > 0 PROVE Power(b, k - 1) <= n
    <2> DEFINE j == k - 1
               p == Power(b, j)
    <2>1. j \in Nat /\ 1 \in 1..k
      BY <1>1, <1>2
    <2>2. d[1] = (n \div p) % b
      BY <1>b, <2>1, DigitsAreOf
    <2> HIDE DEF j
    <2>3. p \in Nat \ {0}
      BY <1>b, <2>1, PowerIsPositive
    <2> HIDE DEF p, n
    <2> SUFFICES ASSUME n < p PROVE FALSE
      BY <1>1, <2>3 DEF p, j
    <2>4. n \div p = 0
      <3>1. n \in 0..(p - 1) /\ n \in Int
        BY <1>1, <2>3
      <3> QED BY <2>3, <3>1, SmallRest
    <2>5. 0 % b = 0
      <3>1. 0 \in 0..(b - 1)
        OBVIOUS
      <3> QED BY <1>b, <3>1, SmallRest
    <2> QED BY <1>2, <2>2, <2>4, <2>5
  <1> HIDE DEF k, n
  <1>3. DigitCount(n, b) = k
    BY <1>1, <1>2, DigitCountIs
  <1> QED BY <1>3 DEF k, n

LEMMA JoinedAfter ==
    ASSUME NEW s \in Seq(Int), NEW t \in Seq(Int), NEW j \in 1..Len(t)
    PROVE  (s \o t)[Len(s) + j] = t[j]
  OBVIOUS

\* Zeros in front, and the fewest digits of the rest.
LEMMA InParts ==
    ASSUME NEW b \in Nat \ {0, 1}, NEW s \in Seq(0..(b - 1))
    PROVE  /\ Leading(s, 0) \in Nat
           /\ Number(s, b) \in Nat
           /\ s = Repeat(0, Leading(s, 0)) \o Digits(Number(s, b), b, DigitCount(Number(s, b), b))
  <1> DEFINE l == Len(s)
             n == Number(s, b)
  <1>b. b \in Nat \ {0} /\ b \in Nat /\ b \in Int
    OBVIOUS
  <1>1. s \in Seq(Int) /\ l \in Nat
    OBVIOUS
  <1>2. PICK z : ZerosOf(s, z)
    BY <1>1, LeadingExists
  <1>3. z \in 0..l /\ (\A j \in 1..z : s[j] = 0) /\ (z < l => s[z + 1] # 0)
    BY <1>2 DEF ZerosOf
  <1>4. Leading(s, 0) = z
    BY <1>1, <1>2, LeadingIs
  <1> DEFINE d == SubSeq(s, z + 1, l)
             o == Repeat(0, z)
             e == o \o d
  <1>5. /\ d \in Seq(0..(b - 1)) /\ Len(d) = l - z
        /\ \A i \in 1..(l - z) : d[i] = s[z + i]
    <2>1. \A i \in (z + 1)..l : s[i] \in 0..(b - 1)
      BY <1>1, <1>3
    <2>2. /\ SubSeq(s, z + 1, l) \in Seq(0..(b - 1))
          /\ Len(SubSeq(s, z + 1, l)) = (IF z + 1 <= l THEN l - (z + 1) + 1 ELSE 0)
          /\ \A i \in 1..(l - (z + 1) + 1) : SubSeq(s, z + 1, l)[i] = s[z + 1 + i - 1]
      BY <1>1, <1>3, <2>1, SubSeqProperties
    <2>3. l - (z + 1) + 1 = l - z /\ (~(z + 1 <= l) => l - z = 0)
      BY <1>1, <1>3
    <2>4. ASSUME NEW i \in 1..(l - z) PROVE d[i] = s[z + i]
      <3>1. d[i] = s[z + 1 + i - 1]
        BY <2>2, <2>3
      <3>2. z + 1 + i - 1 = z + i
        BY <1>3
      <3> QED BY <3>1, <3>2
    <2> HIDE DEF l
    <2> QED BY <2>2, <2>3, <2>4
  <1>6. o \in Seq(Int) /\ Len(o) = z /\ \A i \in 1..z : o[i] = 0
    BY <1>3, ZerosAre
  <1> HIDE DEF d, o
  <1>7. e \in Seq(Int) /\ Len(e) = l
    <2>1. d \in Seq(Int)
      BY <1>5
    <2>2. e \in Seq(Int) /\ Len(e) = Len(o) + Len(d)
      BY <1>6, <2>1, ConcatProperties
    <2> QED BY <1>1, <1>3, <1>5, <1>6, <2>2
  <1>8. ASSUME NEW i \in 1..l PROVE e[i] = s[i]
    <2>1. CASE i <= z
      BY <1>3, <1>5, <1>6, <2>1
    <2>2. CASE i > z
      <3> DEFINE j == i - z
      <3>1. j \in 1..(l - z) /\ z + j = i
        BY <1>1, <1>3, <2>2
      <3> HIDE DEF j
      <3>2. e[z + j] = d[j]
        <4>1. d \in Seq(Int) /\ Len(d) = l - z /\ l - z \in Nat /\ z \in Nat
          BY <1>1, <1>3, <1>5
        <4>2. j \in 1..Len(d)
          BY <3>1, <4>1
        <4> HIDE DEF l
        <4>3. e[Len(o) + j] = d[j]
          BY <1>6, <4>1, <4>2, JoinedAfter
        <4> QED BY <1>6, <4>3
      <3> QED BY <1>5, <3>1, <3>2
    <2>3. i <= z \/ i > z
      BY <1>1, <1>3
    <2> QED BY <2>1, <2>2, <2>3, Zenon
  <1> HIDE DEF e, l
  <1>9. e = s
    BY <1>1, <1>7, <1>8, SameList DEF l
  <1>10. Number(d, b) = n
    <2>1. d \in Seq(Int) /\ z \in Nat
      BY <1>1, <1>3, <1>5
    <2>2. Number(Repeat(0, z) \o d, b) = Number(d, b)
      BY <1>b, <2>1, NumberOfPadded
    <2> QED BY <1>9, <2>2 DEF e, o
  <1>11. Len(d) > 0 => d[1] # 0
    BY <1>1, <1>3, <1>5
  <1>12. DigitCount(n, b) = Len(d)
    <2>1. DigitCount(Number(d, b), b) = Len(d)
      BY <1>5, <1>11, CountOfDigits
    <2> HIDE DEF n
    <2> QED BY <1>10, <2>1
  <1>13. Digits(n, b, Len(d)) = d
    <2>1. Digits(Number(d, b), b, Len(d)) = d
      BY <1>b, <1>5, NumberHasDigits
    <2> HIDE DEF n
    <2> QED BY <1>10, <2>1
  <1>14. n \in Nat
    BY <1>b, DigitsAreOf
  <1> HIDE DEF n
  <1>15. Leading(s, 0) \in Nat
    BY <1>1, <1>3, <1>4
  <1> QED BY <1>4, <1>9, <1>12, <1>13, <1>14, <1>15 DEF n, e, o

Convert(s, b, c) ==
    Repeat(0, Leading(s, 0)) \o Digits(Number(s, b), c, DigitCount(Number(s, b), c))

LEMMA ConvertedBack ==
    ASSUME NEW b \in Nat \ {0, 1}, NEW c \in Nat \ {0, 1}, NEW s \in Seq(0..(b - 1))
    PROVE  /\ Convert(s, b, c) \in Seq(0..(c - 1))
           /\ Number(Convert(s, b, c), c) = Number(s, b)
           /\ Convert(Convert(s, b, c), c, b) = s
  <1> DEFINE z == Leading(s, 0)
             n == Number(s, b)
             d == Digits(n, c, DigitCount(n, c))
             o == Repeat(0, z)
             t == Convert(s, b, c)
  <1>1. z \in Nat /\ n \in Nat /\ s = o \o Digits(n, b, DigitCount(n, b))
    BY InParts
  <1>2. t = o \o d
    BY DEF Convert
  <1> HIDE DEF z, n, t
  <1>3. d \in Seq(Int) /\ d \in Seq(0..(c - 1)) /\ Number(d, c) = n /\ (Len(d) > 0 => d[1] # 0)
    BY <1>1, FewestDigits
  <1> HIDE DEF d
  <1>4. o \in Seq(0..(c - 1))
    <2>1. 0 \in 0..(c - 1)
      OBVIOUS
    <2> QED BY <1>1, <2>1, ZerosAre
  <1>5. t \in Seq(0..(c - 1))
    <2> DEFINE T == 0..(c - 1)
    <2>1. o \in Seq(T) /\ d \in Seq(T)
      BY <1>3, <1>4
    <2> HIDE DEF T, o
    <2>2. o \o d \in Seq(T)
      BY <2>1
    <2> QED BY <1>2, <2>2 DEF T
  <1>6. Leading(t, 0) = z
    BY <1>1, <1>2, <1>3, ZerosOfPadded
  <1>7. Number(t, c) = n
    <2>1. c \in Nat
      OBVIOUS
    <2>2. Number(Repeat(0, z) \o d, c) = Number(d, c)
      BY <1>1, <1>3, <2>1, NumberOfPadded
    <2> QED BY <1>2, <1>3, <2>2
  <1>8. Convert(t, c, b) = s
    BY <1>1, <1>6, <1>7 DEF Convert
  <1> QED BY <1>5, <1>7, <1>8 DEF t, n

BasesAre == TextBase \in Nat \ {0, 1} /\ ByteValues \in Nat \ {0, 1} /\ TextBase <= ByteValues

LEMMA Bases == BasesAre
  <1>1. TextBase \in 2..ByteValues
    BY ChainTextAssumption
  <1>2. ByteValues \in Nat
    BY ChainTextAssumption
  <1> QED BY <1>1, <1>2 DEF BasesAre

\* What the loop of decoding holds: the number of what was read, and its size.
Decoding(f, s, n) ==
    f = [i \in 0..n |-> IF i = 0 THEN [n |-> 0, len |-> 0] ELSE Grown(f[i - 1], s[i])]
TheDecoding(s, n) == CHOOSE f : Decoding(f, s, n)

Measured(m) == [n |-> m, len |-> DigitCount(m, ByteValues)]

LEMMA SizeGrows ==
    ASSUME NEW m \in Nat, NEW c \in 0..(TextBase - 1)
    PROVE  m * TextBase + c \in Nat /\ Grown(Measured(m), c) = Measured(m * TextBase + c)
  <1> DEFINE b == ByteValues
             t == TextBase
             k == DigitCount(m, b)
             n == m * t + c
             p == Power(b, k)
  <1>1. t \in Nat \ {0, 1} /\ b \in Nat \ {0, 1} /\ t <= b
    BY Bases DEF BasesAre
  <1>2. c # FarAlien
    BY <1>1 DEF FarAlien
  <1>3. Shifted(m, c) = n
    BY <1>2 DEF Shifted
  <1>4. Grown(Measured(m), c) = [n |-> n, len |-> IF n >= p THEN k + 1 ELSE k]
    BY <1>3 DEF Grown, Measured
  <1> HIDE DEF b
  <1>5. k \in Nat /\ m < p /\ (k > 0 => Power(b, k - 1) <= m) /\ (k = 0 <=> m = 0)
    BY <1>1, DigitCountExists
  <1> HIDE DEF k
  <1>6. p \in Nat /\ Power(b, k + 1) = b * p /\ Power(b, 0) = 1
    BY <1>1, <1>5, NaturalPower
  <1>c. c \in 0..(t - 1)
    OBVIOUS
  <1> HIDE DEF p, t
  <1>7. n \in Nat /\ m <= n /\ n < b * p
    <2>1. m * t \in Nat /\ m <= m * t
      BY <1>1
    <2>2. m * t + t <= p * t
      <3>1. (m + 1) * t <= p * t
        BY <1>1, <1>5, <1>6
      <3> QED BY <1>1, <3>1
    <2>3. p * t <= b * p
      BY <1>1, <1>6
    <2>4. p * t \in Int /\ b * p \in Int /\ c \in 0..(t - 1)
      BY <1>1, <1>6, <1>c
    <2> QED BY <1>1, <2>1, <2>2, <2>3, <2>4
  <1> HIDE DEF n
  <1>8. CASE n >= p
    <2> DEFINE l == k + 1
    <2>1. l \in Nat /\ l > 0 /\ l - 1 = k
      BY <1>5
    <2>2. n < Power(b, l) /\ Power(b, l - 1) <= n
      BY <1>6, <1>7, <1>8, <2>1 DEF p
    <2> HIDE DEF l
    <2>3. DigitCount(n, b) = l
      BY <1>1, <1>7, <2>1, <2>2, DigitCountIs
    <2> QED BY <1>4, <1>7, <1>8, <2>3 DEF l, Measured, b, n, t
  <1>9. CASE ~(n >= p)
    <2>1. n < Power(b, k)
      BY <1>6, <1>7, <1>9 DEF p
    <2>2. k > 0 => Power(b, k - 1) <= n
      <3> SUFFICES ASSUME k > 0 PROVE Power(b, k - 1) <= n
        OBVIOUS
      <3> DEFINE j == k - 1
                 q == Power(b, j)
      <3>1. j \in Nat
        BY <1>5
      <3>2. q <= m
        BY <1>5
      <3> HIDE DEF j
      <3>3. q \in Nat
        BY <1>1, <3>1, NaturalPower
      <3> HIDE DEF q
      <3>4. q <= n
        BY <1>7, <3>2, <3>3
      <3> QED BY <3>4 DEF q, j
    <2>3. DigitCount(n, b) = k
      BY <1>1, <1>5, <1>7, <2>1, <2>2, DigitCountIs
    <2> QED BY <1>4, <1>7, <1>9, <2>3 DEF Measured, b, n, t
  <1> QED BY <1>8, <1>9

LEMMA Elements ==
    ASSUME NEW T, NEW s \in Seq(T)
    PROVE  Len(s) \in Nat /\ \A i \in 1..Len(s) : s[i] \in T
  OBVIOUS

LEMMA Retyped ==
    ASSUME NEW T, NEW U, NEW s \in Seq(U), \A i \in 1..Len(s) : s[i] \in T
    PROVE  s \in Seq(T)
  OBVIOUS

LEMMA DecodingExists ==
    ASSUME NEW s \in Seq(0..(TextBase - 1)), NEW g, IsReading(g, s, TextBase)
    PROVE  Decoding([i \in 0..Len(s) |-> Measured(g[i])], s, Len(s))
  <1> DEFINE n == Len(s)
             f == [i \in 0..n |-> Measured(g[i])]
  <1>1. n \in Nat /\ \A i \in 1..n : s[i] \in 0..(TextBase - 1)
    BY Elements, Zenon
  <1>2. g[0] = 0 /\ \A i \in 1..n : g[i] = TextBase * g[i - 1] + s[i]
    BY DEF IsReading
  <1>3. TextBase \in Nat \ {0, 1} /\ ByteValues \in Nat \ {0, 1}
    BY Bases DEF BasesAre
  <1>4. \A i \in 0..n : g[i] \in Nat
    <2>1. TextBase \in Nat \ {0}
      BY <1>3
    <2> QED BY <2>1, ReadingInRange
  <1> HIDE DEF n
  <1>5. f[0] = [n |-> 0, len |-> 0]
    <2>1. DigitCount(0, ByteValues) = 0
      <3>1. DigitCount(0, ByteValues) = 0 <=> 0 = 0
        BY <1>3, DigitCountExists
      <3> QED BY <3>1
    <2>2. f[0] = Measured(0)
      BY <1>1, <1>2
    <2> QED BY <2>1, <2>2 DEF Measured
  <1>6. ASSUME NEW i \in 1..n PROVE f[i] = Grown(f[i - 1], s[i])
    <2> DEFINE j == i - 1
               m == g[j]
               c == s[i]
    <2>1. j \in 0..n /\ i \in 0..n
      BY <1>1
    <2>2. f[i] = Measured(g[i]) /\ f[j] = Measured(m)
      BY <2>1
    <2>3. m \in Nat /\ c \in 0..(TextBase - 1)
      BY <1>1, <1>4, <2>1
    <2>4. g[i] = TextBase * m + c
      BY <1>2
    <2> HIDE DEF m, c, f
    <2>5. Grown(Measured(m), c) = Measured(m * TextBase + c)
      BY <2>3, SizeGrows
    <2>6. m * TextBase = TextBase * m
      BY <1>3, <2>3
    <2> QED BY <2>2, <2>4, <2>5, <2>6 DEF c
  <1>7. ASSUME NEW i \in 0..n
        PROVE  f[i] = IF i = 0 THEN [n |-> 0, len |-> 0] ELSE Grown(f[i - 1], s[i])
    <2>1. i = 0 \/ i \in 1..n
      BY <1>1
    <2> HIDE DEF f
    <2> QED BY <1>5, <1>6, <2>1
  <1>8. f = [i \in 0..n |-> f[i]]
    OBVIOUS
  <1>9. Decoding(f, s, n)
    <2> HIDE DEF f
    <2> QED BY <1>7, <1>8 DEF Decoding
  <1> QED BY <1>9 DEF n

LEMMA TheDecodingIs ==
    ASSUME NEW s \in Seq(0..(TextBase - 1))
    PROVE  TheDecoding(s, Len(s))[Len(s)] = Measured(Number(s, TextBase))
  <1> DEFINE n == Len(s)
             h == TheDecoding(s, n)
  <1>1. s \in Seq(Int) /\ n \in Nat /\ TextBase \in Int
    BY Bases DEF BasesAre
  <1>2. PICK g : IsReading(g, s, TextBase) /\ Number(s, TextBase) = g[Len(s)]
    BY <1>1, NumberValues
  <1> DEFINE f == [i \in 0..n |-> Measured(g[i])]
  <1>3. Decoding(f, s, n)
    BY <1>2, DecodingExists
  <1> HIDE DEF n
  <1>4. Decoding(h, s, n)
    BY <1>3 DEF TheDecoding
  <1> HIDE DEF f, h
  <1>5. f = [i \in 0..n |-> IF i = 0 THEN [n |-> 0, len |-> 0] ELSE Grown(f[i - 1], s[i])]
    BY <1>3 DEF Decoding
  <1>6. h = [i \in 0..n |-> IF i = 0 THEN [n |-> 0, len |-> 0] ELSE Grown(h[i - 1], s[i])]
    BY <1>4 DEF Decoding
  <1> DEFINE P == {i \in 0..n : h[i] = f[i]}
  <1>7. 0 \in P
    <2>1. 0 \in 0..n
      BY <1>1
    <2> QED BY <1>5, <1>6, <2>1
  <1>8. ASSUME NEW i \in 1..n, i - 1 \in P PROVE i \in P
    <2>1. i \in 0..n /\ i # 0
      BY <1>1
    <2>2. h[i - 1] = f[i - 1]
      BY <1>8
    <2>3. h[i] = Grown(h[i - 1], s[i])
      BY <1>6, <2>1
    <2>4. f[i] = Grown(f[i - 1], s[i])
      BY <1>5, <2>1
    <2> QED BY <2>1, <2>2, <2>3, <2>4
  <1> HIDE DEF P
  <1>9. 0..n \subseteq P
    BY <1>1, <1>7, <1>8, Induction
  <1>10. n \in P
    BY <1>1, <1>9
  <1>11. h[n] = f[n]
    BY <1>10 DEF P
  <1>12. f[n] = Measured(g[n])
    BY <1>1 DEF f
  <1> QED BY <1>2, <1>11, <1>12 DEF h, n

LEMMA NoAliens ==
    ASSUME NEW s \in Seq(0..(TextBase - 1))
    PROVE  ~Contains(s, Alien)
  <1>1. \A i \in 1..Len(s) : s[i] \in 0..(TextBase - 1)
    BY Elements, Zenon
  <1>2. TextBase \in Nat
    BY Bases DEF BasesAre
  <1>3. Alien \notin 0..(TextBase - 1)
    BY <1>2 DEF Alien
  <1> QED BY <1>1, <1>3, Zenon DEF Contains

LEMMA Decode58Is ==
    ASSUME NEW s \in Seq(0..(TextBase - 1))
    PROVE  Decode58(s) = Convert(s, TextBase, ByteValues)
  <1>1. ~Contains(s, Alien)
    BY NoAliens
  <1>2. TheDecoding(s, Len(s))[Len(s)] = Measured(Number(s, TextBase))
    BY TheDecodingIs
  <1> DEFINE r == TheDecoding(s, Len(s))[Len(s)]
  <1>3. Decode58(s) = IF Contains(s, Alien) THEN Rejected
                      ELSE Repeat(0, Leading(s, 0)) \o Digits(r.n, ByteValues, r.len)
    BY DEF Decode58, TheDecoding, Decoding
  <1> HIDE DEF r
  <1>4. r = Measured(Number(s, TextBase))
    BY <1>2 DEF r
  <1>5. r.n = Number(s, TextBase) /\ r.len = DigitCount(Number(s, TextBase), ByteValues)
    BY <1>4 DEF Measured
  <1> QED BY <1>1, <1>3, <1>5 DEF Convert

LEMMA Encode58Is ==
    ASSUME NEW data
    PROVE  Encode58(data) = Convert(data, ByteValues, TextBase)
  BY DEF Encode58, Convert

LEMMA Data58IsRead ==
    ASSUME NEW data \in Seq(0..(ByteValues - 1))
    PROVE  /\ Encode58(data) \in Seq(0..(TextBase - 1))
           /\ Number(Encode58(data), TextBase) = Number(data, ByteValues)
           /\ Decode58(Encode58(data)) = data
  <1>1. TextBase \in Nat \ {0, 1} /\ ByteValues \in Nat \ {0, 1}
    BY Bases DEF BasesAre
  <1> DEFINE b == ByteValues
             t == TextBase
             c == Convert(data, b, t)
  <1>2. /\ c \in Seq(0..(t - 1)) /\ Number(c, t) = Number(data, b) /\ Convert(c, t, b) = data
    BY <1>1, ConvertedBack
  <1>3. Encode58(data) = c
    BY Encode58Is
  <1> HIDE DEF c
  <1>4. Decode58(c) = Convert(c, t, b)
    BY <1>2, Decode58Is
  <1> QED BY <1>2, <1>3, <1>4

LEMMA Text58IsRead ==
    ASSUME NEW s \in Seq({FarAlien, Alien} \cup 0..(TextBase - 1)),
           Decode58(s) # Rejected, FarAlien \notin Range(s)
    PROVE  Encode58(Decode58(s)) = s
  <1>1. TextBase \in Nat \ {0, 1} /\ ByteValues \in Nat \ {0, 1}
    BY Bases DEF BasesAre
  <1>2. ~Contains(s, Alien)
    BY DEF Decode58
  <1>3. s \in Seq(0..(TextBase - 1))
    <2>1. ASSUME NEW i \in 1..Len(s) PROVE s[i] \in 0..(TextBase - 1)
      <3>1. s[i] \in {FarAlien, Alien} \cup 0..(TextBase - 1)
        OBVIOUS
      <3>2. s[i] # Alien
        BY <1>2 DEF Contains
      <3>3. s[i] # FarAlien
        <4>1. i \in DOMAIN s
          OBVIOUS
        <4> QED BY <4>1 DEF Range
      <3> QED BY <3>1, <3>2, <3>3
    <2> DEFINE T == {FarAlien, Alien} \cup 0..(TextBase - 1)
    <2>2. s \in Seq(T)
      OBVIOUS
    <2> HIDE DEF T
    <2> QED BY <2>1, <2>2, Retyped, Zenon
  <1> DEFINE b == ByteValues
             t == TextBase
  <1>4. Convert(Convert(s, t, b), b, t) = s
    BY <1>1, <1>3, ConvertedBack
  <1>5. Decode58(s) = Convert(s, t, b)
    BY <1>3, Decode58Is
  <1> QED BY <1>4, <1>5, Encode58Is

LEMMA QuotientIsLess ==
    ASSUME NEW m \in Nat, NEW p \in Nat \ {0}
    PROVE  m \div p \in Nat /\ m \div p <= m
  <1>1. m < (m + 1) * p
    OBVIOUS
  <1>2. m \div p <= m
    BY <1>1, QuotientAtMost
  <1> QED BY <1>2, QuotientOfNat

\* What the loop holds when the size is known.
SizedDecoding(f, s, size, n) ==
    f = [i \in 0..n |-> IF i = 0 THEN 0 ELSE ShiftedWithin(f[i - 1], s[i], size)]
TheSizedDecoding(s, size, n) == CHOOSE f : SizedDecoding(f, s, size, n)

LEMMA SizedDecodingExists ==
    ASSUME NEW s \in Seq(0..(TextBase - 1)), NEW size \in Nat, NEW g, IsReading(g, s, TextBase),
           g[Len(s)] < Power(ByteValues, size)
    PROVE  SizedDecoding([i \in 0..Len(s) |-> g[i]], s, size, Len(s))
  <1> DEFINE n == Len(s)
             m == g[n]
             q == Power(ByteValues, size)
             f == [i \in 0..n |-> g[i]]
  <1>1. n \in Nat /\ \A i \in 1..n : s[i] \in 0..(TextBase - 1)
    BY Elements, Zenon
  <1>2. g[0] = 0 /\ \A i \in 1..n : g[i] = TextBase * g[i - 1] + s[i]
    BY DEF IsReading
  <1>3. TextBase \in Nat \ {0, 1} /\ TextBase \in Nat \ {0} /\ ByteValues \in Nat \ {0}
    BY Bases DEF BasesAre
  <1>4. \A i \in 0..n : g[i] \in Nat
    BY <1>3, ReadingInRange
  <1>5. q \in Nat
    BY <1>3, PowerIsPositive
  <1>6. ASSUME NEW i \in 0..n PROVE g[i] <= m
    <2> DEFINE k == n - i
    <2>1. k \in 0..Len(s) /\ n - k = i
      BY <1>1
    <2> HIDE DEF k
    <2>2. g[Len(s) - k] = g[Len(s)] \div Power(TextBase, k)
      BY <1>3, <2>1, ReadingIsQuotient
    <2> DEFINE p == Power(TextBase, k)
    <2>3. p \in Nat \ {0}
      <3>1. k \in Nat
        BY <1>1, <2>1
      <3> QED BY <1>3, <3>1, PowerIsPositive
    <2> HIDE DEF p
    <2>4. m \in Nat
      BY <1>1, <1>4
    <2> DEFINE x == m
    <2>5. g[i] = x \div p
      BY <2>1, <2>2 DEF p
    <2> HIDE DEF x
    <2>6. x \div p <= x
      BY <2>3, <2>4, QuotientIsLess DEF x
    <2> QED BY <2>5, <2>6 DEF x
  <1>7. m < q
    OBVIOUS
  <1> HIDE DEF n, q, m
  <1>8. f[0] = 0
    BY <1>1, <1>2
  <1>9. ASSUME NEW i \in 1..n PROVE f[i] = ShiftedWithin(f[i - 1], s[i], size)
    <2> DEFINE j == i - 1
               x == g[j]
               c == s[i]
    <2>1. j \in 0..n /\ i \in 0..n
      BY <1>1
    <2>2. f[i] = g[i] /\ f[j] = x
      BY <2>1
    <2>3. x \in Nat /\ c \in 0..(TextBase - 1)
      BY <1>1, <1>4, <2>1
    <2>4. g[i] = TextBase * x + c /\ g[i] < q /\ g[i] \in Nat
      <3>1. g[i] = TextBase * x + c
        BY <1>2
      <3>2. g[i] <= m /\ g[i] \in Nat /\ m \in Nat
        BY <1>1, <1>4, <1>6, <2>1 DEF m
      <3> HIDE DEF x, c
      <3>3. g[i] < q
        BY <1>5, <1>7, <3>2
      <3> QED BY <3>1, <3>2, <3>3
    <2> HIDE DEF x, c, f
    <2>5. c # FarAlien
      BY <1>3, <2>3 DEF FarAlien
    <2>6. Shifted(x, c) = g[i]
      <3>1. x * TextBase = TextBase * x
        BY <1>3, <2>3
      <3>2. Shifted(x, c) = x * TextBase + c
        BY <2>5 DEF Shifted
      <3> QED BY <2>4, <3>1, <3>2
    <2>7. ~(x < 0) /\ ~(g[i] >= q)
      BY <1>5, <2>3, <2>4
    <2>8. ShiftedWithin(x, c, size) = g[i]
      BY <2>6, <2>7 DEF ShiftedWithin, q
    <2> QED BY <2>2, <2>8 DEF c
  <1>10. ASSUME NEW i \in 0..n
         PROVE  f[i] = IF i = 0 THEN 0 ELSE ShiftedWithin(f[i - 1], s[i], size)
    <2>1. i = 0 \/ i \in 1..n
      BY <1>1
    <2> HIDE DEF f
    <2> QED BY <1>8, <1>9, <2>1
  <1>11. f = [i \in 0..n |-> f[i]]
    OBVIOUS
  <1>12. SizedDecoding(f, s, size, n)
    <2> HIDE DEF f
    <2> QED BY <1>10, <1>11 DEF SizedDecoding
  <1> QED BY <1>12 DEF n

LEMMA TheSizedDecodingIs ==
    ASSUME NEW s \in Seq(0..(TextBase - 1)), NEW size \in Nat,
           Number(s, TextBase) < Power(ByteValues, size)
    PROVE  TheSizedDecoding(s, size, Len(s))[Len(s)] = Number(s, TextBase)
  <1> DEFINE n == Len(s)
             h == TheSizedDecoding(s, size, n)
  <1>1. s \in Seq(Int) /\ n \in Nat /\ TextBase \in Int
    BY Bases DEF BasesAre
  <1>2. PICK g : IsReading(g, s, TextBase) /\ Number(s, TextBase) = g[Len(s)]
    BY <1>1, NumberValues
  <1> DEFINE f == [i \in 0..n |-> g[i]]
  <1>3. SizedDecoding(f, s, size, n)
    BY <1>2, SizedDecodingExists
  <1> HIDE DEF n
  <1>4. SizedDecoding(h, s, size, n)
    BY <1>3 DEF TheSizedDecoding
  <1> HIDE DEF f, h
  <1>5. f = [i \in 0..n |-> IF i = 0 THEN 0 ELSE ShiftedWithin(f[i - 1], s[i], size)]
    BY <1>3 DEF SizedDecoding
  <1>6. h = [i \in 0..n |-> IF i = 0 THEN 0 ELSE ShiftedWithin(h[i - 1], s[i], size)]
    BY <1>4 DEF SizedDecoding
  <1> DEFINE P == {i \in 0..n : h[i] = f[i]}
  <1>7. 0 \in P
    <2>1. 0 \in 0..n
      BY <1>1
    <2> QED BY <1>5, <1>6, <2>1
  <1>8. ASSUME NEW i \in 1..n, i - 1 \in P PROVE i \in P
    <2>1. i \in 0..n /\ i # 0
      BY <1>1
    <2>2. h[i - 1] = f[i - 1]
      BY <1>8
    <2>3. h[i] = ShiftedWithin(h[i - 1], s[i], size)
      BY <1>6, <2>1
    <2>4. f[i] = ShiftedWithin(f[i - 1], s[i], size)
      BY <1>5, <2>1
    <2> QED BY <2>1, <2>2, <2>3, <2>4
  <1> HIDE DEF P
  <1>9. 0..n \subseteq P
    BY <1>1, <1>7, <1>8, Induction
  <1>10. n \in P
    BY <1>1, <1>9
  <1>11. h[n] = f[n]
    BY <1>10 DEF P
  <1>12. f[n] = g[n]
    BY <1>1 DEF f
  <1> QED BY <1>2, <1>11, <1>12 DEF h, n

LEMMA SizedData58IsRead ==
    ASSUME NEW data \in Seq(0..(ByteValues - 1))
    PROVE  Decode58Sized(Encode58(data), Len(data)) = data
  <1> DEFINE s == Encode58(data)
             size == Len(data)
             m == Number(data, ByteValues)
             h == TheSizedDecoding(s, size, Len(s))[Len(s)]
  <1>1. ByteValues \in Nat \ {0} /\ size \in Nat
    BY Bases DEF BasesAre
  <1>2. s \in Seq(0..(TextBase - 1)) /\ Number(s, TextBase) = m
    BY Data58IsRead
  <1>3. m \in Nat /\ m < Power(ByteValues, size)
    BY <1>1, DigitsAreOf
  <1>4. Digits(m, ByteValues, size) = data
    BY <1>1, NumberHasDigits
  <1> HIDE DEF s, size, m
  <1>5. ~Contains(s, Alien)
    BY <1>2, NoAliens
  <1>6. h = m
    BY <1>1, <1>2, <1>3, TheSizedDecodingIs
  <1>7. Decode58Sized(s, size) = IF Contains(s, Alien) \/ h < 0 THEN Rejected ELSE Digits(h, ByteValues, size)
    BY DEF Decode58Sized, TheSizedDecoding, SizedDecoding
  <1> HIDE DEF h
  <1>8. ~(m < 0)
    BY <1>3
  <1>9. Decode58Sized(s, size) = data
    BY <1>4, <1>5, <1>6, <1>7, <1>8
  <1> QED BY <1>9 DEF s, size

---------------------------------------------------------------------------
(* Base 64.                                                                *)

LEMMA PowersMultiply ==
    ASSUME NEW b \in Nat \ {0}, NEW m \in Nat, NEW n \in Nat
    PROVE  Power(Power(b, m), n) = Power(b, m * n)
  <1> DEFINE p == Power(b, m)
             P == {i \in 0..n : Power(p, i) = Power(b, m * i)}
  <1>1. p \in Nat \ {0}
    BY PowerIsPositive
  <1>2. 0 \in P
    <2>1. m * 0 = 0 /\ 0 \in 0..n
      OBVIOUS
    <2>2. Power(p, 0) = 1 /\ Power(b, 0) = 1
      BY <1>1, PowerIs
    <2> QED BY <2>1, <2>2
  <1>3. ASSUME NEW i \in 1..n, i - 1 \in P PROVE i \in P
    <2> DEFINE j == i - 1
    <2>1. j \in Nat /\ j + 1 = i /\ i \in 0..n
      OBVIOUS
    <2>2. Power(p, j) = Power(b, m * j)
      BY <1>3
    <2> HIDE DEF j, p
    <2>3. Power(p, j + 1) = p * Power(p, j)
      BY <1>1, <2>1, PowerIs
    <2>4. m * i = m + m * j /\ m * j \in Nat
      BY <2>1
    <2>5. Power(b, m + m * j) = p * Power(b, m * j)
      BY <2>1, <2>4, PowersAdd DEF p
    <2> QED BY <2>1, <2>2, <2>3, <2>4, <2>5
  <1> HIDE DEF P
  <1>4. 0..n \subseteq P
    BY <1>2, <1>3, Induction
  <1>5. n \in P
    BY <1>4
  <1> QED BY <1>5 DEF P

LEMMA ProductsOfFour ==
    ASSUME NEW b \in Int, NEW p \in Int, NEW x \in Int, NEW q \in Int
    PROVE  ((b * p) * x) * q = p * (b * (x * q))
  OBVIOUS

\* A multiple of a power of the base has as many zeros behind.
LEMMA ZerosBehind ==
    ASSUME NEW b \in Nat \ {0}, NEW len \in Nat, NEW n \in Int, NEW zeros \in 0..len, NEW q \in Int,
           n = Power(b, zeros) * q
    PROVE  \A i \in 1..len : i > len - zeros => Digits(n, b, len)[i] = 0
  <1> SUFFICES ASSUME NEW i \in 1..len, i > len - zeros
               PROVE  Digits(n, b, len)[i] = 0
    OBVIOUS
  <1> DEFINE k == len - i
             j == zeros - (k + 1)
             p == Power(b, k)
             x == Power(b, j)
  <1>1. k \in Nat /\ j \in Nat /\ zeros = (k + 1) + j
    OBVIOUS
  <1>2. Digits(n, b, len)[i] = (n \div p) % b
    BY DigitAt
  <1> HIDE DEF k, j
  <1>3. p \in Nat \ {0} /\ x \in Nat \ {0}
    BY <1>1, PowerIsPositive
  <1>4. Power(b, zeros) = (b * p) * x
    <2>1. Power(b, k + 1) = b * p
      BY <1>1, NaturalPower
    <2>2. Power(b, (k + 1) + j) = Power(b, k + 1) * x
      BY <1>1, PowersAdd
    <2> QED BY <1>1, <2>1, <2>2
  <1> HIDE DEF p, x
  <1> DEFINE y == x * q
             z == b * y
  <1>5. y \in Int /\ z \in Int
    BY <1>3
  <1>6. n = p * z + 0
    <2>1. ((b * p) * x) * q = p * (b * (x * q))
      BY <1>3, ProductsOfFour
    <2>2. p * (b * (x * q)) \in Int
      BY <1>3
    <2> QED BY <1>4, <2>1, <2>2
  <1> HIDE DEF z
  <1>7. n \div p = z
    BY <1>3, <1>5, <1>6, QuotientAndRest
  <1>8. z % b = 0
    <2>1. z = b * y + 0
      BY <1>3 DEF z
    <2> HIDE DEF y
    <2> QED BY <1>5, <2>1, QuotientAndRest
  <1> QED BY <1>2, <1>7, <1>8

LEMMA ChunksAre ==
    ASSUME NEW l \in Nat, NEW c, NEW p, NEW len, c = (l + 2) \div 3, p = 3 * c - l, len = (4 * l + 2) \div 3
    PROVE  /\ c \in Nat /\ p \in 0..2 /\ 3 * c \in Nat /\ 4 * c \in Nat
           /\ len = 4 * c - p /\ len \in 0..(4 * c) /\ p \in 0..(4 * c)
           /\ (len + 3) \div 4 = c /\ (3 * len) \div 4 = l /\ l \in 0..(3 * c)
  OBVIOUS

LEMMA BasesOf64 ==
    LET s == Power(2, SextetBits)
        o == Power(2, OctetBits)
    IN  /\ s \in Nat \ {0} /\ o \in Nat \ {0}
        /\ \A c \in Nat : Power(o, 3 * c) = Power(s, 4 * c)
        /\ \A p \in Nat : \E x \in Int : Power(o, p) = Power(s, p) * x
  <1> DEFINE k == SextetBits \div 3
             m == 3 * k
             r == 4 * k
             s == Power(2, m)
             o == Power(2, r)
  <1>1. k \in Nat /\ m \in Nat /\ r \in Nat /\ SextetBits = m /\ OctetBits = r
    BY ChainTextAssumption DEF OctetBits
  <1>2. s \in Nat \ {0} /\ o \in Nat \ {0}
    BY <1>1, PowerIsPositive
  <1>3. ASSUME NEW n \in Nat
        PROVE  Power(s, n) = Power(2, m * n) /\ Power(o, n) = Power(2, r * n)
    <2>1. 2 \in Nat \ {0} /\ m \in Nat /\ r \in Nat
      BY <1>1
    <2> HIDE DEF m, r
    <2>2. Power(s, n) = Power(2, m * n)
      BY <2>1, PowersMultiply
    <2>3. Power(o, n) = Power(2, r * n)
      BY <2>1, PowersMultiply
    <2> QED BY <2>2, <2>3
  <1> HIDE DEF s, o
  <1>4. ASSUME NEW c \in Nat PROVE Power(o, 3 * c) = Power(s, 4 * c)
    <2>1. 3 * c \in Nat /\ 4 * c \in Nat
      OBVIOUS
    <2>2. Power(o, 3 * c) = Power(2, r * (3 * c)) /\ Power(s, 4 * c) = Power(2, m * (4 * c))
      BY <1>3, <2>1
    <2>3. r * (3 * c) = m * (4 * c)
      <3> HIDE DEF k
      <3>1. (4 * k) * (3 * c) = (3 * k) * (4 * c)
        BY <1>1
      <3> QED BY <3>1
    <2> QED BY <2>2, <2>3
  <1>5. ASSUME NEW p \in Nat PROVE \E x \in Int : Power(o, p) = Power(s, p) * x
    <2> DEFINE x == Power(2, k * p)
    <2>1. k * p \in Nat /\ m * p \in Nat /\ r * p = m * p + k * p
      <3> HIDE DEF k
      <3>1. (4 * k) * p = (3 * k) * p + k * p
        BY <1>1
      <3>2. k * p \in Nat
        BY <1>1
      <3>3. (3 * k) * p \in Nat
        BY <1>1
      <3> QED BY <3>1, <3>2, <3>3
    <2> HIDE DEF k
    <2>2. x \in Int
      <3> DEFINE e == k * p
      <3> HIDE DEF e
      <3> QED BY <2>1, PowerIsPositive DEF e
    <2>3. Power(2, m * p + k * p) = Power(2, m * p) * x
      <3> DEFINE e == k * p
                 f == m * p
      <3> HIDE DEF e, f
      <3>1. e \in Nat /\ f \in Nat
        BY <2>1 DEF e, f
      <3>2. Power(2, f + e) = Power(2, f) * Power(2, e)
        BY <3>1, PowersAdd
      <3> QED BY <3>2 DEF e, f
    <2>4. Power(s, p) = Power(2, m * p) /\ Power(o, p) = Power(2, r * p)
      BY <1>3
    <2> HIDE DEF x
    <2>5. Power(o, p) = Power(s, p) * x
      BY <2>1, <2>3, <2>4
    <2> QED BY <2>2, <2>5
  <1>6. Power(2, SextetBits) = s /\ Power(2, OctetBits) = o
    BY <1>1 DEF s, o
  <1> QED BY <1>2, <1>4, <1>5, <1>6

\* What was left out is filled up again, and all of it was zero.
LEMMA FilledUp ==
    ASSUME NEW l \in Nat, NEW d \in Seq(Int), Len(d) = l, NEW len \in 0..l,
           \A i \in 1..l : d[i] >= 0 /\ (i > len => d[i] = 0),
           NEW t, t = SubSeq(d, 1, len)
    PROVE  [i \in 1..l |-> IF i \in DOMAIN t /\ t[i] >= 0 THEN t[i] ELSE 0] = d
  <1> DEFINE e == [i \in 1..l |-> IF i \in DOMAIN t /\ t[i] >= 0 THEN t[i] ELSE 0]
  <1>1. DOMAIN t = 1..len /\ \A i \in 1..len : t[i] = d[i]
    OBVIOUS
  <1>2. ASSUME NEW i \in 1..l PROVE e[i] = d[i]
    <2>1. CASE i > len
      BY <1>1, <2>1
    <2>2. CASE i <= len
      <3>1. i \in 1..len
        BY <2>2
      <3> QED BY <1>1, <3>1
    <2> QED BY <2>1, <2>2
  <1>3. e \in Seq(Int) /\ Len(e) = l
    <2>1. \A i \in 1..l : e[i] \in Int
      BY <1>2
    <2>2. e \in [1..l -> Int]
      BY <2>1
    <2> HIDE DEF e
    <2> QED BY <2>2
  <1> HIDE DEF e
  <1>4. e = d
    BY <1>2, <1>3, SameList
  <1> QED BY <1>4 DEF e

LEMMA Data64IsRead ==
    ASSUME NEW data \in Seq(0..(Power(2, OctetBits) - 1))
    PROVE  Decode64u(Encode64u(data)) = data
  <1> DEFINE s == Power(2, SextetBits)
             o == Power(2, OctetBits)
             l == Len(data)
             c == (l + 2) \div 3
             p == 3 * c - l
             len == (4 * l + 2) \div 3
             zeros == Repeat(0, p)
             padded == data \o zeros
             n == Number(padded, o)
             size == 4 * c
             d == Digits(n, s, size)
             t == SubSeq(d, 1, len)
  <1>1. /\ s \in Nat \ {0} /\ o \in Nat \ {0}
        /\ Power(o, 3 * c) = Power(s, 4 * c)
        /\ \E x \in Int : Power(o, p) = Power(s, p) * x
    <2>1. c \in Nat /\ p \in Nat
      BY ChunksAre
    <2> HIDE DEF c, p
    <2> QED BY <2>1, BasesOf64
  <1>2. l \in Nat
    OBVIOUS
  <1>3. /\ c \in Nat /\ p \in 0..2 /\ 3 * c \in Nat /\ size \in Nat
        /\ len = size - p /\ len \in 0..size /\ p \in 0..size
        /\ (len + 3) \div 4 = c /\ (3 * len) \div 4 = l /\ l \in 0..(3 * c)
    BY <1>2, ChunksAre
  <1>4. Encode64u(data) = t
    BY DEF Encode64u
  <1>o. data \in Seq(0..(o - 1)) /\ 0 \in 0..(o - 1)
    <2>1. 0 \in 0..(o - 1)
      <3> HIDE DEF o
      <3> QED BY <1>1
    <2> QED BY <2>1
  <1> HIDE DEF s, o
  <1>5. /\ padded \in Seq(0..(o - 1)) /\ Len(padded) = 3 * c
        /\ SubSeq(padded, 1, l) = data
    <2>1. zeros \in Seq(0..(o - 1)) /\ Len(zeros) = p
      <3> HIDE DEF p
      <3>1. p \in Nat
        BY <1>3
      <3> QED BY <1>o, <3>1, ZerosAre, Zenon
    <2> HIDE DEF zeros, c, len, size
    <2> DEFINE U == 0..(o - 1)
    <2>2. data \in Seq(U) /\ zeros \in Seq(U)
      BY <1>o, <2>1
    <2> HIDE DEF U
    <2>3. padded \in Seq(U) /\ Len(padded) = l + p
      BY <1>2, <2>1, <2>2
    <2>4. l + p = 3 * c
      BY <1>2, <1>3
    <2>5. SubSeq(padded, 1, l) = data
      BY <2>2
    <2> QED BY <2>3, <2>4, <2>5 DEF U
  <1>6. n \in Nat /\ n < Power(s, size)
    <2> HIDE DEF padded, c
    <2>1. Number(padded, o) \in Nat /\ Number(padded, o) < Power(o, Len(padded))
      BY <1>1, <1>5, DigitsAreOf
    <2> QED BY <1>1, <1>5, <2>1
  <1>7. n = Number(data, o) * Power(o, p)
    <2> HIDE DEF c, p
    <2>1. o \in Nat /\ p \in Nat
      BY <1>1, <1>3
    <2>2. data \in Seq(Int)
      <3>1. \A i \in 1..Len(data) : data[i] \in 0..(o - 1)
        BY <1>o, Elements, Zenon
      <3>2. \A i \in 1..Len(data) : data[i] \in Int
        BY <1>1, <3>1
      <3> QED BY <1>o, <3>2, Retyped, Zenon
    <2> QED BY <2>1, <2>2, NumberOfPadded
  <1>8. Number(data, o) \in Nat
    BY <1>o, <1>1, DigitsAreOf
  <1>9. Digits(n, o, 3 * c) = padded
    <2> HIDE DEF padded, c
    <2>1. Digits(Number(padded, o), o, Len(padded)) = padded
      BY <1>1, <1>5, NumberHasDigits
    <2> QED BY <1>5, <2>1
  <1>10. PICK x \in Int : Power(o, p) = Power(s, p) * x
    BY <1>1
  <1> DEFINE q == Number(data, o) * x
  <1>11. q \in Int /\ n = Power(s, p) * q
    <2> DEFINE a == Number(data, o)
               y == Power(s, p)
    <2>1. a \in Nat /\ y \in Int
      <3>1. p \in Nat
        BY <1>3
      <3> HIDE DEF p
      <3> QED BY <1>1, <1>8, <3>1, PowerIsPositive
    <2>2. n = a * (y * x)
      BY <1>7, <1>10
    <2> HIDE DEF a, y, n
    <2>3. a * (y * x) = y * (a * x) /\ a * x \in Int
      BY <2>1
    <2> QED BY <2>2, <2>3 DEF a, y
  <1> HIDE DEF q, n, c, p, len, size, padded
  <1>12. d \in Seq(Int) /\ Len(d) = size /\ \A i \in 1..size : d[i] \in 0..(s - 1)
    <2>1. n \in Int
      BY <1>6
    <2>2. d \in Seq(Int) /\ Len(d) = size
      BY <1>1, <1>3, <2>1, DigitsAreInts
    <2>3. d \in Seq(0..(s - 1))
      BY <1>1, <1>3, <2>1, DigitsAre, Zenon
    <2> HIDE DEF d
    <2>4. \A i \in 1..Len(d) : d[i] \in 0..(s - 1)
      BY <2>3, Elements, Zenon
    <2> QED BY <2>2, <2>4
  <1>13. \A i \in 1..size : i > size - p => d[i] = 0
    <2>1. n \in Int
      BY <1>6
    <2> QED BY <1>1, <1>3, <1>11, <2>1, ZerosBehind
  <1>14. Number(d, s) = n
    BY <1>1, <1>3, <1>6, DigitsAreRead
  <1> HIDE DEF d
  <1> DEFINE known == [i \in 1..size |-> IF i \in DOMAIN t /\ t[i] >= 0 THEN t[i] ELSE 0]
  <1>15. known = d /\ Len(t) = len
    <2>1. \A i \in 1..size : d[i] >= 0 /\ (i > len => d[i] = 0)
      BY <1>1, <1>3, <1>12, <1>13
    <2>2. Len(t) = len
      BY <1>3, <1>12
    <2>3. t = SubSeq(d, 1, len)
      OBVIOUS
    <2> HIDE DEF t
    <2>4. known = d
      BY <1>3, <1>12, <2>1, <2>3, FilledUp
    <2> QED BY <2>2, <2>4
  <1> HIDE DEF t
  <1>16. Decode64u(t) = SubSeq(Digits(Number(known, s), o, 3 * c), 1, l)
    <2>1. (Len(t) + 3) \div 4 = c /\ (3 * Len(t)) \div 4 = l
      BY <1>3, <1>15
    <2> DEFINE chunks == (Len(t) + 3) \div 4
    <2>2. Decode64u(t) = SubSeq(Digits(Number([i \in 1..(4 * chunks) |-> IF i \in DOMAIN t /\ t[i] >= 0 THEN t[i] ELSE 0], s), o, 3 * chunks), 1, (3 * Len(t)) \div 4)
      BY DEF Decode64u, s, o
    <2>3. chunks = c
      BY <2>1
    <2> HIDE DEF chunks
    <2> QED BY <2>1, <2>2, <2>3 DEF size
  <1> HIDE DEF known
  <1>17. Decode64u(t) = data
    BY <1>5, <1>9, <1>14, <1>15, <1>16
  <1> QED BY <1>4, <1>17

---------------------------------------------------------------------------
(* Times.                                                                  *)

LEMMA RoundedTo ==
    ASSUME NEW n \in Int, NEW d \in Nat \ {0}, NEW k, k = MathRound(n, d)
    PROVE  /\ k \in Int /\ 2 * (k * d - n) \in (-d)..d
           /\ \A v \in Int : n = v * d => k = v
           /\ \A v \in Int : n < v * d => k <= v
  <1> DEFINE m == 2 * n + d
             e == 2 * d
  <1>1. k = m \div e /\ m \in Int /\ e \in Nat \ {0}
    BY DEF MathRound
  <1> HIDE DEF m, e
  <1>2. k \in Int /\ k * e <= m /\ m < (k + 1) * e
    BY <1>1, Quotient
  <1> DEFINE kd == k * d
  <1>3. kd \in Int /\ k * e = 2 * kd /\ (k + 1) * e = 2 * kd + 2 * d
    BY <1>2 DEF e
  <1>4. 2 * (kd - n) \in (-d)..d
    <2> HIDE DEF kd
    <2> QED BY <1>2, <1>3 DEF m
  <1>5. ASSUME NEW v \in Int, n <= v * d PROVE k <= v
    <2> DEFINE vd == v * d
               b == v + 1
    <2>1. vd \in Int /\ b * e = 2 * vd + 2 * d /\ b \in Int
      BY DEF e
    <2> HIDE DEF vd, kd, b
    <2>2. n <= vd
      BY <1>5 DEF vd
    <2>3. k * e < b * e
      <3> DEFINE ke == k * e
                 be == b * e
      <3>1. ke \in Int
        BY <1>1, <1>2
      <3>2. ke <= m
        BY <1>2
      <3>3. be = 2 * vd + 2 * d
        BY <2>1
      <3> HIDE DEF ke, be
      <3>4. ke < be
        BY <2>1, <2>2, <3>1, <3>2, <3>3 DEF m
      <3> QED BY <3>4 DEF ke, be
    <2>4. k < b
      BY <1>1, <1>2, <2>1, <2>3, ProductLess
    <2> QED BY <1>2, <2>4 DEF b
  <1>6. ASSUME NEW v \in Int, n = v * d PROVE k = v
    <2> DEFINE vd == v * d
               b == k + 1
    <2>1. k <= v
      <3>1. n <= v * d
        BY <1>6
      <3> QED BY <1>5, <3>1
    <2>2. v * e = 2 * vd /\ vd \in Int
      BY DEF e
    <2> HIDE DEF vd, kd
    <2>3. n = vd
      BY <1>6 DEF vd
    <2>4. b * e = 2 * kd + 2 * d /\ b \in Int
      BY <1>2, <1>3
    <2> HIDE DEF b
    <2>5. v * e < b * e
      BY <1>2, <1>3, <2>2, <2>3, <2>4 DEF m
    <2>6. v < b
      BY <1>1, <2>4, <2>5, ProductLess
    <2> QED BY <1>2, <2>1, <2>6 DEF b
  <1>7. ASSUME NEW v \in Int, n < v * d PROVE k <= v
    <2>1. n <= v * d
      BY <1>7
    <2> QED BY <1>5, <2>1
  <1> QED BY <1>2, <1>4, <1>6, <1>7 DEF kd

LEMMA RoundedExactly ==
    ASSUME NEW v \in Nat, NEW d \in Nat \ {0}
    PROVE  DivRound(v * d, d) = v /\ (v * d) \div d = v
  <1> DEFINE x == v * d
  <1>1. x \in Nat
    OBVIOUS
  <1>2. x \div d = v
    <2>1. x = d * v + 0 /\ 0 \in 0..(d - 1)
      OBVIOUS
    <2> HIDE DEF x
    <2> QED BY <1>1, <2>1, QuotientAndRest
  <1> HIDE DEF x
  <1>3. DivTrunc(x, d) = v
    BY <1>1, <1>2, DivisionIs
  <1>4. x - v * d = 0
    BY <1>1 DEF x
  <1>5. DivRound(x, d) = v
    BY <1>3, <1>4 DEF DivRound
  <1> QED BY <1>2, <1>5 DEF x

LEMMA UnitsOfTime == /\ Milli \in Nat \ {0} /\ SlotMs \in Nat \ {0} /\ EpochMs \in Nat
                     /\ \A kind \in TimeTypes : Unit(kind) \in Nat
  BY ChainTextAssumption DEF TimeTypes, Unit

LEMMA TimeIs ==
    ASSUME NEW t \in TimeValues
    PROVE  /\ t = [kind |-> t.kind, value |-> t.value] /\ t.kind \in TimeTypes /\ t.value \in Nat
           /\ t.kind # "point" => Fits(t.value, SecType)
           /\ t # Throws
           /\ ToMilliseconds(t) \in Nat
           /\ t.kind = "sec" => ToMilliseconds(t) = t.value * Milli
           /\ t.kind = "block" => ToMilliseconds(t) = t.value * SlotMs + EpochMs
           /\ TimeToString(t) = ToMilliseconds(t)
  <1>1. /\ t = [kind |-> t.kind, value |-> t.value] /\ t.kind \in TimeTypes /\ t.value \in Nat
        /\ t.kind # "point" => Fits(t.value, SecType)
    BY DEF TimeValues
  <1>2. t # Throws
    <2>1. DOMAIN t # DOMAIN Throws
      BY <1>1 DEF Throws
    <2> QED BY <2>1
  <1>3. t.kind = "sec" => ToMilliseconds(t) = t.value * Milli
    BY DEF ToMilliseconds
  <1>4. t.kind = "block" => ToMilliseconds(t) = t.value * SlotMs + EpochMs
    BY DEF ToMilliseconds
  <1>5. t.kind = "point" => ToMilliseconds(t) \in Nat
    BY <1>1, UnitsOfTime, RoundIs DEF ToMilliseconds
  <1>6. ToMilliseconds(t) \in Nat
    <2>1. t.value * Milli \in Nat /\ t.value * SlotMs + EpochMs \in Nat
      BY <1>1, UnitsOfTime
    <2> QED BY <1>1, <1>3, <1>4, <1>5, <2>1 DEF TimeTypes
  <1>7. TimeToString(t) = ToMilliseconds(t)
    BY <1>1, <1>3, UnitsOfTime, RoundedExactly DEF TimeToString
  <1> QED BY <1>1, <1>2, <1>3, <1>4, <1>6, <1>7

LEMMA TimeOf ==
    ASSUME NEW kind \in TimeTypes, NEW value, Time(kind, value) # Throws
    PROVE  /\ Time(kind, value) = [kind |-> kind, value |-> value]
           /\ kind # "point" => Fits(value, SecType)
  BY DEF Time

\* What a time becomes, given its milliseconds.
LEMMA TimeFromMs ==
    ASSUME NEW kind \in TimeTypes, NEW ms \in Nat, NEW as, as = FromMilliseconds(kind, ms), as # Throws
    PROVE  /\ as.kind = kind
           /\ ToMilliseconds(as) \in Int
           /\ kind = "point" => ToMilliseconds(as) = ms
           /\ 2 * (ToMilliseconds(as) - ms) \in -Unit(kind)..Unit(kind)
           /\ \A u \in TimeValues :
                  u.kind = kind /\ ms < ToMilliseconds(u) => ToMilliseconds(as) <= ToMilliseconds(u)
  <1>1. CASE kind = "point"
    <2>1. FromMilliseconds(kind, ms) = Time(kind, ms * Milli)
      BY <1>1 DEF FromMilliseconds
    <2>2. as = [kind |-> kind, value |-> ms * Milli]
      BY <1>1, <2>1 DEF Time
    <2>3. ToMilliseconds(as) = DivRound(ms * Milli, Milli)
      BY <1>1, <2>2 DEF ToMilliseconds
    <2>4. ToMilliseconds(as) = ms
      BY <2>3, UnitsOfTime, RoundedExactly
    <2>5. as.kind = kind
      BY <2>2
    <2> DEFINE a == ToMilliseconds(as)
    <2> HIDE DEF a
    <2>6. a = ms
      BY <2>4 DEF a
    <2>7. Unit(kind) \in Nat /\ 2 * (a - ms) = 0
      BY <2>6, UnitsOfTime
    <2>8. ASSUME NEW u \in TimeValues, ms < ToMilliseconds(u) PROVE a <= ToMilliseconds(u)
      BY <2>6, <2>8, TimeIs
    <2> QED BY <2>5, <2>6, <2>7, <2>8 DEF a
  <1>2. CASE kind = "sec"
    <2> DEFINE k == MathRound(ms, Milli)
    <2>1. as = Time(kind, k)
      BY <1>2 DEF FromMilliseconds
    <2>2. /\ k \in Int /\ 2 * (k * Milli - ms) \in (-Milli)..Milli
          /\ \A v \in Int : ms < v * Milli => k <= v
      BY UnitsOfTime, RoundedTo
    <2> HIDE DEF k
    <2>3. as = [kind |-> kind, value |-> k]
      BY <2>1, TimeOf
    <2>4. as.kind = kind /\ ToMilliseconds(as) = k * Milli
      BY <1>2, <2>3 DEF ToMilliseconds
    <2>5. Unit(kind) = Milli
      BY <1>2 DEF Unit
    <2>6. k * Milli \in Int
      BY <2>2, UnitsOfTime
    <2>7. ASSUME NEW u \in TimeValues, u.kind = kind, ms < ToMilliseconds(u)
          PROVE  k * Milli <= ToMilliseconds(u)
      <3> DEFINE v == u.value
      <3>1. v \in Int /\ ToMilliseconds(u) = v * Milli
        BY <1>2, <2>7, TimeIs
      <3> HIDE DEF v
      <3>2. k <= v
        BY <2>2, <2>7, <3>1
      <3>3. k * Milli <= v * Milli
        BY <2>2, <3>1, <3>2, UnitsOfTime, ProductGrows
      <3> QED BY <3>1, <3>3
    <2> QED BY <1>2, <2>2, <2>4, <2>5, <2>6, <2>7
  <1>3. CASE kind = "block"
    <2> DEFINE m == ms - EpochMs
               k == MathRound(m, SlotMs)
    <2>1. as = Time(kind, k)
      BY <1>3 DEF FromMilliseconds
    <2>m. m \in Int /\ ms = m + EpochMs
      BY UnitsOfTime
    <2> HIDE DEF m
    <2>2. /\ k \in Int /\ 2 * (k * SlotMs - m) \in (-SlotMs)..SlotMs
          /\ \A v \in Int : m < v * SlotMs => k <= v
      BY <2>m, UnitsOfTime, RoundedTo
    <2> HIDE DEF k
    <2>3. as = [kind |-> kind, value |-> k]
      BY <2>1, TimeOf
    <2>4. as.kind = kind /\ ToMilliseconds(as) = k * SlotMs + EpochMs
      BY <1>3, <2>3 DEF ToMilliseconds
    <2>5. Unit(kind) = SlotMs
      BY <1>3 DEF Unit
    <2> DEFINE x == k * SlotMs
    <2>6. x \in Int
      BY <2>2, UnitsOfTime
    <2>7. ASSUME NEW u \in TimeValues, u.kind = kind, ms < ToMilliseconds(u)
          PROVE  x + EpochMs <= ToMilliseconds(u)
      <3> DEFINE v == u.value
                 y == v * SlotMs
      <3>1. v \in Int /\ ToMilliseconds(u) = y + EpochMs
        BY <1>3, <2>7, TimeIs
      <3> HIDE DEF v
      <3>2. y \in Int
        BY <3>1, UnitsOfTime
      <3>3. m < y
        <4> HIDE DEF y
        <4> QED BY <2>m, <2>7, <3>1, <3>2, UnitsOfTime
      <3>4. k <= v
        BY <2>2, <3>1, <3>3
      <3>5. x <= y
        BY <2>2, <3>1, <3>4, UnitsOfTime, ProductGrows
      <3> HIDE DEF x, y
      <3> QED BY <2>6, <3>1, <3>2, <3>5, UnitsOfTime
    <2>8. 2 * (ToMilliseconds(as) - ms) \in -Unit(kind)..Unit(kind)
      <3>1. 2 * (x - m) \in (-SlotMs)..SlotMs
        BY <2>2
      <3> HIDE DEF x
      <3>2. (x + EpochMs) - ms = x - m
        BY <2>6, <2>m, UnitsOfTime
      <3>3. ToMilliseconds(as) = x + EpochMs
        BY <2>4 DEF x
      <3> QED BY <2>5, <3>1, <3>2, <3>3
    <2>9. ToMilliseconds(as) = x + EpochMs
      BY <2>4
    <2>10. ToMilliseconds(as) \in Int
      <3> HIDE DEF x
      <3> QED BY <2>6, <2>9, UnitsOfTime
    <2> HIDE DEF x
    <2> QED BY <1>3, <2>4, <2>7, <2>8, <2>9, <2>10
  <1> QED BY <1>1, <1>2, <1>3 DEF TimeTypes

\* Its own milliseconds make it a time of its own.
LEMMA TimeFromItsMs ==
    ASSUME NEW t \in TimeValues
    PROVE  /\ t.kind # "point" => FromMilliseconds(t.kind, ToMilliseconds(t)) = t
           /\ FromMilliseconds(t.kind, ToMilliseconds(t)) # Throws
           /\ FromMilliseconds(t.kind, ToMilliseconds(t)).kind = t.kind
           /\ ToMilliseconds(FromMilliseconds(t.kind, ToMilliseconds(t))) = ToMilliseconds(t)
  <1> DEFINE ms == ToMilliseconds(t)
             w == FromMilliseconds(t.kind, ms)
  <1>1. /\ t = [kind |-> t.kind, value |-> t.value] /\ t.kind \in TimeTypes /\ t.value \in Nat
        /\ t.kind # "point" => Fits(t.value, SecType)
        /\ t # Throws /\ ms \in Nat
    BY TimeIs
  <1>2. CASE t.kind = "point"
    <2>1. w = [kind |-> "point", value |-> ms * Milli]
      BY <1>2 DEF FromMilliseconds, Time
    <2> HIDE DEF w, ms
    <2>2. w # Throws
      <3>1. DOMAIN w # DOMAIN Throws
        BY <2>1 DEF Throws
      <3> QED BY <3>1
    <2>3. w.kind = "point" /\ ToMilliseconds(w) = DivRound(ms * Milli, Milli)
      BY <2>1 DEF ToMilliseconds
    <2>4. ToMilliseconds(w) = ms
      BY <1>1, <2>3, UnitsOfTime, RoundedExactly
    <2> QED BY <1>2, <2>2, <2>3, <2>4 DEF w, ms
  <1>3. CASE t.kind = "sec"
    <2>1. w = Time("sec", MathRound(ms, Milli))
      BY <1>3 DEF FromMilliseconds
    <2>2. ms = t.value * Milli
      BY <1>3, TimeIs
    <2> HIDE DEF ms
    <2>3. MathRound(ms, Milli) = t.value
      BY <1>1, <2>2, UnitsOfTime, RoundedTo
    <2>4. w = t
      BY <1>1, <1>3, <2>1, <2>3 DEF Time
    <2> QED BY <1>1, <2>4 DEF ms
  <1>4. CASE t.kind = "block"
    <2>1. w = Time("block", MathRound(ms - EpochMs, SlotMs))
      BY <1>4 DEF FromMilliseconds
    <2> DEFINE x == t.value * SlotMs
               m == ms - EpochMs
    <2>2. ms = x + EpochMs
      BY <1>4, TimeIs
    <2>3. x \in Int
      BY <1>1, UnitsOfTime
    <2>4. m = x /\ m \in Int
      <3> HIDE DEF ms, x
      <3> QED BY <2>2, <2>3, UnitsOfTime
    <2> HIDE DEF ms, m
    <2>5. MathRound(m, SlotMs) = t.value
      BY <1>1, <2>4, UnitsOfTime, RoundedTo
    <2>6. w = t
      BY <1>1, <1>4, <2>1, <2>5 DEF Time, m
    <2> QED BY <1>1, <2>6 DEF ms
  <1> QED BY <1>1, <1>2, <1>3, <1>4 DEF TimeTypes

LEMMA TimesAreConverted ==
    ASSUME NEW t \in TimeValues, NEW u \in TimeValues, NEW as, as = TimeFrom(u.kind, t)
    PROVE  /\ as # Throws =>
                  /\ 2 * (ToMilliseconds(as) - ToMilliseconds(t)) \in -Unit(u.kind)..Unit(u.kind)
                  /\ u.kind = "point" => TimeFrom(t.kind, as) = t
                  /\ ToMilliseconds(t) < ToMilliseconds(u) => ToMilliseconds(as) <= ToMilliseconds(u)
           /\ TimeEquals(t, TimeFromString(t.kind, TimeToString(t)))
  <1> DEFINE ms == ToMilliseconds(t)
             w == FromMilliseconds(t.kind, ms)
             n == ToMilliseconds(as)
  <1>1. /\ t.kind \in TimeTypes /\ u.kind \in TimeTypes /\ ms \in Nat /\ ToMilliseconds(u) \in Nat
        /\ TimeToString(t) = ms /\ Unit(u.kind) \in Nat
    BY TimeIs, UnitsOfTime
  <1>2. /\ t.kind # "point" => w = t
        /\ w # Throws /\ w.kind = t.kind /\ ToMilliseconds(w) = ms
    BY TimeFromItsMs
  <1>3. TimeEquals(t, TimeFromString(t.kind, TimeToString(t)))
    <2>1. TimeFromString(t.kind, TimeToString(t)) = w
      BY <1>1 DEF TimeFromString
    <2> HIDE DEF w, ms
    <2>2. TimeFrom(t.kind, w) = w
      BY <1>2 DEF TimeFrom
    <2>3. TimeEquals(t, w)
      BY <1>2, <2>2 DEF TimeEquals, ms
    <2> QED BY <2>1, <2>3
  <1>4. ASSUME as # Throws, u.kind = t.kind
        PROVE  /\ 2 * (n - ms) \in -Unit(u.kind)..Unit(u.kind)
               /\ u.kind = "point" => TimeFrom(t.kind, as) = t
               /\ ms < ToMilliseconds(u) => n <= ToMilliseconds(u)
    <2>1. as = t
      BY <1>4 DEF TimeFrom
    <2>2. n = ms
      BY <2>1
    <2>3. TimeFrom(t.kind, as) = t
      BY <2>1 DEF TimeFrom
    <2> HIDE DEF n, ms
    <2>4. 2 * (n - ms) = 0
      BY <1>1, <2>2
    <2> QED BY <1>1, <2>2, <2>3, <2>4
  <1>5. ASSUME as # Throws, u.kind # t.kind
        PROVE  /\ 2 * (n - ms) \in -Unit(u.kind)..Unit(u.kind)
               /\ u.kind = "point" => TimeFrom(t.kind, as) = t
               /\ ms < ToMilliseconds(u) => n <= ToMilliseconds(u)
    <2>1. as = FromMilliseconds(u.kind, ms)
      BY <1>5 DEF TimeFrom
    <2>2. /\ as.kind = u.kind
          /\ u.kind = "point" => n = ms
          /\ 2 * (n - ms) \in -Unit(u.kind)..Unit(u.kind)
          /\ \A v \in TimeValues : v.kind = u.kind /\ ms < ToMilliseconds(v) => n <= ToMilliseconds(v)
      <3> HIDE DEF ms
      <3> QED BY <1>1, <1>5, <2>1, TimeFromMs
    <2>3. ASSUME u.kind = "point" PROVE TimeFrom(t.kind, as) = t
      <3>1. TimeFrom(t.kind, as) = FromMilliseconds(t.kind, n)
        BY <1>5, <2>2 DEF TimeFrom
      <3>2. n = ms
        BY <2>2, <2>3
      <3>3. FromMilliseconds(t.kind, n) = w
        BY <3>2
      <3> QED BY <1>2, <1>5, <2>3, <3>1, <3>3
    <2> HIDE DEF n, ms
    <2> QED BY <2>2, <2>3
  <1> QED BY <1>3, <1>4, <1>5

LEMMA TimesAreRead == ASSUME input \in ChainInputs PROVE TimesConvert
  <1> SUFFICES ASSUME Is("times") PROVE input[2] \in TimeValues /\ input[3] \in TimeValues
    BY TimesAreConverted DEF TimesConvert
  <1> QED BY DEF Is, ChainInputs, IntegerInputs, PricedInputs, WrittenInputs, KeyInputs

---------------------------------------------------------------------------
(* Bytes and blocks.                                                       *)

LEMMA BlockIsRead ==
    ASSUME NEW id \in [high : Nat, low : Nat], NEW num
    PROVE  LET got == BlockNum(FromBlockChecksum(id, num))
           IN  got = Throws \/ got.num = num
  BY DEF BlockNum, FromBlockChecksum

LEMMA AllBytesAreRead == ASSUME input \in ChainInputs PROVE BytesAreRead
  <1>1. ASSUME Is("data58")
        PROVE  /\ Decode58(Encode58(input[2])) = input[2]
               /\ Decode58Sized(Encode58(input[2]), Len(input[2])) = input[2]
    <2>1. input[2] \in Seq(0..(ByteValues - 1))
      BY <1>1 DEF Is, ChainInputs, IntegerInputs, PricedInputs, WrittenInputs, KeyInputs
    <2> QED BY <2>1, Data58IsRead, SizedData58IsRead
  <1>2. ASSUME Is("text58")
        PROVE  LET bytes == Decode58(input[2])
               IN  bytes # Rejected /\ FarAlien \notin Range(input[2]) => Encode58(bytes) = input[2]
    <2>1. input[2] \in Seq({FarAlien, Alien} \cup 0..(TextBase - 1))
      BY <1>2 DEF Is, ChainInputs, IntegerInputs, PricedInputs, WrittenInputs, KeyInputs
    <2> QED BY <2>1, Text58IsRead
  <1>3. ASSUME Is("data64") PROVE Decode64u(Encode64u(input[2])) = input[2]
    <2>1. input[2] \in Seq(0..(Power(2, OctetBits) - 1))
      BY <1>3 DEF Is, ChainInputs, IntegerInputs, PricedInputs, WrittenInputs, KeyInputs
    <2> QED BY <2>1, Data64IsRead
  <1>4. ASSUME Is("block")
        PROVE  LET got == BlockNum(FromBlockChecksum(input[2], input[3]))
               IN  got = Throws \/ got.num = input[3]
    <2>1. input[2] \in [high : Nat, low : Nat]
      BY <1>4 DEF Is, ChainInputs, IntegerInputs, PricedInputs, WrittenInputs, KeyInputs
    <2> QED BY <2>1, BlockIsRead
  <1> QED BY <1>1, <1>2, <1>3, <1>4 DEF BytesAreRead

---------------------------------------------------------------------------
(* Slugs.                                                                  *)

LEMMA SlugWidths ==
    /\ SlugBase \in Nat \ {0, 1} /\ SlugSymbols \in 1..(SlugBase - 1) /\ SlugChars \in Nat \ {0}
    /\ MaxSafeInteger \in Nat
  <1>1. SlugBase \in Nat /\ SlugSymbols \in Nat
    BY ChainTextAssumption
  <1>2. SlugLetters \in 1..SlugSymbols /\ SlugSymbols < SlugBase /\ SlugChars \in Nat \ {0} /\ MaxSafeInteger \in Nat
    BY ChainTextAssumption
  <1> QED BY <1>1, <1>2

LEMMA LeastOf ==
    ASSUME NEW m \in Int, NEW T, m \in T, \A x \in T : x \in Int /\ m <= x
    PROVE  Min(T) = m
  <1> DEFINE IsLeast(x) == x \in T /\ \A y \in T : x <= y
  <1>1. Min(T) = CHOOSE x \in T : \A y \in T : x <= y
    BY DEF Min
  <1>2. IsLeast(m)
    OBVIOUS
  <1>3. IsLeast(CHOOSE x \in T : \A y \in T : x <= y)
    BY <1>2, Zenon
  <1>4. \A x : IsLeast(x) => x = m
    OBVIOUS
  <1> QED BY <1>1, <1>3, <1>4

LEMMA SlugIsRead ==
    ASSUME NEW s \in Seq(Nat), SlugFrom(s) # Refuses
    PROVE  /\ SlugFrom(s) \in Nat
           /\ SlugToString(SlugFrom(s)) = s
  <1> DEFINE b == SlugBase
             c == SlugChars
             l == Len(s)
             k == c - l
             z == Repeat(0, k)
             padded == s \o z
             n == SlugFrom(s)
             U == 0..(b - 1)
  <1>b. b \in Nat \ {0, 1} /\ b \in Nat \ {0} /\ SlugSymbols \in 1..(b - 1) /\ c \in Nat
    BY SlugWidths
  <1> HIDE DEF b, c
  <1>1. /\ ~(l > c) /\ (\A i \in DOMAIN s : s[i] \in 1..SlugSymbols)
        /\ n = Number(s, b) * Power(b, k)
    BY DEF SlugFrom, Refuses, b, c
  <1>2. l \in Nat /\ l <= c /\ k \in Nat /\ l + k = c /\ DOMAIN s = 1..l
    BY <1>1, <1>b
  <1>3. \A i \in 1..l : s[i] \in 1..SlugSymbols /\ s[i] \in U
    BY <1>1, <1>2, <1>b
  <1> HIDE DEF k, l
  <1>4. s \in Seq(U) /\ s \in Seq(Int)
    <2>1. s \in Seq(Int)
      OBVIOUS
    <2>2. s \in Seq(U)
      <3> HIDE DEF U
      <3>1. \A i \in 1..Len(s) : s[i] \in U
        BY <1>3 DEF l
      <3> QED BY <3>1, Retyped, Zenon
    <2> QED BY <2>1, <2>2
  <1>5. z \in Seq(U) /\ z \in Seq(Int) /\ Len(z) = k /\ \A i \in 1..k : z[i] = 0
    <2>1. 0 \in U
      BY <1>b
    <2> HIDE DEF U
    <2> QED BY <1>2, <2>1, ZerosAre, Zenon
  <1>6. Number(padded, b) = n
    <2>1. b \in Nat
      BY <1>b
    <2> QED BY <1>1, <1>2, <1>4, <2>1, NumberOfPadded
  <1> HIDE DEF U, z
  <1>7. padded \in Seq(U) /\ padded \in Seq(Int) /\ Len(padded) = c
    <2>1. padded \in Seq(U) /\ Len(padded) = Len(s) + Len(z)
      BY <1>4, <1>5, ConcatProperties
    <2>2. padded \in Seq(Int)
      BY <1>4, <1>5, ConcatProperties
    <2> QED BY <1>2, <1>5, <2>1, <2>2 DEF l
  <1>8. \A i \in 1..l : padded[i] = s[i]
    BY <1>2, <1>4, <1>5 DEF l
  <1>9. \A i \in 1..c : i > l => padded[i] = 0
    <2> SUFFICES ASSUME NEW i \in 1..c, i > l PROVE padded[i] = 0
      OBVIOUS
    <2> DEFINE j == i - l
    <2>1. j \in 1..k /\ i = l + j
      BY <1>2, <1>b
    <2> HIDE DEF j
    <2>2. padded[Len(s) + j] = z[j]
      BY <1>4, <1>5, <2>1, JoinedAfter
    <2>3. z[j] = 0
      BY <1>5, <2>1
    <2> QED BY <2>1, <2>2, <2>3 DEF l
  <1>10. SubSeq(padded, 1, l) = s
    BY <1>2, <1>4, <1>5 DEF l
  <1>11. n \in Nat /\ Digits(n, b, c) = padded
    <2> HIDE DEF padded
    <2>1. padded \in Seq(0..(b - 1))
      BY <1>7 DEF U
    <2>2. Number(padded, b) \in Nat
      BY <1>b, <2>1, DigitsAreOf
    <2>3. Digits(Number(padded, b), b, Len(padded)) = padded
      BY <1>b, <2>1, NumberHasDigits
    <2> QED BY <1>6, <1>7, <2>2, <2>3
  <1> DEFINE slot == Digits(n, b, c)
             ends == {i \in 1..c : slot[i] \notin 1..SlugSymbols}
             end == (IF ends = {} THEN c + 1 ELSE Min(ends)) - 1
  <1>12. SlugToString(n) = SubSeq(slot, 1, end)
    BY DEF SlugToString, b, c
  <1> HIDE DEF n, padded
  <1>13. ends = {i \in 1..c : i > l}
    <2>1. ASSUME NEW i \in 1..c PROVE slot[i] \notin 1..SlugSymbols <=> i > l
      <3>1. CASE i > l
        <4>1. slot[i] = 0
          BY <1>9, <1>11, <3>1
        <4>2. ~(0 \in 1..SlugSymbols)
          BY <1>b
        <4> QED BY <3>1, <4>1, <4>2
      <3>2. CASE ~(i > l)
        <4>1. i \in 1..l
          BY <1>2, <3>2
        <4>2. slot[i] = s[i]
          BY <1>8, <1>11, <4>1
        <4> QED BY <1>3, <3>2, <4>1, <4>2
      <3> QED BY <3>1, <3>2
    <2> QED BY <2>1
  <1> HIDE DEF ends
  <1>14. end = l
    <2>1. CASE l = c
      <3>1. ends = {}
        BY <1>13, <2>1, <1>2
      <3> QED BY <1>2, <2>1, <3>1
    <2>2. CASE l # c
      <3> DEFINE m == l + 1
      <3>1. m \in Int /\ m \in ends
        BY <1>2, <1>b, <1>13, <2>2
      <3>2. \A x \in ends : x \in Int /\ m <= x
        BY <1>2, <1>13
      <3> HIDE DEF m
      <3>3. Min(ends) = m
        BY <3>1, <3>2, LeastOf
      <3>4. ends # {}
        BY <3>1
      <3> QED BY <1>2, <3>3, <3>4 DEF m
    <2> QED BY <2>1, <2>2
  <1> HIDE DEF end, slot
  <1>15. slot = padded
    BY <1>11 DEF slot
  <1> QED BY <1>10, <1>11, <1>12, <1>14, <1>15 DEF n

\* A number in a cell is the slug it packs, if it is one that is exact.
LEMMA SlugInCells ==
    ASSUME NEW s, NEW packed \in Nat, packed = SlugFrom(s)
    PROVE  SlugValue([text |-> TRUE, value |-> s]) =
               (IF packed <= MaxSafeInteger
                THEN SlugValue([text |-> FALSE, value |-> packed]) ELSE packed)
  <1>1. SlugValue([text |-> TRUE, value |-> s]) = IF packed <= 0 THEN Refuses ELSE packed
    BY DEF SlugValue
  <1>2. MaxSafeInteger \in Nat
    BY SlugWidths
  <1>3. CASE packed <= MaxSafeInteger
    <2>1. packed \in 0..MaxSafeInteger
      BY <1>2, <1>3
    <2>2. SlugValue([text |-> FALSE, value |-> packed]) = IF packed <= 0 THEN Refuses ELSE packed
      BY <2>1 DEF SlugValue
    <2> QED BY <1>1, <1>3, <2>2
  <1>4. CASE ~(packed <= MaxSafeInteger)
    <2>1. ~(packed <= 0)
      BY <1>2, <1>4
    <2> QED BY <1>1, <1>4, <2>1
  <1> QED BY <1>3, <1>4

LEMMA PackedSlugIsRead ==
    ASSUME NEW n \in 0..(Power(SlugBase, SlugChars) - 1), SlugFrom(SlugToString(n)) # Refuses
    PROVE  SlugFrom(SlugToString(n)) <= n
  <1> DEFINE b == SlugBase
             c == SlugChars
             slot == Digits(n, b, c)
             ends == {i \in 1..c : slot[i] \notin 1..SlugSymbols}
             k == (IF ends = {} THEN c + 1 ELSE Min(ends)) - 1
             text == SubSeq(slot, 1, k)
             U == 0..(b - 1)
  <1>b. b \in Nat \ {0} /\ c \in Nat /\ Power(b, c) \in Nat \ {0}
    <2>1. b \in Nat \ {0} /\ c \in Nat
      BY SlugWidths
    <2> HIDE DEF b, c
    <2> QED BY <2>1, PowerIsPositive
  <1>n. n \in Nat /\ n < Power(b, c)
    BY <1>b
  <1>1. SlugToString(n) = text
    BY DEF SlugToString
  <1> HIDE DEF b, c
  <1>2. slot \in Seq(U) /\ slot \in Seq(Int) /\ Len(slot) = c /\ Number(slot, b) = n
    BY <1>b, <1>n, DigitsAre, DigitsAreRead
  <1> HIDE DEF slot, U
  <1>3. k \in 0..c
    <2>1. CASE ends = {}
      BY <1>b, <2>1
    <2>2. CASE ends # {}
      <3>1. PICK m \in ends : \A x \in ends : m <= x
        <4>1. ends \in SUBSET Nat
          BY <1>b
        <4> HIDE DEF ends
        <4> QED BY <2>2, <4>1, LeastNumber
      <3>2. m \in 1..c
        OBVIOUS
      <3>3. Min(ends) = m
        <4>1. m \in Int /\ \A x \in ends : x \in Int /\ m <= x
          BY <1>b, <3>1
        <4> HIDE DEF ends
        <4> QED BY <3>1, <4>1, LeastOf
      <3> HIDE DEF ends
      <3> QED BY <1>b, <2>2, <3>2, <3>3
    <2> QED BY <2>1, <2>2
  <1> HIDE DEF k
  <1>4. Len(text) = k
    BY <1>2, <1>3
  <1> HIDE DEF text
  <1> DEFINE j == c - k
             p == Power(b, j)
             q == Number(text, b)
  <1>5. SlugFrom(text) = q * p
    <2>1. SlugFrom(text) # Refuses
      BY <1>1
    <2>2. SlugFrom(text) = Number(text, b) * Power(b, c - Len(text))
      BY <2>1 DEF SlugFrom, b, c
    <2> QED BY <1>4, <2>2
  <1>6. q = n \div p
    <2>1. slot \in Seq(0..(b - 1))
      BY <1>2 DEF U
    <2>2. Number(SubSeq(slot, 1, k), b) = Number(slot, b) \div Power(b, Len(slot) - k)
      BY <1>b, <1>2, <1>3, <2>1, DigitsAreOf
    <2> QED BY <1>2, <2>2 DEF text
  <1>7. p \in Nat \ {0}
    <2>1. j \in Nat
      BY <1>b, <1>3
    <2> HIDE DEF j
    <2> QED BY <1>b, <2>1, PowerIsPositive
  <1> HIDE DEF p, q
  <1>8. q * p <= n
    BY <1>n, <1>6, <1>7, Quotient
  <1> QED BY <1>1, <1>5, <1>8

LEMMA AllSlugsAreRead == ASSUME input \in ChainInputs PROVE SlugsAreRead
  <1>1. ASSUME Is("slug")
        PROVE  LET packed == SlugFrom(input[2])
               IN  packed # Refuses =>
                       /\ SlugToString(packed) = input[2]
                       /\ SlugValue([text |-> TRUE, value |-> input[2]]) =
                              (IF packed <= MaxSafeInteger
                               THEN SlugValue([text |-> FALSE, value |-> packed]) ELSE packed)
    <2>1. input[2] \in Seq(Nat)
      BY <1>1 DEF Is, ChainInputs, IntegerInputs, PricedInputs, WrittenInputs, KeyInputs
    <2> DEFINE s == input[2]
               packed == SlugFrom(s)
    <2> HIDE DEF s
    <2>2. ASSUME packed # Refuses PROVE packed \in Nat /\ SlugToString(packed) = s
      BY <2>1, <2>2, SlugIsRead DEF s
    <2> HIDE DEF packed
    <2>3. ASSUME packed # Refuses
          PROVE  SlugValue([text |-> TRUE, value |-> s]) =
                     (IF packed <= MaxSafeInteger
                      THEN SlugValue([text |-> FALSE, value |-> packed]) ELSE packed)
      <3>1. packed \in Nat /\ packed = SlugFrom(s)
        BY <2>2, <2>3 DEF packed
      <3> QED BY <3>1, SlugInCells
    <2> QED BY <2>2, <2>3 DEF s, packed
  <1>2. ASSUME Is("packed slug")
        PROVE  LET text == SlugToString(input[2])
               IN  SlugFrom(text) # Refuses => SlugFrom(text) <= input[2]
    <2>1. input[2] \in 0..(Power(SlugBase, SlugChars) - 1)
      BY <1>2 DEF Is, ChainInputs, IntegerInputs, PricedInputs, WrittenInputs, KeyInputs
    <2> QED BY <2>1, PackedSlugIsRead
  <1> QED BY <1>1, <1>2 DEF SlugsAreRead

---------------------------------------------------------------------------
(* Names.                                                                  *)

NameBase == Power(2, CharBits)
NameRest == Power(2, RestBits)

LEMMA NameWidths ==
    /\ Whole \in Nat /\ NameBase \in Nat \ {0} /\ NameRest \in Nat \ {0}
    /\ Power(2, NameBits) = Power(NameBase, Whole) * NameRest
    /\ Power(2, NameBits) \in Nat \ {0}
  <1>1. CharBits \in Nat \ {0, 1} /\ NameBits \in Nat /\ NameBits % CharBits = CharBits - 1
    BY ChainTextAssumption
  <1> DEFINE w == NameBits \div CharBits
             r == CharBits - 1
             m == CharBits * w
  <1>2. w \in Nat /\ r \in Nat /\ NameBits = m + r /\ m \in Nat
    <2>1. w \in Nat
      BY <1>1
    <2>2. NameBits = CharBits * w + (NameBits % CharBits)
      BY <1>1, Divided
    <2>3. m \in Nat
      <3> HIDE DEF w
      <3> QED BY <1>1, <2>1
    <2> QED BY <1>1, <2>1, <2>2, <2>3
  <1> HIDE DEF w, r
  <1>3. Power(Power(2, CharBits), w) = Power(2, m)
    BY <1>1, <1>2, PowersMultiply
  <1> HIDE DEF m
  <1>4. Power(2, m + r) = Power(2, m) * Power(2, r)
    BY <1>2, PowersAdd
  <1>5. /\ Power(2, CharBits) \in Nat \ {0} /\ Power(2, r) \in Nat \ {0}
        /\ Power(2, NameBits) \in Nat \ {0}
    <2>1. 2 \in Nat \ {0} /\ CharBits \in Nat
      BY <1>1
    <2> QED BY <1>1, <1>2, <2>1, PowerIsPositive
  <1>6. Whole = w /\ NameBase = Power(2, CharBits) /\ NameRest = Power(2, r)
    BY DEF Whole, NameBase, NameRest, RestBits, w, r
  <1> QED BY <1>2, <1>3, <1>4, <1>5, <1>6

\* All characters of a packed name, and those that are written.
AllOf(n) == Append(Digits(n \div NameRest, NameBase, Whole), n % NameRest)

IsTrimmed(t, all, k) ==
    /\ k \in 0..Len(all) /\ t = SubSeq(all, 1, k)
    /\ k > 0 => all[k] # Dot
    /\ \A i \in 1..Len(all) : i > k => all[i] = Dot

LEMMA TrimmedExists ==
    ASSUME NEW all \in Seq(Int)
    PROVE  \E k : k \in 0..Len(all) /\ (k > 0 => all[k] # Dot)
                  /\ \A i \in 1..Len(all) : i > k => all[i] = Dot
  <1> DEFINE l == Len(all)
             Good == {k \in 0..l : \A i \in 1..l : i > k => all[i] = Dot}
  <1>1. l \in Nat
    OBVIOUS
  <1> HIDE DEF l
  <1>2. Good # {} /\ Good \in SUBSET Nat
    <2>1. \A i \in 1..l : ~(i > l)
      BY <1>1
    <2>2. l \in 0..l
      BY <1>1
    <2>3. l \in Good
      BY <2>1, <2>2
    <2>4. Good \subseteq 0..l
      OBVIOUS
    <2> HIDE DEF Good
    <2> QED BY <1>1, <2>3, <2>4
  <1> HIDE DEF Good
  <1>3. PICK k \in Good : \A m \in Good : k <= m
    BY <1>2, LeastNumber
  <1>4. k \in 0..l /\ \A i \in 1..l : i > k => all[i] = Dot
    BY <1>3 DEF Good
  <1>5. ASSUME k > 0, all[k] = Dot PROVE FALSE
    <2> DEFINE m == k - 1
    <2>1. m \in 0..l /\ ~(k <= m)
      BY <1>1, <1>4, <1>5
    <2>2. \A i \in 1..l : i > m => all[i] = Dot
      BY <1>1, <1>4, <1>5
    <2> HIDE DEF m
    <2>3. m \in Good
      BY <2>1, <2>2 DEF Good
    <2> QED BY <1>3, <2>1, <2>3
  <1> QED BY <1>4, <1>5 DEF l

LEMMA PrefixIs ==
    ASSUME NEW all \in Seq(Int), NEW k \in 0..Len(all)
    PROVE  /\ Len(SubSeq(all, 1, k)) = k /\ SubSeq(all, 1, k) \in Seq(Int)
           /\ \A i \in 1..k : SubSeq(all, 1, k)[i] = all[i]
           /\ k > 0 => Last(SubSeq(all, 1, k)) = all[k]
           /\ k > 0 <=> SubSeq(all, 1, k) # <<>>
  BY DEF Last

\* What is written is chosen; there is one such text, that of any choice.
Written(s, all) ==
    /\ s # <<>> => Last(s) # Dot
    /\ \A i \in (Len(s) + 1)..Len(all) : all[i] = Dot

LEMMA ChosenIsTrimmed ==
    ASSUME NEW all \in Seq(Int)
    PROVE  \E k : IsTrimmed(CHOOSE s \in {SubSeq(all, 1, j) : j \in 0..Len(all)} : Written(s, all), all, k)
  <1> DEFINE T == {SubSeq(all, 1, j) : j \in 0..Len(all)}
             t == CHOOSE s \in T : Written(s, all)
  <1>1. \E s \in T : Written(s, all)
    <2>1. PICK k : /\ k \in 0..Len(all) /\ (k > 0 => all[k] # Dot)
                   /\ \A i \in 1..Len(all) : i > k => all[i] = Dot
      BY TrimmedExists
    <2> DEFINE s == SubSeq(all, 1, k)
    <2>2. Len(s) = k /\ (s # <<>> => k > 0 /\ Last(s) = all[k])
      BY <2>1, PrefixIs
    <2>3. s \in T
      BY <2>1
    <2> HIDE DEF s, T
    <2>4. Written(s, all)
      BY <2>1, <2>2 DEF Written
    <2> QED BY <2>3, <2>4
  <1>2. t \in T /\ Written(t, all)
    <2> HIDE DEF T
    <2> QED BY <1>1, Zenon
  <1> HIDE DEF t
  <1>3. PICK k \in 0..Len(all) : t = SubSeq(all, 1, k)
    BY <1>2
  <1>4. Len(t) = k /\ (k > 0 => t # <<>> /\ Last(t) = all[k])
    BY <1>3, PrefixIs
  <1>5. IsTrimmed(t, all, k)
    BY <1>2, <1>3, <1>4 DEF Written, IsTrimmed
  <1> QED BY <1>5 DEF t

LEMMA NameToStringIs ==
    ASSUME NEW n
    PROVE  NameToString(n) =
               CHOOSE s \in {SubSeq(AllOf(n), 1, k) : k \in 0..Len(AllOf(n))} : Written(s, AllOf(n))
  BY Zenon DEF NameToString, AllOf, Written, NameBase, NameRest

LEMMA AllOfIs ==
    ASSUME NEW n \in Int
    PROVE  /\ AllOf(n) \in Seq(Int) /\ Len(AllOf(n)) = Whole + 1
           /\ \A i \in 1..(Whole + 1) : AllOf(n)[i] >= 0
           /\ AllOf(n)[Whole + 1] = n % NameRest /\ n % NameRest < NameRest /\ n % NameRest \in Nat
           /\ SubSeq(AllOf(n), 1, Whole) = Digits(n \div NameRest, NameBase, Whole)
  <1> DEFINE q == n \div NameRest
             r == n % NameRest
             d == Digits(q, NameBase, Whole)
             all == Append(d, r)
  <1>1. Whole \in Nat /\ NameBase \in Nat \ {0} /\ NameRest \in Nat \ {0}
    BY NameWidths
  <1>2. q \in Int /\ r \in 0..(NameRest - 1) /\ r \in Int
    BY <1>1, Divided
  <1>3. r >= 0 /\ r < NameRest /\ r \in Nat
    BY <1>1, <1>2
  <1> HIDE DEF q, r
  <1>4. d \in Seq(Int) /\ Len(d) = Whole
    BY <1>1, <1>2, DigitsAreInts
  <1>5. \A i \in 1..Whole : d[i] >= 0
    <2>1. d \in Seq(0..(NameBase - 1))
      BY <1>1, <1>2, DigitsAre, Zenon
    <2> HIDE DEF d
    <2>2. \A i \in 1..Len(d) : d[i] \in 0..(NameBase - 1)
      BY <2>1, Elements, Zenon
    <2> QED BY <1>1, <1>4, <2>2
  <1> HIDE DEF d
  <1>6. all \in Seq(Int) /\ Len(all) = Whole + 1 /\ all[Whole + 1] = r
    BY <1>1, <1>2, <1>4
  <1>7. \A i \in 1..(Whole + 1) : all[i] >= 0
    BY <1>1, <1>3, <1>4, <1>5
  <1>8. SubSeq(all, 1, Whole) = d
    BY <1>1, <1>2, <1>4
  <1>9. AllOf(n) = all
    BY DEF AllOf, q, r, d
  <1> HIDE DEF all
  <1> QED BY <1>3, <1>6, <1>7, <1>8, <1>9 DEF q, r, d

\* Whatever is packed, its text is one that could be.
LEMMA NameIsCanonical ==
    ASSUME NEW n \in Int
    PROVE  /\ \E k : IsTrimmed(NameToString(n), AllOf(n), k)
           /\ CanonicalName(NameToString(n))
  <1> DEFINE all == AllOf(n)
             t == NameToString(n)
  <1>1. /\ all \in Seq(Int) /\ Len(all) = Whole + 1
        /\ \A i \in 1..(Whole + 1) : all[i] >= 0
        /\ all[Whole + 1] < NameRest
        /\ Whole \in Nat
    BY AllOfIs, NameWidths
  <1>2. t = CHOOSE s \in {SubSeq(all, 1, k) : k \in 0..Len(all)} : Written(s, all)
    BY NameToStringIs
  <1> HIDE DEF all, t
  <1>3. PICK k : IsTrimmed(t, all, k)
    BY <1>1, <1>2, ChosenIsTrimmed
  <1>4. k \in 0..Len(all) /\ t = SubSeq(all, 1, k) /\ (k > 0 => all[k] # Dot)
    BY <1>3 DEF IsTrimmed
  <1>5. /\ Len(t) = k /\ t \in Seq(Int) /\ \A i \in 1..k : t[i] = all[i]
        /\ k > 0 => Last(t) = all[k]
        /\ k > 0 <=> t # <<>>
    BY <1>1, <1>4, PrefixIs
  <1>6. Len(t) <= Whole + 1
    BY <1>1, <1>4, <1>5
  <1>7. \A i \in DOMAIN t : t[i] >= 0
    <2> SUFFICES ASSUME NEW i \in DOMAIN t PROVE t[i] >= 0
      OBVIOUS
    <2>1. i \in 1..k /\ i \in 1..(Whole + 1)
      BY <1>1, <1>4, <1>5
    <2> QED BY <1>1, <1>5, <2>1
  <1>8. Len(t) = Whole + 1 => Last(t) < NameRest
    BY <1>1, <1>5
  <1>9. t # <<>> => Last(t) # Dot
    BY <1>4, <1>5
  <1>10. CanonicalName(t)
    BY <1>6, <1>7, <1>8, <1>9 DEF CanonicalName, NameRest
  <1> QED BY <1>3, <1>10 DEF t, all

\* What is packed: each character, or a dot.
SymbolAt(s, i) == IF i \in DOMAIN s /\ s[i] >= 0 THEN s[i] ELSE Dot
PackedOf(symbol) == Number(SubSeq(symbol, 1, Whole), NameBase) * NameRest + (symbol[Whole + 1] % NameRest)

LEMMA StringToNameIs ==
    ASSUME NEW s
    PROVE  StringToName(s) = PackedOf([i \in 1..(Whole + 1) |-> SymbolAt(s, i)])
  BY DEF StringToName, PackedOf, SymbolAt, NameBase, NameRest

LEMMA PackedIsInt ==
    ASSUME NEW s \in Seq(Int)
    PROVE  StringToName(s) \in Int
  <1> DEFINE symbol == [i \in 1..(Whole + 1) |-> SymbolAt(s, i)]
  <1>1. Whole \in Nat /\ NameBase \in Nat \ {0} /\ NameRest \in Nat \ {0}
    BY NameWidths
  <1>2. \A i \in 1..(Whole + 1) : SymbolAt(s, i) \in Int
    BY <1>1 DEF SymbolAt, Dot
  <1>3. symbol \in [1..(Whole + 1) -> Int]
    BY <1>2
  <1>4. StringToName(s) = PackedOf(symbol)
    BY StringToNameIs
  <1> HIDE DEF symbol
  <1>5. symbol \in Seq(Int) /\ Len(symbol) = Whole + 1 /\ symbol[Whole + 1] \in Int
    BY <1>1, <1>3
  <1> DEFINE h == SubSeq(symbol, 1, Whole)
             x == symbol[Whole + 1]
  <1>6. h \in Seq(Int)
    BY <1>1, <1>5
  <1>7. x % NameRest \in Int
    BY <1>1, <1>5, Divided
  <1> HIDE DEF h
  <1>8. Number(h, NameBase) \in Int
    BY <1>1, <1>6, NumberIsRead
  <1>9. PackedOf(symbol) = Number(h, NameBase) * NameRest + (x % NameRest)
    BY DEF PackedOf, h
  <1> HIDE DEF x
  <1> QED BY <1>1, <1>4, <1>7, <1>8, <1>9

\* A packed name is read back from its text.
LEMMA PackedNameIsRead ==
    ASSUME NEW n \in 0..(Power(2, NameBits) - 1)
    PROVE  StringToName(NameToString(n)) = n
  <1> DEFINE all == AllOf(n)
             t == NameToString(n)
             symbol == [i \in 1..(Whole + 1) |-> SymbolAt(t, i)]
             q == n \div NameRest
             r == n % NameRest
  <1>1. Whole \in Nat /\ NameBase \in Nat \ {0} /\ NameRest \in Nat \ {0}
    BY NameWidths
  <1>2. n \in Nat /\ n < Power(NameBase, Whole) * NameRest /\ n \in Int
    BY NameWidths
  <1>3. /\ all \in Seq(Int) /\ Len(all) = Whole + 1
        /\ \A i \in 1..(Whole + 1) : all[i] >= 0
        /\ all[Whole + 1] = r /\ r < NameRest /\ r \in Nat
        /\ SubSeq(all, 1, Whole) = Digits(q, NameBase, Whole)
    BY <1>2, AllOfIs, Zenon
  <1>4. PICK k : IsTrimmed(t, all, k)
    BY <1>2, NameIsCanonical
  <1>5. StringToName(t) = PackedOf(symbol)
    BY StringToNameIs
  <1> HIDE DEF all, t
  <1>6. /\ k \in 0..Len(all) /\ t = SubSeq(all, 1, k)
        /\ \A i \in 1..Len(all) : i > k => all[i] = Dot
    BY <1>4 DEF IsTrimmed
  <1>7. Len(t) = k /\ t \in Seq(Int) /\ \A i \in 1..k : t[i] = all[i]
    BY <1>3, <1>6, PrefixIs
  <1>8. DOMAIN t = 1..k
    BY <1>7
  <1>9. ASSUME NEW i \in 1..(Whole + 1) PROVE symbol[i] = all[i]
    <2>1. CASE i \in 1..k
      BY <1>3, <1>7, <1>8, <2>1 DEF SymbolAt
    <2>2. CASE i \notin 1..k
      <3>1. i > k /\ i \in 1..Len(all)
        BY <1>1, <1>3, <1>6, <2>2
      <3>2. all[i] = Dot
        BY <1>6, <3>1
      <3>3. SymbolAt(t, i) = Dot
        BY <1>8, <2>2 DEF SymbolAt
      <3> QED BY <3>2, <3>3
    <2> QED BY <2>1, <2>2
  <1>10. symbol = all
    <2>1. \A i \in 1..(Whole + 1) : symbol[i] \in Int
      BY <1>1, <1>3, <1>9
    <2>2. symbol \in [1..(Whole + 1) -> Int]
      BY <2>1
    <2> HIDE DEF symbol
    <2> DEFINE l == Whole + 1
    <2>3. l \in Nat
      BY <1>1
    <2> HIDE DEF l
    <2>4. symbol \in Seq(Int) /\ Len(symbol) = l
      BY <2>2, <2>3 DEF l
    <2>5. Len(all) = l /\ \A i \in 1..l : symbol[i] = all[i]
      BY <1>3, <1>9 DEF l
    <2> QED BY <1>3, <2>3, <2>4, <2>5, SameList
  <1> HIDE DEF symbol
  <1>11. PackedOf(all) = Number(Digits(q, NameBase, Whole), NameBase) * NameRest + (r % NameRest)
    BY <1>3 DEF PackedOf
  <1>12. q \in Nat /\ q < Power(NameBase, Whole)
    <2> DEFINE p == Power(NameBase, Whole)
    <2>1. p \in Nat
      BY <1>1, PowerIsPositive
    <2> HIDE DEF p
    <2>2. q \in Int /\ q * NameRest <= n /\ n < (q + 1) * NameRest
      BY <1>1, <1>2, Quotient
    <2> HIDE DEF q
    <2>3. q * NameRest < p * NameRest
      <3> DEFINE x == q * NameRest
                 y == p * NameRest
      <3>1. x \in Int /\ y \in Int /\ x <= n /\ n < y
        BY <1>1, <1>2, <2>1, <2>2 DEF p
      <3> HIDE DEF x, y
      <3>2. x < y
        BY <1>2, <3>1
      <3> QED BY <3>2 DEF x, y
    <2>4. q < p
      BY <1>1, <2>1, <2>2, <2>3, ProductLess
    <2>5. 0 <= q
      BY <1>1, <1>2, QuotientAtLeast DEF q
    <2> QED BY <2>2, <2>4, <2>5 DEF p
  <1>13. n = NameRest * q + r
    <2> HIDE DEF all, symbol, t
    <2> QED BY <1>1, <1>2, Divided, Zenon
  <1> HIDE DEF q, r
  <1>14. r % NameRest = r
    <2>1. r \in 0..(NameRest - 1) /\ r \in Int
      BY <1>1, <1>3
    <2> QED BY <1>1, <2>1, SmallRest, Zenon
  <1>15. Number(Digits(q, NameBase, Whole), NameBase) = q
    BY <1>1, <1>12, DigitsAreRead
  <1>16. PackedOf(all) = n
    BY <1>1, <1>11, <1>12, <1>13, <1>14, <1>15
  <1> QED BY <1>5, <1>10, <1>16 DEF t

LEMMA AllNamesAreRead == ASSUME input \in ChainInputs PROVE NamesAreRead
  <1>1. ASSUME Is("name")
        PROVE  IsValidName(input[2]) <=> NameToString(StringToName(input[2])) = input[2]
    <2>1. input[2] \in Seq(Int)
      BY <1>1 DEF Is, ChainInputs, IntegerInputs, PricedInputs, WrittenInputs, KeyInputs
    <2>2. StringToName(input[2]) \in Int
      BY <2>1, PackedIsInt
    <2>3. CanonicalName(NameToString(StringToName(input[2])))
      BY <2>2, NameIsCanonical
    <2> QED BY <2>3 DEF IsValidName
  <1>2. ASSUME Is("packed name")
        PROVE  /\ IsValidName(NameToString(input[2]))
               /\ StringToName(NameToString(input[2])) = input[2]
    <2>1. input[2] \in 0..(Power(2, NameBits) - 1)
      BY <1>2 DEF Is, ChainInputs, IntegerInputs, PricedInputs, WrittenInputs, KeyInputs
    <2>2. StringToName(NameToString(input[2])) = input[2]
      BY <2>1, PackedNameIsRead
    <2>3. input[2] \in Int
      BY <2>1, NameWidths
    <2>4. CanonicalName(NameToString(input[2]))
      BY <2>3, NameIsCanonical
    <2> QED BY <2>2, <2>4 DEF IsValidName
  <1> QED BY <1>1, <1>2 DEF NamesAreRead

---------------------------------------------------------------------------
(* Symbols.                                                                *)

LEMMA ReverseIs ==
    ASSUME NEW s \in Seq(Int)
    PROVE  /\ Reverse(s) \in Seq(Int) /\ Len(Reverse(s)) = Len(s)
           /\ \A i \in 1..Len(s) : Reverse(s)[i] = s[(Len(s) - i) + 1]
  <1> DEFINE l == Len(s)
             r == [i \in 1..l |-> s[(l - i) + 1]]
  <1>1. l \in Nat /\ \A i \in 1..l : s[i] \in Int
    OBVIOUS
  <1>2. Reverse(s) = r
    BY DEF Reverse
  <1> HIDE DEF l
  <1>3. \A i \in 1..l : (l - i) + 1 \in 1..l
    BY <1>1
  <1>4. r \in [1..l -> Int]
    BY <1>1, <1>3
  <1>5. \A i \in 1..l : r[i] = s[(l - i) + 1]
    OBVIOUS
  <1> HIDE DEF r
  <1>6. r \in Seq(Int) /\ Len(r) = l
    BY <1>1, <1>4
  <1> QED BY <1>2, <1>5, <1>6 DEF l

LEMMA ReversedTwice ==
    ASSUME NEW s \in Seq(Int)
    PROVE  Reverse(Reverse(s)) = s
  <1> DEFINE l == Len(s)
             r == Reverse(s)
             t == Reverse(r)
  <1>1. r \in Seq(Int) /\ Len(r) = l /\ \A i \in 1..l : r[i] = s[(l - i) + 1]
    BY ReverseIs
  <1> HIDE DEF r
  <1>2. t \in Seq(Int) /\ Len(t) = l /\ \A i \in 1..l : t[i] = r[(l - i) + 1]
    <2>1. t \in Seq(Int) /\ Len(t) = Len(r) /\ \A i \in 1..Len(r) : t[i] = r[(Len(r) - i) + 1]
      BY <1>1, ReverseIs, Zenon
    <2> HIDE DEF l, t
    <2> QED BY <1>1, <2>1
  <1> HIDE DEF t
  <1>3. l \in Nat
    OBVIOUS
  <1> HIDE DEF l
  <1>4. ASSUME NEW i \in 1..l PROVE t[i] = s[i]
    <2> DEFINE j == (l - i) + 1
    <2>1. j \in 1..l /\ (l - j) + 1 = i
      BY <1>3
    <2>2. t[i] = r[j]
      BY <1>2
    <2> HIDE DEF j
    <2>3. r[j] = s[(l - j) + 1]
      BY <1>1, <2>1
    <2> QED BY <2>1, <2>2, <2>3
  <1>5. t = s
    BY <1>2, <1>3, <1>4, SameList DEF l
  <1> QED BY <1>5 DEF t, r

\* The lowest digit comes first of a reversed number.
LEMMA TailOfReversed ==
    ASSUME NEW s \in Seq(Int), NEW l \in Nat, Len(s) = l + 1
    PROVE  /\ SubSeq(s, 1, l) \in Seq(Int) /\ Len(SubSeq(s, 1, l)) = l
           /\ Tail(Reverse(s)) = Reverse(SubSeq(s, 1, l))
  <1> DEFINE h == SubSeq(s, 1, l)
             r == Reverse(s)
             t == Tail(r)
             u == Reverse(h)
  <1>1. h \in Seq(Int) /\ Len(h) = l /\ \A i \in 1..l : h[i] = s[i]
    OBVIOUS
  <1>2. r \in Seq(Int) /\ Len(r) = l + 1 /\ \A i \in 1..(l + 1) : r[i] = s[((l + 1) - i) + 1]
    BY ReverseIs
  <1> HIDE DEF h, r
  <1>3. u \in Seq(Int) /\ Len(u) = l /\ \A i \in 1..l : u[i] = h[(l - i) + 1]
    BY <1>1, ReverseIs
  <1>4. t \in Seq(Int) /\ Len(t) = l /\ \A i \in 1..l : t[i] = r[i + 1]
    BY <1>2
  <1> HIDE DEF t, u
  <1>5. ASSUME NEW i \in 1..l PROVE t[i] = u[i]
    <2> DEFINE j == (l - i) + 1
    <2>1. j \in 1..l /\ i + 1 \in 1..(l + 1) /\ ((l + 1) - (i + 1)) + 1 = j
      OBVIOUS
    <2>2. u[i] = h[j] /\ h[j] = s[j]
      BY <1>1, <1>3, <2>1
    <2> HIDE DEF j
    <2> DEFINE k == i + 1
    <2>3. t[i] = r[k] /\ k \in 1..(l + 1) /\ ((l + 1) - k) + 1 = j
      BY <1>4, <2>1
    <2> HIDE DEF k
    <2>4. r[k] = s[j]
      BY <1>2, <2>3
    <2> QED BY <2>2, <2>3, <2>4
  <1>6. t = u
    BY <1>3, <1>4, <1>5, SameList
  <1> QED BY <1>1, <1>6 DEF t, u, h, r

LEMMA LastDigit ==
    ASSUME NEW b \in Nat \ {0}, NEW d \in Seq(0..(b - 1)), NEW l \in Nat, Len(d) = l + 1
    PROVE  /\ Number(SubSeq(d, 1, l), b) \in Nat /\ d[l + 1] \in 0..(b - 1)
           /\ Number(d, b) = b * Number(SubSeq(d, 1, l), b) + d[l + 1]
  <1> DEFINE n == Number(d, b)
             h == Number(SubSeq(d, 1, l), b)
  <1>1. /\ n \in Nat
        /\ h = n \div Power(b, Len(d) - l)
        /\ d[l + 1] = (n \div Power(b, Len(d) - (l + 1))) % b
    <2>1. l \in 0..Len(d) /\ l + 1 \in 1..Len(d)
      OBVIOUS
    <2> QED BY <2>1, DigitsAreOf
  <1>2. Power(b, 0) = 1 /\ Power(b, 1) = b
    <2>1. Power(b, 0 + 1) = b * Power(b, 0) /\ Power(b, 0) = 1
      BY PowerIs
    <2> QED BY <2>1
  <1>3. Len(d) - l = 1 /\ Len(d) - (l + 1) = 0
    OBVIOUS
  <1> HIDE DEF n, h
  <1>4. h = n \div b /\ d[l + 1] = n % b
    <2>1. n \div 1 = n
      BY <1>1
    <2> QED BY <1>1, <1>2, <1>3, <2>1
  <1>5. n \div b \in Nat /\ n % b \in 0..(b - 1) /\ n = b * (n \div b) + (n % b)
    <2>1. n \in Int
      BY <1>1
    <2>2. n % b \in 0..(b - 1) /\ n = b * (n \div b) + (n % b)
      BY <2>1, Divided, Zenon
    <2>3. n \div b \in Nat
      BY <1>1, QuotientIsLess, Zenon
    <2> QED BY <2>2, <2>3
  <1> QED BY <1>4, <1>5 DEF n, h

LEMMA SymbolWidths ==
    /\ ByteValues \in Nat \ {0, 1} /\ MaxPrecision \in 0..(ByteValues - 1) /\ CodeLength \in Nat
    /\ CodeLetters \subseteq 1..(ByteValues - 1)
  <1>1. ByteValues \in Nat /\ CodeLength \in Nat
    BY ChainTextAssumption
  <1> QED BY <1>1, Bases, ChainTextAssumption DEF BasesAre

\* A number in bytes: the lowest one, and a text of the others.
LEMMA SymbolIsOf ==
    ASSUME NEW raw \in Nat
    PROVE  /\ Reverse(SymbolName(raw)) \in Seq(Int)
           /\ ToRawSymbolCode(SymbolName(raw)) * ByteValues + SymbolPrecision(raw) = raw
           /\ SymbolPrecision(raw) \in 0..(ByteValues - 1)
           /\ raw = 0 => SymbolName(raw) = <<>>
  <1> DEFINE b == ByteValues
             len == WrittenLength(raw, b)
             l == len - 1
             d == Digits(raw, b, len)
             h == SubSeq(d, 1, l)
             name == SymbolName(raw)
  <1>b. b \in Nat \ {0, 1} /\ b \in Nat \ {0}
    BY SymbolWidths
  <1> HIDE DEF b
  <1>1. len \in Nat \ {0} /\ raw < Power(b, len) /\ (raw = 0 => len = 1)
    <2>1. raw = 0 => len = 1
      BY DEF WrittenLength
    <2> QED BY <1>b, <2>1, WrittenLengthIs
  <1> HIDE DEF len
  <1>2. l \in Nat /\ len = l + 1 /\ len \in Nat
    BY <1>1
  <1>3. d \in Seq(0..(b - 1)) /\ d \in Seq(Int) /\ Len(d) = len /\ Number(d, b) = raw
    BY <1>1, <1>2, <1>b, DigitsAre, DigitsAreRead
  <1>4. name = Tail(Reverse(d))
    BY DEF SymbolName, CharsOf, b, len
  <1> HIDE DEF d, l, name
  <1>5. h \in Seq(Int) /\ Len(h) = l /\ name = Reverse(h)
    BY <1>2, <1>3, <1>4, TailOfReversed
  <1>6. /\ Number(h, b) \in Nat /\ d[l + 1] \in 0..(b - 1)
        /\ Number(d, b) = b * Number(h, b) + d[l + 1]
    BY <1>2, <1>3, <1>b, LastDigit
  <1> HIDE DEF h
  <1>7. Reverse(name) = h
    BY <1>5, ReversedTwice
  <1>8. ToRawSymbolCode(name) = Number(h, b)
    BY <1>7 DEF ToRawSymbolCode, b
  <1>9. SymbolPrecision(raw) = d[l + 1]
    <2> DEFINE q == Number(h, b)
               r == d[l + 1]
    <2>1. q \in Int /\ r \in 0..(b - 1) /\ raw = b * q + r /\ raw \in Int
      BY <1>3, <1>6
    <2> HIDE DEF q, r
    <2>2. raw % b = r
      BY <1>b, <2>1, QuotientAndRest, Zenon
    <2>3. raw % b = d[l + 1]
      BY <2>2 DEF r
    <2> QED BY <2>3 DEF SymbolPrecision, b
  <1>10. raw = 0 => name = <<>>
    <2> SUFFICES ASSUME raw = 0 PROVE name = <<>>
      OBVIOUS
    <2>1. l = 0
      BY <1>1, <1>2
    <2>2. name \in Seq(Int) /\ Len(name) = 0
      BY <1>5, <2>1, ReverseIs
    <2> QED BY <2>2
  <1>11. Number(h, b) * b + d[l + 1] = raw
    <2>1. Number(h, b) * b = b * Number(h, b)
      BY <1>6, <1>b
    <2> QED BY <1>3, <1>6, <2>1
  <1> QED BY <1>5, <1>6, <1>7, <1>8, <1>9, <1>10, <1>11 DEF name, b

LEMMA SymbolIsRead ==
    ASSUME NEW raw \in Nat, MakesSymbol(raw)
    PROVE  SymbolFromParts(SymbolName(raw), SymbolPrecision(raw)) = raw
  <1>1. SymbolPrecision(raw) <= MaxPrecision
    BY DEF MakesSymbol
  <1>2. IsCode(SymbolName(raw))
    <2>1. CASE raw # 0
      BY <2>1 DEF MakesSymbol
    <2>2. CASE raw = 0
      <3>1. SymbolName(raw) = <<>>
        BY <2>2, SymbolIsOf
      <3> QED BY <3>1, SymbolWidths DEF IsCode
    <2> QED BY <2>1, <2>2
  <1>3. ToRawSymbolCode(SymbolName(raw)) * ByteValues + SymbolPrecision(raw) = raw
    BY SymbolIsOf
  <1> QED BY <1>1, <1>2, <1>3 DEF SymbolFromParts

LEMMA SymbolCodeIsRead ==
    ASSUME NEW raw \in Nat, MakesSymbolCode(raw), raw # 0
    PROVE  SymbolCodeFrom(SymbolCodeName(raw)) = raw
  <1> DEFINE b == ByteValues
             len == WrittenLength(raw, b)
             d == Digits(raw, b, len)
             name == SymbolCodeName(raw)
  <1>b. b \in Nat \ {0, 1} /\ b \in Nat \ {0}
    BY SymbolWidths
  <1> HIDE DEF b
  <1>1. len \in Nat /\ raw < Power(b, len)
    BY <1>b, WrittenLengthIs
  <1> HIDE DEF len
  <1>2. d \in Seq(Int) /\ Number(d, b) = raw
    BY <1>1, <1>b, DigitsAre, DigitsAreRead
  <1>3. name = Reverse(d)
    BY DEF SymbolCodeName, CharsOf, b, len
  <1>4. IsCode(name)
    BY DEF MakesSymbolCode
  <1> HIDE DEF name, d
  <1>5. Reverse(name) = d
    BY <1>2, <1>3, ReversedTwice
  <1>6. SymbolCodeFrom(name) = raw
    BY <1>2, <1>4, <1>5 DEF SymbolCodeFrom, ToRawSymbolCode, b
  <1> QED BY <1>6 DEF name

LEMMA AssetIsRead ==
    ASSUME NEW raw \in Nat, MakesSymbol(raw), NEW units \in Int
    PROVE  LET worth == [units |-> units, symbol |-> raw]
           IN  AssetFromString(AssetToString(worth)) = worth
  <1> DEFINE p == SymbolPrecision(raw)
             name == SymbolName(raw)
             quantity == FormatUnits(units, p)
             worth == [units |-> units, symbol |-> raw]
             text == [quantity |-> quantity, name |-> name]
  <1>1. AssetToString(worth) = text
    BY DEF AssetToString
  <1>2. ParseUnits(quantity) = [units |-> units, precision |-> p]
    <2>1. p \in Nat
      BY SymbolIsOf, SymbolWidths
    <2> HIDE DEF p
    <2> QED BY <2>1, AmountIsRead
  <1>3. SymbolFromParts(name, p) = raw
    BY SymbolIsRead
  <1> HIDE DEF quantity, p, name
  <1>4. text.quantity = quantity /\ text.name = name
    OBVIOUS
  <1> HIDE DEF text
  <1>5. raw # Refuses
    BY DEF Refuses
  <1>6. ParseUnits(quantity).precision = p /\ ParseUnits(quantity).units = units
    BY <1>2
  <1>7. AssetFromString(text) = worth
    BY <1>3, <1>4, <1>5, <1>6 DEF AssetFromString
  <1> QED BY <1>1, <1>7

\* The lowest byte and the letters are all there is.
LEMMA PartsOfSymbol ==
    ASSUME NEW name \in Seq(Nat), NEW p \in Nat, IsCode(name), p <= MaxPrecision,
           NEW raw, raw = SymbolFromParts(name, p)
    PROVE  /\ raw \in Nat /\ SymbolPrecision(raw) = p /\ SymbolName(raw) = name
  <1> DEFINE b == ByteValues
             l == Len(name)
             h == Reverse(name)
             d == h \o <<p>>
             n == Number(d, b)
             U == 0..(b - 1)
             z == WrittenLength(raw, b)
  <1>b. b \in Nat \ {0, 1} /\ b \in Nat \ {0} /\ b \in Nat
    BY SymbolWidths
  <1>1. \A i \in 1..l : name[i] \in U /\ name[i] # 0
    <2>1. \A i \in 1..l : name[i] \in CodeLetters
      BY DEF IsCode
    <2> QED BY <2>1, SymbolWidths
  <1>2. p \in U
    BY SymbolWidths
  <1>3. raw = Number(h, b) * b + p
    BY DEF SymbolFromParts, ToRawSymbolCode
  <1> HIDE DEF b, U
  <1>4. l \in Nat /\ name \in Seq(Int)
    OBVIOUS
  <1>5. h \in Seq(Int) /\ Len(h) = l /\ (\A i \in 1..l : h[i] = name[(l - i) + 1]) /\ Reverse(h) = name
    BY <1>4, ReverseIs, ReversedTwice
  <1> HIDE DEF h, l
  <1>6. \A i \in 1..l : h[i] \in U /\ h[i] # 0
    <2> SUFFICES ASSUME NEW i \in 1..l PROVE h[i] \in U /\ h[i] # 0
      OBVIOUS
    <2> DEFINE j == (l - i) + 1
    <2>1. j \in 1..l /\ h[i] = name[j]
      BY <1>4, <1>5
    <2> HIDE DEF j
    <2> QED BY <1>1, <2>1
  <1>7. h \in Seq(U)
    BY <1>5, <1>6, Retyped, Zenon
  <1>8. /\ d \in Seq(U) /\ Len(d) = l + 1 /\ d[l + 1] = p
        /\ (\A i \in 1..l : d[i] = h[i]) /\ SubSeq(d, 1, l) = h /\ d \in Seq(Int)
    <2>1. d \in Seq(U)
      BY <1>2, <1>7
    <2>2. p \in Int
      OBVIOUS
    <2>3. Len(d) = l + 1 /\ d[l + 1] = p /\ d \in Seq(Int) /\ \A i \in 1..l : d[i] = h[i]
      BY <1>4, <1>5, <2>2
    <2>4. SubSeq(d, 1, l) = h
      BY <1>4, <1>5, <2>2
    <2> QED BY <2>1, <2>3, <2>4
  <1> HIDE DEF d
  <1>9. Number(h, b) \in Nat /\ n = b * Number(h, b) + p /\ n \in Nat
    <2>1. d \in Seq(0..(b - 1))
      BY <1>8 DEF U
    <2>2. /\ Number(SubSeq(d, 1, l), b) \in Nat
          /\ Number(d, b) = b * Number(SubSeq(d, 1, l), b) + d[l + 1]
      BY <1>4, <1>8, <1>b, <2>1, LastDigit
    <2>3. Number(d, b) \in Nat
      BY <1>b, <2>1, DigitsAreOf
    <2> QED BY <1>8, <2>2, <2>3
  <1>10. raw = n
    <2> DEFINE q == Number(h, b)
    <2> HIDE DEF q
    <2>1. q * b = b * q
      BY <1>9, <1>b DEF q
    <2> QED BY <1>3, <1>9, <2>1 DEF q
  <1>11. SymbolPrecision(raw) = p
    <2> DEFINE q == Number(h, b)
    <2>1. q \in Int /\ n = b * q + p /\ n \in Int /\ p \in 0..(b - 1)
      BY <1>2, <1>9 DEF U
    <2> HIDE DEF q, n
    <2>2. n % b = p
      BY <1>b, <2>1, QuotientAndRest, Zenon
    <2> QED BY <1>10, <2>2 DEF SymbolPrecision, b
  <1>12. z = l + 1
    <2>1. d \in Seq(0..(b - 1))
      BY <1>8 DEF U
    <2>2. CASE d[1] # 0
      <3>1. DigitCount(n, b) = l + 1
        BY <1>8, <1>b, <2>1, <2>2, CountOfDigits
      <3>2. n # 0
        <4> SUFFICES ASSUME n = 0 PROVE FALSE
          OBVIOUS
        <4>1. DigitCount(0, b) = 0
          BY <1>b, DigitCountExists
        <4> HIDE DEF n
        <4> QED BY <1>4, <3>1, <4>1
      <3> QED BY <1>10, <3>1, <3>2 DEF WrittenLength
    <2>3. CASE d[1] = 0
      <3>1. l = 0
        <4> SUFFICES ASSUME l # 0 PROVE FALSE
          OBVIOUS
        <4>1. 1 \in 1..l
          BY <1>4
        <4> QED BY <1>6, <1>8, <2>3, <4>1
      <3>2. p = 0
        BY <1>8, <2>3, <3>1
      <3>3. h = <<>>
        BY <1>5, <3>1
      <3>4. Number(h, b) = 0
        <4>1. b \in Int /\ Len(h) = 0
          BY <1>5, <1>b, <3>1
        <4> QED BY <1>5, <4>1, NumberIsRead, Zenon
      <3>5. n = 0
        BY <1>9, <1>b, <3>2, <3>4
      <3> QED BY <1>10, <3>1, <3>5 DEF WrittenLength
    <2> QED BY <2>2, <2>3
  <1> HIDE DEF z
  <1>13. Digits(n, b, z) = d
    <2>1. d \in Seq(0..(b - 1))
      BY <1>8 DEF U
    <2>2. Digits(Number(d, b), b, Len(d)) = d
      BY <1>b, <2>1, NumberHasDigits
    <2> QED BY <1>8, <1>12, <2>2
  <1>14. SymbolName(raw) = Tail(Reverse(d))
    <2>1. SymbolName(raw) = Tail(Reverse(Digits(raw, b, z)))
      BY DEF SymbolName, CharsOf, b, z
    <2> HIDE DEF n
    <2> QED BY <1>10, <1>13, <2>1
  <1>15. Tail(Reverse(d)) = name
    <2>1. Tail(Reverse(d)) = Reverse(SubSeq(d, 1, l))
      BY <1>4, <1>8, TailOfReversed
    <2> QED BY <1>5, <1>8, <2>1
  <1> QED BY <1>9, <1>10, <1>11, <1>14, <1>15

LEMMA AssetTextIsRead ==
    ASSUME NEW q \in Int, NEW p \in Nat, NEW name \in Seq(Nat)
    PROVE  LET written == [quantity |-> FormatUnits(q, p), name |-> name]
               a == AssetFromString(written)
           IN  a # Throws => MakesSymbol(a.symbol) /\ AssetToString(a) = written
  <1> DEFINE quantity == FormatUnits(q, p)
             written == [quantity |-> quantity, name |-> name]
             a == AssetFromString(written)
             raw == SymbolFromParts(name, p)
  <1> SUFFICES ASSUME a # Throws PROVE MakesSymbol(a.symbol) /\ AssetToString(a) = written
    OBVIOUS
  <1>1. ParseUnits(quantity) = [units |-> q, precision |-> p]
    BY AmountIsRead
  <1>2. written.quantity = quantity /\ written.name = name
    OBVIOUS
  <1>3. ParseUnits(quantity).precision = p /\ ParseUnits(quantity).units = q
    <2> HIDE DEF quantity
    <2> QED BY <1>1
  <1>4. a = IF raw = Refuses THEN Throws ELSE [units |-> q, symbol |-> raw]
    <2> HIDE DEF quantity, written, raw
    <2>1. a = IF SymbolFromParts(name, p) = Refuses THEN Throws ELSE [units |-> q, symbol |-> SymbolFromParts(name, p)]
      BY <1>2, <1>3 DEF AssetFromString
    <2> QED BY <2>1 DEF raw
  <1> HIDE DEF a
  <1>5. raw # Refuses /\ a = [units |-> q, symbol |-> raw]
    BY <1>4
  <1>6. IsCode(name) /\ p <= MaxPrecision
    BY <1>5 DEF SymbolFromParts
  <1>7. raw \in Nat /\ SymbolPrecision(raw) = p /\ SymbolName(raw) = name
    <2>1. raw = SymbolFromParts(name, p)
      OBVIOUS
    <2> HIDE DEF raw
    <2> QED BY <1>6, <2>1, PartsOfSymbol
  <1> HIDE DEF raw
  <1>8. MakesSymbol(raw)
    BY <1>6, <1>7 DEF MakesSymbol
  <1>9. a.symbol = raw /\ a.units = q
    BY <1>5
  <1>10. AssetToString(a) = [quantity |-> FormatUnits(q, p), name |-> name]
    BY <1>7, <1>9 DEF AssetToString
  <1> QED BY <1>8, <1>9, <1>10

LEMMA AllSymbolsAreRead == ASSUME input \in ChainInputs PROVE SymbolsAreRead
  <1>a. Amounts \subseteq Int
    BY ValuesAssumption
  <1>1. ASSUME Is("symbol") PROVE input[2] \in Nat
    BY <1>1 DEF Is, ChainInputs, IntegerInputs, PricedInputs, WrittenInputs, KeyInputs
  <1>2. ASSUME Is("asset text") PROVE input[2] \in Int /\ input[3] \in Nat /\ input[4] \in Seq(Nat)
    BY <1>2 DEF Is, ChainInputs, IntegerInputs, PricedInputs, WrittenInputs, KeyInputs
  <1> DEFINE raw == input[2]
  <1>3. ASSUME Is("symbol"), MakesSymbol(raw)
        PROVE  SymbolFromParts(SymbolName(raw), SymbolPrecision(raw)) = raw
    BY <1>1, <1>3, SymbolIsRead
  <1>4. ASSUME Is("symbol"), MakesSymbol(raw), NEW units \in Amounts
        PROVE  LET worth == [units |-> units, symbol |-> raw]
               IN  AssetFromString(AssetToString(worth)) = worth
    BY <1>a, <1>1, <1>4, AssetIsRead
  <1>5. ASSUME Is("symbol"), MakesSymbolCode(raw), raw # 0
        PROVE  SymbolCodeFrom(SymbolCodeName(raw)) = raw
    BY <1>1, <1>5, SymbolCodeIsRead
  <1>6. ASSUME Is("asset text")
        PROVE  LET written == [quantity |-> FormatUnits(input[2], input[3]), name |-> input[4]]
                   a == AssetFromString(written)
               IN  a # Throws => MakesSymbol(a.symbol) /\ AssetToString(a) = written
    BY <1>2, <1>6, AssetTextIsRead
  <1> QED BY <1>3, <1>4, <1>5, <1>6 DEF SymbolsAreRead

(***************************************************************************)
(* A key is read back from each text it is written as, with its type; a    *)
(* text whose label is changed is not the text of another type's key,      *)
(* except where the code takes it.                                         *)
(***************************************************************************)
THEOREM KeysAreAlwaysRead == ValuesSpec => []KeysAreRead
  <1> DEFINE Picked == input = <<>> \/ input \in ChainInputs
  <1>1. ValuesInit => Picked
    BY DEF ValuesInit
  <1>2. Picked /\ [ValuesNext]_input => Picked'
    BY DEF ValuesNext
  <1>3. Picked => KeysAreRead
    BY KeysRead DEF KeysAreRead, Is
  <1> QED BY <1>1, <1>2, <1>3, PTL DEF ValuesSpec

(***************************************************************************)
(* What is written as text or bytes is read back, whatever it is: names,   *)
(* slugs, symbols, amounts, times, block numbers, bytes in base 58 and 64, *)
(* of any length and in any base, and keys.                                *)
(***************************************************************************)
THEOREM TextsAreAlwaysRead == ValuesSpec => []TextsAreRead
  <1> DEFINE Picked == input = <<>> \/ input \in ChainInputs
  <1>1. ValuesInit => Picked
    BY DEF ValuesInit
  <1>2. Picked /\ [ValuesNext]_input => Picked'
    BY DEF ValuesNext
  <1>3. ASSUME input = <<>> PROVE TextsAreRead
    BY <1>3 DEF TextsAreRead, NamesAreRead, SlugsAreRead, SymbolsAreRead, TimesConvert, BytesAreRead,
        KeysAreRead, Is
  <1>4. ASSUME input \in ChainInputs PROVE TextsAreRead
    BY <1>4, AllNamesAreRead, AllSlugsAreRead, AllSymbolsAreRead, TimesAreRead, AllBytesAreRead, KeysRead
        DEF TextsAreRead
  <1>5. Picked => TextsAreRead
    BY <1>3, <1>4
  <1> QED BY <1>1, <1>2, <1>5, PTL DEF ValuesSpec
=============================================================================
