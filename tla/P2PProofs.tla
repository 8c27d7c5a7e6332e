------------------------------ MODULE P2PProofs ------------------------------
(***************************************************************************)
(* The envelope provider implements the channel of whole messages, however *)
(* long a prefix is, whatever is sent and however it is cut into chunks,   *)
(* and fails closed.  The client calls every listener that was there when  *)
(* an emission began, and as often as it asked for, however emissions are  *)
(* nested and whatever listeners do to the lists that are being walked.    *)
(*                                                                         *)
(* Recursive functions are dealt with by the induction of Lists.           *)
(***************************************************************************)
EXTENDS P2PEnvelope, P2PClient, Lists, SequenceTheorems, FiniteSetTheorems, TLAPS

---------------------------------------------------------------------------
(* Lengths.                                                                *)

LEMMA Constants ==
  /\ Base \in Nat /\ Base > 1
  /\ PrefixBytes \in Nat /\ PrefixBytes > 0
  /\ MaxReadLength \in Nat /\ MaxSent \in Nat /\ MaxThrows \in Nat
BY FramingAssumption

\* Rest is the function its definition says.
LEMMA RestValues ==
  ASSUME NEW n \in Nat
  PROVE  /\ Rest(n) \in [0..PrefixBytes -> Nat]
         /\ Rest(n)[0] = n
         /\ \A i \in 1..PrefixBytes : Rest(n)[i] = Rest(n)[i - 1] \div Base
<1> DEFINE next == [i \in 1..PrefixBytes |-> [x \in Nat |-> x \div Base]]
           Is(f) == f = [i \in 0..PrefixBytes |-> IF i = 0 THEN n ELSE f[i - 1] \div Base]
<1>1. next \in [1..PrefixBytes -> [Nat -> Nat]]
  BY Constants
<1>2. PICK f \in [0..PrefixBytes -> Nat] :
          f[0] = n /\ \A i \in 1..PrefixBytes : f[i] = next[i][f[i - 1]]
  <2>1. PrefixBytes \in Nat BY Constants
  <2>2. Steps(next, PrefixBytes, Nat) BY <1>1 DEF Steps
  <2> HIDE DEF next
  <2>3. \E f : IsIteration(f, PrefixBytes, Nat, n, next) BY <2>1, <2>2, Iterates
  <2> QED BY <2>3 DEF IsIteration
<1>3. Is(f)
  <2>1. ASSUME NEW i \in 0..PrefixBytes
        PROVE  f[i] = IF i = 0 THEN n ELSE f[i - 1] \div Base
    <3>1. i # 0 => i \in 1..PrefixBytes /\ f[i - 1] \in Nat BY Constants
    <3> QED BY <1>2, <3>1
  <2>2. f = [i \in 0..PrefixBytes |-> f[i]] OBVIOUS
  <2> QED BY <2>1, <2>2
<1>4. Rest(n) = CHOOSE g : Is(g)
  BY DEF Rest
<1>5. Is(Rest(n))
  <2> HIDE DEF Is
  <2> QED BY <1>3, <1>4
<1>6. ASSUME NEW g, Is(g) PROVE g = f
  <2> DEFINE Same == {i \in 0..PrefixBytes : g[i] = f[i]}
  <2>1. 0 \in Same BY <1>3, <1>6, Constants
  <2>2. \A i \in 1..PrefixBytes : i - 1 \in Same => i \in Same
    BY <1>3, <1>6, Constants
  <2>3. 0..PrefixBytes \subseteq Same
    <3> HIDE DEF Same
    <3> QED BY <2>1, <2>2, Constants, Induction
  <2> QED BY <2>3, <1>6, <1>3
<1>7. Rest(n) = f BY <1>5, <1>6
<1> QED BY <1>7, <1>3, Constants

\* DeclaredLength reads what it says: a number, from the highest byte on.
LEMMA DeclaredValues ==
  ASSUME NEW data, \A i \in 1..PrefixBytes : data[i] \in Nat
  PROVE  \E v \in [0..PrefixBytes -> Nat] :
            /\ v[0] = 0
            /\ \A i \in 1..PrefixBytes : v[i] = data[PrefixBytes + 1 - i] + Base * v[i - 1]
            /\ DeclaredLength(data) = v[PrefixBytes]
<1> DEFINE next == [i \in 1..PrefixBytes |-> [x \in Nat |-> data[PrefixBytes + 1 - i] + Base * x]]
           Is(f) == f = [i \in 0..PrefixBytes |->
                           IF i = 0 THEN 0 ELSE data[PrefixBytes + 1 - i] + Base * f[i - 1]]
<1>1. next \in [1..PrefixBytes -> [Nat -> Nat]]
  <2>1. ASSUME NEW i \in 1..PrefixBytes, NEW x \in Nat
        PROVE  data[PrefixBytes + 1 - i] + Base * x \in Nat
    <3>1. PrefixBytes + 1 - i \in 1..PrefixBytes BY Constants
    <3>2. Base * x \in Nat BY Constants
    <3> QED BY <3>1, <3>2
  <2> QED BY <2>1
<1>2. PICK f \in [0..PrefixBytes -> Nat] :
          f[0] = 0 /\ \A i \in 1..PrefixBytes : f[i] = next[i][f[i - 1]]
  <2>1. PrefixBytes \in Nat BY Constants
  <2>2. Steps(next, PrefixBytes, Nat) BY <1>1 DEF Steps
  <2> HIDE DEF next
  <2>3. \E f : IsIteration(f, PrefixBytes, Nat, 0, next) BY <2>1, <2>2, Iterates
  <2> QED BY <2>3 DEF IsIteration
<1>3. ASSUME NEW i \in 1..PrefixBytes
      PROVE  f[i] = data[PrefixBytes + 1 - i] + Base * f[i - 1]
  <2>1. f[i - 1] \in Nat BY Constants
  <2> QED BY <1>2, <2>1
<1>4. Is(f)
  <2>1. ASSUME NEW i \in 0..PrefixBytes
        PROVE  f[i] = IF i = 0 THEN 0 ELSE data[PrefixBytes + 1 - i] + Base * f[i - 1]
    <3>1. i # 0 => i \in 1..PrefixBytes BY Constants
    <3> QED BY <1>2, <1>3, <3>1
  <2>2. f = [i \in 0..PrefixBytes |-> f[i]] OBVIOUS
  <2> QED BY <2>1, <2>2
<1>5. PICK g : Is(g) /\ DeclaredLength(data) = g[PrefixBytes]
  <2>1. DeclaredLength(data) = (CHOOSE g : Is(g))[PrefixBytes]
    BY DEF DeclaredLength
  <2>2. Is(CHOOSE g : Is(g))
    <3> HIDE DEF Is
    <3> QED BY <1>4
  <2> HIDE DEF Is
  <2> QED BY <2>1, <2>2
<1>6. ASSUME NEW i \in 0..PrefixBytes PROVE g[i] = f[i]
  <2> DEFINE Same == {j \in 0..PrefixBytes : g[j] = f[j]}
  <2>1. 0 \in Same BY <1>4, <1>5, Constants
  <2>2. \A j \in 1..PrefixBytes : j - 1 \in Same => j \in Same
    BY <1>4, <1>5, Constants
  <2>3. 0..PrefixBytes \subseteq Same
    <3> HIDE DEF Same
    <3> QED BY <2>1, <2>2, Constants, Induction
  <2> QED BY <2>3
<1>7. DeclaredLength(data) = f[PrefixBytes] BY <1>5, <1>6, Constants
<1> QED BY <1>2, <1>3, <1>7

LEMMA Division ==
  ASSUME NEW a \in Nat, NEW b \in Nat, b > 0
  PROVE  a \div b \in Nat /\ a % b \in Nat /\ a = (a % b) + b * (a \div b)
OBVIOUS

\* What is read of a prefix is what was written into it.
LEMMA PrefixIsRead ==
  ASSUME NEW n \in Nat, Rest(n)[PrefixBytes] = 0,
         NEW data, \A i \in 1..PrefixBytes : data[i] = LengthPrefix(n)[i]
  PROVE  DeclaredLength(data) = n
<1> DEFINE rest == Rest(n)
<1>1. /\ rest \in [0..PrefixBytes -> Nat] /\ rest[0] = n
      /\ \A i \in 1..PrefixBytes : rest[i] = rest[i - 1] \div Base
  BY RestValues
<1> HIDE DEF rest
<1>2. ASSUME NEW i \in 1..PrefixBytes
      PROVE  data[i] \in Nat /\ rest[i - 1] = data[i] + Base * rest[i]
  <2>1. data[i] = rest[i - 1] % Base BY DEF LengthPrefix, rest
  <2>2. rest[i - 1] \in Nat BY <1>1, Constants
  <2>3. rest[i] = rest[i - 1] \div Base BY <1>1
  <2>4. Base \in Nat /\ Base > 0 BY Constants
  <2> QED BY <2>1, <2>2, <2>3, <2>4, Division
<1>3. PICK v \in [0..PrefixBytes -> Nat] :
            /\ v[0] = 0
            /\ \A i \in 1..PrefixBytes : v[i] = data[PrefixBytes + 1 - i] + Base * v[i - 1]
            /\ DeclaredLength(data) = v[PrefixBytes]
  BY <1>2, DeclaredValues
<1> DEFINE Agree == {i \in 0..PrefixBytes : v[i] = rest[PrefixBytes - i]}
<1>4. 0 \in Agree BY <1>3, Constants DEF rest
<1>5. ASSUME NEW i \in 1..PrefixBytes, i - 1 \in Agree
      PROVE  i \in Agree
  <2> DEFINE j == PrefixBytes + 1 - i
  <2>1. j \in 1..PrefixBytes /\ j - 1 = PrefixBytes - i /\ j = PrefixBytes - (i - 1)
    BY Constants
  <2>2. v[i] = data[j] + Base * v[i - 1] BY <1>3
  <2>3. v[i - 1] = rest[j] BY <1>5, <2>1
  <2>4. rest[j - 1] = data[j] + Base * rest[j]
    <3> HIDE DEF j
    <3> QED BY <1>2, <2>1
  <2>5. v[i] = rest[j - 1] BY <2>2, <2>3, <2>4
  <2> QED BY <2>1, <2>5
<1>6. 0..PrefixBytes \subseteq Agree
  <2> HIDE DEF Agree
  <2> QED BY <1>4, <1>5, Constants, Induction
<1>7. v[PrefixBytes] = rest[0] BY <1>6, Constants
<1> QED BY <1>1, <1>3, <1>7

LEMMA FrameIsBytes ==
  ASSUME NEW p \in Payloads
  PROVE  /\ p \in Seq(Byte) /\ Len(p) \in Nat
         /\ Frame(p) \in Seq(Byte)
         /\ Len(Frame(p)) = PrefixBytes + Len(p)
         /\ \A i \in 1..PrefixBytes : Frame(p)[i] = LengthPrefix(Len(p))[i]
         /\ \A i \in 1..Len(p) : Frame(p)[PrefixBytes + i] = p[i]
<1> DEFINE prefix == LengthPrefix(Len(p))
<1>1. p \in Seq(Byte) /\ Len(p) \in Nat BY FramingAssumption
<1>2. ASSUME NEW i \in 1..PrefixBytes
      PROVE  Rest(Len(p))[i - 1] % Base \in Byte
  <2>1. Rest(Len(p))[i - 1] \in Nat BY <1>1, RestValues, Constants
  <2> HIDE DEF prefix
  <2> QED BY <2>1, Constants DEF Byte
<1>3. prefix \in Seq(Byte) /\ Len(prefix) = PrefixBytes
  BY <1>2, Constants DEF LengthPrefix
<1> HIDE DEF prefix
<1>4. /\ prefix \o p \in Seq(Byte)
      /\ Len(prefix \o p) = Len(prefix) + Len(p)
      /\ \A i \in 1..Len(prefix) + Len(p) :
            (prefix \o p)[i] = IF i <= Len(prefix) THEN prefix[i] ELSE p[i - Len(prefix)]
  BY <1>1, <1>3, ConcatProperties
<1>5. Frame(p) = prefix \o p BY DEF Frame, prefix
<1>6. \A i \in 1..PrefixBytes : Frame(p)[i] = prefix[i] BY <1>1, <1>3, <1>4, <1>5, Constants
<1>7. \A i \in 1..Len(p) : Frame(p)[PrefixBytes + i] = p[i] BY <1>1, <1>3, <1>4, <1>5, Constants
<1> QED BY <1>1, <1>3, <1>4, <1>5, <1>6, <1>7 DEF prefix

LEMMA DeclaredLengthType ==
  ASSUME NEW data \in Seq(Byte), Len(data) >= PrefixBytes
  PROVE  DeclaredLength(data) \in Nat
<1>1. \A i \in 1..PrefixBytes : data[i] \in Nat
  BY Constants DEF Byte
<1> QED BY <1>1, DeclaredValues, Constants

LEMMA Appended ==
  ASSUME NEW S, NEW s \in Seq(S), NEW e \in S
  PROVE  /\ Append(s, e) \in Seq(S)
         /\ Len(Append(s, e)) = Len(s) + 1
         /\ DOMAIN Append(s, e) = 1..(Len(s) + 1)
         /\ \A i \in DOMAIN Append(s, e) :
               Append(s, e)[i] = e \/ (i \in DOMAIN s /\ Append(s, e)[i] = s[i])
         /\ \A i \in 1..Len(s) : Append(s, e)[i] = s[i]
         /\ Append(s, e)[Len(s) + 1] = e
<1>1. /\ Append(s, e) \in Seq(S)
      /\ Len(Append(s, e)) = Len(s) + 1
      /\ \A i \in 1..Len(s) : Append(s, e)[i] = s[i]
      /\ Append(s, e)[Len(s) + 1] = e
  BY AppendProperties
<1>2. DOMAIN Append(s, e) = 1..(Len(s) + 1) /\ DOMAIN s = 1..Len(s) /\ Len(s) \in Nat
  BY <1>1, LenProperties
<1>3. ASSUME NEW i \in DOMAIN Append(s, e)
      PROVE  Append(s, e)[i] = e \/ (i \in DOMAIN s /\ Append(s, e)[i] = s[i])
  <2>1. i = Len(s) + 1 \/ i \in 1..Len(s) BY <1>2
  <2> QED BY <1>1, <1>2, <2>1, Zenon
<1> QED BY <1>1, <1>2, <1>3

LEMMA ElementAppended ==
  ASSUME NEW S, NEW s \in Seq(S), NEW e \in S, NEW t, t = Append(s, e), NEW i \in DOMAIN t
  PROVE  t[i] = e \/ (i \in DOMAIN s /\ t[i] = s[i])
BY Appended

LEMMA ShortOnesAppended ==
  ASSUME NEW q \in Seq(Seq(Byte)), \A i \in DOMAIN q : Len(q[i]) <= MaxReadLength,
         NEW m \in Seq(Byte), Len(m) <= MaxReadLength
  PROVE  \A i \in DOMAIN Append(q, m) : Len(Append(q, m)[i]) <= MaxReadLength
<1> DEFINE t == Append(q, m)
<1>1. \A i \in DOMAIN t : t[i] = m \/ (i \in DOMAIN q /\ t[i] = q[i])
  BY ElementAppended
<1> HIDE DEF t
<1>2. \A i \in DOMAIN t : Len(t[i]) <= MaxReadLength BY <1>1, Zenon
<1> QED BY <1>2 DEF t

---------------------------------------------------------------------------
(* What holds of a single state.                                           *)

(***************************************************************************)
(* The variables keep their types, whatever is sent and received.          *)
(***************************************************************************)
THEOREM TypeCorrect == EnvelopeSpec => []EnvelopeTypeOK
<1> USE Constants
<1>1. EnvelopeInit => EnvelopeTypeOK
  <2>1. \A S : <<>> \in Seq(S)
    BY EmptySeq
  <2>2. 0 \in Nat /\ 0 \in 0..MaxThrows
    OBVIOUS
  <2> QED BY <2>1, <2>2, Zenon DEF EnvelopeInit, EnvelopeTypeOK
<1>2. EnvelopeTypeOK /\ [EnvelopeNext]_envelopeVars => EnvelopeTypeOK'
  <2> SUFFICES ASSUME EnvelopeTypeOK, [EnvelopeNext]_envelopeVars PROVE EnvelopeTypeOK'
    OBVIOUS
  <2> USE DEF EnvelopeTypeOK
  <2>1. ASSUME NEW p \in Payloads, Write(p) PROVE EnvelopeTypeOK'
    BY <2>1, FrameIsBytes DEF Write
  <2>2. ASSUME NEW n \in 1..Len(wire), Chunk(n) PROVE EnvelopeTypeOK'
    <3>1. /\ SubSeq(wire, n + 1, Len(wire)) \in Seq(Byte)
          /\ SubSeq(wire, 1, n) \in Seq(Byte)
      OBVIOUS
    <3>2. remainingData \o SubSeq(wire, 1, n) \in Seq(Byte)
      BY <3>1
    <3> QED BY <2>2, <3>1, <3>2 DEF Chunk
  <2>3. ASSUME ParseFrame PROVE EnvelopeTypeOK'
    <3> DEFINE end == PrefixBytes + DeclaredLength(remainingData)
    <3>1. end \in Nat /\ end <= Len(remainingData)
      BY <2>3, DeclaredLengthType DEF ParseFrame, Complete, HasPrefix
    <3>2. /\ delivered' = Append(delivered, SubSeq(remainingData, PrefixBytes + 1, end))
          /\ remainingData' = SubSeq(remainingData, end + 1, Len(remainingData))
          /\ UNCHANGED <<wire, destroyed, lowerDestroyed, sent, errors>>
      BY <2>3 DEF ParseFrame
    <3>5. parsing' \in BOOLEAN
      BY <2>3, Zenon DEF ParseFrame
    <3>6. UNCHANGED <<parsing, throws>> \/ (throws < MaxThrows /\ throws' = throws + 1)
      BY <2>3, Zenon DEF ParseFrame
    <3>7. throws' \in 0..MaxThrows
      BY <3>6
    <3> HIDE DEF end
    <3>3. SubSeq(remainingData, PrefixBytes + 1, end) \in Seq(Byte)
      BY <3>1
    <3>4. SubSeq(remainingData, end + 1, Len(remainingData)) \in Seq(Byte)
      BY <3>1
    <3>8. delivered' \in Seq(Seq(Byte))
      BY <3>2, <3>3, Appended
    <3> QED BY <3>2, <3>4, <3>5, <3>7, <3>8, Zenon
  <2>4. ASSUME NeedMoreData PROVE EnvelopeTypeOK'
    BY <2>4 DEF NeedMoreData
  <2>5. ASSUME RefuseFrame PROVE EnvelopeTypeOK'
    <3>1. <<>> \in Seq(Byte) /\ errors + 1 \in Nat
      BY EmptySeq
    <3> QED BY <2>5, <3>1, Zenon DEF RefuseFrame
  <2>6. ASSUME LowerError PROVE EnvelopeTypeOK'
    BY <2>6 DEF LowerError
  <2>7. ASSUME CloseProvider PROVE EnvelopeTypeOK'
    BY <2>7 DEF CloseProvider
  <2>8. ASSUME UNCHANGED envelopeVars PROVE EnvelopeTypeOK'
    BY <2>8 DEF envelopeVars
  <2> QED BY <2>1, <2>2, <2>3, <2>4, <2>5, <2>6, <2>7, <2>8 DEF EnvelopeNext
<1> QED BY <1>1, <1>2, PTL DEF EnvelopeSpec

(***************************************************************************)
(* A message that is too long is never delivered, a provider that is closed*)
(* has closed the transport below, and between chunks at most one frame is *)
(* kept: for every limit, every length of the prefix and every stream.     *)
(***************************************************************************)
THEOREM ProviderFailsClosed == EnvelopeSpec => []FailsClosed
<1> USE Constants
<1>1. EnvelopeInit => FailsClosed
  BY DEF EnvelopeInit, FailsClosed
<1>2. EnvelopeTypeOK /\ FailsClosed /\ [EnvelopeNext]_envelopeVars => FailsClosed'
  <2> SUFFICES ASSUME EnvelopeTypeOK, FailsClosed, [EnvelopeNext]_envelopeVars PROVE FailsClosed'
    OBVIOUS
  <2> USE DEF EnvelopeTypeOK, FailsClosed
  <2>1. ASSUME NEW p \in Payloads, Write(p) PROVE FailsClosed'
    BY <2>1 DEF Write
  <2>2. ASSUME NEW n \in 1..Len(wire), Chunk(n) PROVE FailsClosed'
    BY <2>2 DEF Chunk
  <2>3. ASSUME ParseFrame PROVE FailsClosed'
    <3> DEFINE length == DeclaredLength(remainingData)
               end == PrefixBytes + length
    <3>1. length \in Nat /\ length <= MaxReadLength /\ end <= Len(remainingData)
      BY <2>3, DeclaredLengthType DEF ParseFrame, Complete, HasPrefix, TooLong
    <3>2. ~destroyed
      BY <3>1
    <3>3. /\ delivered' = Append(delivered, SubSeq(remainingData, PrefixBytes + 1, end))
          /\ (parsing' = parsing /\ throws' = throws) \/ throws' = throws + 1
          /\ parsing /\ ~destroyed'
      BY <2>3, <3>2 DEF ParseFrame
    <3> HIDE DEF length
    <3>4. Len(SubSeq(remainingData, PrefixBytes + 1, end)) = length
      BY <3>1
    <3> DEFINE message == SubSeq(remainingData, PrefixBytes + 1, end)
    <3>5. \A i \in DOMAIN delivered' : Len(delivered'[i]) <= MaxReadLength
      <4>1. message \in Seq(Byte)
        BY <3>1
      <4>2. Len(message) <= MaxReadLength
        BY <3>1, <3>4
      <4>3. delivered' = Append(delivered, message)
        BY <3>3
      <4> HIDE DEF message
      <4>4. /\ delivered \in Seq(Seq(Byte))
            /\ \A i \in DOMAIN delivered : Len(delivered[i]) <= MaxReadLength
        OBVIOUS
      <4>5. \A i \in DOMAIN Append(delivered, message) :
               Len(Append(delivered, message)[i]) <= MaxReadLength
        BY <4>1, <4>2, <4>4, ShortOnesAppended, Zenon
      <4> QED BY <4>3, <4>5, Zenon
    <3>6. throws \in Nat
      OBVIOUS
    <3>7. throws + 1 # 0
      BY <3>6
    <3>8. ~(~parsing' /\ throws' = 0)
      BY <3>3, <3>7, Zenon
    <3> QED BY <3>3, <3>5, <3>8, Zenon
  <2>4. ASSUME NeedMoreData PROVE FailsClosed'
    <3> DEFINE L == Len(remainingData)
               length == DeclaredLength(remainingData)
    <3>2. ~(L >= PrefixBytes) \/ (~(length > MaxReadLength) /\ ~(L >= PrefixBytes + length))
      BY <2>4, Zenon DEF NeedMoreData, Complete, HasPrefix, TooLong
    <3>3. L >= PrefixBytes => length \in Nat
      BY DeclaredLengthType
    <3> HIDE DEF length
    <3>1. Len(remainingData) < PrefixBytes + MaxReadLength
      BY <3>2, <3>3
    <3> QED BY <2>4, <3>1 DEF NeedMoreData
  <2>5. ASSUME RefuseFrame PROVE FailsClosed'
    BY <2>5 DEF RefuseFrame
  <2>6. ASSUME LowerError PROVE FailsClosed'
    BY <2>6 DEF LowerError
  <2>7. ASSUME CloseProvider PROVE FailsClosed'
    BY <2>7 DEF CloseProvider
  <2>8. ASSUME UNCHANGED envelopeVars PROVE FailsClosed'
    BY <2>8 DEF envelopeVars
  <2> QED BY <2>1, <2>2, <2>3, <2>4, <2>5, <2>6, <2>7, <2>8 DEF EnvelopeNext
<1> QED BY <1>1, <1>2, TypeCorrect, PTL DEF EnvelopeSpec

---------------------------------------------------------------------------
(* Streams of frames.                                                      *)

\* data is the frames of the messages of ps behind the first ones; at[k] is where
\* the frame of the k-th of them ends.
Framed(data, ps, first, at) ==
    /\ at \in [first..Len(ps) -> Nat]
    /\ at[first] = 0
    /\ at[Len(ps)] = Len(data)
    /\ \A j, k \in first..Len(ps) : j <= k => at[j] <= at[k]
    /\ \A k \in (first + 1)..Len(ps) :
          /\ at[k] = at[k - 1] + PrefixBytes + Len(ps[k])
          /\ \A i \in 1..(PrefixBytes + Len(ps[k])) : data[at[k - 1] + i] = Frame(ps[k])[i]

LEMMA Joined ==
  ASSUME NEW s \in Seq(Byte), NEW t \in Seq(Byte)
  PROVE  /\ s \o t \in Seq(Byte)
         /\ Len(s \o t) = Len(s) + Len(t)
         /\ \A i \in 1..Len(s) : (s \o t)[i] = s[i]
         /\ \A i \in 1..Len(t) : (s \o t)[Len(s) + i] = t[i]
<1>1. /\ s \o t \in Seq(Byte)
      /\ Len(s \o t) = Len(s) + Len(t)
      /\ \A i \in 1..Len(s) + Len(t) : (s \o t)[i] = IF i <= Len(s) THEN s[i] ELSE t[i - Len(s)]
  BY ConcatProperties, Zenon
<1> DEFINE st == s \o t
           m == Len(s)
           n == Len(t)
<1>2. m \in Nat /\ n \in Nat /\ \A i \in 1..(m + n) : st[i] = IF i <= m THEN s[i] ELSE t[i - m]
  BY <1>1
<1> HIDE DEF st, m, n
<1>3. ASSUME NEW i \in 1..m PROVE st[i] = s[i]
  <2>1. i \in 1..(m + n) /\ i <= m BY <1>2
  <2> QED BY <1>2, <2>1
<1>4. ASSUME NEW i \in 1..n PROVE st[m + i] = t[i]
  <2>1. m + i \in 1..(m + n) /\ ~(m + i <= m) /\ (m + i) - m = i BY <1>2
  <2> QED BY <1>2, <2>1, Zenon
<1> QED BY <1>1, <1>3, <1>4 DEF st, m, n

LEMMA JoinedTwice ==
  ASSUME NEW s \in Seq(Byte), NEW t \in Seq(Byte), NEW u \in Seq(Byte)
  PROVE  (s \o t) \o u = s \o (t \o u)
BY ConcatAssociative, SMTT(40)

\* A place in the i-th of b bytes behind the a-th is still among the first c.
LEMMA Within ==
  ASSUME NEW a \in Nat, NEW b \in Nat, NEW c \in Nat, a + b <= c, NEW i \in 1..b
  PROVE  a + i \in 1..c
OBVIOUS

LEMMA FrameWritten ==
  ASSUME NEW data \in Seq(Byte), NEW ps \in Seq(Payloads), NEW first \in 0..Len(ps),
         NEW at, Framed(data, ps, first, at), NEW p \in Payloads
  PROVE  \E new : Framed(data \o Frame(p), Append(ps, p), first, new)
<1> DEFINE N == Len(ps)
           size == PrefixBytes + Len(p)
           all == data \o Frame(p)
           new == [k \in first..(N + 1) |-> IF k = N + 1 THEN Len(data) + size ELSE at[k]]
<1>1. /\ Frame(p) \in Seq(Byte) /\ Len(Frame(p)) = size
      /\ size \in Nat /\ N \in Nat /\ Len(data) \in Nat /\ first \in 0..N
  BY FrameIsBytes, Constants
<1>2. /\ Len(all) = Len(data) + size
      /\ \A i \in 1..Len(data) : all[i] = data[i]
      /\ \A i \in 1..size : all[Len(data) + i] = Frame(p)[i]
  <2>1. /\ Len(all) = Len(data) + Len(Frame(p))
        /\ \A i \in 1..Len(data) : all[i] = data[i]
        /\ \A i \in 1..Len(Frame(p)) : all[Len(data) + i] = Frame(p)[i]
    BY <1>1, Joined, Zenon
  <2> HIDE DEF all, size
  <2> QED BY <1>1, <2>1, Zenon
<1>3. /\ Len(Append(ps, p)) = N + 1
      /\ \A k \in 1..N : Append(ps, p)[k] = ps[k]
      /\ Append(ps, p)[N + 1] = p
  BY Appended
<1>4. /\ at \in [first..N -> Nat] /\ at[first] = 0 /\ at[N] = Len(data)
      /\ \A j, k \in first..N : j <= k => at[j] <= at[k]
      /\ \A k \in (first + 1)..N :
            /\ at[k] = at[k - 1] + PrefixBytes + Len(ps[k])
            /\ \A i \in 1..(PrefixBytes + Len(ps[k])) : data[at[k - 1] + i] = Frame(ps[k])[i]
  BY DEF Framed
<1>5. /\ new[N + 1] = Len(data) + size
      /\ \A k \in first..N : new[k] = at[k] /\ at[k] \in Nat /\ at[k] <= Len(data)
      /\ new \in [first..(N + 1) -> Nat]
  <2> HIDE DEF size, N
  <2>1. \A k \in first..N : k # N + 1 /\ at[k] \in Nat /\ at[k] <= Len(data)
    BY <1>1, <1>4
  <2> QED BY <1>1, <2>1
<1> HIDE DEF new, all, size, N
<1>6. \A j, k \in first..(N + 1) : j <= k => new[j] <= new[k]
  <2> SUFFICES ASSUME NEW j \in first..(N + 1), NEW k \in first..(N + 1), j <= k
               PROVE  new[j] <= new[k]
    OBVIOUS
  <2>1. CASE k \in first..N
    <3>1. j \in first..N BY <1>1, <2>1
    <3> QED BY <1>4, <1>5, <2>1, <3>1
  <2>2. CASE k = N + 1
    <3>1. j = N + 1 \/ j \in first..N BY <1>1
    <3> DEFINE L == Len(data)
    <3>2. L \in Nat /\ size \in Nat /\ new[k] = L + size BY <1>1, <1>5, <2>2
    <3>3. new[j] = L + size \/ (new[j] \in Nat /\ new[j] <= L) BY <1>5, <3>1
    <3> HIDE DEF L
    <3> QED BY <3>2, <3>3
  <2> QED BY <1>1, <2>1, <2>2
<1>7. ASSUME NEW k \in (first + 1)..(N + 1)
      PROVE  /\ new[k] = new[k - 1] + PrefixBytes + Len(Append(ps, p)[k])
             /\ \A i \in 1..(PrefixBytes + Len(Append(ps, p)[k])) :
                    all[new[k - 1] + i] = Frame(Append(ps, p)[k])[i]
  <2>1. CASE k \in (first + 1)..N
    <3>1. k \in first..N /\ k - 1 \in first..N /\ k \in 1..N BY <1>1, <2>1
    <3>2. new[k] = at[k] /\ new[k - 1] = at[k - 1] /\ Append(ps, p)[k] = ps[k]
      BY <1>3, <1>5, <3>1
    <3>3. at[k] <= Len(data) /\ at[k - 1] \in Nat /\ Len(ps[k]) \in Nat
      <4>1. ps[k] \in Payloads BY <3>1 DEF N
      <4> QED BY <1>5, <3>1, <4>1, FrameIsBytes
    <3>4. /\ at[k] = at[k - 1] + PrefixBytes + Len(ps[k])
          /\ \A i \in 1..(PrefixBytes + Len(ps[k])) : data[at[k - 1] + i] = Frame(ps[k])[i]
      BY <1>4, <2>1
    <3>5. ASSUME NEW i \in 1..(PrefixBytes + Len(ps[k]))
          PROVE  all[at[k - 1] + i] = Frame(ps[k])[i]
      <4> DEFINE b == PrefixBytes + Len(ps[k])
      <4>2. b \in Nat BY <3>3, Constants
      <4>3. at[k - 1] + b <= Len(data)
        <5> DEFINE before == at[k - 1]
                   L == Len(data)
        <5>1. before \in Nat /\ L \in Nat /\ at[k] <= L BY <1>1, <3>3
        <5>2. at[k] = before + PrefixBytes + Len(ps[k]) BY <3>4
        <5> HIDE DEF before, L
        <5>3. before + b <= L
          <6> DEFINE l == Len(ps[k])
                     after == at[k]
          <6>1. l \in Nat /\ after = before + PrefixBytes + l /\ after <= L /\ b = PrefixBytes + l
            BY <3>3, <5>1, <5>2
          <6> HIDE DEF l, after, b
          <6> QED BY <5>1, <6>1, Constants
        <5> QED BY <5>3 DEF before, L
      <4>1. at[k - 1] + i \in 1..Len(data)
        <5> HIDE DEF b
        <5>1. i \in 1..b BY DEF b
        <5>2. at[k - 1] \in Nat /\ Len(data) \in Nat BY <1>1, <3>3
        <5> QED BY <4>2, <4>3, <5>1, <5>2, Within
      <4> QED BY <1>2, <3>4, <4>1
    <3> QED BY <3>2, <3>4, <3>5
  <2>2. CASE k = N + 1
    <3>1. N \in first..N BY <1>1
    <3>2. new[k - 1] = Len(data) /\ new[k] = Len(data) + size /\ Append(ps, p)[k] = p
      BY <1>1, <1>3, <1>4, <1>5, <2>2, <3>1
    <3>3. new[k] = new[k - 1] + PrefixBytes + Len(p)
      BY <1>1, <3>2, FrameIsBytes, Constants DEF size
    <3>4. \A i \in 1..(PrefixBytes + Len(p)) : all[new[k - 1] + i] = Frame(p)[i]
      BY <1>2, <3>2 DEF size
    <3> QED BY <3>2, <3>3, <3>4
  <2>3. k \in (first + 1)..N \/ k = N + 1 BY <1>1
  <2> QED BY <2>1, <2>2, <2>3, Zenon
<1>8. first \in first..N /\ new[first] = 0 /\ new[N + 1] = Len(all)
  BY <1>1, <1>2, <1>4, <1>5 DEF N
<1>9. Framed(all, Append(ps, p), first, new)
  BY <1>3, <1>5, <1>6, <1>7, <1>8 DEF Framed
<1> QED BY <1>9 DEF all

LEMMA FrameRead ==
  ASSUME NEW data \in Seq(Byte), NEW ps \in Seq(Payloads), NEW first \in 0..(Len(ps) - 1),
         NEW at, Framed(data, ps, first, at)
  PROVE  LET p   == ps[first + 1]
             end == PrefixBytes + Len(p)
         IN  /\ end <= Len(data)
             /\ \A i \in 1..end : data[i] = Frame(p)[i]
             /\ \E new : Framed(SubSeq(data, end + 1, Len(data)), ps, first + 1, new)
<1> DEFINE N == Len(ps)
           p == ps[first + 1]
           end == PrefixBytes + Len(p)
           rest == SubSeq(data, end + 1, Len(data))
           new == [k \in (first + 1)..N |-> at[k] - end]
<1>1. p \in Payloads /\ N \in Nat /\ Len(data) \in Nat /\ first \in 0..(N - 1) OBVIOUS
<1>2. end \in Nat BY <1>1, FrameIsBytes, Constants
<1>3. /\ at \in [first..N -> Nat] /\ at[first] = 0 /\ at[N] = Len(data)
      /\ \A j, k \in first..N : j <= k => at[j] <= at[k]
      /\ \A k \in (first + 1)..N :
            /\ at[k] = at[k - 1] + PrefixBytes + Len(ps[k])
            /\ \A i \in 1..(PrefixBytes + Len(ps[k])) : data[at[k - 1] + i] = Frame(ps[k])[i]
  BY DEF Framed
<1>4. at[first + 1] = end /\ end <= Len(data) /\ \A i \in 1..end : data[i] = Frame(p)[i]
  <2>1. first + 1 \in (first + 1)..N /\ first + 1 \in first..N /\ N \in first..N /\ (first + 1) - 1 = first
    BY <1>1
  <2>2. /\ at[first + 1] = 0 + PrefixBytes + Len(p)
        /\ \A i \in 1..(PrefixBytes + Len(p)) : data[0 + i] = Frame(p)[i]
    <3>1. /\ at[first + 1] = at[(first + 1) - 1] + PrefixBytes + Len(ps[first + 1])
          /\ \A i \in 1..(PrefixBytes + Len(ps[first + 1])) :
                data[at[(first + 1) - 1] + i] = Frame(ps[first + 1])[i]
      BY <1>3, <2>1, Zenon
    <3>2. at[(first + 1) - 1] = 0 BY <1>3, <2>1, Zenon
    <3> QED BY <3>1, <3>2, Zenon
  <2>5. Len(p) \in Nat BY <1>1, FrameIsBytes, Zenon
  <2>3. at[first + 1] = end BY <2>2, <2>5, Constants
  <2>6. first + 1 <= N BY <2>1
  <2>4. at[first + 1] <= at[N] BY <1>3, <2>1, <2>6, Zenon
  <2>7. ASSUME NEW i \in 1..end PROVE data[i] = Frame(p)[i]
    <3>1. 0 + i = i BY <2>5, Constants
    <3> QED BY <2>2, <3>1
  <2> QED BY <1>3, <2>3, <2>4, <2>7
<1>5. /\ rest \in Seq(Byte) /\ Len(rest) = Len(data) - end
      /\ \A i \in 1..(Len(data) - end) : rest[i] = data[end + i]
  <2> HIDE DEF end
  <2> QED BY <1>1, <1>2, <1>4
<1>6. \A k \in (first + 1)..N : new[k] = at[k] - end /\ at[k] \in Nat /\ at[k] >= end /\ at[k] <= Len(data)
  <2> SUFFICES ASSUME NEW k \in (first + 1)..N
               PROVE  at[k] \in Nat /\ at[k] >= end /\ at[k] <= Len(data)
    OBVIOUS
  <2>1. first + 1 \in first..N /\ k \in first..N /\ N \in first..N /\ first + 1 <= k /\ k <= N
    BY <1>1
  <2> HIDE DEF N, end
  <2> QED BY <1>3, <1>4, <2>1
<1>10. new \in [(first + 1)..N -> Nat]
  <2> HIDE DEF N, end
  <2> QED BY <1>2, <1>6
<1> HIDE DEF new, rest, end, N
<1>7. \A j, k \in (first + 1)..N : j <= k => new[j] <= new[k]
  <2> SUFFICES ASSUME NEW j \in (first + 1)..N, NEW k \in (first + 1)..N, j <= k
               PROVE  new[j] <= new[k]
    OBVIOUS
  <2>1. j \in first..N /\ k \in first..N BY <1>1
  <2>2. at[j] <= at[k] BY <1>3, <2>1
  <2> QED BY <1>2, <1>6, <2>2
<1>8. ASSUME NEW k \in (first + 2)..N
      PROVE  /\ new[k] = new[k - 1] + PrefixBytes + Len(ps[k])
             /\ \A i \in 1..(PrefixBytes + Len(ps[k])) : rest[new[k - 1] + i] = Frame(ps[k])[i]
  <2>1. k \in (first + 1)..N /\ k - 1 \in (first + 1)..N BY <1>1
  <2>2. Len(ps[k]) \in Nat
    <3>1. ps[k] \in Payloads BY <2>1 DEF N
    <3> QED BY <3>1, FrameIsBytes
  <2>3. /\ at[k] = at[k - 1] + PrefixBytes + Len(ps[k])
        /\ \A i \in 1..(PrefixBytes + Len(ps[k])) : data[at[k - 1] + i] = Frame(ps[k])[i]
    BY <1>3, <2>1
  <2>4. new[k] = at[k] - end /\ new[k - 1] = at[k - 1] - end /\ at[k - 1] >= end /\ at[k] <= Len(data)
        /\ at[k - 1] \in Nat
    BY <1>6, <2>1
  <2>5. ASSUME NEW i \in 1..(PrefixBytes + Len(ps[k]))
        PROVE  rest[new[k - 1] + i] = Frame(ps[k])[i]
    <3> DEFINE b == PrefixBytes + Len(ps[k])
    <3>2. b \in Nat BY <2>2, Constants
    <3>3. at[k - 1] + b <= Len(data) BY <2>2, <2>3, <2>4, Constants
    <3>4. i \in 1..b OBVIOUS
    <3> HIDE DEF b
    <3> DEFINE before == at[k - 1]
    <3>5. before \in Nat /\ before >= end /\ before + b <= Len(data) /\ new[k - 1] = before - end
      BY <2>4, <3>3
    <3> HIDE DEF before
    <3>6. (before - end) + i \in 1..(Len(data) - end) /\ end + ((before - end) + i) = before + i
      BY <1>1, <1>2, <3>2, <3>4, <3>5
    <3>1. new[k - 1] + i \in 1..(Len(data) - end) /\ end + (new[k - 1] + i) = at[k - 1] + i
      BY <3>5, <3>6, Zenon DEF before
    <3> QED BY <1>5, <2>3, <3>1
  <2>6. new[k] = new[k - 1] + PrefixBytes + Len(ps[k])
    <3> DEFINE b == Len(ps[k])
               before == at[k - 1]
    <3>1. before \in Nat /\ b \in Nat /\ new[k] = (before + PrefixBytes + b) - end /\ new[k - 1] = before - end
      BY <2>2, <2>3, <2>4
    <3> HIDE DEF b, before
    <3>2. (before + PrefixBytes + b) - end = (before - end) + PrefixBytes + b BY <1>2, <3>1, Constants
    <3> QED BY <3>1, <3>2 DEF b
  <2> QED BY <2>5, <2>6
<1>9. new[first + 1] = 0 /\ new[N] = Len(rest)
  <2>1. first + 1 \in (first + 1)..N /\ N \in (first + 1)..N BY <1>1 DEF N
  <2>2. new[first + 1] = end - end /\ new[N] = Len(data) - end BY <1>3, <1>4, <1>6, <2>1, Zenon
  <2> QED BY <1>2, <1>5, <2>2
<1>11. Framed(rest, ps, first + 1, new)
  <2>1. (first + 1) + 1 = first + 2 OBVIOUS
  <2> QED BY <1>7, <1>8, <1>9, <1>10, <2>1 DEF Framed, N
<1> QED BY <1>4, <1>11 DEF rest, end

\* No byte is left when nothing is sent and not delivered.
LEMMA NoFrameLeft ==
  ASSUME NEW data \in Seq(Byte), NEW ps \in Seq(Payloads),
         NEW at, Framed(data, ps, Len(ps), at)
  PROVE  Len(data) = 0
BY DEF Framed

---------------------------------------------------------------------------
(* The stream the provider and the transport hold is the frames of the     *)
(* messages not yet delivered, and so the next frame is the next message.  *)

Framing ==
    ~destroyed =>
        /\ Len(delivered) <= Len(sent)
        /\ \E at : Framed(remainingData \o wire, sent, Len(delivered), at)

LEMMA Dropped ==
  ASSUME NEW s \in Seq(Byte), NEW n \in 0..Len(s)
  PROVE  /\ SubSeq(s, n + 1, Len(s)) \in Seq(Byte)
         /\ Len(SubSeq(s, n + 1, Len(s))) = Len(s) - n
         /\ \A i \in 1..(Len(s) - n) : SubSeq(s, n + 1, Len(s))[i] = s[n + i]
OBVIOUS

LEMMA FrameParsed ==
  ASSUME EnvelopeTypeOK, Framing, ~destroyed, Complete
  PROVE  LET p   == sent[Len(delivered) + 1]
             end == PrefixBytes + Len(p)
         IN  /\ Len(delivered) + 1 \in 1..Len(sent)
             /\ DeclaredLength(remainingData) = Len(p)
             /\ SubSeq(remainingData, PrefixBytes + 1, end) = p
             /\ \E new : Framed(SubSeq(remainingData, end + 1, Len(remainingData)) \o wire,
                                sent, Len(delivered) + 1, new)
<1> DEFINE data == remainingData \o wire
           L == Len(remainingData)
           D == Len(delivered)
           p == sent[D + 1]
           end == PrefixBytes + Len(p)
<1>0. /\ remainingData \in Seq(Byte) /\ wire \in Seq(Byte)
      /\ sent \in Seq(Payloads) /\ delivered \in Seq(Seq(Byte))
  BY DEF EnvelopeTypeOK
<1>1. L \in Nat /\ D \in Nat /\ L >= PrefixBytes /\ D <= Len(sent) /\ Len(sent) \in Nat
  BY <1>0 DEF Complete, HasPrefix, Framing
<1>2. PICK at : Framed(data, sent, D, at) BY DEF Framing
<1>3. /\ data \in Seq(Byte) /\ Len(data) = L + Len(wire) /\ Len(wire) \in Nat
      /\ \A i \in 1..L : data[i] = remainingData[i]
      /\ \A i \in 1..Len(wire) : data[L + i] = wire[i]
  <2>1. Len(wire) \in Nat BY <1>0
  <2> QED BY <1>0, <2>1, Joined, Zenon
<1> HIDE DEF data, L
<1>4. D < Len(sent)
  <2> SUFFICES ASSUME D = Len(sent) PROVE FALSE BY <1>1
  <2>1. Len(data) = 0 BY <1>0, <1>2, <1>3, NoFrameLeft
  <2> QED BY <1>1, <1>3, <2>1, Constants
<1>5. /\ end <= Len(data)
      /\ \A i \in 1..end : data[i] = Frame(p)[i]
      /\ \E new : Framed(SubSeq(data, end + 1, Len(data)), sent, D + 1, new)
  <2>1. D \in 0..(Len(sent) - 1) /\ sent \in Seq(Payloads) BY <1>0, <1>1, <1>4
  <2> HIDE DEF D
  <2> QED BY <1>2, <1>3, <2>1, FrameRead
<1>6. p \in Payloads /\ D + 1 \in 1..Len(sent) BY <1>0, <1>1, <1>4
<1>7. /\ p \in Seq(Byte) /\ Len(p) \in Nat /\ end \in Nat
      /\ \A i \in 1..PrefixBytes : Frame(p)[i] = LengthPrefix(Len(p))[i]
      /\ \A i \in 1..Len(p) : Frame(p)[PrefixBytes + i] = p[i]
  <2> HIDE DEF p
  <2> QED BY <1>6, FrameIsBytes, Constants
<1>8. DeclaredLength(remainingData) = Len(p)
  <2>1. Rest(Len(p))[PrefixBytes] = 0 BY <1>6, FramingAssumption
  <2>2. ASSUME NEW i \in 1..PrefixBytes PROVE remainingData[i] = LengthPrefix(Len(p))[i]
    <3>1. i \in 1..L /\ i \in 1..end BY <1>1, <1>7, Constants
    <3> QED BY <1>3, <1>5, <1>7, <3>1
  <2> HIDE DEF p
  <2> QED BY <1>7, <2>1, <2>2, PrefixIsRead
<1>9. end <= L /\ L = Len(remainingData) BY <1>8 DEF Complete, L
<1>10. SubSeq(remainingData, PrefixBytes + 1, end) = p
  <2> DEFINE message == SubSeq(remainingData, PrefixBytes + 1, end)
  <2>1. /\ message \in Seq(Byte) /\ Len(message) = Len(p)
        /\ \A i \in 1..Len(p) : message[i] = remainingData[PrefixBytes + i]
    <3> DEFINE n == Len(p)
    <3>1. n \in Nat /\ PrefixBytes + n <= Len(remainingData) /\ remainingData \in Seq(Byte) BY <1>0, <1>7, <1>9
    <3> HIDE DEF n
    <3>2. /\ SubSeq(remainingData, PrefixBytes + 1, PrefixBytes + n) \in Seq(Byte)
          /\ Len(SubSeq(remainingData, PrefixBytes + 1, PrefixBytes + n)) = n
          /\ \A i \in 1..n : SubSeq(remainingData, PrefixBytes + 1, PrefixBytes + n)[i]
                               = remainingData[PrefixBytes + i]
      BY <3>1, Constants
    <3> QED BY <3>2 DEF n
  <2>2. ASSUME NEW i \in 1..Len(p) PROVE message[i] = p[i]
    <3>1. PrefixBytes + i \in 1..end /\ PrefixBytes + i \in 1..L
      BY <1>1, <1>7, <1>9, Constants
    <3> HIDE DEF message, p
    <3> QED BY <1>3, <1>5, <1>7, <2>1, <3>1
  <2> HIDE DEF message, p
  <2>3. message = p BY <1>7, <2>1, <2>2, SeqEqual
  <2> QED BY <2>3 DEF message
<1>11. SubSeq(data, end + 1, Len(data)) = SubSeq(remainingData, end + 1, L) \o wire
  <2> DEFINE rest == SubSeq(remainingData, end + 1, L)
  <2> HIDE DEF end
  <2>1. /\ rest \in Seq(Byte) /\ Len(rest) = L - end
        /\ \A i \in 1..(L - end) : rest[i] = remainingData[end + i]
    <3>1. end \in 0..Len(remainingData) BY <1>1, <1>7, <1>9 DEF L
    <3> QED BY <1>0, <3>1, Dropped, Zenon DEF L
  <2>2. /\ SubSeq(data, end + 1, Len(data)) \in Seq(Byte)
        /\ Len(SubSeq(data, end + 1, Len(data))) = (L - end) + Len(wire)
        /\ \A i \in 1..((L - end) + Len(wire)) :
              SubSeq(data, end + 1, Len(data))[i] = data[end + i]
    <3>1. end \in 0..Len(data) /\ Len(data) - end = (L - end) + Len(wire) /\ data \in Seq(Byte)
      BY <1>1, <1>3, <1>5, <1>7
    <3> QED BY <3>1, Dropped
  <2> HIDE DEF rest
  <2>3. /\ rest \o wire \in Seq(Byte)
        /\ Len(rest \o wire) = (L - end) + Len(wire)
        /\ \A i \in 1..(L - end) : (rest \o wire)[i] = rest[i]
        /\ \A i \in 1..Len(wire) : (rest \o wire)[(L - end) + i] = wire[i]
    <3>1. rest \in Seq(Byte) /\ wire \in Seq(Byte) /\ Len(rest) = L - end BY <1>0, <2>1
    <3>2. /\ rest \o wire \in Seq(Byte)
          /\ Len(rest \o wire) = Len(rest) + Len(wire)
          /\ \A i \in 1..Len(rest) : (rest \o wire)[i] = rest[i]
          /\ \A i \in 1..Len(wire) : (rest \o wire)[Len(rest) + i] = wire[i]
      BY <3>1, Joined, Zenon
    <3> QED BY <3>1, <3>2, Zenon
  <2>4. ASSUME NEW i \in 1..((L - end) + Len(wire))
        PROVE  SubSeq(data, end + 1, Len(data))[i] = (rest \o wire)[i]
    <3>1. CASE i <= L - end
      <4>1. i \in 1..(L - end) /\ end + i \in 1..L BY <1>1, <1>7, <1>9, <3>1
      <4> QED BY <1>3, <2>1, <2>2, <2>3, <3>1, <4>1
    <3>2. CASE i > L - end
      <4> DEFINE j == i - (L - end)
      <4>1. j \in 1..Len(wire) /\ L + j = end + i /\ (L - end) + j = i
        BY <1>1, <1>3, <1>7, <1>9, <3>2
      <4> HIDE DEF j
      <4>2. (rest \o wire)[i] = wire[j] BY <2>3, <4>1, Zenon
      <4>3. data[L + j] = wire[j] BY <1>3, <4>1, Zenon
      <4> QED BY <2>2, <4>1, <4>2, <4>3
    <3>3. i <= L - end \/ i > L - end BY <1>1, <1>7
    <3> QED BY <3>1, <3>2, <3>3, Zenon
  <2> DEFINE long == SubSeq(data, end + 1, Len(data))
             short == rest \o wire
  <2>5. /\ long \in Seq(Byte) /\ short \in Seq(Byte) /\ Len(long) = Len(short)
        /\ \A i \in 1..Len(long) : long[i] = short[i]
    BY <2>2, <2>3, <2>4
  <2> HIDE DEF long, short
  <2>6. long = short BY <2>5, SeqEqual
  <2> QED BY <2>6 DEF long, short, rest
<1> QED BY <1>5, <1>6, <1>8, <1>10, <1>11 DEF L

\* What the transport hands over stays in the stream.
LEMMA ChunkMoved ==
  ASSUME NEW kept \in Seq(Byte), NEW coming \in Seq(Byte), NEW n \in 1..Len(coming)
  PROVE  (kept \o SubSeq(coming, 1, n)) \o SubSeq(coming, n + 1, Len(coming)) = kept \o coming
<1> DEFINE a == SubSeq(coming, 1, n)
           b == SubSeq(coming, n + 1, Len(coming))
<1>1. a \in Seq(Byte) /\ b \in Seq(Byte) OBVIOUS
<1>2. a \o b = coming
  <2>1. 1 \in 1..(Len(coming) + 1) /\ n \in (1 - 1)..Len(coming) /\ Len(coming) \in n..Len(coming)
    OBVIOUS
  <2>2. a \o b = SubSeq(coming, 1, Len(coming)) BY <2>1, ConcatAdjacentSubSeq
  <2> QED BY <2>2, SubSeqFull
<1> HIDE DEF a, b
<1>3. (kept \o a) \o b = kept \o (a \o b) BY <1>1, JoinedTwice, Zenon
<1> QED BY <1>2, <1>3 DEF a, b

LEMMA FramingKept == EnvelopeTypeOK /\ FailsClosed /\ Framing /\ [EnvelopeNext]_envelopeVars => Framing'
<1> SUFFICES ASSUME EnvelopeTypeOK, FailsClosed, Framing, [EnvelopeNext]_envelopeVars, ~destroyed' PROVE Framing'
  BY DEF Framing
<1> DEFINE D == Len(delivered)
<1>0. /\ remainingData \in Seq(Byte) /\ wire \in Seq(Byte)
      /\ sent \in Seq(Payloads) /\ delivered \in Seq(Seq(Byte))
      /\ remainingData \o wire \in Seq(Byte)
  BY DEF EnvelopeTypeOK
<1>1. ASSUME NEW p \in Payloads, Write(p) PROVE Framing'
  <2>1. /\ remainingData' = remainingData /\ delivered' = delivered /\ ~destroyed
        /\ wire' = wire \o Frame(p) /\ sent' = Append(sent, p)
    BY <1>1 DEF Write
  <2>2. PICK at : Framed(remainingData \o wire, sent, D, at) /\ D <= Len(sent)
    BY <2>1 DEF Framing
  <2>3. D \in 0..Len(sent) BY <1>0, <2>2
  <2>4. \E new : Framed((remainingData \o wire) \o Frame(p), Append(sent, p), D, new)
    <3> HIDE DEF D
    <3> QED BY <1>0, <2>2, <2>3, FrameWritten
  <2>5. (remainingData \o wire) \o Frame(p) = remainingData \o (wire \o Frame(p))
    <3> DEFINE frame == Frame(p)
    <3>1. frame \in Seq(Byte) BY FrameIsBytes
    <3> HIDE DEF frame
    <3>2. (remainingData \o wire) \o frame = remainingData \o (wire \o frame) BY <1>0, <3>1, JoinedTwice
    <3> QED BY <3>2 DEF frame
  <2>6. D <= Len(sent') BY <1>0, <2>1, <2>2, Appended
  <2> QED BY <2>1, <2>4, <2>5, <2>6 DEF Framing
<1>2. ASSUME NEW n \in 1..Len(wire), Chunk(n) PROVE Framing'
  <2>1. /\ remainingData' = remainingData \o SubSeq(wire, 1, n) /\ ~destroyed
        /\ wire' = SubSeq(wire, n + 1, Len(wire)) /\ delivered' = delivered /\ sent' = sent
    BY <1>2 DEF Chunk
  <2>2. remainingData' \o wire' = remainingData \o wire BY <1>0, <2>1, ChunkMoved
  <2> QED BY <2>1, <2>2 DEF Framing
<1>3. ASSUME ParseFrame PROVE Framing'
  <2> DEFINE end == PrefixBytes + DeclaredLength(remainingData)
             message == SubSeq(remainingData, PrefixBytes + 1, end)
  <2>1. /\ ~destroyed /\ Complete /\ wire' = wire /\ sent' = sent
        /\ delivered' = Append(delivered, message)
        /\ remainingData' = SubSeq(remainingData, end + 1, Len(remainingData))
    BY <1>3 DEF ParseFrame
  <2>2. /\ D + 1 \in 1..Len(sent)
        /\ DeclaredLength(remainingData) = Len(sent[D + 1])
        /\ message = sent[D + 1]
        /\ \E new : Framed(SubSeq(remainingData, end + 1, Len(remainingData)) \o wire,
                           sent, D + 1, new)
    BY <2>1, FrameParsed
  <2>3. Len(delivered') = D + 1
    <3>1. message \in Seq(Byte)
      <4>1. sent[D + 1] \in Payloads BY <1>0, <2>2
      <4> QED BY <2>2, <4>1, FrameIsBytes
    <3> HIDE DEF message
    <3> QED BY <1>0, <2>1, <3>1, Appended
  <2>4. Len(delivered') <= Len(sent') BY <2>1, <2>2, <2>3
  <2>5. \E new : Framed(remainingData' \o wire', sent', Len(delivered'), new)
    <3> HIDE DEF end, D
    <3> QED BY <2>1, <2>2, <2>3
  <2> QED BY <2>4, <2>5 DEF Framing
<1>4. ASSUME NeedMoreData PROVE Framing'
  BY <1>4 DEF NeedMoreData, Framing
<1>5. ASSUME RefuseFrame PROVE Framing'
  BY <1>5 DEF RefuseFrame
<1>6. ASSUME LowerError PROVE Framing'
  BY <1>6 DEF LowerError, Framing
<1>7. ASSUME CloseProvider PROVE Framing'
  BY <1>7 DEF CloseProvider
<1>8. ASSUME UNCHANGED envelopeVars PROVE Framing'
  BY <1>8 DEF envelopeVars, Framing
<1> QED BY <1>1, <1>2, <1>3, <1>4, <1>5, <1>6, <1>7, <1>8 DEF EnvelopeNext

LEMMA FramingFirst == EnvelopeInit => Framing
<1> SUFFICES ASSUME EnvelopeInit PROVE Framing OBVIOUS
<1> DEFINE none == [k \in {0} |-> 0]
<1>1. sent = <<>> /\ delivered = <<>> /\ remainingData \o wire = <<>>
  <2>1. remainingData = <<>> /\ wire = <<>> /\ sent = <<>> /\ delivered = <<>> BY DEF EnvelopeInit
  <2>2. <<>> \o <<>> = <<>> BY ConcatEmptySeq, EmptySeq
  <2> QED BY <2>1, <2>2
<1>2. 0..0 = {0} /\ 1..0 = {} /\ Len(<<>>) = 0 OBVIOUS
<1>3. Framed(<<>>, <<>>, 0, none) BY <1>2 DEF Framed
<1> QED BY <1>1, <1>2, <1>3 DEF Framing

(***************************************************************************)
(* The provider gives its user a channel: the messages sent, whole, in the *)
(* order they were sent in, none twice and none after the close, for every *)
(* length of the prefix, all messages and every cut of the stream.         *)
(***************************************************************************)
THEOREM ProviderIsAChannel == EnvelopeSpec => ImplementsChannel
<1>1. EnvelopeInit => Channel!Init
  BY DEF EnvelopeInit, Channel!Init
<1>2. EnvelopeTypeOK /\ FailsClosed /\ Framing /\ [EnvelopeNext]_envelopeVars
        => [Channel!Next]_<<sent, delivered, ~destroyed>>
  <2> SUFFICES ASSUME EnvelopeTypeOK, FailsClosed, Framing, [EnvelopeNext]_envelopeVars
               PROVE  Channel!Next \/ UNCHANGED <<sent, delivered, ~destroyed>>
    OBVIOUS
  <2>1. ASSUME NEW p \in Payloads, Write(p) PROVE Channel!Send(p)
    BY <2>1 DEF Write, Channel!Send
  <2>2. ASSUME NEW n \in 1..Len(wire), Chunk(n) PROVE UNCHANGED <<sent, delivered, ~destroyed>>
    BY <2>2 DEF Chunk
  <2>3. ASSUME ParseFrame PROVE Channel!Deliver
    <3> DEFINE end == PrefixBytes + DeclaredLength(remainingData)
               message == SubSeq(remainingData, PrefixBytes + 1, end)
    <3>1. /\ Complete /\ UNCHANGED <<sent, destroyed>>
          /\ delivered' = Append(delivered, message)
      BY <2>3 DEF ParseFrame
    <3>2. ~destroyed
      <4>1. Len(<<>>) = 0 OBVIOUS
      <4> QED BY <3>1, <4>1, Constants DEF FailsClosed, Complete, HasPrefix
    <3>3. /\ Len(delivered) + 1 \in 1..Len(sent)
          /\ message = sent[Len(delivered) + 1]
      BY <3>1, <3>2, FrameParsed
    <3>4. Len(delivered) < Len(sent)
      <4>1. Len(delivered) \in Nat /\ Len(sent) \in Nat BY DEF EnvelopeTypeOK
      <4> QED BY <3>3, <4>1
    <3> HIDE DEF message
    <3> QED BY <3>1, <3>2, <3>3, <3>4 DEF Channel!Deliver
  <2>4. ASSUME NeedMoreData PROVE UNCHANGED <<sent, delivered, ~destroyed>>
    BY <2>4 DEF NeedMoreData
  <2>5. ASSUME RefuseFrame PROVE Channel!Close \/ UNCHANGED <<sent, delivered, ~destroyed>>
    BY <2>5 DEF RefuseFrame, Channel!Close
  <2>6. ASSUME LowerError PROVE UNCHANGED <<sent, delivered, ~destroyed>>
    BY <2>6 DEF LowerError
  <2>7. ASSUME CloseProvider PROVE Channel!Close
    BY <2>7 DEF CloseProvider, Channel!Close
  <2>8. ASSUME UNCHANGED envelopeVars PROVE UNCHANGED <<sent, delivered, ~destroyed>>
    BY <2>8 DEF envelopeVars
  <2> QED BY <2>1, <2>2, <2>3, <2>4, <2>5, <2>6, <2>7, <2>8 DEF EnvelopeNext, Channel!Next
<1> QED BY <1>1, <1>2, TypeCorrect, ProviderFailsClosed, FramingFirst, FramingKept, PTL
    DEF EnvelopeSpec, ImplementsChannel, Channel!Spec

---------------------------------------------------------------------------
(* The client's listeners.                                                 *)

Known == 1..Len(registered)

Walkers ==
    [event : Events, replaced : BOOLEAN, list : Seq(Nat), next : Nat \ {0}, running : BOOLEAN,
     called : Seq(Nat), began : SUBSET Nat]

ClientTypeOK ==
    /\ registered \in Seq([handler : Handlers, once : BOOLEAN])
    /\ eventListeners \in [Events -> Seq(Nat)]
    /\ emitting \in Seq(Walkers)
    /\ heard \in Seq(Nat) /\ Len(heard) = Len(registered)
    /\ removed \subseteq Known

\* The list a walker walks.
ListOf(w, lists) == IF w.replaced THEN w.list ELSE lists[w.event]

Once(s) == \A i, j \in DOMAIN s : s[i] = s[j] => i = j

\* A listener is in one list, there once.
ListsApart ==
    /\ \A e \in Events : Range(eventListeners[e]) \subseteq Known /\ Once(eventListeners[e])
    /\ \A e, f \in Events : e # f => Range(eventListeners[e]) \cap Range(eventListeners[f]) = {}

\* A walker has called those it has passed, unless one was put before them.
WalksWell(w, lists, known, counts, what) ==
    LET list == ListOf(w, lists)
    IN  /\ Range(list) \subseteq known /\ Once(list)
        /\ \A f \in Events \ {w.event} : Range(list) \cap Range(lists[f]) = {}
        /\ w.next <= Len(list) + 1
        /\ Len(w.called) = w.next - 1
        /\ w.began \subseteq Range(list)
        /\ \A i \in 1..w.next - 1 : list[i] \in w.began => list[i] \in Range(w.called)
        /\ "prepended" \notin what => \A i \in 1..w.next - 1 : w.called[i] = list[i]
        /\ \A l \in Range(w.called) : l \in known /\ counts[l] > 0
        /\ what \cap {"removed", "nested"} = {} => ~w.replaced

WalkersWell ==
    \A i \in DOMAIN emitting : WalksWell(emitting[i], eventListeners, Known, heard, disturbed)

Innocent == disturbed \cap {"threw", "nested", "prepended"} = {}

\* One emission at a time, ...
OneAtATime == "nested" \notin disturbed => Len(emitting) <= 1

\* ... which is to drop those that were called and are to be called once.
CalledOnce ==
    Innocent => \A l \in Known : registered[l].once =>
        /\ heard[l] <= 1
        /\ heard[l] > 0 =>
               \/ Gone(l) /\ \A i \in DOMAIN emitting : l \notin Range(ListOf(emitting[i], eventListeners))
               \/ \E i \in DOMAIN emitting : l \in Range(emitting[i].called)

GoneForACause ==
    \A l \in Known : Gone(l) /\ l \notin removed =>
        registered[l].once /\ (heard[l] > 0 \/ disturbed \cap {"removed", "nested", "prepended"} # {})

RemovedIsGone == \A l \in removed : Gone(l)

ListenersInv ==
    /\ ClientTypeOK /\ ListsApart /\ WalkersWell
    /\ OneAtATime /\ CalledOnce /\ GoneForACause /\ RemovedIsGone

---------------------------------------------------------------------------
LEMMA PutLast ==
    ASSUME NEW s \in Seq(Nat), NEW x \in Nat
    PROVE  /\ Append(s, x) \in Seq(Nat) /\ Len(Append(s, x)) = Len(s) + 1
           /\ Append(s, x)[Len(s) + 1] = x /\ \A i \in 1..Len(s) : Append(s, x)[i] = s[i]
           /\ Range(Append(s, x)) = Range(s) \cup {x}
           /\ Once(s) /\ x \notin Range(s) => Once(Append(s, x))
  <1> DEFINE t == Append(s, x)
  <1>1. /\ t \in Seq(Nat) /\ Len(t) = Len(s) + 1 /\ DOMAIN t = 1..Len(s) + 1 /\ DOMAIN s = 1..Len(s)
        /\ t[Len(s) + 1] = x /\ \A i \in 1..Len(s) : t[i] = s[i]
    OBVIOUS
  <1> HIDE DEF t
  <1>4. Len(s) \in Nat
    OBVIOUS
  <1>2. Range(t) = Range(s) \cup {x}
    <2>1. \A i \in 1..Len(s) + 1 : i \in 1..Len(s) \/ i = Len(s) + 1
      BY <1>4
    <2>2. 1..Len(s) \subseteq 1..Len(s) + 1 /\ Len(s) + 1 \in 1..Len(s) + 1
      BY <1>4
    <2> QED BY <1>1, <2>1, <2>2 DEF Range
  <1>3. Once(s) /\ x \notin Range(s) => Once(t)
    BY <1>1 DEF Once, Range
  <1> QED BY <1>1, <1>2, <1>3 DEF t

LEMMA PutFirst ==
    ASSUME NEW s \in Seq(Nat), NEW x \in Nat
    PROVE  /\ <<x>> \o s \in Seq(Nat) /\ Len(<<x>> \o s) = Len(s) + 1
           /\ (<<x>> \o s)[1] = x /\ \A i \in 2..Len(s) + 1 : (<<x>> \o s)[i] = s[i - 1]
           /\ Range(<<x>> \o s) = Range(s) \cup {x}
           /\ Once(s) /\ x \notin Range(s) => Once(<<x>> \o s)
  <1> DEFINE t == <<x>> \o s
  <1>1. /\ t \in Seq(Nat) /\ Len(t) = Len(s) + 1 /\ DOMAIN t = 1..Len(s) + 1 /\ DOMAIN s = 1..Len(s)
        /\ t[1] = x /\ \A i \in 2..Len(s) + 1 : t[i] = s[i - 1]
    OBVIOUS
  <1> HIDE DEF t
  <1>4. Len(s) \in Nat
    OBVIOUS
  <1>5. \A i \in 1..Len(s) + 1 : i # 1 => i \in 2..Len(s) + 1 /\ i - 1 \in 1..Len(s)
    BY <1>4
  <1>6. \A i \in 1..Len(s) : i + 1 \in 2..Len(s) + 1 /\ i + 1 \in 1..Len(s) + 1 /\ (i + 1) - 1 = i
    BY <1>4
  <1>7. \A i \in 1..Len(s) : t[i + 1] = s[i]
    BY <1>1, <1>6
  <1>8. 1 \in 1..Len(s) + 1
    BY <1>4
  <1>2. Range(t) = Range(s) \cup {x}
    <2>1. ASSUME NEW i \in 1..Len(s) + 1 PROVE t[i] \in Range(s) \cup {x}
      BY <1>1, <1>5 DEF Range
    <2>2. ASSUME NEW i \in 1..Len(s) PROVE s[i] \in Range(t)
      BY <1>1, <1>6, <1>7 DEF Range
    <2>3. x \in Range(t)
      BY <1>1, <1>8 DEF Range
    <2> QED BY <1>1, <2>1, <2>2, <2>3 DEF Range
  <1>3. ASSUME Once(s), x \notin Range(s) PROVE Once(t)
    <2> SUFFICES ASSUME NEW i \in 1..Len(s) + 1, NEW j \in 1..Len(s) + 1, t[i] = t[j] PROVE i = j
      BY <1>1 DEF Once
    <2>1. \A k \in 1..Len(s) : s[k] # x
      BY <1>1, <1>3 DEF Range
    <2>2. \A k \in 1..Len(s) + 1 : k # 1 => k - 1 \in 1..Len(s) /\ t[k] = s[k - 1] /\ t[k] # x
      BY <1>1, <1>5, <2>1
    <2>3. CASE i = 1 \/ j = 1
      BY <2>2, <2>3, <1>1
    <2>4. CASE i # 1 /\ j # 1
      <3>1. i - 1 \in DOMAIN s /\ j - 1 \in DOMAIN s /\ s[i - 1] = s[j - 1]
        BY <2>2, <2>4, <1>1
      <3>2. i - 1 = j - 1
        BY <3>1, <1>3 DEF Once
      <3> QED BY <3>2
    <2> QED BY <2>3, <2>4
  <1> QED BY <1>1, <1>2, <1>3 DEF t

\* A walker whose list is as it was.
LEMMA WalkStays ==
    ASSUME NEW w, NEW v, NEW lists, NEW lists2, NEW known, NEW known2,
           NEW counts, NEW counts2, NEW what, NEW what2,
           WalksWell(w, lists, known, counts, what),
           v.event = w.event, v.next = w.next, v.called = w.called, v.began = w.began,
           ListOf(v, lists2) = ListOf(w, lists),
           \A f \in Events : Range(lists2[f]) \cap known \subseteq Range(lists[f]),
           known \subseteq known2, \A l \in known : counts[l] > 0 => counts2[l] > 0,
           what \subseteq what2,
           what2 \cap {"removed", "nested"} = {} => ~v.replaced
    PROVE  WalksWell(v, lists2, known2, counts2, what2)
  <1> DEFINE list == ListOf(w, lists)
  <1>1. /\ Range(list) \subseteq known /\ Once(list)
        /\ \A f \in Events \ {w.event} : Range(list) \cap Range(lists[f]) = {}
        /\ w.next <= Len(list) + 1 /\ Len(w.called) = w.next - 1
        /\ w.began \subseteq Range(list)
        /\ \A i \in 1..w.next - 1 : list[i] \in w.began => list[i] \in Range(w.called)
        /\ "prepended" \notin what => \A i \in 1..w.next - 1 : w.called[i] = list[i]
        /\ \A l \in Range(w.called) : l \in known /\ counts[l] > 0
    BY DEF WalksWell
  <1>2. ListOf(v, lists2) = list
    OBVIOUS
  <1> HIDE DEF list
  <1> QED BY <1>1, <1>2 DEF WalksWell

\* The lists and the walkers after removeListener's and emit's filter.
LEMMA ReplaceWell ==
    ASSUME ListenersInv, NEW event \in Events, NEW list \in Seq(Nat), NEW walkers \in Seq(Walkers),
           Replace(event, list, walkers),
           Len(walkers) <= Len(emitting), \A i \in 1..Len(walkers) : walkers[i] = emitting[i],
           Range(list) \subseteq Range(eventListeners[event]), Once(list),
           registered' = registered, heard' = heard, disturbed \subseteq disturbed',
           walkers # <<>> => disturbed' \cap {"removed", "nested"} # {}
    PROVE  /\ eventListeners' \in [Events -> Seq(Nat)]
           /\ eventListeners'[event] = list
           /\ \A f \in Events \ {event} : eventListeners'[f] = eventListeners[f]
           /\ emitting' \in Seq(Walkers) /\ Len(emitting') = Len(walkers)
           /\ \A i \in 1..Len(walkers) : /\ ListOf(emitting'[i], eventListeners') = ListOf(emitting[i], eventListeners)
                                         /\ emitting'[i].called = emitting[i].called
           /\ ListsApart' /\ WalkersWell'
  <1>0. ClientTypeOK /\ ListsApart /\ WalkersWell
    BY DEF ListenersInv
  <1>1. /\ eventListeners' \in [Events -> Seq(Nat)]
        /\ eventListeners'[event] = list
        /\ \A f \in Events \ {event} : eventListeners'[f] = eventListeners[f]
    BY <1>0 DEF Replace, ClientTypeOK
  <1>2. /\ DOMAIN walkers = 1..Len(walkers) /\ Len(walkers) \in Nat
        /\ DOMAIN emitting = 1..Len(emitting) /\ Len(emitting) \in Nat
        /\ \A i \in 1..Len(walkers) : i \in 1..Len(emitting) /\ walkers[i] \in Walkers
    BY <1>0 DEF ClientTypeOK
  <1>3. \A i \in 1..Len(walkers) :
            emitting'[i] = IF walkers[i].event = event /\ ~walkers[i].replaced
                           THEN [walkers[i] EXCEPT !.replaced = TRUE, !.list = eventListeners[event]]
                           ELSE walkers[i]
    BY <1>2 DEF Replace
  <1>4. eventListeners[event] \in Seq(Nat)
    BY <1>0 DEF ClientTypeOK
  <1>5. ASSUME NEW i \in 1..Len(walkers)
        PROVE  /\ emitting'[i] \in Walkers
               /\ emitting'[i].event = emitting[i].event /\ emitting'[i].next = emitting[i].next
               /\ emitting'[i].called = emitting[i].called /\ emitting'[i].began = emitting[i].began
               /\ ListOf(emitting'[i], eventListeners') = ListOf(emitting[i], eventListeners)
    <2>1. walkers[i] \in Walkers /\ walkers[i] = emitting[i]
      BY <1>2
    <2>2. CASE walkers[i].event = event /\ ~walkers[i].replaced
      <3>1. emitting'[i] = [walkers[i] EXCEPT !.replaced = TRUE, !.list = eventListeners[event]]
        BY <1>3, <2>2
      <3>2. /\ emitting'[i] \in Walkers /\ emitting'[i].event = emitting[i].event
            /\ emitting'[i].next = emitting[i].next
            /\ emitting'[i].called = emitting[i].called /\ emitting'[i].began = emitting[i].began
            /\ emitting'[i].replaced = TRUE /\ emitting'[i].list = eventListeners[event]
        BY <3>1, <2>1, <1>4 DEF Walkers
      <3> QED BY <3>2, <2>2, <2>1 DEF ListOf
    <2>3. CASE ~(walkers[i].event = event /\ ~walkers[i].replaced)
      <3>1. emitting'[i] = emitting[i]
        BY <1>3, <2>1, <2>3
      <3>2. emitting[i].event \in Events /\ emitting[i].replaced \in BOOLEAN
        BY <2>1 DEF Walkers
      <3>3. ListOf(emitting'[i], eventListeners') = ListOf(emitting[i], eventListeners)
        BY <3>1, <3>2, <2>1, <2>3, <1>1 DEF ListOf
      <3> QED BY <3>1, <3>3, <2>1
    <2> QED BY <2>2, <2>3
  <1>6. emitting' \in Seq(Walkers) /\ Len(emitting') = Len(walkers) /\ DOMAIN emitting' = 1..Len(walkers)
    <2>1. emitting' = [i \in 1..Len(walkers) |-> emitting'[i]]
      BY <1>2 DEF Replace
    <2> QED BY <1>2, <1>5, <2>1
  <1>7. ListsApart'
    <2>1. \A e \in Events : Range(eventListeners'[e]) \subseteq Range(eventListeners[e]) /\ Once(eventListeners'[e])
      BY <1>0, <1>1 DEF ListsApart
    <2>2. Known' = Known
      BY DEF Known
    <2>3. \A e \in Events : Range(eventListeners'[e]) \subseteq Known'
      BY <2>1, <2>2, <1>0 DEF ListsApart
    <2>4. \A e, f \in Events : e # f => Range(eventListeners'[e]) \cap Range(eventListeners'[f]) = {}
      BY <2>1, <1>0 DEF ListsApart
    <2> HIDE DEF Once
    <2>5. (\A e \in Events : Once(eventListeners[e]))'
      BY <2>1 DEF Once
    <2> QED BY <2>3, <2>4, <2>5 DEF ListsApart, Range
  <1>8. WalkersWell'
    <2> SUFFICES ASSUME NEW i \in 1..Len(walkers)
                 PROVE  WalksWell(emitting'[i], eventListeners', Known', heard', disturbed')
      BY <1>6 DEF WalkersWell
    <2>1. WalksWell(emitting[i], eventListeners, Known, heard, disturbed)
      BY <1>0, <1>2 DEF WalkersWell
    <2>2. \A f \in Events : Range(eventListeners'[f]) \cap Known \subseteq Range(eventListeners[f])
      BY <1>1
    <2>3. Known \subseteq Known' /\ \A l \in Known : heard[l] > 0 => heard'[l] > 0
      BY DEF Known
    <2>4. disturbed' \cap {"removed", "nested"} # {}
      BY <1>2
    <2> QED BY <2>1, <2>2, <2>3, <2>4, <1>5, WalkStays
  <1> QED BY <1>1, <1>5, <1>6, <1>7, <1>8

LEMMA ListenersInitInv == ClientInit => ListenersInv
  <1> SUFFICES ASSUME ClientInit PROVE ListenersInv
    OBVIOUS
  <1>1. /\ registered = <<>> /\ heard = <<>> /\ emitting = <<>> /\ removed = {} /\ disturbed = {}
        /\ \A e \in Events : eventListeners[e] = <<>>
        /\ eventListeners = [e \in Events |-> <<>>]
    BY DEF ClientInit
  <1>2. ClientTypeOK
    <2>1. /\ <<>> \in Seq(Nat) /\ <<>> \in Seq(Walkers) /\ <<>> \in Seq([handler : Handlers, once : BOOLEAN])
      OBVIOUS
    <2> QED BY <1>1, <2>1 DEF ClientTypeOK
  <1>3. ListsApart
    BY <1>1 DEF ListsApart, Range, Once
  <1>4. WalkersWell /\ OneAtATime
    BY <1>1 DEF WalkersWell, OneAtATime
  <1>5. Known = {}
    BY <1>1 DEF Known
  <1>6. CalledOnce /\ GoneForACause /\ RemovedIsGone
    BY <1>1, <1>5 DEF CalledOnce, GoneForACause, RemovedIsGone
  <1> QED BY <1>2, <1>3, <1>4, <1>6 DEF ListenersInv

\* A listener is added, last or first.
LEMMA AddListenerInv ==
    ASSUME ListenersInv, NEW event \in Events, NEW handler \in Handlers,
           NEW once \in BOOLEAN, NEW prepend \in BOOLEAN, AddListener(event, handler, once, prepend)
    PROVE  ListenersInv'
  <1> DEFINE l == Len(registered) + 1
             old == eventListeners[event]
             new == IF prepend THEN <<l>> \o old ELSE Append(old, l)
  <1>0. /\ ClientTypeOK /\ ListsApart /\ WalkersWell
        /\ OneAtATime /\ CalledOnce /\ GoneForACause /\ RemovedIsGone
    BY DEF ListenersInv
  <1>1. /\ registered \in Seq([handler : Handlers, once : BOOLEAN]) /\ Len(registered) \in Nat
        /\ heard \in Seq(Nat) /\ Len(heard) = Len(registered) /\ l \in Nat /\ l \notin Known
        /\ Known \subseteq Nat
    BY <1>0 DEF ClientTypeOK, Known
  <1>2. /\ registered' \in Seq([handler : Handlers, once : BOOLEAN]) /\ Len(registered') = l
        /\ \A k \in Known : registered'[k] = registered[k]
        /\ heard' \in Seq(Nat) /\ Len(heard') = l /\ heard'[l] = 0
        /\ \A k \in Known : heard'[k] = heard[k]
    <2>1. registered' = Append(registered, [handler |-> handler, once |-> once]) /\ heard' = Append(heard, 0)
      BY DEF AddListener
    <2> QED BY <2>1, <1>1 DEF Known
  <1>3. Known' = Known \cup {l}
    BY <1>1, <1>2 DEF Known
  <1>4. /\ old \in Seq(Nat) /\ Once(old) /\ Range(old) \subseteq Known /\ l \notin Range(old)
    BY <1>0, <1>1 DEF ClientTypeOK, ListsApart
  <1>5. new \in Seq(Nat) /\ Range(new) = Range(old) \cup {l} /\ Once(new)
    BY <1>1, <1>4, PutLast, PutFirst
  <1>6. /\ eventListeners' = [eventListeners EXCEPT ![event] = new]
        /\ emitting' = emitting /\ removed' = removed
        /\ disturbed \subseteq disturbed' /\ disturbed' \subseteq disturbed \cup {"prepended"}
        /\ prepend /\ emitting # <<>> => "prepended" \in disturbed'
    BY DEF AddListener, Disturb
  <1>7. /\ eventListeners' \in [Events -> Seq(Nat)] /\ eventListeners'[event] = new
        /\ \A f \in Events \ {event} : eventListeners'[f] = eventListeners[f]
    BY <1>0, <1>5, <1>6 DEF ClientTypeOK
  <1> HIDE DEF new
  <1>8. \A f \in Events : /\ Range(eventListeners'[f]) \cap Known = Range(eventListeners[f]) \cap Known
                         /\ Range(eventListeners[f]) \subseteq Range(eventListeners'[f])
                         /\ (f # event => l \notin Range(eventListeners'[f]))
    BY <1>0, <1>1, <1>5, <1>7 DEF ListsApart
  <1> HIDE DEF l
  <1>9. ClientTypeOK'
    <2>1. emitting' \in Seq(Walkers) /\ removed' \subseteq Known'
      BY <1>0, <1>3, <1>6 DEF ClientTypeOK
    <2>2. registered' \in Seq([handler : Handlers, once : BOOLEAN]) /\ heard' \in Seq(Nat)
          /\ Len(heard') = Len(registered')
      BY <1>2
    <2> QED BY <1>7, <2>1, <2>2 DEF ClientTypeOK
  <1>10. ListsApart'
    <2>1. \A e \in Events : Range(eventListeners'[e]) \subseteq Known' /\ Once(eventListeners'[e])
      BY <1>0, <1>3, <1>5, <1>7 DEF ListsApart
    <2>2. \A e, f \in Events : e # f => Range(eventListeners'[e]) \cap Range(eventListeners'[f]) = {}
      <3> SUFFICES ASSUME NEW e \in Events, NEW f \in Events, e # f,
                          NEW k \in Range(eventListeners'[e]), k \in Range(eventListeners'[f])
                   PROVE  FALSE
        OBVIOUS
      <3>1. k \in Known
        BY <2>1, <1>3, <1>8
      <3>2. k \in Range(eventListeners[e]) /\ k \in Range(eventListeners[f])
        BY <3>1, <1>8
      <3> QED BY <3>2, <1>0 DEF ListsApart
    <2> QED BY <2>1, <2>2 DEF ListsApart, Range, Once
  <1>11. ASSUME NEW i \in DOMAIN emitting
         PROVE  /\ WalksWell(emitting[i], eventListeners', Known', heard', disturbed')
                /\ Range(ListOf(emitting[i], eventListeners')) \cap Known \subseteq
                       Range(ListOf(emitting[i], eventListeners))
    <2> DEFINE w == emitting[i]
               list == ListOf(w, eventListeners)
    <2>1. WalksWell(w, eventListeners, Known, heard, disturbed) /\ w \in Walkers /\ emitting # <<>>
      BY <1>0 DEF WalkersWell, ClientTypeOK
    <2>2. CASE w.replaced \/ w.event # event
      <3>1. ListOf(w, eventListeners') = list
        BY <2>1, <2>2, <1>7 DEF ListOf, Walkers
      <3>2. /\ \A f \in Events : Range(eventListeners'[f]) \cap Known \subseteq Range(eventListeners[f])
            /\ Known \subseteq Known' /\ \A k \in Known : heard[k] > 0 => heard'[k] > 0
            /\ disturbed \subseteq disturbed'
        BY <1>2, <1>3, <1>6, <1>8
      <3>3. disturbed' \cap {"removed", "nested"} = {} => ~w.replaced
        BY <2>1, <1>6 DEF WalksWell
      <3>4. WalksWell(w, eventListeners', Known', heard', disturbed')
        BY <2>1, <3>1, <3>2, <3>3, WalkStays
      <3> QED BY <3>1, <3>4
    <2>3. CASE ~w.replaced /\ w.event = event
      <3>1. list = old /\ ListOf(w, eventListeners') = new
        BY <2>3, <1>7 DEF ListOf
      <3>2. /\ w.next <= Len(old) + 1 /\ Len(w.called) = w.next - 1 /\ w.began \subseteq Range(old)
            /\ \A k \in 1..w.next - 1 : old[k] \in w.began => old[k] \in Range(w.called)
            /\ "prepended" \notin disturbed => \A k \in 1..w.next - 1 : w.called[k] = old[k]
            /\ \A k \in Range(w.called) : k \in Known /\ heard[k] > 0
            /\ w.next \in Nat \ {0}
        BY <2>1, <3>1 DEF WalksWell, Walkers
      <3>3. /\ \A k \in Range(w.called) : k \in Known' /\ heard'[k] > 0
            /\ w.began \subseteq Range(new) /\ Range(new) \subseteq Known' /\ Once(new)
            /\ \A f \in Events \ {w.event} : Range(new) \cap Range(eventListeners'[f]) = {}
        <4>1. \A k \in Range(w.called) : k \in Known' /\ heard'[k] > 0
          BY <3>2, <1>2, <1>3
        <4>2. w.began \subseteq Range(new) /\ Range(new) \subseteq Known' /\ Once(new)
          BY <3>2, <1>3, <1>4, <1>5
        <4>3. \A f \in Events \ {w.event} : Range(new) \cap Range(eventListeners'[f]) = {}
          BY <2>3, <1>7, <1>10 DEF ListsApart
        <4> QED BY <4>1, <4>2, <4>3
      <3>4. /\ w.next <= Len(new) + 1
            /\ \A k \in 1..w.next - 1 : new[k] \in w.began => new[k] \in Range(w.called)
            /\ "prepended" \notin disturbed' => \A k \in 1..w.next - 1 : w.called[k] = new[k]
        <4>1. CASE ~prepend
          <5>1. Len(new) = Len(old) + 1 /\ \A k \in 1..Len(old) : new[k] = old[k]
            BY <4>1, <1>1, <1>4, PutLast DEF new, l
          <5>2. w.next - 1 <= Len(old) /\ Len(old) \in Nat /\ w.next \in Nat
            BY <3>2, <1>4
          <5>3. \A k \in 1..w.next - 1 : new[k] = old[k]
            BY <5>1, <5>2
          <5>4. "prepended" \notin disturbed' => "prepended" \notin disturbed
            BY <1>6
          <5> QED BY <3>2, <5>1, <5>2, <5>3, <5>4
        <4>2. CASE prepend
          <5>1. /\ Len(new) = Len(old) + 1 /\ new[1] = l
                /\ \A k \in 2..Len(old) + 1 : new[k] = old[k - 1]
            BY <4>2, <1>1, <1>4, PutFirst DEF new, l
          <5>2. "prepended" \in disturbed'
            BY <4>2, <2>1, <1>6
          <5>3. Len(old) \in Nat /\ w.next \in Nat
            BY <3>2, <1>4
          <5>4. ASSUME NEW k \in 1..w.next - 1, new[k] \in w.began PROVE new[k] \in Range(w.called)
            <6>1. CASE k = 1
              BY <6>1, <5>1, <5>4, <3>2, <1>4
            <6>2. CASE k # 1
              <7>1. k \in 2..Len(old) + 1 /\ k - 1 \in 1..w.next - 1
                BY <6>2, <5>3, <3>2
              <7> QED BY <7>1, <5>1, <5>4, <3>2
            <6> QED BY <6>1, <6>2
          <5> QED BY <3>2, <5>1, <5>2, <5>3, <5>4
        <4> QED BY <4>1, <4>2
      <3>5. disturbed' \cap {"removed", "nested"} = {} => ~w.replaced
        BY <2>3
      <3>6. WalksWell(w, eventListeners', Known', heard', disturbed')
        BY <3>1, <3>2, <3>3, <3>4, <3>5 DEF WalksWell
      <3>7. Range(new) \cap Known \subseteq Range(old)
        BY <1>3, <1>5, <1>1 DEF l
      <3> QED BY <3>1, <3>6, <3>7
    <2> QED BY <2>2, <2>3
  <1>12. WalkersWell'
    BY <1>6, <1>11 DEF WalkersWell
  <1>13. OneAtATime'
    BY <1>0, <1>6 DEF OneAtATime
  <1>14. \A k \in Known : Gone(k)' <=> Gone(k)
    BY <1>8 DEF Gone
  <1>15. CalledOnce'
    <2> SUFFICES ASSUME Innocent', NEW k \in Known', registered'[k].once
                 PROVE  /\ heard'[k] <= 1
                        /\ heard'[k] > 0 =>
                               \/ Gone(k)' /\ \A i \in DOMAIN emitting' :
                                                  k \notin Range(ListOf(emitting'[i], eventListeners'))
                               \/ \E i \in DOMAIN emitting' : k \in Range(emitting'[i].called)
      BY DEF CalledOnce
    <2>1. CASE k = l
      BY <2>1, <1>2
    <2>2. CASE k \in Known
      <3>1. /\ heard[k] <= 1
            /\ heard[k] > 0 =>
                   \/ Gone(k) /\ \A i \in DOMAIN emitting : k \notin Range(ListOf(emitting[i], eventListeners))
                   \/ \E i \in DOMAIN emitting : k \in Range(emitting[i].called)
        BY <2>2, <1>0, <1>2, <1>6 DEF CalledOnce, Innocent
      <3> QED BY <2>2, <3>1, <1>2, <1>6, <1>11, <1>14
    <2> QED BY <2>1, <2>2, <1>3
  <1>16. GoneForACause'
    <2> SUFFICES ASSUME NEW k \in Known', Gone(k)', k \notin removed
                 PROVE  /\ registered'[k].once
                        /\ heard'[k] > 0 \/ disturbed' \cap {"removed", "nested", "prepended"} # {}
      BY <1>6 DEF GoneForACause
    <2>1. k # l
      <3>1. l \in Range(eventListeners'[event])
        BY <1>5, <1>7
      <3> QED BY <3>1 DEF Gone
    <2>2. k \in Known /\ Gone(k)
      BY <2>1, <1>3, <1>14
    <2> QED BY <2>2, <1>0, <1>2, <1>6 DEF GoneForACause
  <1>17. RemovedIsGone'
    BY <1>0, <1>6, <1>14 DEF RemovedIsGone, ClientTypeOK
  <1> QED BY <1>9, <1>10, <1>12, <1>13, <1>15, <1>16, <1>17 DEF ListenersInv

LEMMA ExceptAt ==
    ASSUME NEW S, NEW s \in Seq(S), NEW n \in 1..Len(s), NEW v \in S
    PROVE  /\ [s EXCEPT ![n] = v] \in Seq(S)
           /\ Len([s EXCEPT ![n] = v]) = Len(s)
           /\ DOMAIN [s EXCEPT ![n] = v] = 1..Len(s)
           /\ [s EXCEPT ![n] = v][n] = v
           /\ \A i \in 1..Len(s) : i # n => [s EXCEPT ![n] = v][i] = s[i]
  <1> DEFINE t == [s EXCEPT ![n] = v]
  <1>1. Len(s) \in Nat /\ DOMAIN s = 1..Len(s) /\ n \in DOMAIN s /\ \A i \in 1..Len(s) : s[i] \in S
    OBVIOUS
  <1>2. DOMAIN t = 1..Len(s) /\ t[n] = v /\ \A i \in 1..Len(s) : i # n => t[i] = s[i]
    BY <1>1
  <1>3. t = [i \in 1..Len(s) |-> t[i]] /\ \A i \in 1..Len(s) : t[i] \in S
    BY <1>1, <1>2
  <1> HIDE DEF t
  <1>4. t \in Seq(S) /\ Len(t) = Len(s)
    BY <1>1, <1>3, SeqDef
  <1> QED BY <1>2, <1>4 DEF t

LEMMA FrontOf ==
    ASSUME NEW S, NEW s \in Seq(S), Len(s) \in Nat \ {0}
    PROVE  /\ Front(s) \in Seq(S) /\ Len(Front(s)) = Len(s) - 1
           /\ \A i \in 1..Len(s) - 1 : Front(s)[i] = s[i]
  <1>1. Front(s) = SubSeq(s, 1, Len(s) - 1)
    BY DEF Front
  <1>2. Len(s) - 1 \in Nat /\ \A i \in 1..Len(s) - 1 : i \in 1..Len(s) /\ s[i] \in S
    OBVIOUS
  <1>3. SubSeq(s, 1, Len(s) - 1) = [i \in 1..Len(s) - 1 |-> s[i]]
    BY <1>2
  <1>4. [i \in 1..Len(s) - 1 |-> s[i]] \in Seq(S)
    BY <1>2
  <1>5. Len(Front(s)) = Len(s) - 1
    <2> DEFINE k == Len(s) - 1
               f == Front(s)
    <2>1. k \in Nat /\ f \in Seq(S) /\ f = [i \in 1..k |-> s[i]]
      BY <1>1, <1>2, <1>3, <1>4
    <2> HIDE DEF k, f
    <2>2. DOMAIN f = 1..k
      BY <2>1
    <2>3. Len(f) = k
      BY <2>1, <2>2
    <2> QED BY <2>3 DEF f, k
  <1>6. \A i \in 1..Len(s) - 1 : Front(s)[i] = s[i]
    BY <1>1, <1>3
  <1> QED BY <1>1, <1>3, <1>4, <1>5, <1>6

LEMMA SelectedOf ==
    ASSUME NEW s \in Seq(Nat), Once(s), NEW T
    PROVE  /\ Selected(s, T) \in Seq(Nat) /\ Once(Selected(s, T))
           /\ Range(Selected(s, T)) = Range(s) \cap T
  <1>1. Selected(s, T) \in Seq(Nat \cap T) /\ ValuesOf(Selected(s, T)) = ValuesOf(s) \cap T
    BY SelectedRange
  <1>2. \A i, j \in 1..Len(s) : s[i] = s[j] => i = j
    BY DEF Once
  <1>3. \A i, j \in 1..Len(Selected(s, T)) : Selected(s, T)[i] = Selected(s, T)[j] => i = j
    BY <1>2, SelectedOnce
  <1>4. Selected(s, T) \in Seq(Nat) /\ DOMAIN Selected(s, T) = 1..Len(Selected(s, T))
    BY <1>1
  <1>5. Once(Selected(s, T))
    BY <1>3, <1>4 DEF Once
  <1>6. Range(Selected(s, T)) = Range(s) \cap T
    BY <1>1 DEF ValuesOf, Range
  <1> QED BY <1>4, <1>5, <1>6

\* Listeners are removed: by handler, or those to be called once.
LEMMA RemoveListenerInv ==
    ASSUME ListenersInv, NEW event \in Events, NEW handler \in Handlers, RemoveListener(event, handler)
    PROVE  ListenersInv'
  <1> DEFINE old == eventListeners[event]
             list == Without(handler, old)
  <1>0. /\ ClientTypeOK /\ ListsApart /\ WalkersWell
        /\ OneAtATime /\ CalledOnce /\ GoneForACause /\ RemovedIsGone
    BY DEF ListenersInv
  <1>1. /\ Replace(event, list, emitting)
        /\ removed' = removed \cup Of(handler, old)
        /\ registered' = registered /\ heard' = heard
        /\ disturbed \subseteq disturbed' /\ disturbed' \subseteq disturbed \cup {"removed"}
        /\ emitting # <<>> => "removed" \in disturbed'
    BY DEF RemoveListener, Disturb
  <1>2. old \in Seq(Nat) /\ Once(old) /\ Range(old) \subseteq Known /\ emitting \in Seq(Walkers)
    BY <1>0 DEF ClientTypeOK, ListsApart
  <1>3. list \in Seq(Nat) /\ Range(list) = Range(old) \ Of(handler, old) /\ Once(list)
    <2>1. list = Selected(old, Range(old) \ Of(handler, old))
      BY DEF Without
    <2> HIDE DEF list
    <2>5. list \in Seq(Nat) /\ Once(list) /\ Range(list) = Range(old) \cap (Range(old) \ Of(handler, old))
      BY <1>2, <2>1, SelectedOf
    <2>6. list \in Seq(Nat) /\ Once(list)
      BY <2>5
    <2>7. Range(list) = Range(old) \ Of(handler, old)
      BY <2>5
    <2> QED BY <2>6, <2>7
  <1> HIDE DEF list
  <1>4. /\ eventListeners' \in [Events -> Seq(Nat)]
        /\ eventListeners'[event] = list
        /\ \A f \in Events \ {event} : eventListeners'[f] = eventListeners[f]
        /\ emitting' \in Seq(Walkers) /\ Len(emitting') = Len(emitting)
        /\ \A i \in 1..Len(emitting) :
               /\ ListOf(emitting'[i], eventListeners') = ListOf(emitting[i], eventListeners)
               /\ emitting'[i].called = emitting[i].called
        /\ ListsApart' /\ WalkersWell'
    <2>1. Len(emitting) <= Len(emitting)
      BY <1>2
    <2>2. Range(list) \subseteq Range(old)
      BY <1>3
    <2>3. emitting # <<>> => disturbed' \cap {"removed", "nested"} # {}
      BY <1>1
    <2> QED BY <1>1, <1>2, <1>3, <2>1, <2>2, <2>3, ReplaceWell
  <1>5. Known' = Known
    BY <1>1 DEF Known
  <1>6. ClientTypeOK'
    <2>1. removed' \subseteq Known'
      BY <1>0, <1>1, <1>2, <1>5 DEF ClientTypeOK, Of
    <2> QED BY <1>0, <1>1, <1>4, <2>1 DEF ClientTypeOK
  <1>7. OneAtATime'
    BY <1>0, <1>1, <1>4 DEF OneAtATime
  <1>8. \A k \in Known : Gone(k)' <=> Gone(k) \/ k \in Of(handler, old)
    <2>1. \A f \in Events \ {event} : Range(old) \cap Range(eventListeners[f]) = {}
      BY <1>0 DEF ListsApart
    <2>2. Of(handler, old) \subseteq Range(old)
      BY DEF Of
    <2> QED BY <2>1, <2>2, <1>3, <1>4 DEF Gone
  <1>9. DOMAIN emitting = 1..Len(emitting) /\ DOMAIN emitting' = 1..Len(emitting)
    BY <1>2, <1>4
  <1>10. CalledOnce'
    <2> SUFFICES ASSUME Innocent', NEW k \in Known, registered[k].once
                 PROVE  /\ heard[k] <= 1
                        /\ heard[k] > 0 =>
                               \/ Gone(k)' /\ \A i \in DOMAIN emitting' :
                                                  k \notin Range(ListOf(emitting'[i], eventListeners'))
                               \/ \E i \in DOMAIN emitting' : k \in Range(emitting'[i].called)
      BY <1>1, <1>5 DEF CalledOnce
    <2>1. /\ heard[k] <= 1
          /\ heard[k] > 0 =>
                 \/ Gone(k) /\ \A i \in DOMAIN emitting : k \notin Range(ListOf(emitting[i], eventListeners))
                 \/ \E i \in DOMAIN emitting : k \in Range(emitting[i].called)
      BY <1>0, <1>1 DEF CalledOnce, Innocent
    <2> QED BY <2>1, <1>4, <1>8, <1>9
  <1>11. GoneForACause'
    <2> SUFFICES ASSUME NEW k \in Known, Gone(k)', k \notin removed'
                 PROVE  /\ registered[k].once
                        /\ heard[k] > 0 \/ disturbed' \cap {"removed", "nested", "prepended"} # {}
      BY <1>1, <1>5 DEF GoneForACause
    <2>1. Gone(k) /\ k \notin removed
      BY <1>1, <1>8
    <2> QED BY <2>1, <1>0, <1>1 DEF GoneForACause
  <1>12. RemovedIsGone'
    <2>1. \A k \in removed' : k \in Known /\ (Gone(k) \/ k \in Of(handler, old))
      BY <1>0, <1>1, <1>5, <1>6 DEF RemovedIsGone, ClientTypeOK
    <2> QED BY <2>1, <1>8 DEF RemovedIsGone
  <1> QED BY <1>4, <1>6, <1>7, <1>10, <1>11, <1>12 DEF ListenersInv

LEMMA FinishInv == ListenersInv /\ FinishEmit => ListenersInv'
  <1> SUFFICES ASSUME ListenersInv, FinishEmit PROVE ListenersInv'
    OBVIOUS
  <1> DEFINE n == Len(emitting)
             w == emitting[n]
             event == w.event
             old == eventListeners[event]
             list == Selected(old, Repeated)
             front == Front(emitting)
  <1>0. /\ ClientTypeOK /\ ListsApart /\ WalkersWell
        /\ OneAtATime /\ CalledOnce /\ GoneForACause /\ RemovedIsGone
    BY DEF ListenersInv
  <1>1. /\ emitting # <<>> /\ w.next > Len(ListOf(w, eventListeners))
        /\ Replace(event, list, front)
        /\ registered' = registered /\ heard' = heard /\ removed' = removed /\ disturbed' = disturbed
    BY DEF FinishEmit, Walks, Innermost, List, ListOf
  <1>2. /\ emitting \in Seq(Walkers) /\ n \in Nat \ {0} /\ DOMAIN emitting = 1..n /\ w \in Walkers
        /\ front \in Seq(Walkers) /\ Len(front) = n - 1
        /\ \A i \in 1..n - 1 : front[i] = emitting[i]
    <2>1. emitting \in Seq(Walkers) /\ n \in Nat \ {0}
      BY <1>0, <1>1 DEF ClientTypeOK
    <2>2. n \in DOMAIN emitting /\ DOMAIN emitting = 1..n
      BY <2>1
    <2>3. w \in Walkers
      BY <2>1, <2>2
    <2> HIDE DEF w
    <2>4. /\ front \in Seq(Walkers) /\ Len(front) = n - 1
          /\ \A i \in 1..n - 1 : front[i] = emitting[i]
      BY <2>1, FrontOf
    <2> QED BY <2>1, <2>2, <2>3, <2>4
  <1> HIDE DEF front
  <1>3. event \in Events /\ old \in Seq(Nat) /\ Once(old) /\ Range(old) \subseteq Known
    BY <1>0, <1>2 DEF ClientTypeOK, ListsApart, Walkers
  <1>4. list \in Seq(Nat) /\ Range(list) = {l \in Range(old) : ~registered[l].once} /\ Once(list)
    <2>1. list \in Seq(Nat) /\ Once(list) /\ Range(list) = Range(old) \cap Repeated
      BY <1>3, SelectedOf
    <2>2. DOMAIN registered = Known
      BY <1>0 DEF ClientTypeOK, Known
    <2> HIDE DEF list
    <2>3. Range(list) = {l \in Range(old) : ~registered[l].once}
      BY <2>1, <2>2, <1>3 DEF Repeated
    <2> QED BY <2>1, <2>3
  <1> HIDE DEF list
  <1>5. n >= 2 => "nested" \in disturbed
    BY <1>0, <1>2 DEF OneAtATime
  <1>6. /\ eventListeners' \in [Events -> Seq(Nat)]
        /\ eventListeners'[event] = list
        /\ \A f \in Events \ {event} : eventListeners'[f] = eventListeners[f]
        /\ emitting' \in Seq(Walkers) /\ Len(emitting') = Len(front)
        /\ \A i \in 1..Len(front) :
               /\ ListOf(emitting'[i], eventListeners') = ListOf(emitting[i], eventListeners)
               /\ emitting'[i].called = emitting[i].called
        /\ ListsApart' /\ WalkersWell'
    <2>1. Len(front) <= Len(emitting) /\ \A i \in 1..Len(front) : front[i] = emitting[i]
      BY <1>2
    <2>2. Range(list) \subseteq Range(old)
      BY <1>4
    <2>3. front # <<>> => disturbed' \cap {"removed", "nested"} # {}
      <3>1. front # <<>> => n >= 2
        BY <1>2
      <3> QED BY <3>1, <1>1, <1>5
    <2>4. disturbed \subseteq disturbed'
      BY <1>1
    <2> QED BY <1>1, <1>2, <1>3, <1>4, <2>1, <2>2, <2>3, <2>4, ReplaceWell
  <1>7. Known' = Known
    BY <1>1 DEF Known
  <1>8. ClientTypeOK'
    <2>1. removed' \subseteq Known'
      BY <1>0, <1>1, <1>7 DEF ClientTypeOK
    <2> QED BY <1>0, <1>1, <1>6, <2>1 DEF ClientTypeOK
  <1>9. OneAtATime'
    <2>1. Len(emitting') = n - 1
      BY <1>2, <1>6
    <2> QED BY <2>1, <1>0, <1>1, <1>2 DEF OneAtATime
  <1>10. \A k \in Known : Gone(k)' <=> Gone(k) \/ (k \in Range(old) /\ registered[k].once)
    <2>1. \A f \in Events \ {event} : Range(old) \cap Range(eventListeners[f]) = {}
      BY <1>0, <1>3 DEF ListsApart
    <2> QED BY <2>1, <1>3, <1>4, <1>6 DEF Gone
  <1>11. WalksWell(w, eventListeners, Known, heard, disturbed)
    BY <1>0, <1>2 DEF WalkersWell
  <1>12. CalledOnce'
    <2> SUFFICES ASSUME Innocent, NEW k \in Known, registered[k].once
                 PROVE  /\ heard[k] <= 1
                        /\ heard[k] > 0 =>
                               \/ Gone(k)' /\ \A i \in DOMAIN emitting' :
                                                  k \notin Range(ListOf(emitting'[i], eventListeners'))
                               \/ \E i \in DOMAIN emitting' : k \in Range(emitting'[i].called)
      BY <1>1, <1>7 DEF CalledOnce, Innocent
    <2>1. n = 1
      BY <1>2, <1>5 DEF Innocent
    <2>2. DOMAIN emitting' = {}
      BY <2>1, <1>2, <1>6
    <2>3. /\ heard[k] <= 1
          /\ heard[k] > 0 => Gone(k) \/ k \in Range(w.called)
      BY <2>1, <1>0, <1>2 DEF CalledOnce
    <2>4. k \in Range(w.called) => k \in Range(ListOf(w, eventListeners))
      <3> DEFINE walked == ListOf(w, eventListeners)
      <3>1. w.called \in Seq(Nat) /\ w.next \in Nat
        BY <1>2 DEF Walkers
      <3>2. walked \in Seq(Nat)
        BY <1>0, <1>2 DEF ListOf, Walkers, ClientTypeOK
      <3>3. /\ Len(w.called) = w.next - 1 /\ w.next <= Len(walked) + 1
            /\ \A i \in 1..w.next - 1 : w.called[i] = walked[i]
        BY <1>11 DEF WalksWell, Innocent
      <3> HIDE DEF walked
      <3>4. DOMAIN w.called = 1..w.next - 1 /\ 1..w.next - 1 \subseteq DOMAIN walked
        BY <3>1, <3>2, <3>3
      <3>5. Range(w.called) \subseteq Range(walked)
        BY <3>3, <3>4 DEF Range
      <3> QED BY <3>5 DEF walked
    <2>5. k \in Range(ListOf(w, eventListeners)) => Gone(k)'
      <3>1. k \in Range(ListOf(w, eventListeners)) => \A f \in Events \ {event} : k \notin Range(eventListeners[f])
        BY <1>11 DEF WalksWell
      <3>2. k \notin Range(list)
        BY <1>4
      <3> QED BY <3>1, <3>2, <1>6 DEF Gone
    <2> QED BY <2>2, <2>3, <2>4, <2>5, <1>10
  <1>13. GoneForACause'
    <2> SUFFICES ASSUME NEW k \in Known, Gone(k)', k \notin removed
                 PROVE  /\ registered[k].once
                        /\ heard[k] > 0 \/ disturbed \cap {"removed", "nested", "prepended"} # {}
      BY <1>1, <1>7 DEF GoneForACause
    <2>1. CASE Gone(k)
      BY <2>1, <1>0 DEF GoneForACause
    <2>2. CASE k \in Range(old) /\ registered[k].once
      <3> SUFFICES ASSUME disturbed \cap {"removed", "nested", "prepended"} = {} PROVE heard[k] > 0
        BY <2>2
      <3>1. ~w.replaced /\ ListOf(w, eventListeners) = old
        BY <1>11 DEF WalksWell, ListOf
      <3>2. w.next \in Nat /\ w.called \in Seq(Nat)
        BY <1>2 DEF Walkers
      <3>3. /\ Len(w.called) = w.next - 1 /\ w.next <= Len(old) + 1 /\ w.next > Len(old)
            /\ \A i \in 1..w.next - 1 : w.called[i] = old[i]
            /\ \A l \in Range(w.called) : heard[l] > 0
        BY <3>1, <1>1, <1>11 DEF WalksWell
      <3>4. DOMAIN old = 1..w.next - 1 /\ DOMAIN w.called = 1..w.next - 1
        <4>1. Len(old) \in Nat /\ DOMAIN old = 1..Len(old) /\ DOMAIN w.called = 1..Len(w.called)
          BY <3>2, <1>3
        <4>2. Len(old) = w.next - 1
          BY <4>1, <3>2, <3>3
        <4> QED BY <4>1, <4>2, <3>3
      <3>5. k \in Range(w.called)
        BY <3>3, <3>4, <2>2 DEF Range
      <3> QED BY <3>3, <3>5
    <2> QED BY <2>1, <2>2, <1>10
  <1>14. RemovedIsGone'
    BY <1>0, <1>1, <1>10 DEF RemovedIsGone, ClientTypeOK
  <1> QED BY <1>6, <1>8, <1>9, <1>12, <1>13, <1>14 DEF ListenersInv

\* A step that leaves the lists of listeners, and may add to what disturbed.
LEMMA OthersStay ==
    ASSUME ListenersInv, registered' = registered, eventListeners' = eventListeners,
           heard' = heard, removed' = removed, disturbed \subseteq disturbed',
           emitting' \in Seq(Walkers), WalkersWell', OneAtATime', CalledOnce'
    PROVE  ListenersInv'
  <1>0. ClientTypeOK /\ ListsApart /\ GoneForACause /\ RemovedIsGone
    BY DEF ListenersInv
  <1>1. Known' = Known /\ \A k \in Known : Gone(k)' <=> Gone(k)
    BY DEF Known, Gone
  <1>2. ClientTypeOK' /\ ListsApart'
    BY <1>0, <1>1 DEF ClientTypeOK, ListsApart
  <1>3. GoneForACause'
    BY <1>0, <1>1 DEF GoneForACause
  <1>4. RemovedIsGone'
    BY <1>0, <1>1 DEF RemovedIsGone, Gone
  <1> QED BY <1>2, <1>3, <1>4 DEF ListenersInv

\* An emission that begins walks the list there is.
LEMMA EmissionWell ==
    ASSUME ClientTypeOK, ListsApart, NEW event \in Events, NEW what,
           NEW known, known = Known, NEW counts
    PROVE  /\ Emission(event) \in Walkers /\ Emission(event).called = <<>>
           /\ ListOf(Emission(event), eventListeners) = eventListeners[event]
           /\ WalksWell(Emission(event), eventListeners, known, counts, what)
  <1> DEFINE w == Emission(event)
             list == eventListeners[event]
  <1>1. list \in Seq(Nat) /\ Range(list) \subseteq Known /\ Once(list) /\ Known \subseteq Nat
    BY DEF ClientTypeOK, ListsApart, Known
  <1>2. /\ w.event = event /\ w.replaced = FALSE /\ w.next = 1 /\ w.called = <<>> /\ w.began = Range(list)
        /\ w.running = FALSE /\ w.list = <<>>
    BY DEF Emission
  <1>3. w \in Walkers
    <2>1. Range(list) \in SUBSET Nat
      <3> HIDE DEF list
      <3> QED BY <1>1
    <2>2. <<>> \in Seq(Nat)
      OBVIOUS
    <2> QED BY <2>1, <2>2 DEF Walkers, Emission
  <1>4. ListOf(w, eventListeners) = list
    BY <1>2 DEF ListOf
  <1> HIDE DEF w
  <1>5. \A f \in Events \ {event} : Range(list) \cap Range(eventListeners[f]) = {}
    BY DEF ListsApart
  <1>6. /\ w.next <= Len(list) + 1 /\ Len(w.called) = w.next - 1 /\ 1..w.next - 1 = {} /\ Range(w.called) = {}
    BY <1>1, <1>2 DEF Range
  <1>7. WalksWell(w, eventListeners, known, counts, what)
    BY <1>1, <1>2, <1>4, <1>5, <1>6 DEF WalksWell
  <1> QED BY <1>2, <1>3, <1>4, <1>7 DEF w

LEMMA StillWalksWell ==
    ASSUME NEW w, NEW lists, NEW known, NEW counts, NEW what, NEW what2,
           WalksWell(w, lists, known, counts, what), what \subseteq what2
    PROVE  WalksWell(w, lists, known, counts, what2)
  BY DEF WalksWell

LEMMA EmitInv ==
    ASSUME ListenersInv, NEW event \in Events, Emit(event)
    PROVE  ListenersInv'
  <1> DEFINE n == Len(emitting)
             w == Emission(event)
  <1>0. ClientTypeOK /\ ListsApart /\ WalkersWell /\ OneAtATime /\ CalledOnce
    BY DEF ListenersInv
  <1>1. /\ emitting' = Append(emitting, w)
        /\ registered' = registered /\ eventListeners' = eventListeners /\ heard' = heard
        /\ removed' = removed /\ disturbed \subseteq disturbed'
        /\ emitting # <<>> => "nested" \in disturbed'
    BY DEF Emit, Disturb
  <1>2. emitting \in Seq(Walkers) /\ n \in Nat /\ DOMAIN emitting = 1..n
    BY <1>0 DEF ClientTypeOK
  <1>3. w \in Walkers /\ WalksWell(w, eventListeners, Known, heard, disturbed')
    BY <1>0, EmissionWell
  <1>4. w.called = <<>> /\ ListOf(w, eventListeners) = eventListeners[event]
    BY <1>0, EmissionWell
  <1> HIDE DEF w
  <1>5. /\ emitting' \in Seq(Walkers) /\ Len(emitting') = n + 1 /\ DOMAIN emitting' = 1..n + 1
        /\ emitting'[n + 1] = w /\ \A i \in 1..n : emitting'[i] = emitting[i]
    BY <1>1, <1>2, <1>3
  <1>6. Known' = Known
    BY <1>1 DEF Known
  <1>7. WalkersWell'
    <2> SUFFICES ASSUME NEW i \in 1..n + 1
                 PROVE  WalksWell(emitting'[i], eventListeners, Known, heard, disturbed')
      BY <1>1, <1>5, <1>6 DEF WalkersWell
    <2>1. CASE i = n + 1
      BY <2>1, <1>3, <1>5
    <2>2. CASE i # n + 1
      <3>1. i \in 1..n
        BY <2>2, <1>2
      <3>2. WalksWell(emitting[i], eventListeners, Known, heard, disturbed)
        BY <3>1, <1>0, <1>2 DEF WalkersWell
      <3> QED BY <3>1, <3>2, <1>1, <1>5, StillWalksWell
    <2> QED BY <2>1, <2>2
  <1>8. OneAtATime'
    <2>1. emitting = <<>> => n = 0
      BY <1>2
    <2> QED BY <2>1, <1>1, <1>2, <1>5 DEF OneAtATime
  <1>9. CalledOnce'
    <2> SUFFICES ASSUME Innocent', NEW k \in Known, registered[k].once
                 PROVE  /\ heard[k] <= 1
                        /\ heard[k] > 0 =>
                               \/ Gone(k) /\ \A i \in DOMAIN emitting' :
                                                  k \notin Range(ListOf(emitting'[i], eventListeners))
                               \/ \E i \in DOMAIN emitting' : k \in Range(emitting'[i].called)
      BY <1>1, <1>6 DEF CalledOnce, Gone
    <2>1. emitting = <<>> /\ n = 0
      BY <1>1, <1>2 DEF Innocent
    <2>2. heard[k] <= 1 /\ (heard[k] > 0 => Gone(k))
      BY <2>1, <1>0, <1>1, <1>2 DEF CalledOnce, Innocent
    <2>3. Gone(k) => \A i \in DOMAIN emitting' : k \notin Range(ListOf(emitting'[i], eventListeners))
      BY <2>1, <1>2, <1>4, <1>5 DEF Gone
    <2> QED BY <2>2, <2>3
  <1> QED BY <1>1, <1>5, <1>7, <1>8, <1>9, OthersStay

LEMMA ReturnInv == ListenersInv /\ Return => ListenersInv'
  <1> SUFFICES ASSUME ListenersInv, Return PROVE ListenersInv'
    OBVIOUS
  <1> DEFINE n == Len(emitting)
             w == emitting[n]
             v == [w EXCEPT !.running = FALSE]
  <1>0. ClientTypeOK /\ ListsApart /\ WalkersWell /\ OneAtATime /\ CalledOnce
    BY DEF ListenersInv
  <1>1. /\ emitting # <<>> /\ emitting' = [emitting EXCEPT ![n].running = FALSE]
        /\ registered' = registered /\ eventListeners' = eventListeners /\ heard' = heard
        /\ removed' = removed /\ disturbed' = disturbed
    BY DEF Return
  <1>2. /\ emitting \in Seq(Walkers) /\ n \in Nat \ {0} /\ DOMAIN emitting = 1..n /\ w \in Walkers
        /\ n \in 1..n
    BY <1>0, <1>1 DEF ClientTypeOK
  <1>3. emitting' = [emitting EXCEPT ![n] = v]
    BY <1>1, <1>2
  <1>4. /\ v \in Walkers /\ v.event = w.event /\ v.next = w.next /\ v.called = w.called
        /\ v.began = w.began /\ v.replaced = w.replaced /\ v.list = w.list
    BY <1>2 DEF Walkers
  <1> HIDE DEF v
  <1>5. /\ emitting' \in Seq(Walkers) /\ Len(emitting') = n /\ DOMAIN emitting' = 1..n
        /\ emitting'[n] = v /\ \A i \in 1..n : i # n => emitting'[i] = emitting[i]
    <2>1. n \in 1..Len(emitting) /\ emitting \in Seq(Walkers) /\ v \in Walkers /\ Len(emitting) = n
      BY <1>2, <1>4
    <2> HIDE DEF n
    <2>2. /\ [emitting EXCEPT ![n] = v] \in Seq(Walkers)
          /\ Len([emitting EXCEPT ![n] = v]) = Len(emitting)
          /\ DOMAIN [emitting EXCEPT ![n] = v] = 1..Len(emitting)
          /\ [emitting EXCEPT ![n] = v][n] = v
          /\ \A i \in 1..Len(emitting) : i # n => [emitting EXCEPT ![n] = v][i] = emitting[i]
      BY <2>1, ExceptAt
    <2> QED BY <2>1, <2>2, <1>3
  <1>6. \A i \in 1..n : /\ ListOf(emitting'[i], eventListeners) = ListOf(emitting[i], eventListeners)
                        /\ emitting'[i].called = emitting[i].called
    BY <1>4, <1>5 DEF ListOf
  <1>7. Known' = Known
    BY <1>1 DEF Known
  <1>8. WalkersWell'
    <2> SUFFICES ASSUME NEW i \in 1..n
                 PROVE  WalksWell(emitting'[i], eventListeners, Known, heard, disturbed)
      BY <1>1, <1>5, <1>7 DEF WalkersWell
    <2>1. WalksWell(emitting[i], eventListeners, Known, heard, disturbed)
      BY <1>0, <1>2 DEF WalkersWell
    <2>2. CASE i # n
      BY <2>1, <2>2, <1>5
    <2>3. CASE i = n
      <3>1. WalksWell(w, eventListeners, Known, heard, disturbed)
        BY <2>1, <2>3
      <3>2. ListOf(v, eventListeners) = ListOf(w, eventListeners)
        BY <1>4 DEF ListOf
      <3>3. WalksWell(v, eventListeners, Known, heard, disturbed)
        BY <3>1, <3>2, <1>4 DEF WalksWell
      <3> QED BY <3>3, <2>3, <1>5
    <2> QED BY <2>2, <2>3
  <1>9. OneAtATime'
    BY <1>0, <1>1, <1>5 DEF OneAtATime
  <1>10. CalledOnce'
    <2> SUFFICES ASSUME Innocent, NEW k \in Known, registered[k].once
                 PROVE  /\ heard[k] <= 1
                        /\ heard[k] > 0 =>
                               \/ Gone(k) /\ \A i \in 1..n :
                                                  k \notin Range(ListOf(emitting'[i], eventListeners))
                               \/ \E i \in 1..n : k \in Range(emitting'[i].called)
      BY <1>1, <1>5, <1>7 DEF CalledOnce, Gone, Innocent
    <2>1. /\ heard[k] <= 1
          /\ heard[k] > 0 =>
                 \/ Gone(k) /\ \A i \in 1..n : k \notin Range(ListOf(emitting[i], eventListeners))
                 \/ \E i \in 1..n : k \in Range(emitting[i].called)
      BY <1>0, <1>2 DEF CalledOnce
    <2> QED BY <2>1, <1>6
  <1>11. disturbed \subseteq disturbed'
    BY <1>1
  <1> QED BY <1>1, <1>5, <1>8, <1>9, <1>10, <1>11, OthersStay

LEMMA ThrowInv == ListenersInv /\ Throw => ListenersInv'
  <1> SUFFICES ASSUME ListenersInv, Throw PROVE ListenersInv'
    OBVIOUS
  <1> DEFINE n == Len(emitting)
             front == Front(emitting)
             w == Emission("error")
  <1>0. ClientTypeOK /\ ListsApart /\ WalkersWell /\ OneAtATime /\ CalledOnce
    BY DEF ListenersInv
  <1>1. /\ emitting # <<>> /\ emitting' \in {front, Append(front, w)}
        /\ registered' = registered /\ eventListeners' = eventListeners /\ heard' = heard
        /\ removed' = removed /\ disturbed \subseteq disturbed' /\ "threw" \in disturbed'
    BY DEF Throw, Disturb
  <1>2. /\ emitting \in Seq(Walkers) /\ n \in Nat \ {0} /\ DOMAIN emitting = 1..n
    BY <1>0, <1>1 DEF ClientTypeOK
  <1>3. /\ front \in Seq(Walkers) /\ Len(front) = n - 1 /\ \A i \in 1..n - 1 : front[i] = emitting[i]
    BY <1>2, FrontOf
  <1>4. w \in Walkers /\ WalksWell(w, eventListeners, Known, heard, disturbed')
    <2>1. "error" \in Events
      BY DEF Events
    <2> QED BY <2>1, <1>0, EmissionWell
  <1> HIDE DEF w, front
  <1>5. /\ emitting' \in Seq(Walkers) /\ Len(emitting') \in n - 1..n /\ DOMAIN emitting' = 1..Len(emitting')
        /\ \A i \in 1..Len(emitting') : IF i = n THEN emitting'[i] = w ELSE emitting'[i] = emitting[i]
    <2> HIDE DEF n
    <2>1. CASE emitting' = front
      <3>1. emitting' \in Seq(Walkers) /\ Len(emitting') = n - 1 /\ DOMAIN emitting' = 1..n - 1
        BY <2>1, <1>2, <1>3
      <3>2. \A i \in 1..n - 1 : i # n /\ emitting'[i] = emitting[i]
        BY <2>1, <1>2, <1>3
      <3> QED BY <3>1, <3>2, <1>2
    <2>2. CASE emitting' = Append(front, w)
      <3>1. /\ Append(front, w) \in Seq(Walkers) /\ Len(Append(front, w)) = n - 1 + 1
            /\ \A i \in 1..n - 1 : Append(front, w)[i] = front[i]
            /\ Append(front, w)[n - 1 + 1] = w
        BY <1>2, <1>3, <1>4
      <3>2. n - 1 + 1 = n /\ \A i \in 1..n : i = n \/ (i \in 1..n - 1 /\ i # n)
        BY <1>2
      <3>3. emitting' \in Seq(Walkers) /\ Len(emitting') = n /\ DOMAIN emitting' = 1..n
        BY <2>2, <3>1, <3>2
      <3>4. emitting'[n] = w /\ \A i \in 1..n - 1 : emitting'[i] = emitting[i]
        BY <2>2, <3>1, <3>2, <1>3
      <3>5. Len(emitting') \in n - 1..n /\ DOMAIN emitting' = 1..Len(emitting')
        BY <3>3, <1>2
      <3>6. \A i \in 1..Len(emitting') : IF i = n THEN emitting'[i] = w ELSE emitting'[i] = emitting[i]
        BY <3>2, <3>3, <3>4
      <3> QED BY <3>3, <3>5, <3>6
    <2> QED BY <2>1, <2>2, <1>1
  <1>6. Known' = Known
    BY <1>1 DEF Known
  <1>7. WalkersWell'
    <2> SUFFICES ASSUME NEW i \in 1..Len(emitting')
                 PROVE  WalksWell(emitting'[i], eventListeners, Known, heard, disturbed')
      BY <1>1, <1>5, <1>6 DEF WalkersWell
    <2>1. CASE i = n
      BY <2>1, <1>4, <1>5
    <2>2. CASE i # n
      <3>1. i \in 1..n
        <4> HIDE DEF n
        <4> QED BY <1>2, <1>5
      <3>2. WalksWell(emitting[i], eventListeners, Known, heard, disturbed)
        BY <3>1, <1>0, <1>2 DEF WalkersWell
      <3> QED BY <2>2, <3>2, <1>1, <1>5, StillWalksWell
    <2> QED BY <2>1, <2>2
  <1>8. OneAtATime'
    <2>1. "nested" \notin disturbed' => n <= 1
      BY <1>0, <1>1 DEF OneAtATime
    <2>2. Len(emitting') <= n
      <3> HIDE DEF n
      <3> QED BY <1>2, <1>5
    <2>3. Len(emitting') \in Nat
      BY <1>5
    <2> HIDE DEF n
    <2> QED BY <2>1, <2>2, <2>3, <1>2 DEF OneAtATime
  <1>9. CalledOnce'
    BY <1>1 DEF CalledOnce, Innocent
  <1> QED BY <1>1, <1>5, <1>7, <1>8, <1>9, OthersStay

LEMMA CallNextInv == ListenersInv /\ CallNext => ListenersInv'
  <1> SUFFICES ASSUME ListenersInv, CallNext PROVE ListenersInv'
    OBVIOUS
  <1> DEFINE n == Len(emitting)
             w == emitting[n]
             list == ListOf(w, eventListeners)
             l == list[w.next]
             v == [w EXCEPT !.running = TRUE, !.next = @ + 1, !.called = Append(@, l)]
  <1>0. /\ ClientTypeOK /\ ListsApart /\ WalkersWell
        /\ OneAtATime /\ CalledOnce /\ GoneForACause /\ RemovedIsGone
    BY DEF ListenersInv
  <1>1. /\ emitting # <<>> /\ w.next <= Len(list)
        /\ emitting' = [emitting EXCEPT ![n].running = TRUE, ![n].next = @ + 1, ![n].called = Append(@, l)]
        /\ heard' = [heard EXCEPT ![l] = @ + 1]
        /\ registered' = registered /\ eventListeners' = eventListeners
        /\ removed' = removed /\ disturbed' = disturbed
    BY DEF CallNext, Walks, Innermost, List, ListOf
  <1>2. /\ emitting \in Seq(Walkers) /\ n \in Nat \ {0} /\ DOMAIN emitting = 1..n /\ n \in 1..n
        /\ w \in Walkers
    BY <1>0, <1>1 DEF ClientTypeOK
  <1>3. /\ WalksWell(w, eventListeners, Known, heard, disturbed)
        /\ list \in Seq(Nat) /\ w.next \in Nat \ {0} /\ w.called \in Seq(Nat) /\ Len(w.called) = w.next - 1
    <2>1. WalksWell(w, eventListeners, Known, heard, disturbed)
      BY <1>0, <1>2 DEF WalkersWell
    <2>2. list \in Seq(Nat)
      BY <1>0, <1>2 DEF ListOf, Walkers, ClientTypeOK
    <2>3. w.next \in Nat \ {0} /\ w.called \in Seq(Nat)
      BY <1>2 DEF Walkers
    <2> QED BY <2>1, <2>2, <2>3 DEF WalksWell
  <1>4. l \in Known /\ l \in Nat /\ l \in Range(list)
    <2>1. w.next \in DOMAIN list
      BY <1>1, <1>3
    <2>2. l \in Range(list)
      BY <2>1 DEF Range
    <2>3. l \in Known
      BY <2>2, <1>3 DEF WalksWell
    <2> QED BY <2>2, <2>3 DEF Known
  <1> HIDE DEF list
  <1>5. emitting' = [emitting EXCEPT ![n] = v]
    BY <1>1, <1>2
  <1> HIDE DEF l
  <1>6. /\ v \in Walkers /\ v.event = w.event /\ v.next = w.next + 1 /\ v.called = Append(w.called, l)
        /\ v.began = w.began /\ v.replaced = w.replaced /\ v.list = w.list
    <2>1. w.next + 1 \in Nat \ {0} /\ Append(w.called, l) \in Seq(Nat)
      BY <1>3, <1>4
    <2> QED BY <2>1, <1>2 DEF Walkers
  <1> HIDE DEF v
  <1>7. /\ emitting' \in Seq(Walkers) /\ Len(emitting') = n /\ DOMAIN emitting' = 1..n
        /\ emitting'[n] = v /\ \A i \in 1..n : i # n => emitting'[i] = emitting[i]
    <2>1. n \in 1..Len(emitting) /\ emitting \in Seq(Walkers) /\ v \in Walkers /\ Len(emitting) = n
      BY <1>2, <1>6
    <2> HIDE DEF n
    <2>2. /\ [emitting EXCEPT ![n] = v] \in Seq(Walkers)
          /\ Len([emitting EXCEPT ![n] = v]) = Len(emitting)
          /\ DOMAIN [emitting EXCEPT ![n] = v] = 1..Len(emitting)
          /\ [emitting EXCEPT ![n] = v][n] = v
          /\ \A i \in 1..Len(emitting) : i # n => [emitting EXCEPT ![n] = v][i] = emitting[i]
      BY <2>1, ExceptAt
    <2> QED BY <2>1, <2>2, <1>5
  <1>8. Known' = Known /\ \A k \in Known : Gone(k)' <=> Gone(k)
    BY <1>1 DEF Known, Gone
  <1>9. /\ heard' \in Seq(Nat) /\ Len(heard') = Len(heard) /\ heard'[l] = heard[l] + 1
        /\ \A k \in Known : k # l => heard'[k] = heard[k]
        /\ \A k \in Known : heard[k] \in Nat
    <2>1. heard \in Seq(Nat) /\ DOMAIN heard = Known
      BY <1>0 DEF ClientTypeOK, Known
    <2>2. l \in DOMAIN heard
      BY <2>1, <1>4
    <2>3. heard[l] + 1 \in Nat
      BY <2>1, <2>2
    <2> QED BY <2>1, <2>2, <2>3, <1>1
  <1>10. ClientTypeOK'
    <2>1. removed' \subseteq Known'
      BY <1>0, <1>1, <1>8 DEF ClientTypeOK
    <2> QED BY <1>0, <1>1, <1>7, <1>9, <2>1 DEF ClientTypeOK
  <1>11. ListsApart'
    BY <1>0, <1>1, <1>8 DEF ListsApart
  <1>12. ListOf(v, eventListeners) = list
    BY <1>6 DEF ListOf, list
  <1>13. \A k \in Known : heard[k] > 0 => heard'[k] > 0
    BY <1>9, <1>4
  <1>14. /\ Len(v.called) = w.next /\ v.called[w.next] = l
         /\ \A i \in 1..w.next - 1 : v.called[i] = w.called[i]
         /\ Range(v.called) = Range(w.called) \cup {l}
    <2>1. /\ Len(v.called) = Len(w.called) + 1 /\ v.called[Len(w.called) + 1] = l
          /\ \A i \in 1..Len(w.called) : v.called[i] = w.called[i]
          /\ Range(v.called) = Range(w.called) \cup {l}
      <3> DEFINE s == w.called
      <3>1. s \in Seq(Nat) /\ l \in Nat
        BY <1>3, <1>4
      <3> HIDE DEF s
      <3>2. /\ Len(Append(s, l)) = Len(s) + 1 /\ Append(s, l)[Len(s) + 1] = l
            /\ \A i \in 1..Len(s) : Append(s, l)[i] = s[i]
            /\ Range(Append(s, l)) = Range(s) \cup {l}
        BY <3>1, PutLast
      <3> QED BY <3>2, <1>6 DEF s
    <2>2. Len(w.called) + 1 = w.next
      BY <1>3
    <2> QED BY <2>1, <2>2
  <1>15. WalksWell(v, eventListeners, Known, heard', disturbed)
    <2>1. /\ Range(list) \subseteq Known /\ Once(list)
          /\ \A f \in Events \ {w.event} : Range(list) \cap Range(eventListeners[f]) = {}
          /\ w.next <= Len(list) + 1
          /\ w.began \subseteq Range(list)
          /\ \A i \in 1..w.next - 1 : list[i] \in w.began => list[i] \in Range(w.called)
          /\ "prepended" \notin disturbed => \A i \in 1..w.next - 1 : w.called[i] = list[i]
          /\ \A k \in Range(w.called) : k \in Known /\ heard[k] > 0
          /\ disturbed \cap {"removed", "nested"} = {} => ~w.replaced
      BY <1>3 DEF WalksWell, list
    <2>2. \A i \in 1..v.next - 1 : i \in 1..w.next - 1 \/ i = w.next
      <3> DEFINE m == w.next
      <3>1. m \in Nat \ {0} /\ v.next = m + 1
        BY <1>3, <1>6
      <3> HIDE DEF m
      <3>2. \A i \in 1..m + 1 - 1 : i \in 1..m - 1 \/ i = m
        BY <3>1
      <3> QED BY <3>1, <3>2 DEF m
    <2>3. v.next <= Len(list) + 1 /\ Len(v.called) = v.next - 1
      <3> DEFINE m == w.next
                 k0 == Len(list)
      <3>1. m \in Nat \ {0} /\ k0 \in Nat
        BY <1>3
      <3>2. v.next = m + 1 /\ m <= k0 /\ Len(v.called) = m
        BY <1>1, <1>6, <1>14
      <3> HIDE DEF m, k0
      <3>3. v.next <= k0 + 1 /\ Len(v.called) = v.next - 1
        BY <3>1, <3>2
      <3> QED BY <3>3 DEF k0
    <2>4. \A i \in 1..v.next - 1 : list[i] \in w.began => list[i] \in Range(v.called)
      BY <2>1, <2>2, <1>14 DEF l
    <2>5. "prepended" \notin disturbed => \A i \in 1..v.next - 1 : v.called[i] = list[i]
      BY <2>1, <2>2, <1>14 DEF l
    <2>6. \A k \in Range(v.called) : k \in Known /\ heard'[k] > 0
      <3>1. heard'[l] > 0
        BY <1>4, <1>9
      <3> QED BY <3>1, <2>1, <1>4, <1>13, <1>14
    <2> QED BY <2>1, <2>3, <2>4, <2>5, <2>6, <1>6, <1>12 DEF WalksWell
  <1>16. WalkersWell'
    <2> SUFFICES ASSUME NEW i \in 1..n
                 PROVE  WalksWell(emitting'[i], eventListeners, Known, heard', disturbed)
      BY <1>1, <1>7, <1>8 DEF WalkersWell
    <2>1. CASE i = n
      BY <2>1, <1>7, <1>15
    <2>2. CASE i # n
      <3>1. WalksWell(emitting[i], eventListeners, Known, heard, disturbed)
        BY <1>0, <1>2 DEF WalkersWell
      <3>2. WalksWell(emitting[i], eventListeners, Known, heard', disturbed)
        BY <3>1, <1>13 DEF WalksWell
      <3> QED BY <2>2, <3>2, <1>7
    <2> QED BY <2>1, <2>2
  <1>17. OneAtATime'
    BY <1>0, <1>1, <1>7 DEF OneAtATime
  <1>18. CalledOnce'
    <2> SUFFICES ASSUME Innocent, NEW k \in Known, registered[k].once
                 PROVE  /\ heard'[k] <= 1
                        /\ heard'[k] > 0 =>
                               \/ Gone(k) /\ \A i \in 1..n :
                                                  k \notin Range(ListOf(emitting'[i], eventListeners))
                               \/ \E i \in 1..n : k \in Range(emitting'[i].called)
      BY <1>1, <1>7, <1>8 DEF CalledOnce, Innocent
    <2>1. n = 1
      BY <1>0, <1>2 DEF OneAtATime, Innocent
    <2>2. /\ heard[k] <= 1
          /\ heard[k] > 0 => (Gone(k) /\ k \notin Range(list)) \/ k \in Range(w.called)
      BY <2>1, <1>0, <1>2 DEF CalledOnce, list
    <2>3. CASE k = l
      <3>1. l \notin Range(w.called)
        <4> SUFFICES ASSUME l \in Range(w.called) PROVE FALSE
          OBVIOUS
        <4>1. DOMAIN w.called = 1..w.next - 1
          BY <1>3
        <4>2. PICK i \in 1..w.next - 1 : w.called[i] = l
          BY <4>1 DEF Range
        <4>3. list[i] = list[w.next] /\ i \in DOMAIN list /\ w.next \in DOMAIN list /\ Once(list)
          <5>1. w.called[i] = list[i] /\ Once(list)
            BY <1>3 DEF WalksWell, Innocent, list
          <5>2. i \in 1..Len(list) /\ w.next \in 1..Len(list) /\ DOMAIN list = 1..Len(list)
            <6> DEFINE m == w.next
                       k0 == Len(list)
            <6>1. /\ m \in Nat \ {0} /\ k0 \in Nat /\ m <= k0 /\ i \in 1..m - 1
                  /\ DOMAIN list = 1..k0
              BY <1>1, <1>3
            <6> HIDE DEF m, k0
            <6>2. i \in 1..k0 /\ m \in 1..k0
              BY <6>1
            <6> QED BY <6>1, <6>2 DEF m, k0
          <5> QED BY <5>1, <5>2, <4>2 DEF l
        <4>4. i = w.next
          BY <4>3 DEF Once
        <4> QED BY <4>4, <1>3
      <3>2. heard[k] = 0
        BY <2>2, <2>3, <3>1, <1>4, <1>9
      <3>3. k \in Range(emitting'[1].called)
        BY <2>1, <2>3, <1>7, <1>14
      <3> QED BY <3>2, <3>3, <2>1, <2>3, <1>9
    <2>4. CASE k # l
      <3>1. heard'[k] = heard[k]
        BY <2>4, <1>9
      <3>2. \A i \in 1..n : i = 1
        BY <2>1
      <3>3. k \in Range(w.called) => k \in Range(emitting'[1].called)
        BY <2>1, <1>7, <1>14
      <3>4. ListOf(emitting'[1], eventListeners) = list
        BY <2>1, <1>7, <1>12
      <3> QED BY <3>1, <3>2, <3>3, <3>4, <2>1, <2>2
    <2> QED BY <2>3, <2>4
  <1>19. GoneForACause'
    BY <1>0, <1>1, <1>8, <1>13 DEF GoneForACause
  <1>20. RemovedIsGone'
    BY <1>0, <1>1, <1>8 DEF RemovedIsGone, ClientTypeOK
  <1> QED BY <1>10, <1>11, <1>16, <1>17, <1>18, <1>19, <1>20 DEF ListenersInv

LEMMA ListenersStepInv == ListenersInv /\ [ClientNext]_listeners => ListenersInv'
  <1> SUFFICES ASSUME ListenersInv, [ClientNext]_listeners PROVE ListenersInv'
    OBVIOUS
  <1>1. ASSUME UNCHANGED listeners PROVE ListenersInv'
    <2>1. /\ registered' = registered /\ eventListeners' = eventListeners /\ emitting' = emitting
          /\ heard' = heard /\ removed' = removed /\ disturbed' = disturbed
      BY <1>1 DEF listeners
    <2> QED BY <2>1 DEF ListenersInv, ClientTypeOK, ListsApart, WalkersWell, OneAtATime, CalledOnce, Innocent,
                        GoneForACause, RemovedIsGone, Known, Gone
  <1>2. ASSUME NEW event \in Events, NEW handler \in Handlers, NEW once \in BOOLEAN, NEW prepend \in BOOLEAN,
               AddListener(event, handler, once, prepend)
        PROVE  ListenersInv'
    BY <1>2, AddListenerInv
  <1>3. ASSUME NEW event \in Events, NEW handler \in Handlers, RemoveListener(event, handler)
        PROVE  ListenersInv'
    BY <1>3, RemoveListenerInv
  <1>4. ASSUME NEW event \in Events, Emit(event) PROVE ListenersInv'
    BY <1>4, EmitInv
  <1> QED BY <1>1, <1>2, <1>3, <1>4, CallNextInv, ReturnInv, ThrowInv, FinishInv DEF ClientNext

LEMMA OnceCounts ==
    ASSUME NEW s \in Seq(Nat), Once(s)
    PROVE  Cardinality(Range(s)) = Len(s)
  <1> DEFINE f == [i \in 1..Len(s) |-> s[i]]
  <1>1. IsFiniteSet(1..Len(s)) /\ Cardinality(1..Len(s)) = Len(s)
    <2> DEFINE n == Len(s)
    <2>1. n \in Nat /\ n \in Int /\ 1 \in Int
      OBVIOUS
    <2> HIDE DEF n
    <2>2. IsFiniteSet(1..n) /\ Cardinality(1..n) = IF 1 > n THEN 0 ELSE n - 1 + 1
      BY <2>1, FS_Interval
    <2>3. (IF 1 > n THEN 0 ELSE n - 1 + 1) = n
      BY <2>1
    <2> QED BY <2>2, <2>3 DEF n
  <1>2. f \in Bijection(1..Len(s), Range(s))
    <2>1. DOMAIN s = 1..Len(s)
      OBVIOUS
    <2>2. f \in [1..Len(s) -> Range(s)]
      BY <2>1 DEF Range
    <2>3. \A i, j \in 1..Len(s) : f[i] = f[j] => i = j
      BY <2>1 DEF Once
    <2>4. \A x \in Range(s) : \E i \in 1..Len(s) : f[i] = x
      BY <2>1 DEF Range
    <2> QED BY <2>2, <2>3, <2>4 DEF Bijection, Injection, Surjection, IsInjective
  <1>3. ExistsBijection(1..Len(s), Range(s))
    BY <1>2 DEF ExistsBijection
  <1>4. Cardinality(Range(s)) = Cardinality(1..Len(s))
    BY <1>1, <1>3, FS_Bijection
  <1> QED BY <1>1, <1>4

LEMMA ListenersInvHear == ListenersInv => ListenersHear
  <1> SUFFICES ASSUME ListenersInv PROVE ListenersHear
    OBVIOUS
  <1>0. /\ ClientTypeOK /\ WalkersWell /\ CalledOnce /\ GoneForACause /\ RemovedIsGone
    BY DEF ListenersInv
  <1>1. EveryListenerHears
    <2> DEFINE w == emitting[Len(emitting)]
               list == ListOf(w, eventListeners)
    <2> SUFFICES ASSUME emitting # <<>>, w.next > Len(list)
                 PROVE  /\ w.began \subseteq Range(w.called)
                        /\ "prepended" \notin disturbed => Cardinality(Range(w.called)) = Len(w.called)
      BY DEF EveryListenerHears, Walks, Innermost, List, ListOf
    <2>1. w \in Walkers /\ WalksWell(w, eventListeners, Known, heard, disturbed)
      <3>1. emitting \in Seq(Walkers)
        BY <1>0 DEF ClientTypeOK
      <3>2. Len(emitting) \in DOMAIN emitting
        BY <3>1
      <3> QED BY <3>1, <3>2, <1>0 DEF WalkersWell
    <2>2. list \in Seq(Nat) /\ w.called \in Seq(Nat) /\ w.next \in Nat
      BY <1>0, <2>1 DEF ListOf, Walkers, ClientTypeOK
    <2>3. /\ Once(list) /\ w.next <= Len(list) + 1 /\ Len(w.called) = w.next - 1
          /\ w.began \subseteq Range(list)
          /\ \A i \in 1..w.next - 1 : list[i] \in w.began => list[i] \in Range(w.called)
          /\ "prepended" \notin disturbed => \A i \in 1..w.next - 1 : w.called[i] = list[i]
      BY <2>1 DEF WalksWell
    <2> HIDE DEF list, w
    <2>4. DOMAIN list = 1..w.next - 1 /\ DOMAIN w.called = 1..w.next - 1
      BY <2>2, <2>3
    <2>5. w.began \subseteq Range(w.called)
      BY <2>3, <2>4 DEF Range
    <2>6. ASSUME "prepended" \notin disturbed PROVE Cardinality(Range(w.called)) = Len(w.called)
      <3>1. Once(w.called)
        BY <2>3, <2>4, <2>6 DEF Once
      <3> QED BY <2>2, <3>1, OnceCounts
    <2> QED BY <2>5, <2>6
  <1>2. OnceIsOnce
    <2>1. DOMAIN registered = Known /\ \A l \in Known : heard[l] \in Nat
      BY <1>0 DEF ClientTypeOK, Known
    <2>2. \A l \in Known : registered[l].once /\ heard[l] > 1 => ~Innocent
      BY <1>0, <2>1 DEF CalledOnce
    <2> QED BY <2>1, <2>2, <1>0 DEF OnceIsOnce, Innocent, GoneForACause, RemovedIsGone
  <1> QED BY <1>1, <1>2 DEF ListenersHear

(***************************************************************************)
(* P2PClient: for any handlers, and however many listeners are added and   *)
(* removed and events emitted, also within others, an emission calls every *)
(* listener there was when it began, and a listener is called as often as  *)
(* it was asked to be.                                                     *)
(***************************************************************************)
THEOREM ListenersAlwaysHear == ClientSpec => []ListenersHear
  <1> QED BY ListenersInitInv, ListenersStepInv, ListenersInvHear, PTL DEF ClientSpec
=============================================================================
