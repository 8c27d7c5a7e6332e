-------------------------- MODULE ArithmeticProofs --------------------------
(***************************************************************************)
(* The arithmetic of the chain types and of the swap quotes: integers of   *)
(* every width, amounts and prices of every precision, quotes of every     *)
(* amount, and the costs of a resource.  A value is picked once, so what   *)
(* is said of it holds always if it holds of whatever is picked.           *)
(***************************************************************************)
EXTENDS ChainValues, Lists, SequenceTheorems, FiniteSetTheorems, TLAPS

---------------------------------------------------------------------------
(* Powers.                                                                 *)

LEMMA PowerValues ==
    ASSUME NEW b \in Int, NEW n \in Nat
    PROVE  \E f \in [0..n -> Int] :
               /\ f[0] = 1
               /\ \A i \in 1..n : f[i] = b * f[i - 1]
               /\ Power(b, n) = f[n]
  <1> DEFINE next == [i \in 1..n |-> [x \in Int |-> b * x]]
             Obeys(f) == f = [k \in 0..n |-> IF k = 0 THEN 1 ELSE b * f[k - 1]]
  <1>1. Steps(next, n, Int)
    BY DEF Steps
  <1>2. PICK f : IsIteration(f, n, Int, 1, next)
    <2> HIDE DEF next
    <2> QED BY <1>1, Iterates
  <1>3. Obeys(f)
    <2>1. ASSUME NEW k \in 0..n
          PROVE  f[k] = IF k = 0 THEN 1 ELSE b * f[k - 1]
      <3>1. k # 0 => k \in 1..n /\ f[k - 1] \in Int
        BY <1>2 DEF IsIteration
      <3> QED BY <1>2, <3>1 DEF IsIteration
    <2>2. f = [k \in 0..n |-> f[k]]
      BY <1>2 DEF IsIteration
    <2> QED BY <2>1, <2>2
  <1>4. PICK g : Obeys(g) /\ Power(b, n) = g[n]
    <2>1. Power(b, n) = (CHOOSE g : Obeys(g))[n]
      BY DEF Power
    <2>2. Obeys(CHOOSE g : Obeys(g))
      <3> HIDE DEF Obeys
      <3> QED BY <1>3
    <2> HIDE DEF Obeys
    <2> QED BY <2>1, <2>2
  <1> DEFINE P == {i \in 0..n : g[i] \in Int}
  <1>5. 0..n \subseteq P
    <2>1. 0 \in P
      BY <1>4
    <2>2. \A i \in 1..n : i - 1 \in P => i \in P
      <3>1. ASSUME NEW i \in 1..n, g[i - 1] \in Int PROVE g[i] \in Int
        BY <1>4, <3>1
      <3> QED BY <3>1
    <2> HIDE DEF P
    <2> QED BY <2>1, <2>2, Induction
  <1>6. g \in [0..n -> Int]
    BY <1>4, <1>5
  <1>7. g[0] = 1 /\ \A i \in 1..n : g[i] = b * g[i - 1]
    BY <1>4
  <1> QED BY <1>4, <1>6, <1>7

LEMMA PowerIs ==
    ASSUME NEW b \in Int
    PROVE  /\ Power(b, 0) = 1
           /\ \A n \in Nat : Power(b, n) \in Int /\ Power(b, n + 1) = b * Power(b, n)
  <1>1. Power(b, 0) = 1
    BY PowerValues
  <1>2. ASSUME NEW n \in Nat
        PROVE  Power(b, n) \in Int /\ Power(b, n + 1) = b * Power(b, n)
    <2>1. PICK f \in [0..n -> Int] : f[0] = 1 /\ (\A i \in 1..n : f[i] = b * f[i - 1]) /\ Power(b, n) = f[n]
      BY PowerValues
    <2>2. PICK g \in [0..(n + 1) -> Int] :
              g[0] = 1 /\ (\A i \in 1..(n + 1) : g[i] = b * g[i - 1]) /\ Power(b, n + 1) = g[n + 1]
      <3>1. n + 1 \in Nat
        OBVIOUS
      <3> QED BY <3>1, PowerValues
    <2> DEFINE P == {i \in 0..n : f[i] = g[i]}
    <2>3. 0..n \subseteq P
      <3>1. 0 \in P
        BY <2>1, <2>2
      <3>2. ASSUME NEW i \in 1..n, i - 1 \in P PROVE i \in P
        <4>1. f[i] = b * f[i - 1] /\ g[i] = b * g[i - 1]
          BY <2>1, <2>2
        <4> QED BY <3>2, <4>1
      <3> HIDE DEF P
      <3> QED BY <3>1, <3>2, Induction
    <2>4. f[n] = g[n]
      BY <2>3
    <2>5. g[n + 1] = b * g[n]
      BY <2>2
    <2> QED BY <2>1, <2>2, <2>4, <2>5
  <1> QED BY <1>1, <1>2

LEMMA PowersAdd ==
    ASSUME NEW b \in Int, NEW m \in Nat, NEW n \in Nat
    PROVE  Power(b, m + n) = Power(b, m) * Power(b, n)
  <1> DEFINE P == {k \in 0..n : Power(b, m + k) = Power(b, m) * Power(b, k)}
  <1>1. 0 \in P
    BY PowerIs
  <1>2. ASSUME NEW k \in 1..n, k - 1 \in P
        PROVE  k \in P
    <2> DEFINE j == k - 1
    <2>1. j \in Nat /\ k = j + 1 /\ m + k = (m + j) + 1 /\ m + j \in Nat
      OBVIOUS
    <2>2. Power(b, m + j) = Power(b, m) * Power(b, j)
      BY <1>2
    <2> HIDE DEF j
    <2>3. Power(b, m + j + 1) = b * Power(b, m + j) /\ Power(b, j + 1) = b * Power(b, j)
      BY <2>1, PowerIs
    <2>4. Power(b, m) \in Int /\ Power(b, j) \in Int
      BY <2>1, PowerIs
    <2>5. b * (Power(b, m) * Power(b, j)) = Power(b, m) * (b * Power(b, j))
      BY <2>4
    <2>6. Power(b, m + k) = Power(b, m) * Power(b, k)
      BY <2>1, <2>2, <2>3, <2>5
    <2> QED BY <2>6
  <1> HIDE DEF P
  <1>3. 0..n \subseteq P
    BY <1>1, <1>2, Induction
  <1>4. n \in P
    BY <1>3
  <1> QED BY <1>4 DEF P

\* Powers of a base are not zero, and with a base over one they grow past any number.
LEMMA PowersGrow ==
    ASSUME NEW b \in Nat \ {0}, NEW m \in Nat, NEW n \in Nat, m <= n
    PROVE  Power(b, n) \in Nat \ {0} /\ Power(b, m) <= Power(b, n)
  <1> DEFINE P == {k \in 0..n : Power(b, k) \in Nat \ {0} /\ (k > 0 => Power(b, k - 1) <= Power(b, k))}
  <1>1. 0 \in P
    BY PowerIs
  <1>2. ASSUME NEW k \in 1..n, k - 1 \in P
        PROVE  k \in P
    <2> DEFINE j == k - 1
               p == Power(b, j)
    <2>1. j \in Nat /\ k = j + 1 /\ p \in Nat \ {0}
      BY <1>2
    <2>2. Power(b, k) = b * p
      <3> HIDE DEF j
      <3> QED BY <2>1, PowerIs DEF p
    <2> HIDE DEF p
    <2>3. b * p \in Nat \ {0} /\ p <= b * p
      BY <2>1
    <2> QED BY <2>2, <2>3 DEF p
  <1>3. 0..n \subseteq P
    <2> HIDE DEF P
    <2> QED BY <1>1, <1>2, Induction
  <1>4. \A k \in 0..n : Power(b, k) \in Nat \ {0}
    BY <1>3
  <1>5. \A k \in 1..n : Power(b, k - 1) <= Power(b, k)
    BY <1>3
  <1> HIDE DEF P
  <1> DEFINE Q == {k \in 0..(n - m) : Power(b, m) <= Power(b, m + k)}
  <1>6. 0 \in Q
    BY <1>4
  <1>7. ASSUME NEW k \in 1..(n - m), k - 1 \in Q
        PROVE  k \in Q
    <2>1. Power(b, m) <= Power(b, m + (k - 1))
      BY <1>7
    <2> DEFINE i == m + k
    <2>2. i \in 1..n /\ i - 1 = m + (k - 1) /\ i - 1 \in 0..n /\ i \in 0..n
      OBVIOUS
    <2>3. Power(b, i - 1) <= Power(b, i) /\ Power(b, i) \in Nat /\ Power(b, i - 1) \in Nat /\ Power(b, m) \in Nat
      <3> HIDE DEF i
      <3> QED BY <1>4, <1>5, <2>2
    <2>4. Power(b, m) <= Power(b, i)
      BY <2>1, <2>2, <2>3
    <2> QED BY <2>4
  <1>8. 0..(n - m) \subseteq Q
    <2> HIDE DEF Q
    <2>1. n - m \in Nat
      OBVIOUS
    <2> QED BY <1>6, <1>7, <2>1, Induction
  <1>9. n - m \in Q
    <2> HIDE DEF Q
    <2> QED BY <1>8
  <1>10. Power(b, m) <= Power(b, m + (n - m))
    BY <1>9
  <1>11. m + (n - m) = n
    OBVIOUS
  <1> QED BY <1>4, <1>10, <1>11

LEMMA PowersArePast ==
    ASSUME NEW b \in Nat \ {0, 1}, NEW n \in Nat
    PROVE  n < Power(b, n)
  <1> DEFINE P == {k \in 0..n : k < Power(b, k)}
  <1>1. 0 \in P
    BY PowerIs
  <1>2. ASSUME NEW k \in 1..n, k - 1 \in P
        PROVE  k \in P
    <2> DEFINE j == k - 1
               p == Power(b, j)
    <2>1. j \in Nat /\ k = j + 1 /\ j < p
      BY <1>2
    <2>2. p \in Int /\ Power(b, k) = b * p
      <3> HIDE DEF j
      <3> QED BY <2>1, PowerIs DEF p
    <2> HIDE DEF p, j
    <2>3. b * p >= 2 * p
      BY <2>1, <2>2
    <2>4. k < Power(b, k)
      BY <2>1, <2>2, <2>3
    <2> QED BY <2>4
  <1> HIDE DEF P
  <1>3. 0..n \subseteq P
    BY <1>1, <1>2, Induction
  <1>4. n \in P
    BY <1>3
  <1> QED BY <1>4 DEF P

---------------------------------------------------------------------------
(* Quotients and rests.                                                    *)

LEMMA Divided ==
    ASSUME NEW n \in Int, NEW d \in Nat \ {0}
    PROVE  /\ n \div d \in Int /\ n % d \in 0..(d - 1) /\ n % d \in Int
           /\ n = d * (n \div d) + (n % d)
  OBVIOUS

LEMMA OneQuotient ==
    ASSUME NEW d \in Nat \ {0}, NEW q \in Int, NEW r \in 0..(d - 1)
    PROVE  (d * q + r) \div d = q /\ (d * q + r) % d = r
  <1> DEFINE n == d * q + r
             p == n \div d
             s == n % d
  <1>1. n \in Int
    OBVIOUS
  <1>2. p \in Int /\ s \in 0..(d - 1) /\ n = d * p + s
    <2> HIDE DEF n
    <2> QED BY <1>1, Divided
  <1> HIDE DEF p, s
  <1>3. d * p + s = d * q + r
    BY <1>2
  <1>4. p = q
    <2>1. CASE p > q
      <3>1. d * p >= d * (q + 1)
        BY <1>2, <2>1
      <3>2. d * (q + 1) = d * q + d
        OBVIOUS
      <3> QED BY <1>2, <1>3, <3>1, <3>2
    <2>2. CASE p < q
      <3>1. d * q >= d * (p + 1)
        BY <1>2, <2>2
      <3>2. d * (p + 1) = d * p + d
        BY <1>2
      <3> QED BY <1>2, <1>3, <3>1, <3>2
    <2> QED BY <1>2, <2>1, <2>2
  <1>5. s = r
    BY <1>2, <1>3, <1>4
  <1> QED BY <1>4, <1>5 DEF p, s

\* The same in other words: a number with its quotient and rest.
LEMMA QuotientAndRest ==
    ASSUME NEW n \in Int, NEW d \in Nat \ {0}, NEW q \in Int, NEW r \in 0..(d - 1), n = d * q + r
    PROVE  n \div d = q /\ n % d = r
  BY OneQuotient

LEMMA RestOfSum ==
    ASSUME NEW n \in Int, NEW d \in Nat \ {0}, NEW k \in Int
    PROVE  (n + d * k) % d = n % d
  <1> DEFINE q == n \div d
             r == n % d
             m == n + d * k
  <1>1. q \in Int /\ r \in 0..(d - 1) /\ n = d * q + r
    BY Divided
  <1> HIDE DEF q, r
  <1>2. m \in Int /\ q + k \in Int /\ m = d * (q + k) + r
    BY <1>1
  <1> HIDE DEF m
  <1>3. m % d = r
    BY <1>1, <1>2, QuotientAndRest
  <1> QED BY <1>3 DEF m, r

LEMMA SmallRest ==
    ASSUME NEW n \in Int, NEW d \in Nat \ {0}
    PROVE  /\ n \in 0..(d - 1) => n % d = n /\ n \div d = 0
           /\ n \in (-d)..(-1) => n % d = n + d
  <1>1. ASSUME n \in 0..(d - 1)
        PROVE  n % d = n /\ n \div d = 0
    <2>1. n = d * 0 + n
      OBVIOUS
    <2> QED BY <1>1, <2>1, QuotientAndRest
  <1>2. ASSUME n \in (-d)..(-1)
        PROVE  n % d = n + d
    <2>1. n = d * (-1) + (n + d) /\ n + d \in 0..(d - 1)
      BY <1>2
    <2> DEFINE r == n + d
    <2> HIDE DEF r
    <2>2. n % d = r
      BY <2>1, QuotientAndRest DEF r
    <2> QED BY <2>2 DEF r
  <1> QED BY <1>1, <1>2

LEMMA RestOfRest ==
    ASSUME NEW n \in Int, NEW d \in Nat \ {0}, NEW k \in Nat \ {0}
    PROVE  (n % (d * k)) % d = n % d
  <1> DEFINE e == d * k
             q == n \div e
             r == n % e
  <1>1. e \in Nat \ {0}
    OBVIOUS
  <1>2. q \in Int /\ r \in Int /\ n = e * q + r
    <2> HIDE DEF e
    <2> QED BY <1>1, Divided
  <1> HIDE DEF q, r
  <1>3. n = r + d * (k * q) /\ k * q \in Int
    BY <1>2
  <1>4. (r + d * (k * q)) % d = r % d
    BY <1>2, <1>3, RestOfSum
  <1> QED BY <1>3, <1>4 DEF r

---------------------------------------------------------------------------
(* Types.                                                                  *)

LEMMA SizeOfTypes ==
    ASSUME NEW type \in IntTypes
    PROVE  /\ Size(type) \in Nat \ {0} /\ Size(type) >= 2
           /\ Size(type) \div 2 \in Nat /\ 2 * (Size(type) \div 2) = Size(type)
           /\ MaxOf(type) \in Int /\ MinOf(type) \in Int
           /\ type.isSigned => MaxOf(type) = Size(type) \div 2 - 1 /\ MinOf(type) = -(Size(type) \div 2)
           /\ ~type.isSigned => MaxOf(type) = Size(type) - 1 /\ MinOf(type) = 0
           /\ type.byteWidth \in Nat \ {0} /\ type.isSigned \in BOOLEAN
  <1> DEFINE w == type.byteWidth
             size == Size(type)
             p == Power(ByteBase, w - 1)
             half == ByteBase \div 2
  <1>1. w \in Nat \ {0} /\ type.isSigned \in BOOLEAN
    BY DEF IntTypes
  <1>2. ByteBase \in Nat \ {0, 1} /\ ByteBase % 2 = 0
    BY ChainIntegersAssumption
  <1>3. half \in Nat \ {0} /\ 2 * half = ByteBase
    BY <1>2
  <1>4. size = ByteBase * p /\ p \in Nat \ {0}
    <2> DEFINE v == w - 1
    <2>1. v \in Nat /\ v + 1 = w /\ p = Power(ByteBase, v)
      BY <1>1
    <2> HIDE DEF v, w, p
    <2>2. Power(ByteBase, v + 1) = ByteBase * Power(ByteBase, v)
      BY <1>2, <2>1, PowerIs
    <2>3. p \in Nat \ {0}
      BY <1>2, <2>1, PowersGrow
    <2>4. size = Power(ByteBase, w)
      BY DEF Size, w
    <2> HIDE DEF size
    <2> QED BY <2>1, <2>2, <2>3, <2>4
  <1> HIDE DEF half, p, size
  <1>5. size = 2 * (half * p) /\ half * p \in Nat \ {0}
    BY <1>2, <1>3, <1>4
  <1> DEFINE h == half * p
  <1> HIDE DEF h
  <1>6. size = 2 * h /\ h \in Nat \ {0}
    BY <1>5 DEF h
  <1>7. size \div 2 = h
    BY <1>6
  <1>8. size \in Nat \ {0} /\ size >= 2 /\ size \div 2 \in Nat /\ 2 * (size \div 2) = size
    BY <1>6, <1>7
  <1> QED BY <1>1, <1>8 DEF MaxOf, MinOf, size

LEMMA DigitCountIs ==
    ASSUME NEW b \in Nat \ {0, 1}, NEW n \in Nat, NEW k \in Nat,
           n < Power(b, k), k > 0 => Power(b, k - 1) <= n
    PROVE  DigitCount(n, b) = k
  <1> DEFINE Counts(j) == n < Power(b, j) /\ (j > 0 => Power(b, j - 1) <= n)
  <1>1. k \in 0..n
    <2>1. CASE k = 0
      BY <2>1
    <2>2. CASE k > 0
      <3> DEFINE j == k - 1
      <3>1. j \in Nat /\ Power(b, j) <= n
        BY <2>2
      <3>2. Power(b, j) \in Int /\ j < Power(b, j)
        <4> HIDE DEF j
        <4> QED BY <3>1, PowersArePast, PowerIs
      <3> QED BY <3>1, <3>2
    <2> QED BY <2>1, <2>2
  <1>2. ASSUME NEW i \in Nat, NEW j \in Nat, i < j, Counts(i), Counts(j)
        PROVE  FALSE
    <2> DEFINE l == j - 1
    <2>1. l \in Nat /\ i <= l /\ Power(b, l) <= n
      BY <1>2
    <2> HIDE DEF l
    <2>2. b \in Nat \ {0} /\ b \in Int
      OBVIOUS
    <2>3. Power(b, i) <= Power(b, l)
      BY <2>1, <2>2, PowersGrow
    <2>4. Power(b, i) \in Int /\ Power(b, l) \in Int
      BY <2>1, <2>2, PowerIs
    <2> QED BY <1>2, <2>1, <2>3, <2>4
  <1> DEFINE got == DigitCount(n, b)
  <1>3. Counts(k)
    OBVIOUS
  <1>4. got \in 0..n /\ Counts(got)
    <2>1. got = CHOOSE j \in 0..n : Counts(j)
      BY DEF DigitCount
    <2> HIDE DEF Counts, got
    <2>2. \E j \in 0..n : Counts(j)
      BY <1>1, <1>3
    <2> QED BY <2>1, <2>2
  <1> HIDE DEF Counts, got
  <1>5. got \in Nat
    BY <1>4
  <1>6. ~(got < k) /\ ~(k < got)
    BY <1>2, <1>3, <1>4, <1>5
  <1>7. got = k
    BY <1>5, <1>6
  <1> QED BY <1>7 DEF got

LEMMA DigitCountExists ==
    ASSUME NEW b \in Nat \ {0, 1}, NEW n \in Nat
    PROVE  /\ DigitCount(n, b) \in Nat /\ n < Power(b, DigitCount(n, b))
           /\ DigitCount(n, b) > 0 => Power(b, DigitCount(n, b) - 1) <= n
           /\ DigitCount(n, b) = 0 <=> n = 0
  <1> DEFINE T == {k \in Nat : n < Power(b, k)}
  <1>1. n \in T
    BY PowersArePast
  <1>2. PICK k \in T : \A m \in T : k <= m
    <2>1. T \in SUBSET Nat /\ T # {}
      BY <1>1
    <2> HIDE DEF T
    <2> QED BY <2>1, LeastNumber
  <1>3. k \in Nat /\ n < Power(b, k)
    OBVIOUS
  <1>4. k > 0 => Power(b, k - 1) <= n
    <2> SUFFICES ASSUME k > 0, ~(Power(b, k - 1) <= n) PROVE FALSE
      OBVIOUS
    <2> DEFINE j == k - 1
    <2>1. j \in Nat /\ j < k
      BY <1>3
    <2>2. Power(b, j) \in Int
      <3> HIDE DEF j
      <3> QED BY <2>1, PowerIs
    <2>3. n < Power(b, j)
      BY <2>2
    <2>4. j \in T
      BY <2>1, <2>3
    <2> QED BY <1>2, <1>3, <2>1, <2>4
  <1>5. DigitCount(n, b) = k
    <2> HIDE DEF T
    <2> QED BY <1>3, <1>4, DigitCountIs
  <1>6. k = 0 <=> n = 0
    <2>1. Power(b, 0) = 1
      BY PowerIs
    <2>2. k = 0 => n = 0
      BY <1>3, <2>1
    <2>3. n = 0 => k = 0
      <3>1. ASSUME n = 0 PROVE 0 \in T
        BY <2>1, <3>1
      <3> QED BY <1>2, <1>3, <3>1
    <2> QED BY <2>2, <2>3
  <1> QED BY <1>3, <1>4, <1>5, <1>6

LEMMA SizesDivide ==
    ASSUME NEW s \in IntTypes, NEW t \in IntTypes, s.byteWidth <= t.byteWidth
    PROVE  \E k \in Nat \ {0} : Size(t) = Size(s) * k /\ (s.byteWidth < t.byteWidth => k >= 2)
  <1> DEFINE v == s.byteWidth
             d == t.byteWidth - s.byteWidth
             k == Power(ByteBase, d)
  <1>1. v \in Nat /\ d \in Nat /\ v + d = t.byteWidth
    BY DEF IntTypes
  <1>2. ByteBase \in Nat \ {0, 1}
    BY ChainIntegersAssumption
  <1>3. Size(t) = Power(ByteBase, v + d) /\ Size(s) = Power(ByteBase, v)
    BY <1>1 DEF Size
  <1>4. s.byteWidth < t.byteWidth => d > 0
    BY DEF IntTypes
  <1> HIDE DEF v, d
  <1>5. Power(ByteBase, v + d) = Power(ByteBase, v) * k
    BY <1>1, <1>2, PowersAdd
  <1>6. k \in Nat \ {0} /\ d < k
    BY <1>1, <1>2, PowersGrow, PowersArePast
  <1>7. s.byteWidth < t.byteWidth => k >= 2
    BY <1>1, <1>4, <1>6
  <1> QED BY <1>3, <1>5, <1>6, <1>7

LEMMA WrappedIs ==
    ASSUME NEW n \in Int, NEW type \in IntTypes
    PROVE  /\ Wrapped(n, type) \in Int /\ Fits(Wrapped(n, type), type)
           /\ Fits(n, type) => Wrapped(n, type) = n
           /\ Wrapped(n, type) % Size(type) = n % Size(type)
  <1> DEFINE size == Size(type)
             half == size \div 2
             m == n % size
             w == Wrapped(n, type)
  <1>1. size \in Nat \ {0} /\ half \in Nat /\ 2 * half = size
    BY SizeOfTypes
  <1>2. /\ MaxOf(type) \in Int /\ MinOf(type) \in Int /\ type.isSigned \in BOOLEAN
        /\ type.isSigned => MaxOf(type) = half - 1 /\ MinOf(type) = -half
        /\ ~type.isSigned => MaxOf(type) = size - 1 /\ MinOf(type) = 0
    BY SizeOfTypes
  <1> HIDE DEF half, size
  <1>3. m \in 0..(size - 1)
    BY <1>1, Divided
  <1>4. w = IF type.isSigned /\ m > half - 1 THEN m - size ELSE m
    BY <1>2 DEF Wrapped, FromTwos, size
  <1>5. n \in 0..(size - 1) => m = n
    BY <1>1, SmallRest
  <1>6. n \in (-size)..(-1) => m = n + size
    BY <1>1, SmallRest
  <1>7. w % size = m
    <2>1. m % size = m
      BY <1>1, <1>3, SmallRest
    <2>2. (m + size * (-1)) % size = m % size
      BY <1>1, <1>3, RestOfSum
    <2>3. m + size * (-1) = m - size
      BY <1>1, <1>3
    <2> HIDE DEF w, m
    <2> QED BY <1>4, <2>1, <2>2, <2>3
  <1> HIDE DEF m, w
  <1>8. w \in Int /\ Fits(w, type)
    BY <1>1, <1>2, <1>3, <1>4 DEF Fits
  <1>9. Fits(n, type) => w = n
    BY <1>1, <1>2, <1>3, <1>4, <1>5, <1>6 DEF Fits
  <1> QED BY <1>7, <1>8, <1>9 DEF w, m, size

LEMMA WrappedTwice ==
    ASSUME NEW n \in Int, NEW s \in IntTypes, NEW t \in IntTypes, s.byteWidth <= t.byteWidth
    PROVE  Wrapped(Wrapped(n, t), s) = Wrapped(n, s)
  <1> DEFINE w == Wrapped(n, t)
             d == Size(s)
  <1>1. PICK k \in Nat \ {0} : Size(t) = d * k
    BY SizesDivide
  <1>2. w \in Int /\ w % Size(t) = n % Size(t)
    BY WrappedIs
  <1>3. d \in Nat \ {0}
    BY SizeOfTypes
  <1> HIDE DEF w, d
  <1>4. (w % (d * k)) % d = w % d
    BY <1>2, <1>3, RestOfRest
  <1>5. (n % (d * k)) % d = n % d
    BY <1>3, RestOfRest
  <1>6. w % d = n % d
    BY <1>1, <1>2, <1>4, <1>5
  <1> QED BY <1>6 DEF Wrapped, w, d

LEMMA BytesOfNegative ==
    ASSUME NEW n \in Int, NEW type \in IntTypes, n < 0, n >= -(Size(type) \div 2)
    PROVE  /\ n % Size(type) = n + Size(type)
           /\ n + Size(type) \in Nat \ {0}
           /\ ByteLength(n + Size(type)) = type.byteWidth
  <1> DEFINE size == Size(type)
             w == type.byteWidth
             v == w - 1
             p == Power(ByteBase, v)
             m == n + size
  <1>1. /\ size \in Nat \ {0} /\ size \div 2 \in Nat /\ 2 * (size \div 2) = size
        /\ w \in Nat \ {0}
    BY SizeOfTypes
  <1>2. v \in Nat /\ w = v + 1
    BY <1>1
  <1>3. ByteBase \in Nat \ {0, 1} /\ ByteBase \in Nat \ {0} /\ ByteBase \in Int
    BY ChainIntegersAssumption
  <1>4. size = Power(ByteBase, w)
    BY DEF Size
  <1> HIDE DEF size
  <1>5. size = ByteBase * p /\ p \in Nat \ {0}
    <2> HIDE DEF v, w
    <2>1. Power(ByteBase, v + 1) = ByteBase * Power(ByteBase, v)
      BY <1>2, <1>3, PowerIs
    <2>2. Power(ByteBase, v) \in Nat \ {0}
      BY <1>2, <1>3, PowersGrow
    <2> QED BY <1>2, <1>4, <2>1, <2>2
  <1>6. size >= 2 * p
    BY <1>3, <1>5
  <1>7. size \div 2 \in Int /\ n >= -(size \div 2)
    BY <1>1 DEF size
  <1>8. m \in Nat \ {0} /\ p <= m /\ m < size
    BY <1>1, <1>5, <1>6, <1>7
  <1>9. n % size = m
    <2>1. n \in (-size)..(-1)
      BY <1>1, <1>8
    <2> QED BY <1>1, <2>1, SmallRest
  <1> HIDE DEF m, p, v, w
  <1>10. m < Power(ByteBase, w) /\ m \in Nat /\ w \in Nat
    BY <1>1, <1>4, <1>8
  <1>11. w > 0 => Power(ByteBase, w - 1) <= m
    BY <1>8 DEF p, v
  <1>12. DigitCount(m, ByteBase) = w
    BY <1>3, <1>10, <1>11, DigitCountIs
  <1>13. ByteLength(m) = w
    BY <1>8, <1>12 DEF ByteLength, WrittenLength
  <1> QED BY <1>8, <1>9, <1>13 DEF m, w, size

\* A number that is not negative, or that its type holds, is truncated to its bits.
LEMMA TruncateIs ==
    ASSUME NEW n \in Int, NEW from \in IntTypes, NEW to \in IntTypes, n >= 0 \/ Fits(n, from)
    PROVE  Truncate(n, from, to) = Wrapped(n, to)
  <1>1. CASE n >= 0
    <2>1. n % Size(to) \in Int
      BY SizeOfTypes, Divided
    <2>2. Truncate(n, from, to) = FromTwos(0 + (n % Size(to)), to)
      BY <1>1 DEF Truncate
    <2>3. 0 + (n % Size(to)) = n % Size(to)
      BY <2>1
    <2> QED BY <2>2, <2>3 DEF Wrapped
  <1>2. CASE n < 0
    <2> DEFINE size == Size(from)
               m == n + size
    <2>1. from.isSigned /\ n >= -(Size(from) \div 2)
      <3>1. ~from.isSigned => MinOf(from) = 0
        BY SizeOfTypes
      <3>2. from.isSigned => MinOf(from) = -(Size(from) \div 2)
        BY SizeOfTypes
      <3>3. MinOf(from) <= n /\ MinOf(from) \in Int
        BY <1>2, SizeOfTypes DEF Fits
      <3> QED BY <1>2, <3>1, <3>2, <3>3
    <2>2. n % size = m /\ m \in Nat \ {0} /\ ByteLength(m) = from.byteWidth
      BY <1>2, <2>1, BytesOfNegative
    <2>3. /\ size \in Nat \ {0} /\ Size(to) \in Nat \ {0}
          /\ from.byteWidth \in Nat \ {0} /\ to.byteWidth \in Nat \ {0}
      BY SizeOfTypes
    <2>4. Power(ByteBase, from.byteWidth) = size
      BY DEF Size
    <2> HIDE DEF size, m
    <2>5. Truncate(n, from, to)
              = FromTwos((IF from.byteWidth < to.byteWidth THEN Size(to) - size ELSE 0) + (m % Size(to)), to)
      BY <1>2, <2>1, <2>2, <2>4 DEF Truncate, size
    <2>6. CASE from.byteWidth < to.byteWidth
      <3>1. PICK k \in Nat \ {0} : Size(to) = size * k
        BY <2>6, <2>3, SizesDivide DEF size
      <3>2. size <= Size(to)
        BY <2>3, <3>1
      <3>3. m < size
        BY <1>2, <2>3 DEF m
      <3>4. m % Size(to) = m
        <4>1. m \in 0..(Size(to) - 1) /\ m \in Int
          BY <2>2, <2>3, <3>2, <3>3
        <4> QED BY <4>1, <2>3, SmallRest
      <3>5. n % Size(to) = n + Size(to)
        <4>1. n \in (-Size(to))..(-1)
          BY <1>2, <2>2, <2>3, <3>2 DEF m
        <4> QED BY <4>1, <2>3, SmallRest
      <3>6. Size(to) - size + (m % Size(to)) = n % Size(to)
        BY <2>3, <3>4, <3>5 DEF m
      <3> QED BY <2>5, <2>6, <3>6 DEF Wrapped
    <2>7. CASE ~(from.byteWidth < to.byteWidth)
      <3>1. to.byteWidth <= from.byteWidth
        BY <2>3, <2>7
      <3>2. PICK k \in Nat \ {0} : size = Size(to) * k
        BY <3>1, SizesDivide DEF size
      <3>3. (n + Size(to) * k) % Size(to) = n % Size(to)
        BY <2>3, RestOfSum
      <3>4. m % Size(to) = n % Size(to)
        BY <3>2, <3>3 DEF m
      <3>5. n % Size(to) \in Int
        BY <2>3, Divided
      <3>6. 0 + (m % Size(to)) = n % Size(to)
        BY <3>4, <3>5
      <3> QED BY <2>5, <2>7, <3>6 DEF Wrapped
    <2> QED BY <2>6, <2>7
  <1> QED BY <1>1, <1>2

LEMMA FromTypedIs ==
    ASSUME NEW n \in Int, NEW from \in IntTypes, NEW to \in IntTypes, n >= 0 \/ Fits(n, from)
    PROVE  FromTyped(n, from, to, "truncate") = [value |-> Wrapped(n, to), type |-> to]
  <1>1. Truncate(n, from, to) = Wrapped(n, to)
    BY TruncateIs
  <1>2. Fits(Wrapped(n, to), to)
    BY WrappedIs
  <1> QED BY <1>1, <1>2 DEF FromTyped

LEMMA Typed ==
    ASSUME NEW i \in TypedIntegers
    PROVE  /\ i.value \in Int /\ i.type \in IntTypes /\ Fits(i.value, i.type)
           /\ i = [value |-> i.value, type |-> i.type]
  BY DEF TypedIntegers

LEMMA WrappedIsTyped ==
    ASSUME NEW n \in Int, NEW type \in IntTypes
    PROVE  [value |-> Wrapped(n, type), type |-> type] \in TypedIntegers
  <1>1. Wrapped(n, type) \in Int /\ Fits(Wrapped(n, type), type)
    BY WrappedIs
  <1> QED BY <1>1 DEF TypedIntegers

LEMMA CastIs ==
    ASSUME NEW i \in TypedIntegers, NEW to \in IntTypes
    PROVE  Cast(i, to) = [value |-> Wrapped(i.value, to), type |-> to]
  <1>1. /\ i.value \in Int /\ i.type \in IntTypes /\ Fits(i.value, i.type)
        /\ i = [value |-> i.value, type |-> i.type]
    BY Typed
  <1>2. CASE i.type = to
    <2>1. Wrapped(i.value, to) = i.value
      BY <1>1, <1>2, WrappedIs
    <2> QED BY <1>1, <1>2, <2>1 DEF Cast
  <1>3. CASE i.type # to
    <2>1. FromTyped(i.value, i.type, to, "truncate") = [value |-> Wrapped(i.value, to), type |-> to]
      BY <1>1, FromTypedIs
    <2> QED BY <1>3, <2>1 DEF Cast
  <1> QED BY <1>2, <1>3

LEMMA FromNumberIs ==
    ASSUME NEW n \in Int, NEW to \in IntTypes, NotFarBelow(n, to)
    PROVE  FromNumber(n, to, "truncate") = [value |-> Wrapped(n, to), type |-> to]
  <1> DEFINE from == [to EXCEPT !.isSigned = TRUE]
  <1>1. CASE n >= 0
    <2>1. FromTyped(n, to, to, "truncate") = [value |-> Wrapped(n, to), type |-> to]
      BY <1>1, FromTypedIs
    <2> QED BY <1>1, <2>1 DEF FromNumber
  <1>2. CASE n < 0
    <2>1. from \in IntTypes /\ from.byteWidth = to.byteWidth /\ from.isSigned
      BY Zenon DEF IntTypes
    <2> HIDE DEF from
    <2>2. Size(from) = Size(to)
      BY <2>1 DEF Size
    <2>3. MinOf(from) = -(Size(from) \div 2) /\ MaxOf(from) = Size(from) \div 2 - 1 /\ Size(from) \div 2 \in Nat
      BY <2>1, SizeOfTypes
    <2>4. Fits(n, from)
      BY <1>2, <2>2, <2>3 DEF Fits, NotFarBelow
    <2>5. FromTyped(n, from, to, "truncate") = [value |-> Wrapped(n, to), type |-> to]
      BY <2>1, <2>4, FromTypedIs
    <2> QED BY <1>2, <2>5 DEF FromNumber, from
  <1> QED BY <1>1, <1>2

LEMMA PromoteIs ==
    ASSUME NEW i \in TypedIntegers
    PROVE  /\ Promote(i) \in TypedIntegers /\ Promote(i).value = i.value
           /\ Promote(i).type \in IntTypes /\ i.type.byteWidth <= Promote(i).type.byteWidth
  <1> DEFINE int == IntType(IntWidth, TRUE)
             n == i.value
             from == i.type
  <1>1. n \in Int /\ from \in IntTypes /\ Fits(n, from)
    BY Typed
  <1>2. int \in IntTypes /\ int.byteWidth = IntWidth /\ int.isSigned
    BY ChainIntegersAssumption DEF IntTypes, IntType
  <1>3. from.byteWidth \in Nat /\ IntWidth \in Nat
    BY <1>1, ChainIntegersAssumption DEF IntTypes
  <1>4. CASE from.byteWidth < IntWidth
    <2>1. Promote(i) = Cast(i, int)
      BY <1>4 DEF Promote
    <2> HIDE DEF int
    <2>2. Cast(i, int) = [value |-> Wrapped(n, int), type |-> int]
      BY <1>2, CastIs
    <2>3. Fits(n, int)
      <3>1. PICK k \in Nat \ {0} : Size(int) = Size(from) * k /\ k >= 2
        BY <1>1, <1>2, <1>3, <1>4, SizesDivide
      <3>2. Size(from) \in Nat \ {0} /\ Size(int) \in Nat
        BY <1>1, <1>2, SizeOfTypes
      <3>3. Size(int) >= 2 * Size(from)
        BY <3>1, <3>2
      <3>4. /\ MaxOf(int) = Size(int) \div 2 - 1 /\ MinOf(int) = -(Size(int) \div 2)
            /\ 2 * (Size(int) \div 2) = Size(int) /\ Size(int) \div 2 \in Nat
        BY <1>2, SizeOfTypes
      <3>5. MaxOf(from) \in Int /\ MinOf(from) \in Int /\ MaxOf(from) <= Size(from) - 1 /\ MinOf(from) >= -Size(from)
        BY <1>1, SizeOfTypes
      <3> QED BY <1>1, <3>2, <3>3, <3>4, <3>5 DEF Fits
    <2>4. Wrapped(n, int) = n
      BY <1>1, <1>2, <2>3, WrappedIs
    <2>5. [value |-> Wrapped(n, int), type |-> int] \in TypedIntegers
      BY <1>1, <1>2, WrappedIsTyped
    <2> QED BY <1>2, <1>3, <1>4, <2>1, <2>2, <2>4, <2>5
  <1>5. CASE ~(from.byteWidth < IntWidth)
    BY <1>1, <1>3, <1>5 DEF Promote
  <1> QED BY <1>4, <1>5

LEMMA CommonTypeIs ==
    ASSUME NEW s \in IntTypes, NEW t \in IntTypes
    PROVE  /\ CommonType(s, t) \in IntTypes
           /\ s.byteWidth <= CommonType(s, t).byteWidth /\ t.byteWidth <= CommonType(s, t).byteWidth
  <1>1. s.byteWidth \in Nat /\ t.byteWidth \in Nat
    BY DEF IntTypes
  <1> QED BY <1>1 DEF CommonType

\* An operator on what its operands are in the common type.
LEMMA OperatorIs ==
    ASSUME NEW op, NEW a \in TypedIntegers, NEW b \in TypedIntegers, NEW ab, NEW x, NEW y, NEW e \in Int,
           ab = CommonType(Promote(a).type, Promote(b).type),
           x = Wrapped(a.value, ab), y = Wrapped(b.value, ab),
           e = Exact(op, x, y), NotFarBelow(e, ab)
    PROVE  /\ Operator(op, a, b) = [value |-> Wrapped(e, ab), type |-> ab]
           /\ Operating(op, a, b) = [value |-> Wrapped(e, a.type), type |-> a.type]
  <1>1. /\ Promote(a) \in TypedIntegers /\ Promote(a).value = a.value
        /\ Promote(a).type \in IntTypes /\ a.type.byteWidth <= Promote(a).type.byteWidth
    BY PromoteIs
  <1>2. Promote(b) \in TypedIntegers /\ Promote(b).value = b.value /\ Promote(b).type \in IntTypes
    BY PromoteIs
  <1>3. ab \in IntTypes /\ Promote(a).type.byteWidth <= ab.byteWidth
    BY <1>1, <1>2, CommonTypeIs
  <1>4. a.type \in IntTypes /\ a.type.byteWidth <= ab.byteWidth
    <2>1. a.type \in IntTypes
      BY Typed
    <2>2. /\ a.type.byteWidth \in Nat /\ ab.byteWidth \in Nat /\ Promote(a).type.byteWidth \in Nat
      BY <1>1, <1>3, <2>1 DEF IntTypes
    <2> QED BY <1>1, <1>3, <2>1, <2>2
  <1>5. Cast(Promote(a), ab).value = x /\ Cast(Promote(b), ab).value = y
    BY <1>1, <1>2, <1>3, CastIs
  <1>6. Operator(op, a, b) = FromNumber(e, ab, "truncate")
    BY <1>5 DEF Operator
  <1>7. FromNumber(e, ab, "truncate") = [value |-> Wrapped(e, ab), type |-> ab]
    BY <1>3, FromNumberIs
  <1> DEFINE got == [value |-> Wrapped(e, ab), type |-> ab]
  <1>8. got \in TypedIntegers /\ got.value = Wrapped(e, ab)
    BY <1>3, WrappedIsTyped
  <1> HIDE DEF got
  <1>9. Cast(got, a.type) = [value |-> Wrapped(got.value, a.type), type |-> a.type]
    BY <1>4, <1>8, CastIs
  <1>10. Wrapped(Wrapped(e, ab), a.type) = Wrapped(e, a.type)
    BY <1>3, <1>4, WrappedTwice
  <1>11. Operator(op, a, b) = got
    BY <1>6, <1>7 DEF got
  <1> QED BY <1>8, <1>9, <1>10, <1>11 DEF Operating, got

LEMMA ExactIsInt ==
    ASSUME NEW op \in {"add", "sub", "mul"}, NEW x \in Int, NEW y \in Int
    PROVE  Exact(op, x, y) \in Int
  BY DEF Exact

LEMMA DivisionIs ==
    ASSUME NEW x \in Nat, NEW y \in Nat \ {0}
    PROVE  /\ DivTrunc(x, y) = x \div y /\ DivTrunc(x, y) \in Nat
           /\ DivTrunc(x, y) * y <= x /\ x < (DivTrunc(x, y) + 1) * y
  <1> DEFINE q == x \div y
  <1>1. q \in Int /\ x % y \in 0..(y - 1) /\ x = y * q + (x % y)
    BY Divided
  <1>2. DivTrunc(x, y) = q
    BY DEF DivTrunc
  <1> HIDE DEF q
  <1>3. q >= 0
    <2> SUFFICES ASSUME q <= -1 PROVE FALSE
      BY <1>1
    <2>1. y * q <= -y
      BY <1>1
    <2> QED BY <1>1, <2>1
  <1>4. q * y = y * q /\ (q + 1) * y = y * q + y
    BY <1>1
  <1> QED BY <1>1, <1>2, <1>3, <1>4 DEF q

LEMMA CeilIs ==
    ASSUME NEW x \in Nat, NEW y \in Nat \ {0}
    PROVE  /\ DivCeil(x, y) \in Nat
           /\ (DivCeil(x, y) - 1) * y < x /\ x <= DivCeil(x, y) * y
  <1> DEFINE q == DivTrunc(x, y)
             qy == q * y
  <1>1. q \in Nat /\ qy <= x /\ x < (q + 1) * y
    BY DivisionIs
  <1> HIDE DEF q
  <1>2. (q + 1) * y = qy + y /\ (q - 1) * y = qy - y /\ (q + 1 - 1) * y = qy /\ qy \in Int
    BY <1>1
  <1>3. DivCeil(x, y) = IF qy = x THEN q ELSE q + 1
    BY <1>1 DEF DivCeil, q
  <1> HIDE DEF qy
  <1>4. CASE qy = x
    BY <1>1, <1>2, <1>3, <1>4 DEF qy
  <1>5. CASE qy # x
    BY <1>1, <1>2, <1>3, <1>5
  <1> QED BY <1>4, <1>5

LEMMA RoundIs ==
    ASSUME NEW x \in Nat, NEW y \in Nat \ {0}
    PROVE  /\ DivRound(x, y) \in Nat
           /\ 2 * DivRound(x, y) * y - y <= 2 * x /\ 2 * x < 2 * DivRound(x, y) * y + y
  <1> DEFINE q == DivTrunc(x, y)
             qy == q * y
             rest == x - qy
             half == y \div 2
             got == DivRound(x, y)
  <1>1. q \in Nat /\ qy <= x /\ x < (q + 1) * y
    BY DivisionIs
  <1>2. (q + 1) * y = qy + y /\ qy \in Int
    BY <1>1
  <1>3. half \in Int /\ y % 2 \in {0, 1} /\ y = 2 * half + (y % 2)
    OBVIOUS
  <1>4. got = IF rest = 0 \/ rest < half \/ (y % 2 = 1 /\ rest = half) THEN q ELSE q + 1
    BY DEF DivRound
  <1> DEFINE small == rest = 0 \/ rest < half \/ (y % 2 = 1 /\ rest = half)
  <1> HIDE DEF q, qy, half
  <1>5. small => 2 * rest < y
    BY <1>1, <1>2, <1>3
  <1>6. ~small => 2 * rest >= y
    BY <1>1, <1>2, <1>3
  <1>7. rest \in Nat /\ rest < y /\ x = qy + rest
    BY <1>1, <1>2
  <1>8. q \in Int /\ qy = q * y
    BY <1>1 DEF qy
  <1>9. got = q => 2 * got * y = 2 * qy
    BY <1>8
  <1>10. got = q + 1 => 2 * got * y = 2 * qy + 2 * y
    BY <1>8
  <1> HIDE DEF got, rest
  <1>11. CASE small
    <2>1. got = q
      BY <1>4, <1>11
    <2> QED BY <1>1, <1>2, <1>5, <1>7, <1>9, <1>11, <2>1 DEF got
  <1>12. CASE ~small
    <2>1. got = q + 1
      BY <1>4, <1>12
    <2> QED BY <1>1, <1>2, <1>6, <1>7, <1>10, <1>12, <2>1 DEF got
  <1> QED BY <1>11, <1>12

LEMMA ClampIs ==
    ASSUME NEW n \in Int, NEW to \in IntTypes
    PROVE  /\ Fits(FromNumber(n, to, "clamp").value, to)
           /\ Fits(n, to) => FromNumber(n, to, "clamp").value = n
  <1> DEFINE c == Clamp(n, to)
  <1>1. MaxOf(to) \in Int /\ MinOf(to) \in Int /\ MinOf(to) <= MaxOf(to)
    BY SizeOfTypes
  <1>2. Fits(c, to) /\ (Fits(n, to) => c = n)
    BY <1>1 DEF Clamp, Fits
  <1>3. FromNumber(n, to, "clamp") = IF Fits(c, to) THEN [value |-> c, type |-> to] ELSE Throws
    BY DEF FromNumber, FromTyped
  <1> QED BY <1>2, <1>3

LEMMA IntegersWrap == ASSUME input \in ChainInputs PROVE ArithmeticWraps
  <1>1. ASSUME Is("ints")
        PROVE  input[2] \in TypedIntegers /\ input[3] \in TypedIntegers
    BY <1>1 DEF Is, ChainInputs, IntegerInputs, PricedInputs, WrittenInputs, KeyInputs
  <1>2. ASSUME Is("number")
        PROVE  input[2] \in Int /\ input[3] \in IntTypes
    BY <1>2 DEF Is, ChainInputs, IntegerInputs, PricedInputs, WrittenInputs, KeyInputs
  <1> DEFINE a == input[2]
             b == input[3]
             ab == CommonType(Promote(a).type, Promote(b).type)
             x == Wrapped(a.value, ab)
             y == Wrapped(b.value, ab)
  <1>3. ASSUME a \in TypedIntegers, b \in TypedIntegers
        PROVE  ab \in IntTypes /\ x \in Int /\ y \in Int /\ Cast(a, b.type).value = Wrapped(a.value, b.type)
    <2> HIDE DEF a, b
    <2>1. Promote(a).type \in IntTypes /\ Promote(b).type \in IntTypes
      BY <1>3, PromoteIs
    <2>2. ab \in IntTypes
      BY <2>1, CommonTypeIs
    <2>3. a.value \in Int /\ b.value \in Int /\ b.type \in IntTypes
      BY <1>3, Typed
    <2> HIDE DEF ab
    <2>4. x \in Int /\ y \in Int
      BY <2>2, <2>3, WrappedIs
    <2>5. Cast(a, b.type).value = Wrapped(a.value, b.type)
      BY <1>3, <2>3, CastIs
    <2> QED BY <2>2, <2>4, <2>5
  <1>4. ASSUME a \in TypedIntegers, b \in TypedIntegers, NEW op \in {"add", "sub", "mul"},
               NotFarBelow(Exact(op, x, y), ab)
        PROVE  /\ Operator(op, a, b).value = Wrapped(Exact(op, x, y), ab)
               /\ Operating(op, a, b).value = Wrapped(Exact(op, x, y), a.type)
    <2>1. x \in Int /\ y \in Int
      BY <1>3, <1>4
    <2> DEFINE e == Exact(op, x, y)
    <2>2. e \in Int
      <3> HIDE DEF x, y
      <3> QED BY <2>1, ExactIsInt
    <2> HIDE DEF a, b
    <2> QED BY <1>4, <2>2, OperatorIs
  <1>5. ASSUME a \in TypedIntegers, b \in TypedIntegers, x >= 0, y > 0
        PROVE  LET quotient(op) == Exact(op, x, y)
               IN  /\ quotient("div") * y <= x /\ x < (quotient("div") + 1) * y
                   /\ (quotient("divCeil") - 1) * y < x /\ x <= quotient("divCeil") * y
                   /\ 2 * quotient("divRound") * y - y <= 2 * x
                   /\ 2 * x < 2 * quotient("divRound") * y + y
    <2>1. x \in Nat /\ y \in Nat \ {0}
      <3>1. x \in Int /\ y \in Int
        BY <1>3, <1>5
      <3> HIDE DEF x, y
      <3> QED BY <1>5, <3>1
    <2> HIDE DEF x, y
    <2>2. Exact("div", x, y) = DivTrunc(x, y) /\ Exact("divCeil", x, y) = DivCeil(x, y)
          /\ Exact("divRound", x, y) = DivRound(x, y)
      BY DEF Exact
    <2>3. DivTrunc(x, y) * y <= x /\ x < (DivTrunc(x, y) + 1) * y
      BY <2>1, DivisionIs
    <2>4. (DivCeil(x, y) - 1) * y < x /\ x <= DivCeil(x, y) * y
      BY <2>1, CeilIs
    <2>5. 2 * DivRound(x, y) * y - y <= 2 * x /\ 2 * x < 2 * DivRound(x, y) * y + y
      BY <2>1, RoundIs
    <2> QED BY <2>2, <2>3, <2>4, <2>5
  <1>6. ASSUME NEW n \in Int, NEW to \in IntTypes
        PROVE  /\ Fits(FromNumber(n, to, "clamp").value, to)
               /\ Fits(n, to) => FromNumber(n, to, "clamp").value = n
               /\ NotFarBelow(n, to) => FromNumber(n, to, "truncate").value = Wrapped(n, to)
    BY ClampIs, FromNumberIs
  <1>7. ASSUME Is("ints")
        PROVE  /\ Cast(a, b.type).value = Wrapped(a.value, b.type)
               /\ \A op \in {"add", "sub", "mul"} :
                      NotFarBelow(Exact(op, x, y), ab) =>
                          /\ Operator(op, a, b).value = Wrapped(Exact(op, x, y), ab)
                          /\ Operating(op, a, b).value = Wrapped(Exact(op, x, y), a.type)
               /\ x >= 0 /\ y > 0 =>
                      LET quotient(op) == Exact(op, x, y)
                      IN  /\ quotient("div") * y <= x /\ x < (quotient("div") + 1) * y
                          /\ (quotient("divCeil") - 1) * y < x /\ x <= quotient("divCeil") * y
                          /\ 2 * quotient("divRound") * y - y <= 2 * x
                          /\ 2 * x < 2 * quotient("divRound") * y + y
    <2>1. a \in TypedIntegers /\ b \in TypedIntegers
      BY <1>1, <1>7
    <2> HIDE DEF a, b, ab, x, y
    <2> QED BY <1>3, <1>4, <1>5, <2>1
  <1> QED BY <1>2, <1>6, <1>7 DEF ArithmeticWraps

---------------------------------------------------------------------------
(* UInt256.                                                                *)

LEMMA HalfIs == Half \in Nat \ {0} /\ MaxUInt256 \in Nat /\ MaxUInt256 = Half * Half - 1
  <1>1. HalfBits \in Nat /\ 0 \in Nat /\ 0 <= HalfBits /\ 2 \in Nat \ {0}
    BY ChainIntegersAssumption
  <1>2. Half \in Nat \ {0}
    BY <1>1, PowersGrow DEF Half
  <1> DEFINE h == Half
  <1> HIDE DEF h
  <1>3. h \in Nat \ {0}
    BY <1>2 DEF h
  <1>4. h * h - 1 \in Nat
    BY <1>3
  <1> QED BY <1>2, <1>4 DEF h, MaxUInt256

LEMMA RawIsRead ==
    ASSUME NEW raw \in Int
    PROVE  /\ FromRaw(raw) = Throws <=> raw < 0 \/ raw > MaxUInt256
           /\ FromRaw(raw) # Throws => Raw(FromRaw(raw)) = raw
  <1>1. Half \in Nat \ {0} /\ MaxUInt256 \in Nat
    BY HalfIs
  <1> DEFINE h == Half
             q == raw \div h
             r == raw % h
  <1>2. q \in Int /\ r \in Int /\ raw = h * q + r
    BY <1>1, Divided
  <1>3. [low |-> r, high |-> q] # Throws
    BY DEF Throws
  <1>4. FromRaw(raw) = IF raw < 0 \/ raw > MaxUInt256 THEN Throws ELSE [low |-> r, high |-> q]
    BY DEF FromRaw
  <1> HIDE DEF q, r, h
  <1>5. Raw([low |-> r, high |-> q]) = q * h + r
    BY DEF Raw, h
  <1>6. h \in Int
    BY <1>1 DEF h
  <1>7. q * h + r = raw
    BY <1>2, <1>6
  <1> QED BY <1>3, <1>4, <1>5, <1>7

LEMMA OneLess ==
    ASSUME NEW a \in Int, NEW b \in Int, NEW q \in Int
    PROVE  (a - q - 1) * b = a * b - q * b - b
  OBVIOUS

LEMMA DividedBack ==
    ASSUME NEW a \in Nat, NEW b \in Nat \ {0}, NEW s \in Nat \ {0}, NEW p, NEW q,
           p = (a * b) \div s, q = (p * s) \div b
    PROVE  p \in Int /\ q \in Int /\ q <= a /\ (a - q - 1) * b < s
  <1> DEFINE ab == a * b
             ps == p * s
             qb == q * b
  <1>1. ab \in Int
    OBVIOUS
  <1>2. p \in Int /\ ab % s \in 0..(s - 1) /\ ab = s * p + (ab % s)
    <2> HIDE DEF ab
    <2>1. ab \div s \in Int /\ ab % s \in 0..(s - 1) /\ ab = s * (ab \div s) + (ab % s)
      BY <1>1, Divided
    <2> QED BY <2>1 DEF ab
  <1>3. ps \in Int /\ s * p = ps
    BY <1>2
  <1>4. q \in Int /\ ps % b \in 0..(b - 1) /\ ps = b * q + (ps % b)
    <2> HIDE DEF ps
    <2>1. ps \div b \in Int /\ ps % b \in 0..(b - 1) /\ ps = b * (ps \div b) + (ps % b)
      BY <1>3, Divided
    <2> QED BY <2>1 DEF ps
  <1>5. qb \in Int /\ b * q = qb /\ (a - q - 1) * b = ab - qb - b
    <2>1. q \in Int
      BY <1>4
    <2>2. q * b \in Int
      BY <2>1
    <2>3. b * q = q * b
      BY <2>1
    <2>4. (a - q - 1) * b = a * b - q * b - b
      BY <2>1, OneLess
    <2> QED BY <2>2, <2>3, <2>4
  <1> HIDE DEF ab, ps
  <1>6. ab < ps + s /\ ps <= ab /\ qb <= ps /\ ps < qb + b
    BY <1>1, <1>2, <1>3, <1>4, <1>5
  <1>7. q <= a
    <2> SUFFICES ASSUME q >= a + 1 PROVE FALSE
      BY <1>4
    <2> DEFINE t == q - a - 1
    <2>1. t \in Nat /\ t * b = q * b - a * b - b /\ q * b \in Int /\ a * b \in Int
      <3>1. q \in Int
        BY <1>4
      <3>2. t \in Nat
        BY <3>1
      <3>3. t * b = q * b - a * b - b
        BY <3>1, OneLess
      <3>4. q * b \in Int
        BY <3>1
      <3> QED BY <3>2, <3>3, <3>4
    <2>2. t * b >= 0
      <3> HIDE DEF t
      <3> QED BY <2>1
    <2> HIDE DEF qb, t
    <2>3. qb >= ab + b
      BY <2>1, <2>2 DEF qb, ab
    <2> QED BY <1>1, <1>3, <1>5, <1>6, <2>3
  <1> HIDE DEF qb
  <1>8. (a - q - 1) * b < s
    BY <1>1, <1>3, <1>5, <1>6
  <1> QED BY <1>2, <1>4, <1>7, <1>8

LEMMA UInt256IsExact ==
    ASSUME NEW m \in 0..MaxUInt256, NEW n \in 0..MaxUInt256
    PROVE  LET a == FromRaw(m)
               b == FromRaw(n)
               sum == UAdd(a, b)
               product == UMultiply(a, b)
           IN  /\ sum = Throws <=> m + n > MaxUInt256
               /\ sum # Throws => USubtract(sum, b) = a
               /\ USubtract(a, b) = Throws <=> m < n
               /\ product # Throws /\ n > 0 =>
                      LET back == UDivide(product, b)
                      IN  back # Throws => /\ Raw(back) <= m
                                           /\ (m - Raw(back) - 1) * n < Scale
  <1> DEFINE a == FromRaw(m)
             b == FromRaw(n)
             sum == UAdd(a, b)
             product == UMultiply(a, b)
             back == UDivide(product, b)
             p == (m * n) \div Scale
             q == (p * Scale) \div n
             i == m + n
             j == m - n
  <1>1. MaxUInt256 \in Nat /\ Scale \in Nat \ {0}
    BY HalfIs, ChainIntegersAssumption
  <1>2. m \in Int /\ n \in Int /\ m >= 0 /\ n >= 0 /\ m <= MaxUInt256 /\ n <= MaxUInt256
    BY <1>1
  <1>3. Raw(a) = m /\ Raw(b) = n
    BY <1>1, <1>2, RawIsRead
  <1>4. sum = FromRaw(i) /\ USubtract(a, b) = FromRaw(j) /\ product = FromRaw(p)
    BY <1>3 DEF UAdd, USubtract, UMultiply
  <1>5. i \in Int /\ j \in Int /\ i >= 0 /\ j <= MaxUInt256
    BY <1>1, <1>2
  <1>6. sum = Throws <=> i > MaxUInt256
    <2> HIDE DEF i, sum
    <2> QED BY <1>1, <1>4, <1>5, RawIsRead
  <1>7. USubtract(a, b) = Throws <=> m < n
    <2>1. j < 0 <=> m < n
      BY <1>2
    <2> HIDE DEF j, a, b
    <2> QED BY <1>1, <1>4, <1>5, <2>1, RawIsRead
  <1>8. ASSUME sum # Throws PROVE USubtract(sum, b) = a
    <2>1. Raw(sum) = i
      <3> HIDE DEF i, sum
      <3> QED BY <1>4, <1>5, <1>8, RawIsRead
    <2> HIDE DEF sum, b
    <2>2. USubtract(sum, b) = FromRaw(i - n)
      BY <1>3, <2>1 DEF USubtract
    <2>3. i - n = m
      BY <1>2
    <2> QED BY <2>2, <2>3
  <1>9. ASSUME product # Throws, n > 0, back # Throws
        PROVE  Raw(back) <= m /\ (m - Raw(back) - 1) * n < Scale
    <2>1. m \in Nat /\ n \in Nat \ {0}
      BY <1>2, <1>9
    <2>2. p \in Int /\ q \in Int /\ q <= m /\ (m - q - 1) * n < Scale
      <3> DEFINE s == Scale
      <3>1. s \in Nat \ {0}
        BY <1>1
      <3>2. p = (m * n) \div s /\ q = (p * s) \div n
        OBVIOUS
      <3> HIDE DEF p, q, s
      <3>3. p \in Int /\ q \in Int /\ q <= m /\ (m - q - 1) * n < s
        BY <2>1, <3>1, <3>2, DividedBack
      <3> QED BY <3>3 DEF s
    <2>3. Raw(product) = p
      <3> HIDE DEF p, product
      <3> QED BY <1>4, <1>9, <2>2, RawIsRead
    <2>4. back = FromRaw(q)
      <3> HIDE DEF product, b, p
      <3> QED BY <1>3, <1>9, <2>3 DEF UDivide
    <2>5. Raw(back) = q
      <3> HIDE DEF q, back
      <3> QED BY <1>9, <2>2, <2>4, RawIsRead
    <2> HIDE DEF q, back
    <2> QED BY <2>2, <2>5
  <1> QED BY <1>6, <1>7, <1>8, <1>9

---------------------------------------------------------------------------
(* Numbers and their digits.                                               *)

LEMMA QuotientOfQuotient ==
    ASSUME NEW n \in Int, NEW a \in Nat \ {0}, NEW b \in Nat \ {0}
    PROVE  (n \div a) \div b = n \div (a * b)
  <1> DEFINE q == n \div a
             r == n % a
             p == q \div b
             s == q % b
             ab == a * b
             rest == a * s + r
  <1>1. q \in Int /\ r \in 0..(a - 1) /\ n = a * q + r
    BY Divided
  <1>2. p \in Int /\ s \in 0..(b - 1) /\ q = b * p + s
    <2> HIDE DEF q
    <2> QED BY <1>1, Divided
  <1> HIDE DEF q, r, s, p
  <1>3. n = ab * p + rest
    BY <1>1, <1>2
  <1>4. a * s <= a * (b - 1) /\ a * (b - 1) = ab - a /\ a * s >= 0 /\ a * s \in Int
    BY <1>2
  <1>5. ab \in Nat \ {0}
    OBVIOUS
  <1>6. rest \in 0..(ab - 1)
    <2> DEFINE as == a * s
    <2> HIDE DEF as, ab
    <2>1. as + r \in 0..(ab - 1)
      BY <1>1, <1>4, <1>5 DEF as
    <2> QED BY <2>1 DEF as
  <1> HIDE DEF ab, rest
  <1>7. n \div ab = p
    BY <1>2, <1>3, <1>5, <1>6, QuotientAndRest
  <1> QED BY <1>7 DEF ab, p, q

\* What the recursion of Number takes on: a function of how much was read.
IsReading(f, s, b) ==
    /\ f \in [0..Len(s) -> Int] /\ f[0] = 0
    /\ \A i \in 1..Len(s) : f[i] = b * f[i - 1] + s[i]

Reading(f, s, b, n) == f = [i \in 0..n |-> IF i = 0 THEN 0 ELSE b * f[i - 1] + s[i]]

LEMMA ReadingExists ==
    ASSUME NEW b \in Int, NEW s, NEW n \in Nat, \A i \in 1..n : s[i] \in Int
    PROVE  \E f : Reading(f, s, b, n)
  <1> DEFINE next == [i \in 1..n |-> [x \in Int |-> b * x + s[i]]]
  <1>1. Steps(next, n, Int) /\ 0 \in Int
    BY DEF Steps
  <1>2. PICK f : IsIteration(f, n, Int, 0, next)
    <2> HIDE DEF next
    <2> QED BY <1>1, Iterates
  <1>3. ASSUME NEW k \in 0..n
        PROVE  f[k] = IF k = 0 THEN 0 ELSE b * f[k - 1] + s[k]
    <2>1. k # 0 => k \in 1..n /\ f[k - 1] \in Int
      BY <1>2 DEF IsIteration
    <2> QED BY <1>2, <2>1 DEF IsIteration
  <1>4. f \in [0..n -> Int]
    BY <1>2 DEF IsIteration
  <1> QED BY <1>3, <1>4 DEF Reading

LEMMA ReadingIs ==
    ASSUME NEW b \in Int, NEW s, NEW n \in Nat, \A i \in 1..n : s[i] \in Int,
           NEW g, Reading(g, s, b, n)
    PROVE  g \in [0..n -> Int] /\ g[0] = 0 /\ \A i \in 1..n : g[i] = b * g[i - 1] + s[i]
  <1>0. g = [i \in 0..n |-> IF i = 0 THEN 0 ELSE b * g[i - 1] + s[i]]
    BY DEF Reading
  <1> DEFINE P == {i \in 0..n : g[i] \in Int}
  <1>1. 0..n \subseteq P
    <2>1. 0 \in P
      BY <1>0
    <2>2. ASSUME NEW i \in 1..n, i - 1 \in P PROVE i \in P
      <3>1. i \in 0..n /\ s[i] \in Int /\ g[i - 1] \in Int /\ g[i] = b * g[i - 1] + s[i]
        BY <1>0, <2>2
      <3> QED BY <3>1
    <2> HIDE DEF P
    <2> QED BY <2>1, <2>2, Induction
  <1>2. g \in [0..n -> Int]
    BY <1>0, <1>1
  <1>3. g[0] = 0 /\ \A i \in 1..n : g[i] = b * g[i - 1] + s[i]
    BY <1>0
  <1> QED BY <1>2, <1>3

TheReading(s, b, n) == CHOOSE f : Reading(f, s, b, n)

LEMMA TheReadingIs ==
    ASSUME NEW b \in Int, NEW s, NEW n \in Nat, \A i \in 1..n : s[i] \in Int
    PROVE  /\ TheReading(s, b, n) \in [0..n -> Int] /\ TheReading(s, b, n)[0] = 0
           /\ \A i \in 1..n : TheReading(s, b, n)[i] = b * TheReading(s, b, n)[i - 1] + s[i]
  <1>1. \E f : Reading(f, s, b, n)
    BY ReadingExists
  <1> DEFINE g == TheReading(s, b, n)
  <1>2. Reading(g, s, b, n)
    BY <1>1 DEF TheReading
  <1> HIDE DEF g
  <1>3. g \in [0..n -> Int] /\ g[0] = 0 /\ \A i \in 1..n : g[i] = b * g[i - 1] + s[i]
    BY <1>2, ReadingIs
  <1> QED BY <1>3 DEF g

LEMMA NumberValues ==
    ASSUME NEW b \in Int, NEW s \in Seq(Int)
    PROVE  \E f : IsReading(f, s, b) /\ Number(s, b) = f[Len(s)]
  <1> DEFINE n == Len(s)
             g == TheReading(s, b, n)
  <1>1. n \in Nat /\ \A i \in 1..n : s[i] \in Int
    OBVIOUS
  <1>2. Number(s, b) = g[n]
    BY DEF Number, TheReading, Reading
  <1> HIDE DEF n
  <1>3. g \in [0..n -> Int] /\ g[0] = 0 /\ \A i \in 1..n : g[i] = b * g[i - 1] + s[i]
    BY <1>1, TheReadingIs
  <1> HIDE DEF g
  <1> QED BY <1>2, <1>3 DEF IsReading, n

\* There is one such function.
LEMMA OneReading ==
    ASSUME NEW b \in Int, NEW s \in Seq(Int), NEW f, IsReading(f, s, b)
    PROVE  Number(s, b) = f[Len(s)]
  <1> DEFINE n == Len(s)
  <1>1. PICK g : IsReading(g, s, b) /\ Number(s, b) = g[Len(s)]
    BY NumberValues
  <1> DEFINE P == {i \in 0..n : f[i] = g[i]}
  <1>2. 0 \in P
    BY <1>1 DEF IsReading
  <1>3. ASSUME NEW i \in 1..n, i - 1 \in P PROVE i \in P
    <2>1. f[i] = b * f[i - 1] + s[i] /\ g[i] = b * g[i - 1] + s[i]
      BY <1>1 DEF IsReading
    <2> QED BY <1>3, <2>1
  <1>4. n \in Nat
    OBVIOUS
  <1> HIDE DEF P, n
  <1>5. 0..n \subseteq P
    BY <1>2, <1>3, <1>4, Induction
  <1>6. n \in P
    BY <1>4, <1>5
  <1> QED BY <1>1, <1>6 DEF P, n

LEMMA DigitsAre ==
    ASSUME NEW n \in Int, NEW b \in Nat \ {0}, NEW len \in Nat
    PROVE  /\ Digits(n, b, len) \in Seq(0..(b - 1)) /\ Digits(n, b, len) \in Seq(Int)
           /\ Len(Digits(n, b, len)) = len /\ DOMAIN Digits(n, b, len) = 1..len
           /\ \A i \in 1..len : Digits(n, b, len)[i] = (n \div Power(b, len - i)) % b
  <1> DEFINE d == Digits(n, b, len)
  <1>1. d = [i \in 1..len |-> (n \div Power(b, len - i)) % b]
    BY DEF Digits
  <1>2. ASSUME NEW i \in 1..len
        PROVE  (n \div Power(b, len - i)) % b \in 0..(b - 1)
    <2> DEFINE k == len - i
               p == Power(b, k)
    <2>1. k \in Nat
      OBVIOUS
    <2>2. p \in Nat \ {0}
      <3> HIDE DEF k
      <3> QED BY <2>1, PowersGrow
    <2> HIDE DEF p
    <2>3. n \div p \in Int
      BY <2>2, Divided
    <2> DEFINE q == n \div p
    <2> HIDE DEF q
    <2>4. q % b \in 0..(b - 1)
      BY <2>3, Divided DEF q
    <2> QED BY <2>4 DEF q, p
  <1>3. d \in [1..len -> 0..(b - 1)]
    BY <1>1, <1>2
  <1> HIDE DEF d
  <1>4. d \in Seq(0..(b - 1)) /\ Len(d) = len
    BY <1>3
  <1>5. d \in Seq(Int)
    BY <1>4
  <1> QED BY <1>1, <1>3, <1>4, <1>5 DEF d

\* Enough digits of a number are the number.
LEMMA DigitsAreRead ==
    ASSUME NEW b \in Nat \ {0}, NEW len \in Nat, NEW n \in Nat, n < Power(b, len)
    PROVE  Number(Digits(n, b, len), b) = n
  <1> DEFINE s == Digits(n, b, len)
             at(k) == n \div Power(b, k)
             f == [i \in 0..len |-> at(len - i)]
  <1>1. /\ s \in Seq(Int) /\ Len(s) = len
        /\ \A i \in 1..len : s[i] = at(len - i) % b
    BY DigitsAre
  <1>2. ASSUME NEW k \in Nat PROVE at(k) \in Int /\ at(k + 1) = at(k) \div b /\ at(k) = b * at(k + 1) + (at(k) % b)
    <2> DEFINE p == Power(b, k)
    <2>1. p \in Nat \ {0} /\ Power(b, k + 1) = b * p
      <3>1. p \in Nat \ {0}
        BY PowersGrow
      <3>2. Power(b, k + 1) = b * p
        <4>1. b \in Int
          OBVIOUS
        <4> QED BY <4>1, PowerIs
      <3> QED BY <3>1, <3>2
    <2> HIDE DEF p
    <2>2. b * p = p * b
      BY <2>1
    <2>3. (n \div p) \div b = n \div (p * b)
      BY <2>1, QuotientOfQuotient
    <2> DEFINE q == n \div p
    <2>4. q \in Int
      BY <2>1, Divided
    <2> HIDE DEF q
    <2>5. q = b * (q \div b) + (q % b)
      BY <2>4, Divided
    <2> QED BY <2>1, <2>2, <2>3, <2>4, <2>5 DEF q, p
  <1> HIDE DEF s
  <1>3. f[0] = 0
    <2>1. Power(b, len) \in Nat \ {0}
      BY PowersGrow
    <2> DEFINE p == Power(b, len)
    <2> HIDE DEF p
    <2>2. n \div p = 0
      <3>1. n \in 0..(p - 1) /\ p \in Nat \ {0}
        BY <2>1 DEF p
      <3> QED BY <3>1, SmallRest
    <2>3. f[0] = at(len)
      OBVIOUS
    <2> QED BY <2>2, <2>3 DEF p
  <1>4. ASSUME NEW i \in 1..len PROVE f[i] = b * f[i - 1] + s[i]
    <2> DEFINE k == len - i
    <2>1. k \in Nat /\ len - (i - 1) = k + 1 /\ i - 1 \in 0..len
      OBVIOUS
    <2>2. f[i] = at(k) /\ f[i - 1] = at(k + 1)
      BY <2>1
    <2>3. s[i] = at(k) % b
      BY <1>1
    <2> HIDE DEF k, at, f
    <2> QED BY <1>2, <2>1, <2>2, <2>3
  <1>5. f \in [0..len -> Int]
    <2>1. ASSUME NEW i \in 0..len PROVE at(len - i) \in Int
      <3> DEFINE k == len - i
      <3>1. k \in Nat
        OBVIOUS
      <3> HIDE DEF k, at
      <3>2. at(k) \in Int
        BY <1>2, <3>1
      <3> QED BY <3>2 DEF k
    <2> HIDE DEF at
    <2> QED BY <2>1
  <1>6. f[len] = n
    <2>1. Power(b, 0) = 1
      BY PowerIs
    <2>2. n \div 1 = n
      OBVIOUS
    <2>3. f[len] = at(len - len) /\ len - len = 0
      OBVIOUS
    <2> QED BY <2>1, <2>2, <2>3
  <1>7. IsReading(f, s, b)
    <2> HIDE DEF f
    <2> QED BY <1>1, <1>3, <1>4, <1>5 DEF IsReading
  <1> HIDE DEF f
  <1>8. Number(s, b) = f[Len(s)]
    BY <1>1, <1>7, OneReading
  <1> QED BY <1>1, <1>6, <1>8 DEF s

---------------------------------------------------------------------------
(* Amounts and their texts.                                                *)

\* The value of a text with a point in it, as it is read.
Pointed(f, s, n) ==
    f = [i \in 0..n |-> IF i = 0 THEN 0 ELSE IF s[i] = Point THEN f[i - 1] ELSE 10 * f[i - 1] + s[i]]

ThePointed(s, n) == CHOOSE f : Pointed(f, s, n)

LEMMA PointedExists ==
    ASSUME NEW s, NEW n \in Nat, \A i \in 1..n : s[i] \in Int
    PROVE  \E f : Pointed(f, s, n)
  <1> DEFINE next == [i \in 1..n |-> [x \in Int |-> IF s[i] = Point THEN x ELSE 10 * x + s[i]]]
  <1>1. Steps(next, n, Int) /\ 0 \in Int
    BY DEF Steps
  <1>2. PICK f : IsIteration(f, n, Int, 0, next)
    <2> HIDE DEF next
    <2> QED BY <1>1, Iterates
  <1>3. ASSUME NEW k \in 0..n
        PROVE  f[k] = IF k = 0 THEN 0 ELSE IF s[k] = Point THEN f[k - 1] ELSE 10 * f[k - 1] + s[k]
    <2>1. k # 0 => k \in 1..n /\ f[k - 1] \in Int
      BY <1>2 DEF IsIteration
    <2> QED BY <1>2, <2>1 DEF IsIteration
  <1>4. f \in [0..n -> Int]
    BY <1>2 DEF IsIteration
  <1> QED BY <1>3, <1>4 DEF Pointed

LEMMA ThePointedIs ==
    ASSUME NEW s, NEW n \in Nat, \A i \in 1..n : s[i] \in Int
    PROVE  /\ ThePointed(s, n)[0] = 0
           /\ \A i \in 1..n : ThePointed(s, n)[i] =
                  IF s[i] = Point THEN ThePointed(s, n)[i - 1] ELSE 10 * ThePointed(s, n)[i - 1] + s[i]
  <1>1. \E f : Pointed(f, s, n)
    BY PointedExists
  <1> DEFINE g == ThePointed(s, n)
  <1>2. Pointed(g, s, n)
    BY <1>1 DEF ThePointed
  <1> HIDE DEF g
  <1>3. g = [i \in 0..n |-> IF i = 0 THEN 0 ELSE IF s[i] = Point THEN g[i - 1] ELSE 10 * g[i - 1] + s[i]]
    BY <1>2 DEF Pointed
  <1>4. g[0] = 0 /\ \A i \in 1..n : g[i] = IF s[i] = Point THEN g[i - 1] ELSE 10 * g[i - 1] + s[i]
    BY <1>3
  <1> QED BY <1>4 DEF g

LEMMA ParsedAre ==
    ASSUME NEW t, NEW negative
    PROVE  LET units == ThePointed(t, Len(t))[Len(t)]
               points == {i \in DOMAIN t : t[i] = Point}
           IN  ParseUnits([negative |-> negative, text |-> t]) =
                   [units |-> IF negative THEN -units ELSE units,
                    precision |-> IF points = {} THEN 0 ELSE Len(t) - (CHOOSE i \in points : TRUE)]
  BY DEF ParseUnits, ThePointed, Pointed

LEMMA WholeIsParsed ==
    ASSUME NEW d \in Seq(0..9), NEW negative \in BOOLEAN
    PROVE  ParseUnits([negative |-> negative, text |-> d]) =
               [units |-> IF negative THEN -Number(d, 10) ELSE Number(d, 10), precision |-> 0]
  <1> DEFINE n == Len(d)
             g == ThePointed(d, n)
  <1>1. n \in Nat /\ d \in Seq(Int) /\ \A i \in 1..n : d[i] \in Int /\ d[i] # Point
    BY DEF Point
  <1>2. PICK f : IsReading(f, d, 10) /\ Number(d, 10) = f[Len(d)]
    BY <1>1, NumberValues
  <1>3. f[0] = 0 /\ \A i \in 1..n : f[i] = 10 * f[i - 1] + d[i]
    BY <1>2 DEF IsReading
  <1>4. {i \in DOMAIN d : d[i] = Point} = {}
    BY <1>1
  <1> HIDE DEF n
  <1>5. g[0] = 0 /\ \A i \in 1..n : g[i] = IF d[i] = Point THEN g[i - 1] ELSE 10 * g[i - 1] + d[i]
    BY <1>1, ThePointedIs
  <1> HIDE DEF g
  <1> DEFINE P == {i \in 0..n : g[i] = f[i]}
  <1>6. 0 \in P
    BY <1>1, <1>3, <1>5
  <1>7. ASSUME NEW i \in 1..n, i - 1 \in P PROVE i \in P
    <2>1. g[i] = 10 * g[i - 1] + d[i] /\ f[i] = 10 * f[i - 1] + d[i]
      BY <1>1, <1>3, <1>5
    <2> QED BY <1>7, <2>1
  <1> HIDE DEF P
  <1>8. 0..n \subseteq P
    BY <1>1, <1>6, <1>7, Induction
  <1>9. g[n] = f[n]
    BY <1>1, <1>8 DEF P
  <1>10. ThePointed(d, Len(d))[Len(d)] = Number(d, 10)
    BY <1>2, <1>9 DEF g, n
  <1> QED BY <1>4, <1>10, ParsedAre

LEMMA PartsAreParsed ==
    ASSUME NEW d \in Seq(0..9), NEW w \in 0..Len(d), NEW negative \in BOOLEAN
    PROVE  ParseUnits([negative |-> negative,
                       text |-> SubSeq(d, 1, w) \o <<Point>> \o SubSeq(d, w + 1, Len(d))]) =
               [units |-> IF negative THEN -Number(d, 10) ELSE Number(d, 10), precision |-> Len(d) - w]
  <1> DEFINE n == Len(d)
             t == SubSeq(d, 1, w) \o <<Point>> \o SubSeq(d, w + 1, n)
             l == n + 1
             g == ThePointed(t, l)
             points == {i \in DOMAIN t : t[i] = Point}
  <1>1. n \in Nat /\ d \in Seq(Int) /\ \A i \in 1..n : d[i] \in Int /\ d[i] # Point
    BY DEF Point
  <1>2. PICK f : IsReading(f, d, 10) /\ Number(d, 10) = f[Len(d)]
    BY <1>1, NumberValues
  <1>3. f[0] = 0 /\ \A i \in 1..n : f[i] = 10 * f[i - 1] + d[i]
    BY <1>2 DEF IsReading
  <1>4. /\ Len(t) = l /\ DOMAIN t = 1..l
        /\ \A i \in 1..w : t[i] = d[i]
        /\ t[w + 1] = Point
        /\ \A i \in (w + 2)..l : t[i] = d[i - 1]
    <2> DEFINE a == SubSeq(d, 1, w)
               b == SubSeq(d, w + 1, n)
               m == <<Point>>
               am == a \o m
    <2>1. a \in Seq(Int) /\ Len(a) = w /\ \A i \in 1..w : a[i] = d[i]
      BY <1>1
    <2>2. b \in Seq(Int) /\ Len(b) = n - w /\ \A i \in 1..(n - w) : b[i] = d[w + i]
      BY <1>1
    <2>3. m \in Seq(Int) /\ Len(m) = 1 /\ m[1] = Point
      BY DEF Point
    <2>4. w \in Nat /\ w <= n
      BY <1>1
    <2> HIDE DEF a, b, m, n
    <2>5. am \in Seq(Int) /\ Len(am) = w + 1 /\ (\A i \in 1..w : am[i] = d[i]) /\ am[w + 1] = Point
      <3>1. am \in Seq(Int) /\ Len(am) = Len(a) + Len(m)
        BY <2>1, <2>3, ConcatProperties
      <3>2. Len(am) = w + 1
        BY <2>1, <2>3, <2>4, <3>1
      <3>3. \A i \in 1..w : am[i] = a[i]
        BY <2>1, <2>3, <2>4
      <3>4. am[w + 1] = m[1]
        BY <2>1, <2>3, <2>4
      <3> HIDE DEF am
      <3> QED BY <2>1, <2>3, <3>1, <3>2, <3>3, <3>4
    <2> HIDE DEF am
    <2>6. Len(am \o b) = l /\ DOMAIN (am \o b) = 1..l
      BY <1>1, <2>2, <2>4, <2>5
    <2>7. \A i \in 1..(w + 1) : (am \o b)[i] = am[i]
      BY <2>2, <2>4, <2>5
    <2>8. \A i \in (w + 2)..l : (am \o b)[i] = b[i - (w + 1)] /\ i - (w + 1) \in 1..(n - w)
      BY <1>1, <2>2, <2>4, <2>5
    <2>9. \A i \in (w + 2)..l : b[i - (w + 1)] = d[i - 1]
      <3> TAKE i \in (w + 2)..l
      <3> DEFINE j == i - (w + 1)
      <3>1. j \in 1..(n - w) /\ w + j = i - 1
        BY <1>1, <2>4
      <3> HIDE DEF j
      <3>2. b[j] = d[w + j]
        BY <2>2, <3>1
      <3> QED BY <3>1, <3>2 DEF j
    <2>10. t = am \o b
      BY DEF am, a, b, m
    <2> HIDE DEF t
    <2> QED BY <2>4, <2>5, <2>6, <2>7, <2>8, <2>9, <2>10
  <1> HIDE DEF t, n
  <1>5. l \in Nat /\ w \in 0..n /\ w \in Nat
    BY <1>1 DEF n
  <1>6. \A i \in 1..l : t[i] \in Int
    <2> TAKE i \in 1..l
    <2>1. CASE i <= w
      BY <1>1, <1>4, <1>5, <2>1
    <2>2. CASE i = w + 1
      BY <1>4, <2>2 DEF Point
    <2>3. CASE i > w + 1
      <3>1. i \in (w + 2)..l /\ i - 1 \in 1..n
        BY <1>1, <1>5, <2>3
      <3> QED BY <1>1, <1>4, <3>1
    <2> QED BY <1>5, <2>1, <2>2, <2>3
  <1>7. points = {w + 1}
    <2>1. ASSUME NEW i \in 1..l, i # w + 1 PROVE t[i] # Point
      <3>1. CASE i <= w
        <4>1. i \in 1..w /\ i \in 1..n
          BY <1>1, <1>5, <3>1
        <4> QED BY <1>1, <1>4, <4>1
      <3>2. CASE i > w + 1
        <4>1. i \in (w + 2)..l /\ i - 1 \in 1..n
          BY <1>1, <1>5, <3>2
        <4> QED BY <1>1, <1>4, <4>1
      <3> QED BY <1>5, <2>1, <3>1, <3>2
    <2>2. w + 1 \in 1..l
      BY <1>1, <1>5
    <2> QED BY <1>4, <2>1, <2>2
  <1> HIDE DEF l
  <1>8. g[0] = 0 /\ \A i \in 1..l : g[i] = IF t[i] = Point THEN g[i - 1] ELSE 10 * g[i - 1] + t[i]
    BY <1>5, <1>6, ThePointedIs
  <1> HIDE DEF g
  <1> DEFINE P == {i \in 0..l : g[i] = f[IF i <= w THEN i ELSE i - 1]}
  <1>9. 0 \in P
    BY <1>3, <1>5, <1>8
  <1>10. ASSUME NEW i \in 1..l, i - 1 \in P PROVE i \in P
    <2>1. i \in Int /\ l = n + 1
      BY <1>5 DEF l
    <2>2. CASE i <= w
      <3>1. t[i] = d[i] /\ i \in 1..n
        BY <1>1, <1>4, <1>5, <2>1, <2>2
      <3>2. g[i] = 10 * g[i - 1] + d[i] /\ f[i] = 10 * f[i - 1] + d[i]
        BY <1>1, <1>3, <1>8, <3>1
      <3>3. g[i - 1] = f[i - 1]
        BY <1>5, <1>10, <2>1, <2>2
      <3> QED BY <2>2, <3>2, <3>3
    <2>3. CASE i = w + 1
      <3>1. g[i] = g[i - 1]
        BY <1>4, <1>8, <2>3
      <3>2. g[i - 1] = f[i - 1]
        BY <1>5, <1>10, <2>1, <2>3
      <3> QED BY <1>5, <2>3, <3>1, <3>2
    <2>4. CASE i > w + 1
      <3> DEFINE j == i - 1
      <3>1. i \in (w + 2)..l /\ j \in 1..n
        BY <1>1, <1>5, <2>1, <2>4
      <3>2. t[i] = d[j] /\ d[j] # Point
        BY <1>1, <1>4, <3>1
      <3>3. g[i] = 10 * g[j] + d[j]
        BY <1>8, <3>2
      <3>4. f[j] = 10 * f[j - 1] + d[j]
        <4> HIDE DEF j
        <4> QED BY <1>3, <3>1
      <3>5. g[j] = f[j - 1]
        BY <1>5, <1>10, <2>1, <2>4
      <3>6. g[i] = f[j]
        BY <3>3, <3>4, <3>5
      <3> QED BY <1>5, <2>4, <3>6
    <2> QED BY <1>5, <2>1, <2>2, <2>3, <2>4
  <1> HIDE DEF P
  <1>11. 0..l \subseteq P
    BY <1>5, <1>9, <1>10, Induction
  <1>12. l \in P /\ l = n + 1
    BY <1>5, <1>11 DEF l
  <1>13. g[l] = f[n]
    BY <1>1, <1>5, <1>12 DEF P
  <1>14. ThePointed(t, Len(t))[Len(t)] = Number(d, 10)
    BY <1>2, <1>4, <1>13 DEF g, n
  <1>15. (CHOOSE i \in points : TRUE) = w + 1 /\ points # {}
    BY <1>7
  <1>16. Len(t) - (w + 1) = n - w
    BY <1>1, <1>4, <1>5, <1>12
  <1> HIDE DEF points
  <1>17. ParseUnits([negative |-> negative, text |-> t]) =
             [units |-> IF negative THEN -Number(d, 10) ELSE Number(d, 10),
              precision |-> IF points = {} THEN 0 ELSE Len(t) - (CHOOSE i \in points : TRUE)]
    BY <1>14, ParsedAre DEF points
  <1> QED BY <1>15, <1>16, <1>17 DEF t, n

LEMMA WrittenLengthIs ==
    ASSUME NEW b \in Nat \ {0, 1}, NEW n \in Nat
    PROVE  /\ WrittenLength(n, b) \in Nat \ {0} /\ n < Power(b, WrittenLength(n, b))
           /\ n > 0 => Power(b, WrittenLength(n, b) - 1) <= n
  <1>1. /\ DigitCount(n, b) \in Nat /\ n < Power(b, DigitCount(n, b))
        /\ DigitCount(n, b) > 0 => Power(b, DigitCount(n, b) - 1) <= n
        /\ DigitCount(n, b) = 0 <=> n = 0
    BY DigitCountExists
  <1>2. CASE n = 0
    <2>1. Power(b, 1) \in Nat \ {0}
      BY PowersGrow
    <2> QED BY <1>2, <2>1 DEF WrittenLength
  <1>3. CASE n # 0
    <2>1. WrittenLength(n, b) = DigitCount(n, b)
      BY <1>3 DEF WrittenLength
    <2> QED BY <1>1, <1>3, <2>1
  <1> QED BY <1>2, <1>3

LEMMA DigitAt ==
    ASSUME NEW n \in Int, NEW b \in Nat \ {0}, NEW len \in Nat, NEW i \in 1..len
    PROVE  Digits(n, b, len)[i] = (n \div Power(b, len - i)) % b
  BY DigitsAre

\* Two lists of one length with the same elements are one.
LEMMA SameList ==
    ASSUME NEW n \in Nat, NEW s \in Seq(Int), NEW t \in Seq(Int), Len(s) = n, Len(t) = n,
           \A i \in 1..n : s[i] = t[i]
    PROVE  s = t
  OBVIOUS

\* Zeros in front of enough digits are digits too.
LEMMA ZerosInFront ==
    ASSUME NEW b \in Nat \ {0}, NEW n \in Nat, NEW len \in Nat, n < Power(b, len), NEW zeros \in Nat
    PROVE  [i \in 1..zeros |-> 0] \o Digits(n, b, len) = Digits(n, b, zeros + len)
  <1> DEFINE z == [i \in 1..zeros |-> 0]
             d == Digits(n, b, len)
             e == Digits(n, b, zeros + len)
             l == zeros + len
  <1>1. z \in Seq(Int) /\ Len(z) = zeros /\ \A i \in 1..zeros : z[i] = 0
    <2>1. z \in [1..zeros -> Int]
      OBVIOUS
    <2>2. \A i \in 1..zeros : z[i] = 0
      OBVIOUS
    <2> HIDE DEF z
    <2> QED BY <2>1, <2>2
  <1>2. /\ d \in Seq(Int) /\ Len(d) = len
        /\ \A i \in 1..len : d[i] = (n \div Power(b, len - i)) % b
    BY DigitsAre
  <1>3. l \in Nat
    OBVIOUS
  <1>4. /\ e \in Seq(Int) /\ Len(e) = l
        /\ \A i \in 1..l : e[i] = (n \div Power(b, l - i)) % b
    <2> HIDE DEF l
    <2>1. Digits(n, b, l) \in Seq(Int)
      BY <1>3, DigitsAre
    <2>2. Len(Digits(n, b, l)) = l
      BY <1>3, DigitsAre
    <2>3. ASSUME NEW i \in 1..l PROVE Digits(n, b, l)[i] = (n \div Power(b, l - i)) % b
      BY <1>3, DigitAt
    <2>4. e = Digits(n, b, l)
      BY DEF l
    <2> HIDE DEF e
    <2> QED BY <2>1, <2>2, <2>3, <2>4
  <1> HIDE DEF z, d, e
  <1>5. z \o d \in Seq(Int) /\ Len(z \o d) = l
    <2>1. z \o d \in Seq(Int) /\ Len(z \o d) = Len(z) + Len(d)
      BY <1>1, <1>2, ConcatProperties
    <2> QED BY <1>1, <1>2, <2>1
  <1>6. ASSUME NEW i \in 1..l PROVE (z \o d)[i] = e[i]
    <2>1. CASE i <= zeros
      <3> DEFINE k == l - i
                 p == Power(b, k)
      <3>1. k \in Nat /\ len <= k
        BY <2>1
      <3>2. p \in Nat \ {0} /\ Power(b, len) <= p /\ Power(b, len) \in Nat
        <4> HIDE DEF k
        <4>1. p \in Nat \ {0} /\ Power(b, len) <= p
          BY <3>1, PowersGrow
        <4>2. Power(b, len) \in Nat \ {0}
          BY PowersGrow
        <4> QED BY <4>1, <4>2
      <3>3. e[i] = (n \div p) % b
        BY <1>4
      <3> HIDE DEF p
      <3>4. n \in 0..(p - 1) /\ n \in Int
        BY <3>2
      <3>5. n \div p = 0
        BY <3>2, <3>4, SmallRest
      <3>6. 0 % b = 0
        <4>1. 0 \in 0..(b - 1)
          OBVIOUS
        <4> QED BY <4>1, SmallRest
      <3>7. (z \o d)[i] = z[i] /\ z[i] = 0
        BY <1>1, <1>2, <2>1
      <3> QED BY <3>3, <3>5, <3>6, <3>7
    <2>2. CASE i > zeros
      <3> DEFINE j == i - zeros
      <3>1. j \in 1..len /\ len - j = l - i
        BY <2>2
      <3>2. (z \o d)[i] = d[j]
        BY <1>1, <1>2, <2>2
      <3> HIDE DEF j
      <3>3. d[j] = (n \div Power(b, len - j)) % b
        BY <1>2, <3>1
      <3> QED BY <1>4, <3>1, <3>2, <3>3
    <2>3. i <= zeros \/ i > zeros
      OBVIOUS
    <2> QED BY <2>1, <2>2, <2>3, Zenon
  <1> HIDE DEF l
  <1>7. z \o d = e
    BY <1>3, <1>4, <1>5, <1>6, SameList
  <1> QED BY <1>7 DEF z, d, e, l

LEMMA DecimalDigits ==
    ASSUME NEW n \in Nat, NEW len \in Nat
    PROVE  Digits(n, 10, len) \in Seq(0..9) /\ Len(Digits(n, 10, len)) = len
  <1> DEFINE b == 10
  <1>1. b \in Nat \ {0} /\ 0..(b - 1) = 0..9
    OBVIOUS
  <1> HIDE DEF b
  <1>2. Len(Digits(n, b, len)) = len
    BY <1>1, DigitsAre
  <1>3. Digits(n, b, len) \in Seq(0..(b - 1))
    <2>1. n \in Int
      OBVIOUS
    <2> QED BY <1>1, <2>1, DigitsAre, Zenon
  <1>4. Digits(n, b, len) \in Seq(0..9)
    BY <1>1, <1>3
  <1> QED BY <1>2, <1>4 DEF b

LEMMA ZerosInFrontOfTen ==
    ASSUME NEW n \in Nat, NEW len \in Nat, n < Power(10, len), NEW zeros \in Nat
    PROVE  [i \in 1..zeros |-> 0] \o Digits(n, 10, len) = Digits(n, 10, zeros + len)
  <1>1. 10 \in Nat \ {0}
    OBVIOUS
  <1> QED BY <1>1, ZerosInFront, Zenon

\* What formatUnits writes: enough digits, with the point before the last ones.
IsFormatted(n, p, d, w) ==
    /\ d \in Seq(0..9) /\ w \in Nat \ {0}
    /\ Len(d) = w + p
    /\ Number(d, 10) = (IF n < 0 THEN -n ELSE n)
    /\ FormatUnits(n, p) =
           [negative |-> n < 0,
            text |-> IF p = 0 THEN d ELSE SubSeq(d, 1, w) \o <<Point>> \o SubSeq(d, w + 1, Len(d))]

LEMMA FormattedIs ==
    ASSUME NEW n \in Int, NEW p \in Nat
    PROVE  \E d, w : IsFormatted(n, p, d, w)
  <1> DEFINE m == IF n < 0 THEN -n ELSE n
             digits == DigitsOf(m)
             len == WrittenLength(m, 10)
             zeros == IF Len(digits) <= p THEN p + 1 - Len(digits) ELSE 0
             padded == [i \in 1..zeros |-> 0] \o digits
             l == zeros + len
             w == Len(padded) - p
  <1>1. m \in Nat /\ 10 \in Nat \ {0, 1} /\ 10 \in Nat \ {0}
    OBVIOUS
  <1>2. FormatUnits(n, p) =
            [negative |-> n < 0,
             text |-> IF p = 0 THEN padded
                      ELSE SubSeq(padded, 1, w) \o <<Point>> \o SubSeq(padded, w + 1, Len(padded))]
    BY DEF FormatUnits
  <1> HIDE DEF m
  <1>3. len \in Nat \ {0} /\ m < Power(10, len)
    BY <1>1, WrittenLengthIs
  <1>4. digits = Digits(m, 10, len)
    BY DEF DigitsOf
  <1> HIDE DEF len
  <1>5. Len(digits) = len
    BY <1>1, <1>3, <1>4, DigitsAre
  <1>6. zeros \in Nat /\ l \in Nat /\ l > p /\ len <= l
    BY <1>3, <1>5
  <1> HIDE DEF zeros
  <1>7. padded = Digits(m, 10, l)
    <2>1. [i \in 1..zeros |-> 0] \o Digits(m, 10, len) = Digits(m, 10, zeros + len)
      <3> HIDE DEF l, padded
      <3>1. zeros \in Nat
        BY <1>6
      <3> QED BY <1>1, <1>3, <3>1, ZerosInFrontOfTen
    <2> QED BY <1>4, <2>1
  <1> HIDE DEF padded, l
  <1>8. padded \in Seq(0..9) /\ Len(padded) = l
    BY <1>1, <1>6, <1>7, DecimalDigits
  <1>9. m < Power(10, l)
    <2>1. Power(10, len) <= Power(10, l)
      BY <1>1, <1>3, <1>6, PowersGrow
    <2>2. Power(10, len) \in Nat \ {0} /\ Power(10, l) \in Nat \ {0}
      BY <1>1, <1>3, <1>6, PowersGrow
    <2> QED BY <1>1, <1>3, <2>1, <2>2
  <1>10. Number(padded, 10) = m
    BY <1>1, <1>6, <1>7, <1>9, DigitsAreRead
  <1>11. w \in Nat \ {0} /\ Len(padded) = w + p
    BY <1>6, <1>8
  <1> HIDE DEF w
  <1>12. IsFormatted(n, p, padded, w)
    BY <1>2, <1>8, <1>10, <1>11 DEF m, IsFormatted
  <1> QED BY <1>12

LEMMA AmountIsRead ==
    ASSUME NEW n \in Int, NEW p \in Nat
    PROVE  ParseUnits(FormatUnits(n, p)) = [units |-> n, precision |-> p]
  <1> DEFINE m == IF n < 0 THEN -n ELSE n
             negative == n < 0
  <1>1. PICK d, w : IsFormatted(n, p, d, w)
    BY FormattedIs
  <1>6. /\ d \in Seq(0..9) /\ w \in Nat \ {0} /\ Len(d) = w + p
        /\ Number(d, 10) = m
        /\ FormatUnits(n, p) =
               [negative |-> negative,
                text |-> IF p = 0 THEN d ELSE SubSeq(d, 1, w) \o <<Point>> \o SubSeq(d, w + 1, Len(d))]
    BY <1>1 DEF IsFormatted
  <1>2. (IF negative THEN -m ELSE m) = n
    OBVIOUS
  <1>3. negative \in BOOLEAN
    OBVIOUS
  <1> HIDE DEF m, negative
  <1>4. CASE p = 0
    <2>1. ParseUnits([negative |-> negative, text |-> d]) =
              [units |-> IF negative THEN -Number(d, 10) ELSE Number(d, 10), precision |-> 0]
      BY <1>3, <1>6, WholeIsParsed
    <2> QED BY <1>6, <1>2, <1>4, <2>1
  <1>5. CASE p # 0
    <2>1. w \in 0..Len(d) /\ Len(d) - w = p
      BY <1>6
    <2>2. ParseUnits([negative |-> negative,
                      text |-> SubSeq(d, 1, w) \o <<Point>> \o SubSeq(d, w + 1, Len(d))]) =
              [units |-> IF negative THEN -Number(d, 10) ELSE Number(d, 10), precision |-> Len(d) - w]
      BY <1>3, <1>6, <2>1, PartsAreParsed
    <2> QED BY <1>6, <1>2, <1>5, <2>1, <2>2
  <1> QED BY <1>4, <1>5

LEMMA AmountsExact == ASSUME input \in ChainInputs PROVE AmountsAreExact
  <1>1. ASSUME Is("uint256")
        PROVE  input[2] \in 0..MaxUInt256 /\ input[3] \in 0..MaxUInt256
    BY <1>1 DEF Is, ChainInputs, IntegerInputs, PricedInputs, WrittenInputs, KeyInputs
  <1>2. ASSUME Is("asset")
        PROVE  input[2] \in Int /\ input[3] \in Nat
    BY <1>2 DEF Is, ChainInputs, IntegerInputs, PricedInputs, WrittenInputs, KeyInputs
  <1> DEFINE m == input[2]
             n == input[3]
  <1>3. ASSUME Is("uint256")
        PROVE  LET a == FromRaw(m)
                   b == FromRaw(n)
                   sum == UAdd(a, b)
                   product == UMultiply(a, b)
               IN  /\ sum = Throws <=> m + n > MaxUInt256
                   /\ sum # Throws => USubtract(sum, b) = a
                   /\ USubtract(a, b) = Throws <=> m < n
                   /\ product # Throws /\ n > 0 =>
                          LET back == UDivide(product, b)
                          IN  back # Throws => /\ Raw(back) <= m
                                               /\ (m - Raw(back) - 1) * n < Scale
    <2>1. m \in 0..MaxUInt256 /\ n \in 0..MaxUInt256
      BY <1>1, <1>3
    <2> HIDE DEF m, n
    <2> QED BY <2>1, UInt256IsExact
  <1>4. ASSUME Is("asset")
        PROVE  ParseUnits(FormatUnits(m, n)) = [units |-> m, precision |-> n]
    <2>1. m \in Int /\ n \in Nat
      BY <1>2, <1>4
    <2> HIDE DEF m, n
    <2> QED BY <2>1, AmountIsRead
  <1> QED BY <1>3, <1>4 DEF AmountsAreExact

---------------------------------------------------------------------------
(* RAM.                                                                    *)

LEMMA WideIs ==
    /\ Int64 \in IntTypes /\ CommonType(Int64, Int64) = Int64
    /\ \A n \in Int : Fits(n, Int64) => Wide(n) \in TypedIntegers /\ Promote(Wide(n)) = Wide(n)
  <1>1. Int64 \in IntTypes /\ Int64.byteWidth = 8
    BY DEF Int64, IntType, IntTypes
  <1>2. CommonType(Int64, Int64) = Int64
    BY DEF CommonType
  <1>3. IntWidth <= 8 /\ IntWidth \in Nat
    BY ValuesAssumption, ChainIntegersAssumption
  <1>4. ASSUME NEW n \in Int, Fits(n, Int64)
        PROVE  Wide(n) \in TypedIntegers /\ Promote(Wide(n)) = Wide(n)
    <2>1. Wide(n) \in [value : Int, type : IntTypes] /\ Wide(n).value = n /\ Wide(n).type = Int64
      BY <1>1 DEF Wide
    <2>2. Wide(n) \in TypedIntegers
      BY <1>4, <2>1 DEF TypedIntegers
    <2>3. ~(Wide(n).type.byteWidth < IntWidth)
      BY <1>1, <1>3, <2>1
    <2> QED BY <2>2, <2>3 DEF Promote
  <1> QED BY <1>1, <1>2, <1>4

LEMMA WideOperation ==
    ASSUME NEW op, NEW x \in Int, NEW y \in Int, NEW e \in Int, e = Exact(op, x, y),
           Fits(x, Int64), Fits(y, Int64), Fits(e, Int64)
    PROVE  Operating(op, Wide(x), Wide(y)) = Wide(e)
  <1>1. Int64 \in IntTypes /\ CommonType(Int64, Int64) = Int64
    BY WideIs
  <1>2. /\ Wide(x) \in TypedIntegers /\ Promote(Wide(x)) = Wide(x)
        /\ Wide(y) \in TypedIntegers /\ Promote(Wide(y)) = Wide(y)
    BY WideIs
  <1>3. /\ Wide(x).value = x /\ Wide(x).type = Int64
        /\ Wide(y).value = y /\ Wide(y).type = Int64
    BY DEF Wide
  <1>4. Wrapped(x, Int64) = x /\ Wrapped(y, Int64) = y /\ Wrapped(e, Int64) = e
    BY <1>1, WrappedIs
  <1>5. NotFarBelow(e, Int64)
    <2>1. Int64.isSigned
      BY DEF Int64, IntType
    <2>2. MinOf(Int64) = -(Size(Int64) \div 2)
      BY <1>1, <2>1, SizeOfTypes
    <2> QED BY <2>2 DEF Fits, NotFarBelow
  <1> DEFINE a == Wide(x)
             b == Wide(y)
             ab == CommonType(Promote(a).type, Promote(b).type)
  <1>6. ab = Int64
    BY <1>1, <1>2, <1>3
  <1>7. a \in TypedIntegers /\ b \in TypedIntegers /\ a.value = x /\ b.value = y /\ a.type = Int64
    BY <1>2, <1>3
  <1> HIDE DEF a, b
  <1>8. Operating(op, a, b) = [value |-> Wrapped(e, a.type), type |-> a.type]
    <2>1. ab = CommonType(Promote(a).type, Promote(b).type)
      OBVIOUS
    <2> HIDE DEF ab
    <2>2. x = Wrapped(a.value, ab) /\ y = Wrapped(b.value, ab) /\ NotFarBelow(e, ab)
      BY <1>4, <1>5, <1>6, <1>7
    <2> QED BY <1>7, <2>1, <2>2, OperatorIs
  <1>9. Operating(op, a, b) = [value |-> e, type |-> Int64]
    BY <1>4, <1>7, <1>8
  <1> QED BY <1>9 DEF a, b, Wide

LEMMA Between ==
    ASSUME NEW q \in Nat, NEW b \in Nat, NEW n \in 1..(b - 1)
    PROVE  /\ q * n \in 0..(q * b) /\ q \in 0..(q * b) /\ q * b \in Nat
           /\ q * (b - n) = q * b - q * n
  <1> SUFFICES ASSUME NEW d \in Nat \ {0}, b = n + d PROVE
                  /\ q * n \in 0..(q * b) /\ q \in 0..(q * b) /\ q * b \in Nat
                  /\ q * (b - n) = q * b - q * n
    <2>1. b - n \in Nat \ {0} /\ b = n + (b - n)
      OBVIOUS
    <2> QED BY <2>1
  <1>1. q * b = q * n + q * d
    OBVIOUS
  <1>2. q * n \in Nat /\ q * d \in Nat
    OBVIOUS
  <1>3. q <= q * n
    OBVIOUS
  <1>4. b - n = d
    OBVIOUS
  <1> QED BY <1>1, <1>2, <1>3, <1>4

LEMMA CeilAtMost ==
    ASSUME NEW x \in Nat, NEW y \in Nat \ {0}
    PROVE  DivCeil(x, y) <= x
  <1> DEFINE c == DivCeil(x, y)
  <1>1. c \in Nat /\ (c - 1) * y < x
    BY CeilIs
  <1> HIDE DEF c
  <1>2. c # 0 => c - 1 <= (c - 1) * y
    BY <1>1
  <1> QED BY <1>1, <1>2 DEF c

LEMMA Distributes ==
    ASSUME NEW a \in Int, NEW b \in Int, NEW d \in Int
    PROVE  (a + b) * d = a * d + b * d /\ (a + b - 1) * d = a * d + (b - 1) * d
  OBVIOUS

LEMMA RamIsPaid ==
    ASSUME NEW base \in Nat, NEW quote \in Nat, NEW bytes \in 1..(base - 1),
           Fits(base, Int64), Fits(quote * base, Int64)
    PROVE  LET cost == GetInput(Wide(base), Wide(quote), Wide(bytes)).value
           IN  /\ (quote + cost) * (base - bytes) >= quote * base
               /\ cost > 0 => (quote + cost - 1) * (base - bytes) < quote * base
  <1> DEFINE n == quote * bytes
             d == base - bytes
             p == quote * base
             c == DivCeil(n, d)
  <1>1. n \in Nat /\ n <= p /\ quote <= p /\ p \in Nat /\ d \in Nat \ {0} /\ d <= base
        /\ quote * d = p - n
    BY Between
  <1>2. MinOf(Int64) \in Int /\ MinOf(Int64) <= 0 /\ MaxOf(Int64) \in Int
    <2>1. Int64 \in IntTypes
      BY WideIs
    <2>2. /\ MinOf(Int64) \in Int /\ MaxOf(Int64) \in Int
          /\ Size(Int64) \div 2 \in Nat
          /\ Int64.isSigned => MinOf(Int64) = -(Size(Int64) \div 2)
          /\ ~Int64.isSigned => MinOf(Int64) = 0
      BY <2>1, SizeOfTypes
    <2>3. Int64.isSigned
      BY DEF Int64, IntType
    <2> QED BY <2>2, <2>3
  <1>3. Fits(p, Int64)
    OBVIOUS
  <1>4. Exact("mul", quote, bytes) = n /\ Exact("sub", base, bytes) = d /\ Exact("divCeil", n, d) = c
    BY DEF Exact
  <1> HIDE DEF n, d, p
  <1>5. c \in Nat /\ (c - 1) * d < n /\ n <= c * d /\ c <= n
    BY <1>1, CeilIs, CeilAtMost
  <1> HIDE DEF c
  <1>6. ASSUME NEW k \in Nat, k <= p \/ k <= base PROVE Fits(k, Int64)
    BY <1>1, <1>2, <1>3, <1>6 DEF Fits
  <1>7. Fits(quote, Int64) /\ Fits(bytes, Int64) /\ Fits(n, Int64) /\ Fits(d, Int64) /\ Fits(c, Int64)
    BY <1>1, <1>5, <1>6
  <1>8. Operating("mul", Wide(quote), Wide(bytes)) = Wide(n)
    BY <1>1, <1>4, <1>7, WideOperation
  <1>9. Operating("sub", Wide(base), Wide(bytes)) = Wide(d)
    BY <1>1, <1>4, <1>7, WideOperation
  <1>10. Operating("divCeil", Wide(n), Wide(d)) = Wide(c)
    BY <1>1, <1>4, <1>5, <1>7, WideOperation
  <1>11. GetInput(Wide(base), Wide(quote), Wide(bytes)).value = c
    BY <1>8, <1>9, <1>10 DEF GetInput, Wide
  <1>12. (quote + c) * d = quote * d + c * d /\ (quote + c - 1) * d = quote * d + (c - 1) * d
    BY <1>1, <1>5, Distributes
  <1>13. (quote + c) * d >= p /\ (quote + c - 1) * d < p
    <2> DEFINE qd == quote * d
               cd == c * d
               od == (c - 1) * d
    <2>1. qd \in Int /\ cd \in Int /\ od \in Int
      BY <1>1, <1>5
    <2>2. qd = p - n /\ od < n /\ n <= cd /\ (quote + c) * d = qd + cd /\ (quote + c - 1) * d = qd + od
      BY <1>1, <1>5, <1>12
    <2> HIDE DEF qd, cd, od
    <2> QED BY <1>1, <2>1, <2>2
  <1> QED BY <1>11, <1>13 DEF d, p

---------------------------------------------------------------------------
(* Samples.                                                                *)

LEMMA SampleIs ==
    ASSUME NEW n \in Nat, NEW w \in Nat \ {0}
    PROVE  LET sample == SampleQuotient(n, w)
           IN  sample * w <= n /\ n < (sample + 2) * w
  <1> DEFINE v == n \div w
             r == n % w
  <1>1. v \in Int /\ r \in 0..(w - 1) /\ n = w * v + r
    BY Divided
  <1> HIDE DEF v, r
  <1>2. SampleQuotient(n, w) = IF r > 0 /\ v > 1 THEN v - 1 ELSE v
    BY DEF SampleQuotient, v, r
  <1>3. v * w <= n /\ (v - 1) * w <= n /\ n < (v + 2) * w /\ n < (v - 1 + 2) * w
    <2> DEFINE p == w * v
    <2>1. p \in Int /\ v * w = p /\ (v - 1) * w = p - w /\ (v + 2) * w = p + w + w /\ (v - 1 + 2) * w = p + w
      BY <1>1
    <2>2. n = p + r
      BY <1>1
    <2> HIDE DEF p
    <2> QED BY <1>1, <2>1, <2>2
  <1> QED BY <1>2, <1>3

---------------------------------------------------------------------------
(* Powerup.                                                                *)

LEMMA QuotientsGrow ==
    ASSUME NEW a \in Int, NEW b \in Int, NEW d \in Nat \ {0}, a <= b
    PROVE  a \div d <= b \div d
  <1> DEFINE p == a \div d
             q == b \div d
             r == a % d
             s == b % d
  <1>1. p \in Int /\ q \in Int /\ r \in 0..(d - 1) /\ s \in 0..(d - 1) /\ a = d * p + r /\ b = d * q + s
    BY Divided
  <1> HIDE DEF p, q, r, s
  <1> SUFFICES ASSUME p > q PROVE FALSE
    BY <1>1 DEF p, q
  <1>2. d * p = d * q + d * (p - q)
    BY <1>1
  <1>3. d * (p - q) >= d
    <2> DEFINE k == p - q
    <2>1. k \in Nat \ {0}
      BY <1>1
    <2> HIDE DEF k
    <2>2. d * k >= d
      BY <2>1
    <2> QED BY <2>2 DEF k
  <1>4. d * p \in Int /\ d * q \in Int /\ d * (p - q) \in Int
    BY <1>1
  <1> QED BY <1>1, <1>2, <1>3, <1>4

LEMMA QuotientOfNat ==
    ASSUME NEW a \in Nat, NEW d \in Nat \ {0}
    PROVE  a \div d \in Nat
  <1>1. 0 \div d <= a \div d
    BY QuotientsGrow
  <1>2. 0 \div d = 0
    <2>1. 0 \in 0..(d - 1)
      OBVIOUS
    <2> QED BY <2>1, SmallRest
  <1>3. a \div d \in Int
    BY Divided
  <1> QED BY <1>1, <1>2, <1>3

LEMMA QuotientOfShifted ==
    ASSUME NEW a \in Int, NEW d \in Nat \ {0}, NEW k \in Int
    PROVE  (a + d * k) \div d = a \div d + k
  <1> DEFINE p == a \div d
             r == a % d
             q == p + k
  <1>1. p \in Int /\ r \in 0..(d - 1) /\ a = d * p + r
    BY Divided
  <1> HIDE DEF p, r
  <1>2. a + d * k = d * q + r /\ q \in Int
    BY <1>1
  <1> HIDE DEF q
  <1>3. (d * q + r) \div d = q
    BY <1>1, <1>2, OneQuotient
  <1> QED BY <1>2, <1>3 DEF p, q

LEMMA PriceRoundedUp ==
    ASSUME NEW a \in Nat, NEW b \in Nat, NEW d \in Nat \ {0}, a <= b
    PROVE  0 <= RoundUp(a, d) /\ RoundUp(a, d) <= RoundUp(b, d)
  <1>1. (-b) \div d <= (-a) \div d /\ (-a) \div d <= 0 \div d
    BY QuotientsGrow
  <1>2. 0 \div d = 0
    <2>1. 0 \in 0..(d - 1)
      OBVIOUS
    <2> QED BY <2>1, SmallRest
  <1>3. (-a) \div d \in Int /\ (-b) \div d \in Int
    BY Divided
  <1> QED BY <1>1, <1>2, <1>3 DEF RoundUp

LEMMA NaturalPower ==
    ASSUME NEW x \in Nat, NEW e \in Nat
    PROVE  /\ Power(x, e) \in Nat /\ Power(x, 0) = 1
           /\ Power(x, e + 1) = x * Power(x, e)
  <1> DEFINE P == {i \in 0..e : Power(x, i) \in Nat}
  <1>1. /\ Power(x, 0) = 1
        /\ \A n \in Nat : Power(x, n) \in Int /\ Power(x, n + 1) = x * Power(x, n)
    BY PowerIs
  <1>2. 0 \in P
    BY <1>1
  <1>3. ASSUME NEW i \in 1..e, i - 1 \in P PROVE i \in P
    <2>1. i - 1 \in Nat /\ (i - 1) + 1 = i
      OBVIOUS
    <2>2. Power(x, i) = x * Power(x, i - 1)
      BY <1>1, <2>1
    <2>3. Power(x, i - 1) \in Nat
      BY <1>3
    <2> DEFINE p == Power(x, i - 1)
    <2> HIDE DEF p
    <2>4. Power(x, i) \in Nat
      <3>1. p \in Nat
        BY <2>3 DEF p
      <3>2. x * p \in Nat
        BY <3>1
      <3> QED BY <2>2, <3>2 DEF p
    <2> QED BY <2>4
  <1> HIDE DEF P
  <1>4. 0..e \subseteq P
    BY <1>2, <1>3, Induction
  <1>5. e \in P
    BY <1>4
  <1> QED BY <1>1, <1>5 DEF P

\* x to the e-th grows with x, and grows faster where x is larger.
LEMMA PowerGrowsWithBase ==
    ASSUME NEW x \in Nat, NEW y \in Nat, x <= y, NEW e \in Nat
    PROVE  Power(x, e) <= Power(y, e)
  <1> DEFINE P == {i \in 0..e : Power(x, i) <= Power(y, i)}
  <1>2. 0 \in P
    BY NaturalPower
  <1>3. ASSUME NEW i \in 1..e, i - 1 \in P PROVE i \in P
    <2> DEFINE j == i - 1
    <2>1. j \in Nat /\ j + 1 = i
      OBVIOUS
    <2>2. Power(x, j) <= Power(y, j)
      BY <1>3
    <2> HIDE DEF j
    <2> DEFINE p == Power(x, j)
               q == Power(y, j)
    <2>3. p \in Nat /\ q \in Nat /\ Power(x, j + 1) = x * p /\ Power(y, j + 1) = y * q
      BY <2>1, NaturalPower
    <2>4. p <= q
      BY <2>2
    <2> HIDE DEF p, q
    <2>5. x * p <= y * q
      <3>1. x * p <= x * q
        BY <2>3, <2>4
      <3>2. x * q <= y * q
        BY <2>3
      <3>3. x * p \in Int /\ x * q \in Int /\ y * q \in Int
        BY <2>3
      <3> QED BY <3>1, <3>2, <3>3
    <2>6. Power(x, i) <= Power(y, i)
      BY <2>1, <2>3, <2>5
    <2> QED BY <2>6
  <1> HIDE DEF P
  <1>4. 0..e \subseteq P
    BY <1>2, <1>3, Induction
  <1>5. e \in P
    BY <1>4
  <1> QED BY <1>5 DEF P

LEMMA OneStepFaster ==
    ASSUME NEW x \in Nat, NEW y \in Nat, x <= y, NEW k \in Nat,
           NEW a \in Nat, NEW b \in Nat, NEW c \in Nat, NEW d \in Nat,
           a <= b, b <= d, b - a <= d - c, a <= c
    PROVE  (x + k) * b - x * a <= (y + k) * d - y * c
  <1> DEFINE m == y - x
             u == b - a
             v == d - c
  <1>1. m \in Nat /\ y = x + m
    OBVIOUS
  <1>2. u \in Nat /\ v \in Nat /\ u <= v /\ b = a + u /\ d = c + v
    OBVIOUS
  <1> HIDE DEF m, u, v
  <1>3. (x + k) * b - x * a = x * u + k * b
    BY <1>2
  <1>4. (y + k) * d - y * c = x * v + m * v + k * d
    BY <1>1, <1>2
  <1>5. x * u <= x * v
    BY <1>2
  <1>6. k * b <= k * d
    OBVIOUS
  <1>7. m * v \in Nat /\ x * u \in Int /\ x * v \in Int /\ k * b \in Int /\ k * d \in Int
    BY <1>1, <1>2
  <1> HIDE <1>1, <1>2
  <1>8. x * u + k * b <= x * v + m * v + k * d
    BY <1>5, <1>6, <1>7
  <1> QED BY <1>3, <1>4, <1>8

LEMMA PowersSpread ==
    ASSUME NEW x \in Nat, NEW y \in Nat, x <= y, NEW k \in Nat, NEW e \in Nat
    PROVE  Power(x + k, e) - Power(x, e) <= Power(y + k, e) - Power(y, e)
  <1> DEFINE X == x + k
             Y == y + k
  <1>0. X \in Nat /\ Y \in Nat /\ X <= Y /\ x <= X /\ y <= Y
    OBVIOUS
  <1>x. X = x + k /\ Y = y + k
    OBVIOUS
  <1> HIDE DEF X, Y
  <1> DEFINE P == {i \in 0..e : Power(X, i) - Power(x, i) <= Power(Y, i) - Power(y, i)}
  <1>2. 0 \in P
    BY <1>0, NaturalPower
  <1>3. ASSUME NEW i \in 1..e, i - 1 \in P PROVE i \in P
    <2> DEFINE j == i - 1
    <2>1. j \in Nat /\ j + 1 = i
      OBVIOUS
    <2>2. Power(X, j) - Power(x, j) <= Power(Y, j) - Power(y, j)
      BY <1>3
    <2> HIDE DEF j
    <2> DEFINE a == Power(x, j)
               b == Power(X, j)
               c == Power(y, j)
               d == Power(Y, j)
    <2>3. a \in Nat /\ b \in Nat /\ c \in Nat /\ d \in Nat
      BY <1>0, <2>1, NaturalPower
    <2>4. Power(x, j + 1) = x * a /\ Power(X, j + 1) = X * b /\ Power(y, j + 1) = y * c /\ Power(Y, j + 1) = Y * d
      BY <1>0, <2>1, NaturalPower
    <2>5. a <= b /\ b <= d /\ a <= c
      BY <1>0, <2>1, PowerGrowsWithBase
    <2>6. b - a <= d - c
      BY <2>2
    <2> HIDE DEF a, b, c, d
    <2>7. (x + k) * b - x * a <= (y + k) * d - y * c
      BY <2>3, <2>5, <2>6, OneStepFaster
    <2>8. X * b - x * a <= Y * d - y * c
      BY <1>x, <2>7
    <2>9. Power(X, i) - Power(x, i) <= Power(Y, i) - Power(y, i)
      BY <2>1, <2>4, <2>8
    <2> QED BY <2>9
  <1> HIDE DEF P
  <1>4. 0..e \subseteq P
    BY <1>2, <1>3, Induction
  <1>5. e \in P
    BY <1>4
  <1>6. Power(X, e) - Power(x, e) <= Power(Y, e) - Power(y, e)
    BY <1>5 DEF P
  <1> QED BY <1>6 DEF X, Y

\* What rents k times the weight: the integral from u to u + k quotients.
Rise(r, u, k) ==
    r.exponent * r.minPrice * k
        + (r.maxPrice - r.minPrice) * (Power(u + k, r.exponent) - Power(u, r.exponent))

PricedMarkets == {r \in Markets : r.minPrice <= r.maxPrice}

LEMMA MarketHas ==
    ASSUME NEW r \in PricedMarkets
    PROVE  /\ r.weight \in Nat \ {0} /\ r.utilization \in Nat /\ r.adjusted \in Nat
           /\ r.exponent \in Nat \ {0} /\ r.minPrice \in Nat /\ r.maxPrice \in Nat
           /\ r.maxPrice - r.minPrice \in Nat
  BY DEF PricedMarkets, Markets

\* What is rented is a whole number of weights.
Weights(r, sample, amount) == ToWeight(sample, amount) \div r.weight

LEMMA IncreaseIs ==
    ASSUME NEW r \in PricedMarkets, NEW s \in Nat \ {0}, NEW n \in Nat
    PROVE  /\ Weights(r, s, n) \in Nat
           /\ UtilizationIncrease(r, Frac(r, s, n)) = r.weight * Weights(r, s, n)
  <1> DEFINE k == Weights(r, s, n)
             w == r.weight
             wk == w * k
  <1>1. w \in Nat \ {0}
    BY MarketHas
  <1>2. FracScale \in Nat \ {0} /\ Precision \in Nat \ {0}
    BY PricingAssumption
  <1>3. k \in Nat
    <2> DEFINE m == n * Precision
    <2>1. m \in Nat
      BY <1>2
    <2> HIDE DEF m
    <2> DEFINE t == m \div s
    <2>2. t \in Nat
      BY <2>1, QuotientOfNat
    <2> HIDE DEF t
    <2>3. t \div r.weight \in Nat
      BY <1>1, <2>2, QuotientOfNat
    <2> QED BY <2>3 DEF Weights, ToWeight, m, t
  <1>4. UtilizationIncrease(r, Frac(r, s, n)) = (w * (k * FracScale)) \div FracScale
    BY DEF UtilizationIncrease, Frac, Weights
  <1> HIDE DEF k, w
  <1>5. w * (k * FracScale) = FracScale * wk + 0 /\ wk \in Int /\ 0 \in 0..(FracScale - 1)
    BY <1>1, <1>2, <1>3
  <1> HIDE DEF wk
  <1>6. (FracScale * wk + 0) \div FracScale = wk
    BY <1>2, <1>5, OneQuotient
  <1> QED BY <1>3, <1>4, <1>5, <1>6 DEF k, w, wk

LEMMA MoreWeights ==
    ASSUME NEW r \in PricedMarkets, NEW s \in Nat \ {0}, NEW n \in Nat
    PROVE  Weights(r, s, n) <= Weights(r, s, n + 1)
  <1> DEFINE p == n * Precision
             q == (n + 1) * Precision
             t == p \div s
             u == q \div s
             w == r.weight
  <1>1. w \in Nat \ {0}
    BY MarketHas
  <1>2. p \in Int /\ q \in Int /\ p <= q
    <2>1. Precision \in Nat
      BY PricingAssumption
    <2>2. q = p + Precision /\ p \in Int
      BY <2>1
    <2> HIDE DEF p, q
    <2> QED BY <2>1, <2>2
  <1> HIDE DEF p, q
  <1>3. t \in Int /\ u \in Int /\ t <= u
    BY <1>2, Divided, QuotientsGrow
  <1> HIDE DEF t, u, w
  <1>4. t \div w <= u \div w
    BY <1>1, <1>3, QuotientsGrow
  <1> QED BY <1>4 DEF Weights, ToWeight, t, u, w, p, q

LEMMA RiseIs ==
    ASSUME NEW r \in PricedMarkets, NEW u \in Nat, NEW k \in Nat
    PROVE  Rise(r, u, k) \in Nat
  <1> DEFINE e == r.exponent
             a == Power(u, e)
             b == Power(u + k, e)
             g == r.maxPrice - r.minPrice
             m == r.minPrice
  <1>1. e \in Nat \ {0} /\ m \in Nat /\ g \in Nat
    BY MarketHas
  <1>2. Rise(r, u, k) = e * m * k + g * (b - a)
    BY DEF Rise
  <1> HIDE DEF e, m, g
  <1>3. a \in Nat /\ b \in Nat /\ a <= b
    <2> DEFINE v == u + k
    <2>1. v \in Nat /\ u <= v
      OBVIOUS
    <2> HIDE DEF v
    <2>2. Power(u, e) \in Nat /\ Power(v, e) \in Nat /\ Power(u, e) <= Power(v, e)
      BY <1>1, <2>1, NaturalPower, PowerGrowsWithBase
    <2> QED BY <2>2 DEF v
  <1> HIDE DEF a, b
  <1>4. e * m * k \in Nat
    BY <1>1
  <1>5. g * (b - a) \in Nat
    <2> DEFINE d == b - a
    <2>1. d \in Nat
      BY <1>3
    <2> HIDE DEF d
    <2>2. g * d \in Nat
      BY <1>1, <2>1
    <2> QED BY <2>2 DEF d
  <1> QED BY <1>2, <1>4, <1>5

LEMMA RisesWithWeights ==
    ASSUME NEW r \in PricedMarkets, NEW u \in Nat, NEW k \in Nat, NEW l \in Nat, k <= l
    PROVE  Rise(r, u, k) <= Rise(r, u, l)
  <1> DEFINE e == r.exponent
             a == Power(u, e)
             b == Power(u + k, e)
             c == Power(u + l, e)
             g == r.maxPrice - r.minPrice
             em == e * r.minPrice
  <1>1. e \in Nat \ {0} /\ em \in Nat /\ g \in Nat
    <2>1. r.exponent \in Nat \ {0} /\ r.minPrice \in Nat /\ g \in Nat
      BY MarketHas
    <2> QED BY <2>1
  <1>2. Rise(r, u, k) = em * k + g * (b - a) /\ Rise(r, u, l) = em * l + g * (c - a)
    BY DEF Rise
  <1> HIDE DEF e, em, g
  <1>3. a \in Nat /\ b \in Nat /\ c \in Nat /\ b <= c
    <2> DEFINE v == u + k
               w == u + l
    <2>1. v \in Nat /\ w \in Nat /\ v <= w
      OBVIOUS
    <2> HIDE DEF v, w
    <2>2. Power(u, e) \in Nat /\ Power(v, e) \in Nat /\ Power(w, e) \in Nat /\ Power(v, e) <= Power(w, e)
      BY <1>1, <2>1, NaturalPower, PowerGrowsWithBase
    <2> QED BY <2>2 DEF v, w
  <1> HIDE DEF a, b, c
  <1>4. em * k <= em * l
    BY <1>1
  <1>5. g * (b - a) <= g * (c - a)
    <2> DEFINE x == b - a
               y == c - a
    <2>1. x \in Int /\ y \in Int /\ x <= y
      BY <1>3
    <2> HIDE DEF x, y
    <2>2. g * x <= g * y
      BY <1>1, <2>1
    <2> QED BY <2>2 DEF x, y
  <1>6. em * k \in Int /\ em * l \in Int /\ g * (b - a) \in Int /\ g * (c - a) \in Int
    BY <1>1, <1>3
  <1> QED BY <1>2, <1>4, <1>5, <1>6

LEMMA RisesWithRent ==
    ASSUME NEW r \in PricedMarkets, NEW u \in Nat, NEW v \in Nat, u <= v, NEW k \in Nat
    PROVE  Rise(r, u, k) <= Rise(r, v, k)
  <1> DEFINE e == r.exponent
             a == Power(u + k, e) - Power(u, e)
             b == Power(v + k, e) - Power(v, e)
             g == r.maxPrice - r.minPrice
             em == e * r.minPrice * k
  <1>1. e \in Nat \ {0} /\ em \in Nat /\ g \in Nat
    <2>1. r.exponent \in Nat \ {0} /\ r.minPrice \in Nat /\ g \in Nat
      BY MarketHas
    <2> QED BY <2>1
  <1>2. Rise(r, u, k) = em + g * a /\ Rise(r, v, k) = em + g * b
    BY DEF Rise
  <1> HIDE DEF e, em, g
  <1>3. a \in Int /\ b \in Int
    <2> DEFINE w == u + k
               x == v + k
    <2>1. w \in Nat /\ x \in Nat
      OBVIOUS
    <2> HIDE DEF w, x
    <2>2. Power(u, e) \in Nat /\ Power(v, e) \in Nat /\ Power(w, e) \in Nat /\ Power(x, e) \in Nat
      BY <1>1, <2>1, NaturalPower
    <2>3. Power(w, e) - Power(u, e) \in Int /\ Power(x, e) - Power(v, e) \in Int
      BY <2>2
    <2> QED BY <2>3 DEF w, x
  <1>4. a <= b
    BY <1>1, PowersSpread
  <1> HIDE DEF a, b
  <1>5. g * a <= g * b /\ g * a \in Int /\ g * b \in Int
    BY <1>1, <1>3, <1>4
  <1> QED BY <1>1, <1>2, <1>5

LEMMA DeltaIs ==
    ASSUME NEW r \in PricedMarkets, NEW start \in Nat, NEW end \in Nat, start <= end
    PROVE  LET u == start \div r.weight
               v == end \div r.weight
           IN  /\ u \in Nat /\ v \in Nat /\ u <= v
               /\ PriceIntegralDelta(r, start, end) = Rise(r, u, v - u)
  <1> DEFINE u == start \div r.weight
             v == end \div r.weight
             e == r.exponent
             em == e * r.minPrice
             g == r.maxPrice - r.minPrice
             a == Power(u, e)
             b == Power(v, e)
  <1>1. r.weight \in Nat \ {0} /\ e \in Nat /\ em \in Nat /\ g \in Nat
    <2>1. r.exponent \in Nat \ {0} /\ r.minPrice \in Nat /\ g \in Nat /\ r.weight \in Nat \ {0}
      BY MarketHas
    <2> QED BY <2>1
  <1>2. u \in Nat /\ v \in Nat /\ u <= v
    BY <1>1, QuotientOfNat, QuotientsGrow
  <1>3. PriceIntegralDelta(r, start, end) = (em * v + g * b) - (em * u + g * a)
    BY DEF PriceIntegralDelta
  <1> HIDE DEF u, v
  <1>4. u + (v - u) = v
    BY <1>2
  <1>5. Rise(r, u, v - u) = em * (v - u) + g * (b - a)
    BY <1>4 DEF Rise
  <1> HIDE DEF e, em, g
  <1>6. a \in Nat /\ b \in Nat
    BY <1>1, <1>2, NaturalPower
  <1> HIDE DEF a, b
  <1>7. em * (v - u) = em * v - em * u /\ g * (b - a) = g * b - g * a
    BY <1>1, <1>2, <1>6
  <1>8. em * v \in Int /\ em * u \in Int /\ g * b \in Int /\ g * a \in Int
    BY <1>1, <1>2, <1>6
  <1>9. Rise(r, u, v - u) = PriceIntegralDelta(r, start, end)
    BY <1>3, <1>5, <1>7, <1>8
  <1> QED BY <1>2, <1>9 DEF u, v

LEMMA PriceIsNat ==
    ASSUME NEW r \in PricedMarkets, NEW u \in Nat
    PROVE  PriceFunction(r, u) \in Nat
  <1> DEFINE q == u \div r.weight
             e == r.exponent - 1
             g == r.maxPrice - r.minPrice
             p == Power(q, e)
             m == r.minPrice
  <1>1. r.weight \in Nat \ {0} /\ e \in Nat /\ m \in Nat /\ g \in Nat /\ r.maxPrice \in Nat
    <2>1. r.exponent \in Nat \ {0} /\ r.minPrice \in Nat /\ g \in Nat /\ r.weight \in Nat \ {0} /\ r.maxPrice \in Nat
      BY MarketHas
    <2> QED BY <2>1
  <1>2. q \in Nat
    BY <1>1, QuotientOfNat
  <1>3. PriceFunction(r, u) = IF r.exponent <= 1 THEN r.maxPrice ELSE m + g * p
    BY DEF PriceFunction
  <1> HIDE DEF q, e, g, m
  <1>4. p \in Nat
    BY <1>1, <1>2, NaturalPower
  <1> HIDE DEF p
  <1>5. m + g * p \in Nat
    BY <1>1, <1>4
  <1> QED BY <1>1, <1>3, <1>5

\* The fee has two parts: of what is not over the recorded utilization, and of the rest.
BelowPart(r, increase, adjusted) ==
    IF r.utilization < adjusted
    THEN r.exponent * PriceFunction(r, adjusted) * Least(increase, adjusted - r.utilization)
    ELSE 0
AbovePart(r, start, end) == IF start < end THEN r.weight * PriceIntegralDelta(r, start, end) ELSE 0
FeeStart(r, adjusted) == IF r.utilization < adjusted THEN adjusted ELSE r.utilization

LEMMA FeeIs ==
    ASSUME NEW r, NEW increase, NEW adjusted
    PROVE  Fee(r, increase, adjusted) =
               BelowPart(r, increase, adjusted)
               + AbovePart(r, FeeStart(r, adjusted), r.utilization + increase)
  BY DEF Fee, BelowPart, AbovePart, FeeStart

LEMMA BelowPartGrows ==
    ASSUME NEW r \in PricedMarkets, NEW adjusted \in Nat, NEW m \in Nat, NEW n \in Nat, m <= n
    PROVE  /\ BelowPart(r, m, adjusted) \in Nat
           /\ BelowPart(r, m, adjusted) <= BelowPart(r, n, adjusted)
  <1> DEFINE d == adjusted - r.utilization
             p == r.exponent * PriceFunction(r, adjusted)
             a == Least(m, d)
             b == Least(n, d)
  <1>1. r.utilization \in Nat /\ p \in Nat
    <2>1. r.utilization \in Nat /\ r.exponent \in Nat
      BY MarketHas
    <2> DEFINE f == PriceFunction(r, adjusted)
    <2>2. f \in Nat
      BY PriceIsNat
    <2> HIDE DEF f
    <2>3. r.exponent * f \in Nat
      BY <2>1, <2>2
    <2> QED BY <2>1, <2>3 DEF f
  <1>2. CASE r.utilization < adjusted
    <2>1. BelowPart(r, m, adjusted) = p * a /\ BelowPart(r, n, adjusted) = p * b
      BY <1>2 DEF BelowPart
    <2>2. a \in Nat /\ b \in Nat /\ a <= b
      BY <1>1, <1>2 DEF Least
    <2> HIDE DEF p, a, b
    <2>3. p * a \in Nat /\ p * a <= p * b
      BY <1>1, <2>2
    <2> QED BY <2>1, <2>3
  <1>3. CASE ~(r.utilization < adjusted)
    BY <1>3 DEF BelowPart
  <1> QED BY <1>2, <1>3

LEMMA AbovePartGrows ==
    ASSUME NEW r \in PricedMarkets, NEW start \in Nat, NEW m \in Nat, NEW n \in Nat, m <= n
    PROVE  /\ AbovePart(r, start, m) \in Nat
           /\ AbovePart(r, start, m) <= AbovePart(r, start, n)
  <1> DEFINE w == r.weight
             u == start \div w
             v == m \div w
             x == n \div w
             a == Rise(r, u, v - u)
             b == Rise(r, u, x - u)
  <1>1. w \in Nat \ {0}
    BY MarketHas
  <1>2. ASSUME start < n PROVE u \in Nat /\ x \in Nat /\ u <= x /\ PriceIntegralDelta(r, start, n) = b /\ b \in Nat
    <2>1. u \in Nat /\ x \in Nat /\ u <= x /\ PriceIntegralDelta(r, start, n) = b
      BY <1>2, DeltaIs
    <2> DEFINE k == x - u
    <2> HIDE DEF u, x
    <2>2. k \in Nat
      BY <2>1
    <2> HIDE DEF k
    <2>3. Rise(r, u, k) \in Nat
      BY <2>1, <2>2, RiseIs
    <2> QED BY <2>1, <2>3 DEF k
  <1>3. CASE start < m
    <2>1. start < n
      BY <1>3
    <2>2. u \in Nat /\ v \in Nat /\ u <= v /\ PriceIntegralDelta(r, start, m) = a
      BY <1>3, DeltaIs
    <2>3. v <= x
      BY <1>1, QuotientsGrow
    <2>4. x \in Nat /\ PriceIntegralDelta(r, start, n) = b
      BY <1>2, <2>1
    <2>5. a \in Nat /\ a <= b /\ b \in Nat
      <3> DEFINE k == v - u
                 l == x - u
      <3> HIDE DEF u, v, x
      <3>1. k \in Nat /\ l \in Nat /\ k <= l
        BY <2>2, <2>3, <2>4
      <3> HIDE DEF k, l
      <3>2. Rise(r, u, k) \in Nat /\ Rise(r, u, l) \in Nat /\ Rise(r, u, k) <= Rise(r, u, l)
        BY <2>2, <3>1, RiseIs, RisesWithWeights
      <3> QED BY <3>2 DEF k, l
    <2>6. AbovePart(r, start, m) = w * a /\ AbovePart(r, start, n) = w * b
      BY <1>3, <2>1, <2>2, <2>4 DEF AbovePart
    <2> HIDE DEF w, a, b
    <2>7. w * a \in Nat /\ w * a <= w * b
      BY <1>1, <2>5
    <2> QED BY <2>6, <2>7
  <1>4. CASE ~(start < m)
    <2>1. AbovePart(r, start, m) = 0
      BY <1>4 DEF AbovePart
    <2>2. AbovePart(r, start, n) \in Nat
      <3>1. CASE start < n
        <4>1. AbovePart(r, start, n) = w * b /\ b \in Nat
          BY <1>2, <3>1 DEF AbovePart
        <4> HIDE DEF w, b
        <4>2. w * b \in Nat
          BY <1>1, <4>1
        <4> QED BY <4>1, <4>2
      <3>2. CASE ~(start < n)
        BY <3>2 DEF AbovePart
      <3> QED BY <3>1, <3>2
    <2> QED BY <2>1, <2>2
  <1> QED BY <1>3, <1>4

LEMMA FeeGrows ==
    ASSUME NEW r \in PricedMarkets, NEW adjusted \in Nat, NEW m \in Nat, NEW n \in Nat, m <= n
    PROVE  /\ Fee(r, m, adjusted) \in Nat /\ Fee(r, n, adjusted) \in Nat
           /\ Fee(r, m, adjusted) <= Fee(r, n, adjusted)
  <1> DEFINE start == FeeStart(r, adjusted)
             um == r.utilization + m
             un == r.utilization + n
             a == BelowPart(r, m, adjusted)
             b == BelowPart(r, n, adjusted)
             c == AbovePart(r, start, um)
             d == AbovePart(r, start, un)
  <1>1. r.utilization \in Nat
    BY MarketHas
  <1>2. start \in Nat
    BY <1>1 DEF FeeStart
  <1>3. um \in Nat /\ un \in Nat /\ um <= un
    BY <1>1
  <1>4. a \in Nat /\ b \in Nat /\ a <= b
    BY BelowPartGrows
  <1> HIDE DEF start, um, un
  <1>5. c \in Nat /\ d \in Nat /\ c <= d
    BY <1>2, <1>3, AbovePartGrows
  <1>6. Fee(r, m, adjusted) = a + c /\ Fee(r, n, adjusted) = b + d
    BY FeeIs DEF start, um, un
  <1> HIDE DEF a, b, c, d
  <1> QED BY <1>4, <1>5, <1>6

\* The same resource, with one unit more rented.
LEMMA MoreRented ==
    ASSUME NEW r \in PricedMarkets
    PROVE  LET q == [r EXCEPT !.utilization = @ + 1]
           IN  /\ q \in PricedMarkets
               /\ q.utilization = r.utilization + 1 /\ q.weight = r.weight /\ q.exponent = r.exponent
               /\ q.minPrice = r.minPrice /\ q.maxPrice = r.maxPrice
  BY DEF PricedMarkets, Markets

LEMMA WhatIsAdded ==
    ASSUME NEW a, NEW b \in Nat, NEW k \in Nat, a = b + k
    PROVE  a - b = k
  OBVIOUS

LEMMA RentIs ==
    ASSUME NEW r \in PricedMarkets, NEW k \in Nat, NEW adjusted \in Nat, adjusted <= r.utilization
    PROVE  /\ r.utilization \div r.weight \in Nat
           /\ Fee(r, r.weight * k, adjusted) = r.weight * Rise(r, r.utilization \div r.weight, k)
  <1> DEFINE w == r.weight
             u == r.utilization
             q == u \div w
             wk == w * k
             v == u + wk
  <1>1. w \in Nat \ {0} /\ u \in Nat
    BY MarketHas
  <1>2. q \in Nat
    BY <1>1, QuotientOfNat
  <1>3. FeeStart(r, adjusted) = u /\ BelowPart(r, wk, adjusted) = 0
    BY <1>1 DEF FeeStart, BelowPart
  <1>4. Fee(r, wk, adjusted) = BelowPart(r, wk, adjusted) + AbovePart(r, u, v)
    BY <1>3, FeeIs
  <1>5. v \div w = q + k
    <2>1. w \in Nat \ {0} /\ u \in Int /\ k \in Int
      BY <1>1
    <2> HIDE DEF w, u
    <2> QED BY <2>1, QuotientOfShifted
  <1>6. CASE k = 0
    <2>1. Rise(r, q, k) = 0
      <3> DEFINE e == r.exponent
                 g == r.maxPrice - r.minPrice
                 p == Power(q, e)
                 m == r.minPrice
      <3>1. e \in Nat \ {0} /\ m \in Nat /\ g \in Nat
        BY MarketHas
      <3>2. q + 0 = q
        BY <1>2
      <3> HIDE DEF q
      <3>3. Rise(r, q, 0) = e * m * 0 + g * (p - p)
        BY <3>2 DEF Rise
      <3> HIDE DEF e, g, m
      <3>4. p \in Nat
        BY <1>2, <3>1, NaturalPower
      <3> HIDE DEF p
      <3>5. e * m * 0 + g * (p - p) = 0
        BY <3>1, <3>4
      <3> QED BY <1>6, <3>3, <3>5
    <2>2. wk = 0 /\ w * 0 = 0
      BY <1>1, <1>6
    <2>3. AbovePart(r, u, v) = 0
      <3>1. ~(u < v)
        BY <1>1, <2>2
      <3> QED BY <3>1 DEF AbovePart
    <2> QED BY <1>2, <1>3, <1>4, <2>1, <2>2, <2>3
  <1>7. CASE k # 0
    <2>1. v \in Nat /\ u < v
      <3>1. wk \in Nat \ {0}
        BY <1>1, <1>7
      <3> HIDE DEF wk
      <3> QED BY <1>1, <3>1
    <2>2. PriceIntegralDelta(r, u, v) = Rise(r, q, v \div w - q)
      <3> HIDE DEF v
      <3> QED BY <1>1, <2>1, DeltaIs
    <2>3. q + k - q = k
      BY <1>2
    <2>4. AbovePart(r, u, v) = w * Rise(r, q, k)
      <3>1. PriceIntegralDelta(r, u, v) = Rise(r, q, k)
        <4> HIDE DEF u, v, w, q
        <4>1. v \div w - q = k
          BY <1>2, <1>5, WhatIsAdded
        <4> QED BY <2>2, <4>1
      <3> QED BY <2>1, <3>1 DEF AbovePart
    <2> DEFINE x == Rise(r, q, k)
    <2>5. x \in Nat
      BY <1>2, RiseIs
    <2> HIDE DEF x, v
    <2>6. w * x \in Nat
      BY <1>1, <2>5
    <2>7. Fee(r, wk, adjusted) = 0 + w * x
      BY <1>3, <1>4, <2>4 DEF x
    <2> HIDE DEF wk
    <2>8. Fee(r, wk, adjusted) = w * x
      BY <2>6, <2>7
    <2> QED BY <1>2, <2>8 DEF x, wk
  <1> QED BY <1>6, <1>7

LEMMA RentGrows ==
    ASSUME NEW r \in PricedMarkets, NEW k \in Nat, NEW adjusted \in Nat, adjusted <= r.utilization
    PROVE  LET q == [r EXCEPT !.utilization = @ + 1]
           IN  /\ Fee(r, r.weight * k, adjusted) \in Nat /\ Fee(q, r.weight * k, adjusted) \in Nat
               /\ Fee(r, r.weight * k, adjusted) <= Fee(q, r.weight * k, adjusted)
  <1> DEFINE q == [r EXCEPT !.utilization = @ + 1]
             w == r.weight
             u == r.utilization \div w
             v == q.utilization \div w
             a == Rise(r, u, k)
             b == Rise(q, v, k)
             c == Rise(r, v, k)
  <1>1. /\ q \in PricedMarkets /\ q.utilization = r.utilization + 1 /\ q.weight = w
        /\ q.exponent = r.exponent /\ q.minPrice = r.minPrice /\ q.maxPrice = r.maxPrice
    BY MoreRented
  <1>2. b = c
    BY <1>1 DEF Rise
  <1> HIDE DEF q
  <1>3. w \in Nat \ {0} /\ r.utilization \in Nat /\ q.utilization \in Nat /\ adjusted <= q.utilization
    BY <1>1, MarketHas
  <1>4. u \in Nat /\ v \in Nat /\ u <= v
    BY <1>1, <1>3, QuotientOfNat, QuotientsGrow
  <1>5. Fee(r, w * k, adjusted) = w * a
    BY RentIs
  <1>6. Fee(q, w * k, adjusted) = w * b
    <2>1. Fee(q, q.weight * k, adjusted) = q.weight * Rise(q, q.utilization \div q.weight, k)
      BY <1>1, <1>3, RentIs
    <2> QED BY <1>1, <2>1
  <1> HIDE DEF u, v
  <1>7. a \in Nat /\ c \in Nat /\ a <= c
    BY <1>4, RiseIs, RisesWithRent
  <1> HIDE DEF w, a, b, c
  <1>8. w * a \in Nat /\ w * c \in Nat /\ w * a <= w * c
    BY <1>3, <1>7
  <1>9. Fee(r, w * k, adjusted) \in Nat /\ Fee(q, w * k, adjusted) \in Nat
        /\ Fee(r, w * k, adjusted) <= Fee(q, w * k, adjusted)
    BY <1>2, <1>5, <1>6, <1>8
  <1> QED BY <1>9 DEF w, q

LEMMA PowerUpGrows ==
    ASSUME NEW r \in PricedMarkets, NEW s \in Nat \ {0}, NEW adjusted \in AdjustedUtilizations(r),
           NEW amount \in Nat
    PROVE  LET price(m, n) == PricePer(m, s, n, adjusted)
           IN  /\ 0 <= price(r, amount) /\ price(r, amount) <= price(r, amount + 1)
               /\ r.adjusted <= r.utilization =>
                      price(r, amount) <= price([r EXCEPT !.utilization = @ + 1], amount)
  <1> DEFINE w == r.weight
             d == r.exponent * w
             k == Weights(r, s, amount)
             l == Weights(r, s, amount + 1)
             q == [r EXCEPT !.utilization = @ + 1]
  <1>1. w \in Nat \ {0} /\ d \in Nat \ {0} /\ r.utilization \in Nat /\ r.adjusted \in Nat
    <2>1. r.weight \in Nat \ {0} /\ r.exponent \in Nat \ {0} /\ r.utilization \in Nat /\ r.adjusted \in Nat
      BY MarketHas
    <2> QED BY <2>1
  <1>2. adjusted \in Nat
    BY <1>1 DEF AdjustedUtilizations
  <1>3. /\ k \in Nat /\ UtilizationIncrease(r, Frac(r, s, amount)) = w * k
        /\ l \in Nat /\ UtilizationIncrease(r, Frac(r, s, amount + 1)) = w * l
    <2> DEFINE n == amount + 1
    <2>1. n \in Nat
      OBVIOUS
    <2> HIDE DEF n
    <2>2. Weights(r, s, amount) \in Nat
          /\ UtilizationIncrease(r, Frac(r, s, amount)) = r.weight * Weights(r, s, amount)
      BY IncreaseIs
    <2>3. Weights(r, s, n) \in Nat
          /\ UtilizationIncrease(r, Frac(r, s, n)) = r.weight * Weights(r, s, n)
      BY <2>1, IncreaseIs
    <2> QED BY <2>2, <2>3 DEF n
  <1>4. k <= l
    BY MoreWeights
  <1>5. /\ PricePer(r, s, amount, adjusted) = RoundUp(Fee(r, w * k, adjusted), d)
        /\ PricePer(r, s, amount + 1, adjusted) = RoundUp(Fee(r, w * l, adjusted), d)
    BY <1>3 DEF PricePer
  <1>6. q \in PricedMarkets /\ q.weight = w /\ q.exponent = r.exponent
    BY MoreRented
  <1>7. PricePer(q, s, amount, adjusted) = RoundUp(Fee(q, w * k, adjusted), d)
    <2>1. Weights(q, s, amount) = k
      BY <1>6 DEF Weights
    <2>2. UtilizationIncrease(q, Frac(q, s, amount)) = w * k
      <3> HIDE DEF q
      <3>1. UtilizationIncrease(q, Frac(q, s, amount)) = q.weight * Weights(q, s, amount)
        BY <1>6, IncreaseIs
      <3> QED BY <1>6, <2>1, <3>1
    <2> QED BY <1>6, <2>2 DEF PricePer
  <1> HIDE DEF w, d, k, l
  <1> DEFINE wk == w * k
             wl == w * l
  <1>8. wk \in Nat /\ wl \in Nat /\ wk <= wl
    BY <1>1, <1>3, <1>4
  <1> HIDE DEF wk, wl
  <1>9. /\ Fee(r, wk, adjusted) \in Nat /\ Fee(r, wl, adjusted) \in Nat
        /\ Fee(r, wk, adjusted) <= Fee(r, wl, adjusted)
    BY <1>2, <1>8, FeeGrows
  <1>10. 0 <= PricePer(r, s, amount, adjusted) /\ PricePer(r, s, amount, adjusted) <= PricePer(r, s, amount + 1, adjusted)
    <2> DEFINE a == Fee(r, wk, adjusted)
               b == Fee(r, wl, adjusted)
    <2>1. PricePer(r, s, amount, adjusted) = RoundUp(a, d) /\ PricePer(r, s, amount + 1, adjusted) = RoundUp(b, d)
      BY <1>5 DEF wk, wl
    <2>2. a \in Nat /\ b \in Nat /\ a <= b
      BY <1>9
    <2> HIDE DEF a, b
    <2> QED BY <1>1, <2>1, <2>2, PriceRoundedUp
  <1>11. ASSUME r.adjusted <= r.utilization
         PROVE  PricePer(r, s, amount, adjusted) <= PricePer(q, s, amount, adjusted)
    <2>1. adjusted = r.adjusted
      BY <1>1, <1>11 DEF AdjustedUtilizations
    <2> DEFINE a == Fee(r, wk, adjusted)
               b == Fee(q, wk, adjusted)
    <2>2. a \in Nat /\ b \in Nat /\ a <= b
      <3>1. adjusted <= r.utilization
        BY <1>11, <2>1
      <3>2. Fee(r, r.weight * k, adjusted) \in Nat /\ Fee(q, r.weight * k, adjusted) \in Nat
            /\ Fee(r, r.weight * k, adjusted) <= Fee(q, r.weight * k, adjusted)
        BY <1>2, <1>3, <3>1, RentGrows
      <3> QED BY <3>2 DEF wk, w
    <2>3. PricePer(r, s, amount, adjusted) = RoundUp(a, d) /\ PricePer(q, s, amount, adjusted) = RoundUp(b, d)
      BY <1>5, <1>7 DEF wk
    <2> HIDE DEF a, b
    <2> QED BY <1>1, <2>2, <2>3, PriceRoundedUp
  <1> QED BY <1>10, <1>11

LEMMA PricesAlwaysGrow == ASSUME input \in ChainInputs PROVE PricesGrow
  <1> DEFINE m == input[2]
             n == input[3]
  <1>1. ASSUME Is("ram") PROVE m \in Nat /\ n \in Nat
    BY <1>1 DEF Is, ChainInputs, IntegerInputs, PricedInputs, WrittenInputs, KeyInputs
  <1>2. ASSUME Is("powerup") PROVE m \in PricedMarkets /\ n \in Nat \ {0}
    BY <1>2 DEF Is, ChainInputs, IntegerInputs, PricedInputs, WrittenInputs, KeyInputs, PricedMarkets
  <1>3. ASSUME Is("sample") PROVE m \in Nat /\ n \in Nat \ {0}
    BY <1>3 DEF Is, ChainInputs, IntegerInputs, PricedInputs, WrittenInputs, KeyInputs
  <1>4. ASSUME Is("ram"), NEW bytes \in 1..(m - 1), Fits(m, Int64), Fits(n * m, Int64)
        PROVE  LET cost == GetInput(Wide(m), Wide(n), Wide(bytes)).value
               IN  /\ (n + cost) * (m - bytes) >= n * m
                   /\ cost > 0 => (n + cost - 1) * (m - bytes) < n * m
    <2>1. m \in Nat /\ n \in Nat
      BY <1>1, <1>4
    <2>2. bytes \in 1..(m - 1) /\ Fits(m, Int64) /\ Fits(n * m, Int64)
      BY <1>4
    <2> HIDE DEF m, n
    <2> QED BY <2>1, <2>2, RamIsPaid
  <1>5. ASSUME Is("powerup"), NEW adjusted \in AdjustedUtilizations(m), NEW amount \in Amounts \cap Nat
        PROVE  LET price(s, k) == PricePer(s, n, k, adjusted)
               IN  /\ 0 <= price(m, amount) /\ price(m, amount) <= price(m, amount + 1)
                   /\ m.adjusted <= m.utilization =>
                          price(m, amount) <= price([m EXCEPT !.utilization = @ + 1], amount)
    <2>1. m \in PricedMarkets /\ n \in Nat \ {0} /\ amount \in Nat
      BY <1>2, <1>5
    <2> HIDE DEF m, n
    <2> QED BY <1>5, <2>1, PowerUpGrows
  <1>6. ASSUME Is("sample")
        PROVE  LET sample == GetSampledUsage(m, n)
               IN  sample * n <= m * Precision /\ m * Precision < (sample + 2) * n
    <2>1. m \in Nat /\ n \in Nat \ {0}
      BY <1>3, <1>6
    <2> DEFINE p == m * Precision
    <2>2. p \in Nat
      <3>1. Precision \in Nat
        BY PricingAssumption
      <3> HIDE DEF m, n
      <3> QED BY <2>1, <3>1
    <2>3. GetSampledUsage(m, n) = SampleQuotient(p, n)
      BY DEF GetSampledUsage
    <2> HIDE DEF p, m, n
    <2>4. SampleQuotient(p, n) * n <= p /\ p < (SampleQuotient(p, n) + 2) * n
      BY <2>1, <2>2, SampleIs
    <2> QED BY <2>3, <2>4 DEF p
  <1> QED BY <1>4, <1>5, <1>6 DEF PricesGrow

---------------------------------------------------------------------------
(* Swap quotes.  A quotient is held between two bounds by what it leaves.  *)

LEMMA Quotient ==
    ASSUME NEW n \in Int, NEW d \in Nat \ {0}
    PROVE  /\ n \div d \in Int
           /\ (n \div d) * d <= n /\ n < (n \div d + 1) * d
  OBVIOUS

LEMMA ProductGrows ==
    ASSUME NEW a \in Int, NEW b \in Int, NEW c \in Nat, a <= b
    PROVE  a * c <= b * c
  OBVIOUS

LEMMA ProductLess ==
    ASSUME NEW a \in Int, NEW b \in Int, NEW c \in Nat \ {0}, a * c < b * c
    PROVE  a < b
  OBVIOUS

LEMMA QuotientAtMost ==
    ASSUME NEW n \in Int, NEW d \in Nat \ {0}, NEW m \in Int, n < (m + 1) * d
    PROVE  n \div d <= m
  <1> DEFINE q == n \div d
  <1>1. q \in Int /\ q * d <= n
    BY Quotient
  <1> HIDE DEF q
  <1>2. q * d < (m + 1) * d
    BY <1>1
  <1>3. q < m + 1
    BY <1>1, <1>2, ProductLess
  <1> QED BY <1>1, <1>3 DEF q

LEMMA QuotientAtLeast ==
    ASSUME NEW n \in Int, NEW d \in Nat \ {0}, NEW m \in Int, m * d <= n
    PROVE  m <= n \div d
  <1> DEFINE q == n \div d
  <1>1. q \in Int /\ n < (q + 1) * d
    BY Quotient
  <1> HIDE DEF q
  <1>2. m * d < (q + 1) * d
    BY <1>1
  <1>3. m < q + 1
    BY <1>1, <1>2, ProductLess
  <1> QED BY <1>1, <1>3 DEF q

LEMMA PartOf ==
    ASSUME NEW n \in Nat, NEW d \in Nat \ {0}, NEW part \in 0..d
    PROVE  (n * part) \div d \in 0..n
  <1>1. n * part \in Nat
    OBVIOUS
  <1>2. (n * part) \div d \in Int
    BY <1>1, Quotient
  <1>3. 0 <= (n * part) \div d
    BY <1>1, QuotientAtLeast
  <1>4. n * part <= n * d
    OBVIOUS
  <1>5. n * part < (n + 1) * d
    BY <1>4
  <1>6. (n * part) \div d <= n
    BY <1>1, <1>5, QuotientAtMost
  <1> QED BY <1>2, <1>3, <1>6

\* What a trade gives, in the reserves of its legs.
LEMMA GrossOfTrade ==
    ASSUME NEW in \in Nat \ {0}, NEW out \in Nat \ {0}, NEW a \in Nat \ {0},
           NEW g, g = (out * a) \div (in + a)
    PROVE  /\ g \in Nat /\ g < out
           /\ g * (in + a) <= out * a
  <1> DEFINE n == out * a
             d == in + a
  <1>1. n \in Nat /\ d \in Nat \ {0} /\ g = n \div d
    OBVIOUS
  <1> HIDE DEF n, d
  <1>2. g \in Int /\ g * d <= n /\ 0 <= g
    BY <1>1, Quotient, QuotientAtLeast
  <1> USE DEF n, d
  <1>4. out * a < out * (in + a)
    <2>1. out * (in + a) = out * a + out * in
      OBVIOUS
    <2>2. out * in \in Nat \ {0}
      OBVIOUS
    <2> QED BY <1>1, <2>1, <2>2
  <1>5. g * (in + a) < out * (in + a)
    BY <1>1, <1>2, <1>4
  <1>6. g < out
    BY <1>1, <1>2, <1>5, ProductLess
  <1> QED BY <1>2, <1>6

LEMMA ProductIsKept ==
    ASSUME NEW in \in Nat \ {0}, NEW out \in Nat \ {0}, NEW a \in Nat \ {0},
           NEW g \in Nat, g * (in + a) <= out * a, NEW left \in 0..g
    PROVE  (in + a) * (out - left) >= in * out
  <1>1. left * (in + a) <= g * (in + a)
    BY ProductGrows
  <1>2. (in + a) * (out - left) = in * out + out * a - left * (in + a)
    OBVIOUS
  <1>3. left * (in + a) \in Int /\ g * (in + a) \in Int /\ out * a \in Int /\ in * out \in Int
    OBVIOUS
  <1> QED BY <1>1, <1>2, <1>3

\* The way back: o is traded in where left was taken from.
LEMMA BackIsNoMore ==
    ASSUME NEW in \in Nat \ {0}, NEW out \in Nat \ {0}, NEW a \in Nat \ {0},
           NEW g \in Nat, g < out, g * (in + a) <= out * a,
           NEW left \in 0..g, NEW o \in Nat, o <= left
    PROVE  ((in + a) * o) \div ((out - left) + o) <= a
  <1>1. out - left + o \in Nat \ {0} /\ (in + a) * o \in Nat
    OBVIOUS
  <1>2. left * (in + a) <= out * a
    <2>1. left * (in + a) <= g * (in + a)
      BY ProductGrows
    <2> QED BY <2>1
  <1>3. o * in <= left * in
    BY ProductGrows
  <1>4. (in + a) * o = o * in + a * o
    OBVIOUS
  <1>5. left * (in + a) = left * in + left * a
    OBVIOUS
  <1>6. a * (out - left + o) = out * a - left * a + a * o
    OBVIOUS
  <1>7. (in + a) * o <= a * (out - left + o)
    <2>1. \A u, v, w, x, y \in Int : u <= v /\ v + w <= x => u + y <= x - w + y
      OBVIOUS
    <2>2. o * in \in Int /\ left * in \in Int /\ left * a \in Int /\ out * a \in Int /\ a * o \in Int
      OBVIOUS
    <2>3. left * in + left * a <= out * a
      BY <1>2, <1>5
    <2>4. o * in + a * o <= out * a - left * a + a * o
      BY <1>3, <2>1, <2>2, <2>3
    <2> QED BY <1>4, <1>6, <2>4
  <1>8. (in + a) * o < (a + 1) * (out - left + o)
    <2>1. (a + 1) * (out - left + o) = a * (out - left + o) + (out - left + o)
      OBVIOUS
    <2>2. \A u, v, w \in Int : u <= v /\ w > 0 => u < v + w
      OBVIOUS
    <2>3. a * (out - left + o) \in Int
      OBVIOUS
    <2> QED BY <1>1, <1>7, <2>1, <2>2, <2>3
  <1> QED BY <1>1, <1>8, QuotientAtMost

\* The yield is refused, or it leaves the second leg in range.
LEMMA YieldInRange ==
    ASSUME NEW pool \in PoolRecords, NEW yield \in YieldRecords,
           NEW accrued, accrued = AccruedPoolYield(pool, yield), accrued # NoUnits
    PROVE  /\ accrued \in Nat /\ IsUnits(pool.second)
           /\ pool.second + accrued <= MaxAssetAmount
  <1> DEFINE index == IF yield = Absent \/ yield.index = Absent THEN 0 ELSE yield.index
             holding == yield.account
             product == holding.balance * (index - holding.checkpoint)
             credit == IF pool.yieldLeg = "none" \/ index = 0 \/ holding = Absent THEN 0
                       ELSE holding.owed + (product \div YieldIndexScale)
             holds == /\ IsUnits(holding.balance) /\ IsUnsigned(holding.checkpoint, MaxYieldIndex)
                      /\ holding.checkpoint <= index /\ product <= MaxYieldIndex /\ IsUnits(holding.owed)
  <1>1. /\ accrued = credit /\ IsUnits(pool.second) /\ pool.yieldLeg # "second"
        /\ pool.yieldLeg = "first" => yield # Absent /\ IsUnsigned(index, MaxYieldIndex)
        /\ pool.yieldLeg = "first" /\ index # 0 /\ holding # Absent => holds
        /\ ~(pool.second + credit > MaxAssetAmount)
    BY DEF AccruedPoolYield
  <1>2. CASE pool.yieldLeg = "none" \/ index = 0 \/ holding = Absent
    <2>1. credit = 0
      BY <1>2
    <2>2. pool.second \in Int
      BY DEF PoolRecords
    <2> QED BY <1>1, <2>1, <2>2, SwapAssumption
  <1>3. CASE ~(pool.yieldLeg = "none" \/ index = 0 \/ holding = Absent)
    <2>1. pool.yieldLeg = "first" /\ yield # Absent /\ pool.second \in Int
      BY <1>1, <1>3 DEF PoolRecords
    <2>2. yield.index = index /\ index \in Int /\ holding \in [balance : Int, checkpoint : Int, owed : Int]
      BY <1>3, <2>1 DEF YieldRecords
    <2>3. holds /\ credit = holding.owed + (product \div YieldIndexScale)
      BY <1>1, <1>3, <2>1
    <2>4. holding.balance \in Nat /\ index - holding.checkpoint \in Nat /\ holding.owed \in Nat
      BY <2>2, <2>3 DEF IsUnits, IsUnsigned
    <2>5. product \in Nat
      BY <2>4
    <2> HIDE DEF product, holding, index
    <2>6. product \div YieldIndexScale \in Nat
      BY <2>5, SwapAssumption, Quotient, QuotientAtLeast
    <2>7. credit \in Nat
      BY <2>3, <2>4, <2>6
    <2> HIDE DEF credit, holds
    <2> QED BY <1>1, <2>1, <2>7, SwapAssumption
  <1> QED BY <1>2, <1>3

LEMMA NoYield ==
    ASSUME NEW pool, pool.yieldLeg = "none", pool.second \in Int
    PROVE  AccruedPoolYield(pool, Absent) = IF IsUnits(pool.second) THEN 0 ELSE NoUnits
  BY SwapAssumption DEF AccruedPoolYield, IsUnits, IsUnsigned, NoUnits

---------------------------------------------------------------------------
(* Trades.                                                                 *)

PoolIn(pool, accrued, inFirst) == IF inFirst THEN pool.first ELSE pool.second + accrued

LEMMA FeeOfGross ==
    ASSUME NEW gross \in Nat, NEW rate \in 0..(FeeDenominator - 1), NEW proportional,
           proportional = (gross * rate) \div FeeDenominator,
           NEW fee, fee = IF rate = 0 \/ gross = 0 THEN 0
                          ELSE IF proportional > MinimumFee THEN proportional ELSE MinimumFee
    PROVE  fee \in 0..gross
  <1>1. proportional \in 0..gross
    BY SwapAssumption, PartOf
  <1> QED BY <1>1 DEF MinimumFee

LEMMA SwapGives ==
    ASSUME NEW pool \in PoolRecords, NEW accrued \in Nat, NEW inFirst \in BOOLEAN,
           NEW amount \in Int, NEW slip \in Int,
           NEW quote, quote = Swap(pool, accrued, inFirst, amount, slip), quote.ok,
           NEW in, in = PoolIn(pool, accrued, inFirst),
           NEW out, out = PoolIn(pool, accrued, ~inFirst)
    PROVE  /\ in \in Nat \ {0} /\ out \in Nat \ {0} /\ amount \in Nat \ {0}
           /\ quote.gross = (out * amount) \div (in + amount)
           /\ quote.gross \in Nat /\ quote.output \in 0..quote.gross
           /\ quote.minimum \in 0..quote.output
           /\ quote.accrued = accrued
           /\ in + amount <= MaxAssetAmount
           /\ ToleranceIsValid(pool.fee) /\ ToleranceIsValid(slip) /\ IsUnits(pool.first) /\ IsUnits(pool.second)
           /\ pool.second # 0
  <1> DEFINE gross == (out * amount) \div (in + amount)
             proportional == (gross * pool.fee) \div FeeDenominator
             fee == IF pool.fee = 0 \/ gross = 0 THEN 0
                    ELSE IF proportional > MinimumFee THEN proportional ELSE MinimumFee
             least == ((gross - fee) * (FeeDenominator - slip)) \div FeeDenominator
             allowed == /\ ToleranceIsValid(pool.fee) /\ ToleranceIsValid(slip)
                        /\ IsUnits(amount) /\ IsUnits(pool.first) /\ IsUnits(pool.second)
                        /\ amount # 0 /\ pool.first # 0 /\ pool.second # 0
                        /\ accrued # NoUnits /\ in + amount <= MaxAssetAmount
             given == [ok |-> TRUE, gross |-> gross, fee |-> fee, output |-> gross - fee,
                       minimum |-> least, accrued |-> accrued]
  <1>1. quote = IF allowed THEN given ELSE Refusal
    BY DEF Swap, PoolIn
  <1>2. allowed
    <2> HIDE DEF allowed, given
    <2> QED BY <1>1 DEF Refusal
  <1>3. quote = given
    BY <1>1, <1>2
  <1>4. pool.first \in Int /\ pool.second \in Int /\ pool.fee \in Int
    BY DEF PoolRecords
  <1>5. in \in Nat \ {0} /\ out \in Nat \ {0} /\ amount \in Nat \ {0}
    <2>1. pool.first \in Nat \ {0} /\ pool.second \in Nat \ {0} /\ amount \in Nat \ {0}
      BY <1>2, <1>4 DEF IsUnits, IsUnsigned
    <2> HIDE DEF allowed
    <2> QED BY <2>1 DEF PoolIn
  <1>6. pool.fee \in 0..(FeeDenominator - 1) /\ FeeDenominator - slip \in 0..FeeDenominator
    BY <1>2, <1>4, SwapAssumption DEF ToleranceIsValid
  <1>7. gross \in Nat
    <2> HIDE DEF gross
    <2> QED BY <1>5, GrossOfTrade DEF gross
  <1>8. fee \in 0..gross
    <2> HIDE DEF gross
    <2> QED BY <1>6, <1>7, FeeOfGross
  <1>9. least \in 0..(gross - fee)
    <2> HIDE DEF gross, fee
    <2>1. gross - fee \in Nat
      BY <1>7, <1>8
    <2> QED BY <1>6, <2>1, SwapAssumption, PartOf
  <1>10. /\ quote.gross = gross /\ quote.output = gross - fee /\ quote.minimum = least
         /\ quote.accrued = accrued
    BY <1>3
  <1>11. gross - fee \in 0..gross
    <2> HIDE DEF gross, fee
    <2> QED BY <1>7, <1>8
  <1> HIDE DEF least, fee
  <1> QED BY <1>2, <1>5, <1>7, <1>9, <1>10, <1>11

LEMMA TradedLegs ==
    ASSUME NEW pool \in PoolRecords, NEW accrued \in Nat, NEW inFirst \in BOOLEAN,
           NEW amount \in Int, NEW left \in Int, NEW quote, quote.accrued = accrued,
           NEW after, after = Traded(pool, inFirst, amount, quote, left)
    PROVE  LET in == PoolIn(pool, accrued, inFirst)
               out == PoolIn(pool, accrued, ~inFirst)
           IN  /\ after \in PoolRecords /\ after.yieldLeg = "none"
               /\ after.first = (IF inFirst THEN in + amount ELSE out - left)
               /\ after.second = (IF inFirst THEN out - left ELSE in + amount)
  <1>1. pool.first \in Int /\ pool.second \in Int
    BY DEF PoolRecords
  <1> DEFINE second == pool.second + accrued
  <1>2. CASE inFirst
    <2>1. after = [pool EXCEPT !.first = pool.first + amount, !.second = second - left, !.yieldLeg = "none"]
      BY <1>2 DEF Traded
    <2>2. pool.first + amount \in Int /\ second - left \in Int
      BY <1>1
    <2> HIDE DEF second
    <2>3. /\ after \in PoolRecords /\ after.yieldLeg = "none"
          /\ after.first = pool.first + amount /\ after.second = second - left
      BY <2>1, <2>2 DEF PoolRecords
    <2> QED BY <1>2, <2>3, Zenon DEF PoolIn, second
  <1>3. CASE ~inFirst
    <2>1. after = [pool EXCEPT !.first = pool.first - left, !.second = second + amount, !.yieldLeg = "none"]
      BY <1>3 DEF Traded
    <2>2. pool.first - left \in Int /\ second + amount \in Int
      BY <1>1
    <2> HIDE DEF second
    <2>3. /\ after \in PoolRecords /\ after.yieldLeg = "none"
          /\ after.first = pool.first - left /\ after.second = second + amount
      BY <2>1, <2>2 DEF PoolRecords
    <2> QED BY <1>3, <2>3, Zenon DEF PoolIn, second
  <1> QED BY <1>2, <1>3

LEMMA QuoteWithCredit ==
    ASSUME NEW pool \in PoolRecords, NEW accrued \in Nat, pool.second + accrued <= MaxAssetAmount,
           NEW inFirst \in BOOLEAN, NEW amount \in Int, NEW slip \in Int,
           NEW quote, quote = Swap(pool, accrued, inFirst, amount, slip), quote.ok
    PROVE  SameTrade(QuoteSwap(Accrued(pool, quote), Absent, inFirst, amount, slip), quote)
  <1> DEFINE credited == Accrued(pool, quote)
             in == PoolIn(pool, accrued, inFirst)
             out == PoolIn(pool, accrued, ~inFirst)
  <1>1. /\ quote.accrued = accrued /\ pool.first \in Int /\ pool.second \in Int
        /\ IsUnits(pool.second) /\ pool.second # 0 /\ in + amount <= MaxAssetAmount
    BY SwapGives DEF PoolRecords
  <1>2. /\ credited.first = pool.first /\ credited.second = pool.second + accrued
        /\ credited.fee = pool.fee /\ credited.yieldLeg = "none"
    BY <1>1 DEF Accrued, PoolRecords
  <1>3. IsUnits(credited.second) /\ credited.second # 0 /\ credited.second \in Int
    BY <1>1, <1>2, SwapAssumption DEF IsUnits, IsUnsigned
  <1>4. AccruedPoolYield(credited, Absent) = 0
    BY <1>2, <1>3, NoYield
  <1>5. credited.second + 0 = pool.second + accrued
    BY <1>1, <1>2
  <1> DEFINE gross == (out * amount) \div (in + amount)
             proportional == (gross * pool.fee) \div FeeDenominator
             fee == IF pool.fee = 0 \/ gross = 0 THEN 0
                    ELSE IF proportional > MinimumFee THEN proportional ELSE MinimumFee
             least == ((gross - fee) * (FeeDenominator - slip)) \div FeeDenominator
             bounds == /\ ToleranceIsValid(pool.fee) /\ ToleranceIsValid(slip)
                       /\ IsUnits(amount) /\ IsUnits(pool.first) /\ amount # 0 /\ pool.first # 0
                       /\ in + amount <= MaxAssetAmount
             given(n) == [ok |-> TRUE, gross |-> gross, fee |-> fee, output |-> gross - fee,
                          minimum |-> least, accrued |-> n]
  <1>6. quote = IF bounds /\ IsUnits(pool.second) /\ pool.second # 0 /\ accrued # NoUnits
                THEN given(accrued) ELSE Refusal
    BY DEF Swap, PoolIn
  <1>7. bounds /\ quote = given(accrued)
    <2> HIDE DEF bounds, given
    <2> QED BY <1>6 DEF Refusal
  <1>8. Swap(credited, 0, inFirst, amount, slip) =
            IF bounds /\ IsUnits(credited.second) /\ credited.second # 0 /\ 0 # NoUnits
            THEN given(0) ELSE Refusal
    <2> HIDE DEF credited
    <2> QED BY <1>2, <1>5 DEF Swap, PoolIn
  <1>9. Swap(credited, 0, inFirst, amount, slip) = given(0)
    <2> HIDE DEF bounds, given, credited
    <2> QED BY <1>3, <1>7, <1>8 DEF NoUnits
  <1>10. SameTrade(given(0), given(accrued))
    <2> HIDE DEF gross, fee, least
    <2> QED BY DEF SameTrade
  <1> HIDE DEF given
  <1> QED BY <1>4, <1>7, <1>9, <1>10 DEF QuoteSwap

LEMMA NothingTaken ==
    ASSUME NEW pool \in PoolRecords, NEW accrued \in Nat, pool.second + accrued <= MaxAssetAmount,
           NEW inFirst \in BOOLEAN, NEW amount \in Int, NEW slip \in Int,
           NEW quote, quote = Swap(pool, accrued, inFirst, amount, slip), quote.ok,
           NEW left \in {quote.output, quote.gross}
    PROVE  NothingIsTaken(pool, inFirst, amount, slip, quote, left)
  <1> DEFINE in == PoolIn(pool, accrued, inFirst)
             out == PoolIn(pool, accrued, ~inFirst)
             after == Traded(pool, inFirst, amount, quote, left)
             back == QuoteSwap(after, Absent, ~inFirst, quote.output, slip)
             o == quote.output
             g == quote.gross
  <1>1. /\ in \in Nat \ {0} /\ out \in Nat \ {0} /\ amount \in Nat \ {0}
        /\ g = (out * amount) \div (in + amount) /\ g \in Nat /\ o \in 0..g
        /\ quote.accrued = accrued
    BY SwapGives
  <1>2. pool.first \in Int /\ pool.second \in Int
    BY DEF PoolRecords
  <1>3. left \in 0..g /\ o <= left /\ o \in Nat
    <2> HIDE DEF in, out
    <2> QED BY <1>1
  <1>4. g < out /\ g * (in + amount) <= out * amount
    <2> HIDE DEF in, out, g
    <2> QED BY <1>1, GrossOfTrade
  <1>5. /\ after \in PoolRecords /\ after.yieldLeg = "none"
        /\ after.first = (IF inFirst THEN in + amount ELSE out - left)
        /\ after.second = (IF inFirst THEN out - left ELSE in + amount)
    <2>1. left \in Int /\ amount \in Int
      BY <1>1, <1>3
    <2> QED BY <1>1, <2>1, TradedLegs
  <1>6. in + amount > 0 /\ out - left > 0
    <2> HIDE DEF in, out, g
    <2> QED BY <1>1, <1>3, <1>4
  <1>7. ProductOf(after) >= ProductOf(Accrued(pool, quote))
    <2>1. ProductOf(Accrued(pool, quote)) = in * out
      <3>1. /\ Accrued(pool, quote).first = pool.first
            /\ Accrued(pool, quote).second = pool.second + accrued
        BY <1>1, <1>2 DEF Accrued, PoolRecords
      <3>2. \A a, b \in Int : a * b = b * a
        OBVIOUS
      <3>3. pool.second + accrued \in Int
        BY <1>2
      <3> QED BY <1>2, <3>1, <3>2, <3>3 DEF ProductOf, PoolIn
    <2>2. ProductOf(after) = (in + amount) * (out - left)
      <3> HIDE DEF in, out, after
      <3>1. \A a, b \in Int : a * b = b * a
        OBVIOUS
      <3>2. in + amount \in Int /\ out - left \in Int
        BY <1>1, <1>3
      <3> QED BY <1>5, <3>1, <3>2 DEF ProductOf
    <2> HIDE DEF in, out, after, g
    <2>3. (in + amount) * (out - left) >= in * out
      BY <1>1, <1>3, <1>4, ProductIsKept
    <2> QED BY <2>1, <2>2, <2>3
  <1>8. back.ok => back.output <= amount
    <2> SUFFICES ASSUME back.ok PROVE back.output <= amount
      OBVIOUS
    <2> DEFINE credit == AccruedPoolYield(after, Absent)
    <2>0. after.second \in Int
      BY <1>5 DEF PoolRecords
    <2>1. credit = 0 \/ credit = NoUnits
      <3> HIDE DEF after
      <3> QED BY <1>5, <2>0, NoYield
    <2> HIDE DEF after, in, out, g, o
    <2>2. back = Swap(after, credit, ~inFirst, quote.output, slip)
      BY DEF QuoteSwap
    <2>3. credit # NoUnits
      <3> SUFFICES ASSUME credit = NoUnits PROVE FALSE
        OBVIOUS
      <3>1. back = Refusal
        BY <2>2 DEF Swap
      <3> QED BY <3>1 DEF Refusal
    <2> HIDE DEF back
    <2>4. credit = 0
      BY <2>1, <2>3
    <2>5. PoolIn(after, 0, ~inFirst) = out - left /\ PoolIn(after, 0, ~~inFirst) = in + amount
      <3>1. out - left \in Int /\ in + amount \in Int
        BY <1>1, <1>3
      <3>2. CASE inFirst
        BY <1>5, <3>1, <3>2 DEF PoolIn
      <3>3. CASE ~inFirst
        BY <1>5, <3>1, <3>3 DEF PoolIn
      <3> QED BY <3>2, <3>3
    <2>6. o \in Int
      BY <1>3
    <2>7. /\ back.gross = ((in + amount) * o) \div ((out - left) + o)
          /\ back.gross \in Nat /\ back.output \in 0..back.gross
      <3> DEFINE b == ~inFirst
                 in2 == out - left
                 out2 == in + amount
      <3>1. b \in BOOLEAN /\ in2 = PoolIn(after, 0, b) /\ out2 = PoolIn(after, 0, ~b)
        BY <2>5
      <3>2. back = Swap(after, 0, b, o, slip)
        BY <2>2, <2>4 DEF o
      <3> HIDE DEF b, in2, out2
      <3>3. /\ back.gross = (out2 * o) \div (in2 + o)
            /\ back.gross \in Nat /\ back.output \in 0..back.gross
        BY <1>5, <2>6, <3>1, <3>2, SwapGives
      <3> QED BY <3>3 DEF in2, out2
    <2>8. ((in + amount) * o) \div ((out - left) + o) <= amount
      BY <1>1, <1>3, <1>4, BackIsNoMore
    <2> QED BY <1>1, <2>7, <2>8
  <1> HIDE DEF after, back
  <1>9. after.first > 0 /\ after.second > 0
    BY <1>5, <1>6
  <1> QED BY <1>7, <1>8, <1>9 DEF NothingIsTaken, after, back

(***************************************************************************)
(* No trade that quoteSwap quotes takes from those who hold the pool: the  *)
(* product of its legs never falls, whether the fee stays or leaves, and   *)
(* trading back what was given returns no more than was paid.  For every   *)
(* snapshot, amount and tolerance, in either direction.                    *)
(***************************************************************************)
THEOREM TradesAlwaysKeepTheProduct ==
    ASSUME NEW pool \in PoolRecords, NEW yield \in YieldRecords, NEW inFirst \in BOOLEAN,
           NEW amount \in Int, NEW slip \in Int
    PROVE  TradeKeepsTheProduct(pool, yield, inFirst, amount, slip)
  <1> DEFINE quote == QuoteSwap(pool, yield, inFirst, amount, slip)
             accrued == AccruedPoolYield(pool, yield)
  <1> SUFFICES ASSUME quote.ok
               PROVE  /\ SameTrade(QuoteSwap(Accrued(pool, quote), Absent, inFirst, amount, slip), quote)
                      /\ 0 <= quote.minimum /\ quote.minimum <= quote.output /\ quote.output <= quote.gross
                      /\ \A left \in {quote.output, quote.gross} :
                             NothingIsTaken(pool, inFirst, amount, slip, quote, left)
    BY DEF TradeKeepsTheProduct
  <1>1. quote = Swap(pool, accrued, inFirst, amount, slip)
    BY DEF QuoteSwap
  <1>2. accrued # NoUnits
    <2> SUFFICES ASSUME accrued = NoUnits PROVE FALSE
      OBVIOUS
    <2> HIDE DEF quote, accrued
    <2>1. quote = Refusal
      BY <1>1 DEF Swap
    <2> QED BY <2>1 DEF Refusal
  <1> HIDE DEF quote
  <1>3. accrued \in Nat /\ pool.second + accrued <= MaxAssetAmount
    <2> HIDE DEF accrued
    <2> QED BY <1>2, YieldInRange DEF accrued
  <1> HIDE DEF accrued
  <1>4. SameTrade(QuoteSwap(Accrued(pool, quote), Absent, inFirst, amount, slip), quote)
    BY <1>1, <1>3, QuoteWithCredit
  <1>5. quote.gross \in Nat /\ quote.output \in 0..quote.gross /\ quote.minimum \in 0..quote.output
    <2>1. \E in, out : in = PoolIn(pool, accrued, inFirst) /\ out = PoolIn(pool, accrued, ~inFirst)
      OBVIOUS
    <2> QED BY <1>1, <1>3, <2>1, SwapGives
  <1>6. \A left \in {quote.output, quote.gross} : NothingIsTaken(pool, inFirst, amount, slip, quote, left)
    BY <1>1, <1>3, NothingTaken
  <1> QED BY <1>4, <1>5, <1>6

---------------------------------------------------------------------------
(* Shares.                                                                 *)

LEMMA RoundedUp ==
    ASSUME NEW n \in Nat, NEW d \in Nat \ {0}
    PROVE  CeilOf(n, d) \in Nat /\ n <= CeilOf(n, d) * d
  <1> DEFINE c == (n + d - 1) \div d
  <1>1. n + d - 1 \in Nat
    OBVIOUS
  <1>2. c \in Int /\ n + d - 1 < (c + 1) * d /\ 0 <= c
    BY <1>1, Quotient, QuotientAtLeast
  <1> HIDE DEF c
  <1>3. (c + 1) * d = c * d + d /\ c * d \in Int
    BY <1>2
  <1> QED BY <1>2, <1>3 DEF CeilOf, c

LEMMA RoundedUpAtLeast ==
    ASSUME NEW n \in Nat, NEW d \in Nat \ {0}, NEW m \in Nat, m * d <= n
    PROVE  m <= CeilOf(n, d)
  <1>1. n + d - 1 \in Nat /\ m * d <= n + d - 1
    <2>1. m * d \in Int
      OBVIOUS
    <2> QED BY <2>1
  <1> QED BY <1>1, QuotientAtLeast DEF CeilOf

\* What is paid into one leg, of reserve, for shares of total.
LEMMA PaidIntoLeg ==
    ASSUME NEW reserve \in Nat \ {0}, NEW shares \in Nat \ {0}, NEW total \in Nat \ {0},
           NEW paid \in Nat, CeilOf(reserve * shares, total) <= paid
    PROVE  /\ (reserve + paid) * total >= reserve * (total + shares)
           /\ ((reserve + paid) * shares) \div (total + shares) <= paid
  <1> DEFINE part == CeilOf(reserve * shares, total)
  <1>1. part \in Nat /\ reserve * shares <= part * total /\ part <= paid
    <2>1. reserve * shares \in Nat
      OBVIOUS
    <2> QED BY <2>1, RoundedUp
  <1> HIDE DEF part
  <1>2. part * total <= paid * total
    BY <1>1, ProductGrows
  <1>3. reserve * shares \in Int /\ part * total \in Int /\ paid * total \in Int /\ reserve * total \in Int
    BY <1>1
  <1>4. reserve * shares <= paid * total
    BY <1>1, <1>2, <1>3
  <1>5. (reserve + paid) * total >= reserve * (total + shares)
    <2>1. (reserve + paid) * total = reserve * total + paid * total
      OBVIOUS
    <2>2. reserve * (total + shares) = reserve * total + reserve * shares
      OBVIOUS
    <2> QED BY <1>3, <1>4, <2>1, <2>2
  <1>6. (reserve + paid) * shares < (paid + 1) * (total + shares)
    <2>1. (reserve + paid) * shares = reserve * shares + paid * shares
      OBVIOUS
    <2>2. (paid + 1) * (total + shares) = paid * total + paid * shares + total + shares
      OBVIOUS
    <2>3. paid * shares \in Int
      OBVIOUS
    <2> QED BY <1>3, <1>4, <2>1, <2>2, <2>3
  <1>7. (reserve + paid) * shares \in Int /\ total + shares \in Nat \ {0}
    OBVIOUS
  <1>8. ((reserve + paid) * shares) \div (total + shares) <= paid
    <2> DEFINE n == (reserve + paid) * shares
               d == total + shares
    <2>1. n \in Int /\ d \in Nat \ {0} /\ n < (paid + 1) * d
      BY <1>6, <1>7
    <2> HIDE DEF n, d
    <2>2. n \div d <= paid
      BY <2>1, QuotientAtMost
    <2> QED BY <2>2 DEF n, d
  <1> QED BY <1>5, <1>8

\* What is taken out of one leg.
LEMMA TakenFromLeg ==
    ASSUME NEW reserve \in Nat \ {0}, NEW shares \in Nat \ {0}, NEW total \in Nat \ {0}, shares < total,
           NEW output, output = (reserve * shares) \div total
    PROVE  /\ output \in 0..reserve
           /\ (reserve - output) * total >= reserve * (total - shares)
           /\ output <= CeilOf((reserve - output) * shares, total - shares)
  <1>1. output \in 0..reserve
    BY PartOf
  <1>2. output * total <= reserve * shares
    <2>1. reserve * shares \in Int
      OBVIOUS
    <2> QED BY <2>1, Quotient
  <1>3. output * total \in Int /\ reserve * shares \in Int /\ reserve * total \in Int /\ output * shares \in Int
    BY <1>1
  <1>4. (reserve - output) * total >= reserve * (total - shares)
    <2>1. (reserve - output) * total = reserve * total - output * total
      BY <1>1
    <2>2. reserve * (total - shares) = reserve * total - reserve * shares
      OBVIOUS
    <2> QED BY <1>2, <1>3, <2>1, <2>2
  <1>5. output * (total - shares) <= (reserve - output) * shares
    <2>1. output * (total - shares) = output * total - output * shares
      BY <1>1
    <2>2. (reserve - output) * shares = reserve * shares - output * shares
      BY <1>1
    <2> QED BY <1>2, <1>3, <2>1, <2>2
  <1>6. (reserve - output) * shares \in Nat /\ total - shares \in Nat \ {0}
    <2>1. reserve - output \in Nat
      BY <1>1
    <2> QED BY <2>1
  <1> QED BY <1>1, <1>4, <1>5, <1>6, RoundedUpAtLeast

LEMMA SnapshotGives ==
    ASSUME NEW pool \in PoolRecords, NEW accrued, NEW second \in Int, NEW shares \in Int, NEW slip \in Int,
           NEW state, state = SnapshotOf(pool, accrued, second, shares, slip), state.ok
    PROVE  /\ state.amount = shares /\ state.total = pool.supply /\ state.first = pool.first
           /\ state.second = second /\ state.locked = pool.locked /\ state.max = pool.max
           /\ accrued # NoUnits
           /\ IsUnits(pool.first) /\ pool.first # 0 /\ second # 0
           /\ IsUnits(shares) /\ shares # 0 /\ IsUnits(pool.supply) /\ pool.supply # 0
           /\ IsUnits(pool.locked) /\ IsUnits(pool.max)
           /\ pool.locked <= pool.supply /\ pool.supply <= pool.max
           /\ ToleranceIsValid(slip)
  <1> DEFINE sound == /\ \A n \in {shares, pool.first, pool.second, pool.supply, pool.locked, pool.max} : IsUnits(n)
                      /\ accrued # NoUnits
                      /\ shares # 0 /\ pool.supply # 0 /\ pool.first # 0 /\ second # 0
                      /\ pool.locked <= pool.supply /\ pool.supply <= pool.max
                      /\ ToleranceIsValid(slip)
             given == [ok |-> TRUE, amount |-> shares, total |-> pool.supply, first |-> pool.first,
                       second |-> second, accrued |-> accrued, locked |-> pool.locked, max |-> pool.max]
  <1>1. state = IF sound THEN given ELSE Refusal
    BY DEF SnapshotOf
  <1>2. sound
    <2> HIDE DEF sound, given
    <2> QED BY <1>1 DEF Refusal
  <1>3. state = given
    BY <1>1, <1>2
  <1>4. \A n \in {shares, pool.first, pool.supply, pool.locked, pool.max} : IsUnits(n)
    BY <1>2
  <1> HIDE DEF sound
  <1>5. /\ state.amount = shares /\ state.total = pool.supply /\ state.first = pool.first
        /\ state.second = second /\ state.locked = pool.locked /\ state.max = pool.max
    BY <1>3
  <1> HIDE DEF given
  <1> USE DEF sound
  <1> QED BY <1>2, <1>4, <1>5

LEMMA ResizedLegs ==
    ASSUME NEW pool \in PoolRecords, NEW first \in Int, NEW second \in Int, NEW shares \in Int,
           NEW new, new = Resized(pool, first, second, shares)
    PROVE  /\ new \in PoolRecords
           /\ new.first = first /\ new.second = second /\ new.supply = pool.supply + shares
           /\ new.yieldLeg = "none" /\ new.locked = pool.locked /\ new.max = pool.max
  <1> DEFINE total == pool.supply + shares
  <1>1. total \in Int
    BY DEF PoolRecords
  <1>2. new = [pool EXCEPT !.first = first, !.second = second, !.supply = total, !.yieldLeg = "none"]
    BY DEF Resized
  <1> HIDE DEF total
  <1>3. /\ new \in PoolRecords
        /\ new.first = first /\ new.second = second /\ new.supply = total
        /\ new.yieldLeg = "none" /\ new.locked = pool.locked /\ new.max = pool.max
    BY <1>1, <1>2 DEF PoolRecords
  <1> QED BY <1>3 DEF total

LEMMA InputOfLeg ==
    ASSUME NEW reserve \in Nat, NEW amount \in Nat, NEW total \in Nat \ {0},
           NEW slip \in Int, ToleranceIsValid(slip),
           NEW part, part = CeilOf(reserve * amount, total),
           NEW fee, fee = CeilOf(part * AddLiquidityFeeBps, FeeDenominator)
    PROVE  /\ part + fee \in Nat /\ part <= part + fee
           /\ CeilOf((part + fee) * (FeeDenominator + slip), FeeDenominator) >= part + fee
  <1>1. part \in Nat
    <2>1. reserve * amount \in Nat
      OBVIOUS
    <2> QED BY <2>1, RoundedUp
  <1>2. fee \in Nat
    <2>1. part * AddLiquidityFeeBps \in Nat
      BY <1>1 DEF AddLiquidityFeeBps
    <2> QED BY <2>1, RoundedUp, SwapAssumption
  <1> DEFINE paid == part + fee
  <1>3. paid \in Nat /\ part <= paid
    BY <1>1, <1>2
  <1>4. slip \in Nat /\ FeeDenominator \in Nat \ {0}
    BY SwapAssumption DEF ToleranceIsValid
  <1> HIDE DEF paid
  <1>5. paid * (FeeDenominator + slip) \in Nat /\ paid * FeeDenominator <= paid * (FeeDenominator + slip)
    <2>1. paid * (FeeDenominator + slip) = paid * FeeDenominator + paid * slip
      BY <1>3, <1>4
    <2>2. paid * slip \in Nat /\ paid * FeeDenominator \in Nat
      BY <1>3, <1>4
    <2> QED BY <2>1, <2>2
  <1>6. paid <= CeilOf(paid * (FeeDenominator + slip), FeeDenominator)
    BY <1>3, <1>4, <1>5, RoundedUpAtLeast
  <1>7. CeilOf(paid * (FeeDenominator + slip), FeeDenominator) \in Nat
    BY <1>4, <1>5, RoundedUp
  <1> QED BY <1>3, <1>6, <1>7 DEF paid

LEMMA AddGives ==
    ASSUME NEW state, state.first \in Nat, state.second \in Nat, state.amount \in Nat,
           state.total \in Nat \ {0}, NEW slip \in Int, ToleranceIsValid(slip),
           NEW add, add = AddLiquidity(state, slip), add.ok
    PROVE  /\ add.input1 \in Nat /\ CeilOf(state.first * state.amount, state.total) <= add.input1
           /\ add.input2 \in Nat /\ CeilOf(state.second * state.amount, state.total) <= add.input2
           /\ add.maximum1 >= add.input1 /\ add.maximum2 >= add.input2
           /\ state.first + add.input1 <= MaxAssetAmount /\ state.second + add.input2 <= MaxAssetAmount
           /\ state.total + state.amount <= state.max /\ state.total + state.amount <= MaxAssetAmount
           /\ state.ok
  <1> DEFINE part(reserve) == CeilOf(reserve * state.amount, state.total)
             fee(units) == CeilOf(units * AddLiquidityFeeBps, FeeDenominator)
             paid(reserve) == part(reserve) + fee(part(reserve))
             maximum(reserve) == CeilOf(paid(reserve) * (FeeDenominator + slip), FeeDenominator)
             allowed == /\ state.ok
                        /\ state.total + state.amount <= state.max
                        /\ state.total + state.amount <= MaxAssetAmount
                        /\ \A reserve \in {state.first, state.second} :
                               reserve + paid(reserve) <= MaxAssetAmount /\ IsUnits(maximum(reserve))
             given == [ok |-> TRUE, input1 |-> paid(state.first), input2 |-> paid(state.second),
                       maximum1 |-> maximum(state.first), maximum2 |-> maximum(state.second),
                       fee1 |-> fee(part(state.first)), fee2 |-> fee(part(state.second)),
                       accrued |-> state.accrued]
  <1>1. add = IF allowed THEN given ELSE Refusal
    BY DEF AddLiquidity
  <1>2. allowed
    <2> HIDE DEF allowed, given
    <2> QED BY <1>1 DEF Refusal
  <1>3. add = given
    BY <1>1, <1>2
  <1>4. \A reserve \in Nat : paid(reserve) \in Nat /\ part(reserve) <= paid(reserve)
                              /\ maximum(reserve) >= paid(reserve)
    <2> TAKE reserve \in Nat
    <2> QED BY InputOfLeg
  <1> HIDE DEF paid, maximum, fee
  <1>5. /\ add.input1 = paid(state.first) /\ add.input2 = paid(state.second)
        /\ add.maximum1 = maximum(state.first) /\ add.maximum2 = maximum(state.second)
    BY <1>3
  <1>6. \A reserve \in {state.first, state.second} : reserve + paid(reserve) <= MaxAssetAmount
    BY <1>2
  <1>7. state.ok /\ state.total + state.amount <= state.max /\ state.total + state.amount <= MaxAssetAmount
    BY <1>2
  <1> HIDE DEF given, allowed
  <1> QED BY <1>4, <1>5, <1>6, <1>7

LEMMA RemoveGives ==
    ASSUME NEW state, state.first \in Nat, state.second \in Nat, state.amount \in Nat,
           state.total \in Nat \ {0}, NEW slip \in Int, ToleranceIsValid(slip),
           NEW remove, remove = RemoveLiquidity(state, slip)
    PROVE  /\ remove.ok <=> state.ok /\ state.total - state.amount > 0 /\ state.total - state.amount >= state.locked
           /\ remove.ok => /\ remove.output1 = (state.first * state.amount) \div state.total
                           /\ remove.output2 = (state.second * state.amount) \div state.total
                           /\ remove.minimum1 <= remove.output1 /\ remove.minimum2 <= remove.output2
  <1> DEFINE output(reserve) == (reserve * state.amount) \div state.total
             minimum(reserve) == (output(reserve) * (FeeDenominator - slip)) \div FeeDenominator
             allowed == state.ok /\ state.total - state.amount > 0 /\ state.total - state.amount >= state.locked
             given == [ok |-> TRUE, output1 |-> output(state.first), output2 |-> output(state.second),
                       minimum1 |-> minimum(state.first), minimum2 |-> minimum(state.second),
                       accrued |-> state.accrued]
  <1>1. remove = IF allowed THEN given ELSE Refusal
    BY DEF RemoveLiquidity
  <1>2. given.ok /\ ~Refusal.ok
    BY DEF Refusal
  <1>3. remove.ok <=> allowed
    <2> HIDE DEF allowed, given
    <2> QED BY <1>1, <1>2
  <1>4. \A reserve \in Nat : minimum(reserve) <= output(reserve)
    <2> TAKE reserve \in Nat
    <2>1. reserve * state.amount \in Nat
      OBVIOUS
    <2>2. output(reserve) \in Nat
      <3> DEFINE n == reserve * state.amount
                 d == state.total
      <3> HIDE DEF n, d
      <3>1. n \in Nat /\ d \in Nat \ {0}
        BY <2>1 DEF n, d
      <3>2. n \div d \in Int /\ 0 <= n \div d
        BY <3>1, Quotient, QuotientAtLeast
      <3> QED BY <3>2 DEF n, d
    <2>3. FeeDenominator - slip \in 0..FeeDenominator
      BY SwapAssumption DEF ToleranceIsValid
    <2> HIDE DEF output
    <2> QED BY <2>2, <2>3, SwapAssumption, PartOf
  <1>5. /\ given.output1 = output(state.first) /\ given.output2 = output(state.second)
        /\ given.minimum1 = minimum(state.first) /\ given.minimum2 = minimum(state.second)
    <2> HIDE DEF output, minimum
    <2> QED OBVIOUS
  <1> HIDE DEF given, minimum
  <1>6. allowed => remove = given
    <2> HIDE DEF allowed
    <2> QED BY <1>1
  <1> QED BY <1>3, <1>4, <1>5, <1>6

\* What both quotes start from.
LEMMA StateOfQuote ==
    ASSUME NEW pool \in PoolRecords, NEW yield \in YieldRecords, NEW shares \in Int, NEW slip \in Int,
           NEW second, second = pool.second + AccruedPoolYield(pool, yield),
           NEW state, state = Snapshot(pool, yield, shares, slip), state.ok
    PROVE  /\ state.amount = shares /\ state.total = pool.supply /\ state.first = pool.first
           /\ state.second = second /\ state.locked = pool.locked /\ state.max = pool.max
           /\ pool.first \in Nat \ {0} /\ second \in Nat \ {0} /\ shares \in Nat \ {0} /\ pool.supply \in Nat \ {0}
           /\ IsUnits(shares) /\ IsUnits(pool.locked) /\ IsUnits(pool.max)
           /\ pool.first <= MaxAssetAmount /\ second <= MaxAssetAmount /\ pool.supply <= MaxAssetAmount
           /\ pool.locked <= pool.supply /\ pool.supply <= pool.max /\ ToleranceIsValid(slip)
  <1> DEFINE accrued == AccruedPoolYield(pool, yield)
  <1>1. state = SnapshotOf(pool, accrued, second, shares, slip)
    BY DEF Snapshot
  <1>2. accrued # NoUnits
    <2> SUFFICES ASSUME accrued = NoUnits PROVE FALSE
      OBVIOUS
    <2> HIDE DEF accrued
    <2>1. state = Refusal
      BY <1>1 DEF SnapshotOf
    <2> QED BY <2>1 DEF Refusal
  <1>3. accrued \in Nat /\ IsUnits(pool.second) /\ second <= MaxAssetAmount
    <2> HIDE DEF accrued
    <2> QED BY <1>2, YieldInRange DEF accrued
  <1>4. pool.first \in Int /\ pool.second \in Int /\ pool.supply \in Int
    BY DEF PoolRecords
  <1> HIDE DEF accrued
  <1>5. second \in Nat
    BY <1>3, <1>4 DEF IsUnits, IsUnsigned, accrued
  <1> QED BY <1>1, <1>3, <1>4, <1>5, SnapshotGives DEF IsUnits, IsUnsigned

LEMMA Minted ==
    ASSUME NEW pool \in PoolRecords, NEW yield \in YieldRecords, NEW shares \in Int, NEW slip \in Int,
           NEW add, add = QuoteAddLiquidity(pool, yield, shares, slip), add.ok
    PROVE  MintedKeepsWorth(pool, pool.second + AccruedPoolYield(pool, yield), add, shares, slip)
  <1> DEFINE second == pool.second + AccruedPoolYield(pool, yield)
             state == Snapshot(pool, yield, shares, slip)
             minted == Resized(pool, pool.first + add.input1, second + add.input2, shares)
             back == QuoteRemoveLiquidity(minted, Absent, shares, slip)
  <1>1. add = AddLiquidity(state, slip)
    BY DEF QuoteAddLiquidity
  <1>2. state.ok
    <2> HIDE DEF state
    <2> SUFFICES ASSUME ~state.ok PROVE FALSE
      OBVIOUS
    <2>1. add = Refusal
      BY <1>1 DEF AddLiquidity
    <2> QED BY <2>1 DEF Refusal
  <1> HIDE DEF second, state
  <1>5. pool.locked \in Int /\ pool.max \in Int
    BY DEF PoolRecords
  <1>7. /\ state.amount = shares /\ state.total = pool.supply /\ state.first = pool.first
        /\ state.second = second /\ state.locked = pool.locked /\ state.max = pool.max
        /\ pool.first \in Nat \ {0} /\ second \in Nat \ {0} /\ shares \in Nat \ {0} /\ pool.supply \in Nat \ {0}
        /\ IsUnits(shares) /\ IsUnits(pool.locked) /\ IsUnits(pool.max)
        /\ pool.locked <= pool.supply /\ ToleranceIsValid(slip)
    BY <1>2, StateOfQuote DEF state, second
  <1>8. /\ add.input1 \in Nat /\ CeilOf(pool.first * shares, pool.supply) <= add.input1
        /\ add.input2 \in Nat /\ CeilOf(second * shares, pool.supply) <= add.input2
        /\ add.maximum1 >= add.input1 /\ add.maximum2 >= add.input2
        /\ pool.first + add.input1 <= MaxAssetAmount /\ second + add.input2 <= MaxAssetAmount
        /\ pool.supply + shares <= pool.max /\ pool.supply + shares <= MaxAssetAmount
    BY <1>1, <1>7, AddGives
  <1>9. \A reserve \in Nat \ {0}, paid \in Nat :
           CeilOf(reserve * shares, pool.supply) <= paid =>
               /\ (reserve + paid) * pool.supply >= reserve * (pool.supply + shares)
               /\ ((reserve + paid) * shares) \div (pool.supply + shares) <= paid
    <2> DEFINE total == pool.supply
    <2>1. total \in Nat \ {0} /\ shares \in Nat \ {0}
      BY <1>7
    <2> HIDE DEF total
    <2>2. \A reserve \in Nat \ {0}, paid \in Nat :
              CeilOf(reserve * shares, total) <= paid =>
                  /\ (reserve + paid) * total >= reserve * (total + shares)
                  /\ ((reserve + paid) * shares) \div (total + shares) <= paid
      BY <2>1, PaidIntoLeg
    <2> QED BY <2>2 DEF total
  <1>10. /\ (pool.first + add.input1) * pool.supply >= pool.first * (pool.supply + shares)
         /\ ((pool.first + add.input1) * shares) \div (pool.supply + shares) <= add.input1
         /\ (second + add.input2) * pool.supply >= second * (pool.supply + shares)
         /\ ((second + add.input2) * shares) \div (pool.supply + shares) <= add.input2
    BY <1>7, <1>8, <1>9, Zenon
  <1>11. /\ minted \in PoolRecords /\ minted.yieldLeg = "none"
         /\ minted.first = pool.first + add.input1 /\ minted.second = second + add.input2
         /\ minted.supply = pool.supply + shares /\ minted.locked = pool.locked /\ minted.max = pool.max
    <2>1. pool.first + add.input1 \in Int /\ second + add.input2 \in Int
      BY <1>7, <1>8
    <2> QED BY <2>1, ResizedLegs
  <1> HIDE DEF minted
  <1>12. WorthIsKept(second, pool, minted)
    BY <1>10, <1>11 DEF WorthIsKept
  <1>13. back.ok /\ back.output1 <= add.input1 /\ back.output2 <= add.input2
    <2> DEFINE credit == AccruedPoolYield(minted, Absent)
               after == SnapshotOf(minted, credit, minted.second + credit, shares, slip)
    <2>1. IsUnits(minted.first) /\ IsUnits(minted.second) /\ IsUnits(minted.supply)
      BY <1>7, <1>8, <1>11 DEF IsUnits, IsUnsigned
    <2>2. credit = 0
      BY <1>8, <1>7, <1>11, <2>1, NoYield
    <2>3. minted.second + credit = minted.second /\ minted.second # 0 /\ minted.first # 0 /\ minted.supply # 0
      BY <1>7, <1>8, <1>11, <2>2
    <2>4. after.ok
      <3>1. \A n \in {shares, minted.first, minted.second, minted.supply, minted.locked, minted.max} : IsUnits(n)
        BY <1>7, <1>11, <2>1
      <3>2. credit # NoUnits
        BY <2>2 DEF NoUnits
      <3>3. minted.locked <= minted.supply /\ minted.supply <= minted.max
        BY <1>5, <1>7, <1>8, <1>11
      <3> HIDE DEF credit
      <3> QED BY <1>7, <2>3, <3>1, <3>2, <3>3 DEF SnapshotOf
    <2>5. back = RemoveLiquidity(after, slip)
      BY DEF QuoteRemoveLiquidity, Snapshot
    <2>6. /\ after.amount = shares /\ after.total = minted.supply /\ after.first = minted.first
          /\ after.second = minted.second /\ after.locked = minted.locked
      <3> HIDE DEF credit
      <3>1. minted.second + credit \in Int
        BY <1>7, <1>8, <1>11, <2>3
      <3> QED BY <1>11, <2>3, <2>4, <3>1, SnapshotGives
    <2> HIDE DEF after, credit, back
    <2>7. /\ after.first \in Nat /\ after.second \in Nat /\ after.amount \in Nat /\ after.total \in Nat \ {0}
      BY <1>7, <1>8, <1>11, <2>6
    <2>8. after.total - after.amount > 0 /\ after.total - after.amount >= after.locked
      BY <1>5, <1>7, <1>11, <2>6
    <2>9. back.ok
      BY <1>7, <2>4, <2>5, <2>7, <2>8, RemoveGives
    <2>10. /\ back.output1 = (after.first * after.amount) \div after.total
           /\ back.output2 = (after.second * after.amount) \div after.total
      BY <1>7, <2>5, <2>7, <2>9, RemoveGives
    <2> QED BY <1>10, <1>11, <2>6, <2>9, <2>10
  <1> HIDE DEF back
  <1>14. MintedKeepsWorth(pool, second, add, shares, slip)
    BY <1>8, <1>12, <1>13 DEF MintedKeepsWorth, minted, back
  <1> QED BY <1>14 DEF second

LEMMA Burned ==
    ASSUME NEW pool \in PoolRecords, NEW yield \in YieldRecords, NEW shares \in Int, NEW slip \in Int,
           NEW remove, remove = QuoteRemoveLiquidity(pool, yield, shares, slip), remove.ok
    PROVE  BurnedKeepsWorth(pool, pool.second + AccruedPoolYield(pool, yield), remove, shares, slip)
  <1> DEFINE second == pool.second + AccruedPoolYield(pool, yield)
             state == Snapshot(pool, yield, shares, slip)
             burned == Resized(pool, pool.first - remove.output1, second - remove.output2, -shares)
             again == QuoteAddLiquidity(burned, Absent, shares, slip)
  <1>1. remove = RemoveLiquidity(state, slip)
    BY DEF QuoteRemoveLiquidity
  <1>2. state.ok
    <2> HIDE DEF state
    <2> SUFFICES ASSUME ~state.ok PROVE FALSE
      OBVIOUS
    <2>1. remove = Refusal
      BY <1>1 DEF RemoveLiquidity
    <2> QED BY <2>1 DEF Refusal
  <1> HIDE DEF second, state
  <1>3. /\ state.amount = shares /\ state.total = pool.supply /\ state.first = pool.first
        /\ state.second = second /\ state.locked = pool.locked
        /\ pool.first \in Nat \ {0} /\ second \in Nat \ {0} /\ shares \in Nat \ {0} /\ pool.supply \in Nat \ {0}
        /\ ToleranceIsValid(slip)
    BY <1>2, StateOfQuote DEF state, second
  <1>4. pool.locked \in Int
    BY DEF PoolRecords
  <1>5. /\ pool.supply - shares > 0 /\ pool.supply - shares >= pool.locked
        /\ remove.output1 = (pool.first * shares) \div pool.supply
        /\ remove.output2 = (second * shares) \div pool.supply
        /\ remove.minimum1 <= remove.output1 /\ remove.minimum2 <= remove.output2
    <2>1. state.first \in Nat /\ state.second \in Nat /\ state.amount \in Nat /\ state.total \in Nat \ {0}
      BY <1>3
    <2>2. /\ state.total - state.amount > 0 /\ state.total - state.amount >= state.locked
          /\ remove.output1 = (state.first * state.amount) \div state.total
          /\ remove.output2 = (state.second * state.amount) \div state.total
          /\ remove.minimum1 <= remove.output1 /\ remove.minimum2 <= remove.output2
      BY <1>1, <1>3, <2>1, RemoveGives
    <2> QED BY <1>3, <2>2
  <1> DEFINE left == pool.supply - shares
  <1>6. \A reserve \in Nat \ {0} :
           LET output == (reserve * shares) \div pool.supply
           IN  /\ output \in 0..reserve
               /\ (reserve - output) * pool.supply >= reserve * left
               /\ output <= CeilOf((reserve - output) * shares, left)
    <2> DEFINE total == pool.supply
    <2>1. total \in Nat \ {0} /\ shares \in Nat \ {0} /\ shares < total
      BY <1>3, <1>5
    <2> HIDE DEF total
    <2>2. \A reserve \in Nat \ {0} :
              LET output == (reserve * shares) \div total
              IN  /\ output \in 0..reserve
                  /\ (reserve - output) * total >= reserve * (total - shares)
                  /\ output <= CeilOf((reserve - output) * shares, total - shares)
      BY <2>1, TakenFromLeg
    <2> QED BY <2>2 DEF total
  <1>7. /\ remove.output1 \in 0..pool.first /\ remove.output2 \in 0..second
        /\ (pool.first - remove.output1) * pool.supply >= pool.first * left
        /\ (second - remove.output2) * pool.supply >= second * left
        /\ remove.output1 <= CeilOf((pool.first - remove.output1) * shares, left)
        /\ remove.output2 <= CeilOf((second - remove.output2) * shares, left)
    <2> HIDE DEF left
    <2> QED BY <1>3, <1>5, <1>6, Zenon
  <1>8. /\ burned \in PoolRecords /\ burned.yieldLeg = "none"
        /\ burned.first = pool.first - remove.output1 /\ burned.second = second - remove.output2
        /\ burned.supply = left /\ burned.locked = pool.locked
        /\ burned.first \in Int /\ burned.second \in Int
    <2>1. pool.first - remove.output1 \in Int /\ second - remove.output2 \in Int /\ -shares \in Int
      BY <1>3, <1>7
    <2>2. pool.supply + (-shares) = left
      BY <1>3
    <2>3. /\ burned \in PoolRecords /\ burned.yieldLeg = "none"
          /\ burned.first = pool.first - remove.output1 /\ burned.second = second - remove.output2
          /\ burned.supply = pool.supply + (-shares) /\ burned.locked = pool.locked
      BY <2>1, ResizedLegs
    <2> HIDE DEF burned, left
    <2> QED BY <2>1, <2>2, <2>3
  <1>9. left \in Nat \ {0} /\ left >= pool.locked
    BY <1>3, <1>5
  <1> HIDE DEF burned, left
  <1>10. WorthIsKept(second, pool, burned)
    BY <1>7, <1>8 DEF WorthIsKept
  <1>11. again.ok => again.input1 >= remove.output1 /\ again.input2 >= remove.output2
    <2> SUFFICES ASSUME again.ok PROVE again.input1 >= remove.output1 /\ again.input2 >= remove.output2
      OBVIOUS
    <2> DEFINE after == Snapshot(burned, Absent, shares, slip)
    <2>1. again = AddLiquidity(after, slip)
      BY DEF QuoteAddLiquidity
    <2> HIDE DEF after, again
    <2>2. after.ok
      <3> SUFFICES ASSUME ~after.ok PROVE FALSE
        OBVIOUS
      <3>1. again = Refusal
        BY <2>1 DEF AddLiquidity
      <3> QED BY <3>1 DEF Refusal
    <2>3. AccruedPoolYield(burned, Absent) \in {0, NoUnits}
      BY <1>8, NoYield
    <2>4. Absent \in YieldRecords
      BY DEF YieldRecords
    <2>5. AccruedPoolYield(burned, Absent) = 0
      <3> SUFFICES ASSUME AccruedPoolYield(burned, Absent) = NoUnits PROVE FALSE
        BY <2>3
      <3>1. after = Refusal
        BY DEF after, Snapshot, SnapshotOf
      <3> QED BY <2>2, <3>1 DEF Refusal
    <2>6. burned.second + AccruedPoolYield(burned, Absent) = burned.second
      BY <1>8, <2>5
    <2>7. /\ after.amount = shares /\ after.total = left /\ after.first = burned.first
          /\ after.second = burned.second /\ burned.first \in Nat /\ burned.second \in Nat
      BY <1>8, <2>2, <2>4, <2>6, StateOfQuote DEF after
    <2>8. /\ again.input1 \in Nat /\ CeilOf(after.first * after.amount, after.total) <= again.input1
          /\ again.input2 \in Nat /\ CeilOf(after.second * after.amount, after.total) <= again.input2
      <3>1. after.first \in Nat /\ after.second \in Nat /\ after.amount \in Nat /\ after.total \in Nat \ {0}
        BY <1>3, <1>9, <2>7
      <3> QED BY <1>3, <2>1, <3>1, AddGives
    <2>9. /\ CeilOf(burned.first * shares, left) <= again.input1
          /\ CeilOf(burned.second * shares, left) <= again.input2
      BY <2>7, <2>8
    <2>10. remove.output1 <= CeilOf(burned.first * shares, left) /\ remove.output2 <= CeilOf(burned.second * shares, left)
      BY <1>7, <1>8
    <2>11. CeilOf(burned.first * shares, left) \in Nat /\ CeilOf(burned.second * shares, left) \in Nat
      <3>1. burned.first * shares \in Nat /\ burned.second * shares \in Nat
        BY <1>3, <2>7
      <3> QED BY <1>9, <3>1, RoundedUp
    <2>12. remove.output1 \in Int /\ remove.output2 \in Int
      BY <1>7
    <2> QED BY <2>8, <2>9, <2>10, <2>11, <2>12
  <1> HIDE DEF again
  <1>12. BurnedKeepsWorth(pool, second, remove, shares, slip)
    <2>1. burned.supply > 0 /\ burned.supply >= pool.locked
      BY <1>8, <1>9
    <2> QED BY <1>5, <1>10, <1>11, <2>1 DEF BurnedKeepsWorth, burned, again
  <1> QED BY <1>12 DEF second

(***************************************************************************)
(* Shares minted as quoteAddLiquidity quotes, or burned as                 *)
(* quoteRemoveLiquidity does, keep the worth of all others, and one after  *)
(* the other gives no more than was paid: for every snapshot, number of    *)
(* shares and tolerance.                                                   *)
(***************************************************************************)
THEOREM SharesAlwaysKeepTheirWorth ==
    ASSUME NEW pool \in PoolRecords, NEW yield \in YieldRecords, NEW shares \in Int, NEW slip \in Int
    PROVE  SharesKeepWorth(pool, yield, shares, slip)
  BY Minted, Burned DEF SharesKeepWorth

---------------------------------------------------------------------------
(* Whatever is picked.                                                     *)

LEMMA ExactInput == ASSUME input \in ChainInputs PROVE ArithmeticIsExact
  <1> DEFINE m == input[2]
             n == input[3]
  <1>1. ASSUME Is("quote") PROVE m \in PoolRecords /\ n \in YieldRecords
    BY <1>1 DEF Is, ChainInputs, IntegerInputs, PricedInputs, WrittenInputs, KeyInputs
  <1>2. Amounts \subseteq Int /\ Slips \subseteq Int
    BY ValuesAssumption
  <1>3. ASSUME Is("quote"), NEW inFirst \in BOOLEAN, NEW amount \in Amounts, NEW slip \in Slips
        PROVE  TradeKeepsTheProduct(m, n, inFirst, amount, slip)
    <2>1. m \in PoolRecords /\ n \in YieldRecords /\ amount \in Int /\ slip \in Int
      BY <1>1, <1>2, <1>3
    <2> HIDE DEF m, n
    <2> QED BY <1>3, <2>1, TradesAlwaysKeepTheProduct
  <1>4. ASSUME Is("quote"), NEW shares \in Amounts, NEW slip \in Slips
        PROVE  SharesKeepWorth(m, n, shares, slip)
    <2>1. m \in PoolRecords /\ n \in YieldRecords /\ shares \in Int /\ slip \in Int
      BY <1>1, <1>2, <1>4
    <2> HIDE DEF m, n
    <2> QED BY <2>1, SharesAlwaysKeepTheirWorth
  <1>5. TradesKeepTheProduct
    BY <1>3 DEF TradesKeepTheProduct
  <1>6. SharesKeepTheirWorth
    BY <1>4 DEF SharesKeepTheirWorth
  <1> QED BY <1>5, <1>6, IntegersWrap, AmountsExact, PricesAlwaysGrow DEF ArithmeticIsExact

LEMMA NoInput == ASSUME input = <<>> PROVE ArithmeticIsExact
  <1>1. ASSUME NEW kind PROVE ~Is(kind)
    BY DEF Is
  <1> QED BY <1>1 DEF ArithmeticIsExact, ArithmeticWraps, AmountsAreExact, TradesKeepTheProduct,
                      SharesKeepTheirWorth, PricesGrow

(***************************************************************************)
(* Arithmetic is that of the integers modulo the width of its type;        *)
(* amounts never wrap and are read back from their texts; trades never     *)
(* lower the product of a pool, shares keep their worth; RAM, CPU and NET  *)
(* cost no less the more is asked for or is rented already: for integers   *)
(* of every width, any pools, markets and amounts.                         *)
(***************************************************************************)
THEOREM ArithmeticIsAlwaysExact == ValuesSpec => []ArithmeticIsExact
  <1> DEFINE Picked == input = <<>> \/ input \in ChainInputs
  <1>1. ValuesInit => Picked
    BY DEF ValuesInit
  <1>2. Picked /\ [ValuesNext]_input => Picked'
    BY DEF ValuesNext
  <1>3. Picked => ArithmeticIsExact
    BY NoInput, ExactInput
  <1> QED BY <1>1, <1>2, <1>3, PTL DEF ValuesSpec
=============================================================================
