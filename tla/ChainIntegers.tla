--------------------------- MODULE ChainIntegers ---------------------------
(***************************************************************************)
(* The integers of the chain types: their casts, the C++11 conversions     *)
(* before an operator and what happens to a result that does not fit; the  *)
(* fixed-point UInt256; and amounts of an asset as text.                   *)
(*                                                                         *)
(* A byte has ByteBase values and a type is its width in bytes and its     *)
(* sign, so the wide types are small enough to be enumerated.              *)
(***************************************************************************)
EXTENDS Integers, Sequences, FiniteSets

CONSTANTS
    ByteBase,       \* 256
    IntWidth,       \* 4: the width of int, to which narrower types are promoted
    Scale,          \* 10^18
    HalfBits        \* 128

ASSUME ChainIntegersAssumption ==
    /\ ByteBase \in Nat \ {0, 1} /\ ByteBase % 2 = 0
    /\ IntWidth \in Nat \ {0} /\ Scale \in Nat \ {0} /\ HalfBits \in Nat

---------------------------------------------------------------------------
(* Numbers and their digits, the first the highest.                        *)

Power(b, n) ==
    LET power[k \in 0..n] == IF k = 0 THEN 1 ELSE b * power[k - 1]
    IN  power[n]

Number(digits, base) ==
    LET read[i \in 0..Len(digits)] == IF i = 0 THEN 0 ELSE base * read[i - 1] + digits[i]
    IN  read[Len(digits)]

\* The lowest len digits, and how many there are, of zero none or one.
Digits(n, base, len) == [i \in 1..len |-> (n \div Power(base, len - i)) % base]
DigitCount(n, base) == CHOOSE k \in 0..n : n < Power(base, k) /\ (k > 0 => Power(base, k - 1) <= n)
WrittenLength(n, base) == IF n = 0 THEN 1 ELSE DigitCount(n, base)

---------------------------------------------------------------------------
(* Types.                                                                  *)

IntType(width, signed) == [byteWidth |-> width, isSigned |-> signed]
IntTypes == [byteWidth : Nat \ {0}, isSigned : BOOLEAN]

Size(type) == Power(ByteBase, type.byteWidth)
MaxOf(type) == (IF type.isSigned THEN Size(type) \div 2 ELSE Size(type)) - 1
MinOf(type) == IF type.isSigned THEN -(Size(type) \div 2) ELSE 0
Fits(n, type) == MinOf(type) <= n /\ n <= MaxOf(type)

---------------------------------------------------------------------------
(* Overflow.                                                               *)

Clamp(n, type) == IF n < MinOf(type) THEN MinOf(type) ELSE IF n > MaxOf(type) THEN MaxOf(type) ELSE n

\* toArrayLike: how many bytes a natural number takes, at least one.
ByteLength(n) == WrittenLength(n, ByteBase)

\* fromTwos.
FromTwos(n, type) == IF type.isSigned /\ n > MaxOf(type) THEN n - Size(type) ELSE n

\* Mutant: the bytes in front are always zero.
TruncateZeroFill(n, from, to) ==
    LET twos == IF from.isSigned /\ n < 0 THEN n % Size(from) ELSE n
    IN  FromTwos(twos % Size(to), to)

\* The bytes of the number, as few as they are, and in front of them what its
\* sign says.  (BN.toTwos keeps the 26-bit words over the width: this is of
\* numbers that have none.)
Truncate(n, from, to) ==
    LET twos == IF from.isSigned /\ n < 0 THEN n % Size(from) ELSE n
        len == ByteLength(twos)
        fill == IF n < 0 /\ len < to.byteWidth THEN Size(to) - Power(ByteBase, len) ELSE 0
    IN  FromTwos(fill + (twos % Size(to)), to)

\* from() of a number that is of type "from", or of no type: then it is taken
\* for one of the target, signed if it is negative.  The constructor throws.
Throws == [ok |-> FALSE]

FromTyped(n, from, to, overflow) ==
    LET got == CASE overflow = "clamp" -> Clamp(n, to)
                 [] overflow = "truncate" -> Truncate(n, from, to)
                 [] overflow = "throw" -> n
    IN  IF Fits(got, to) THEN [value |-> got, type |-> to] ELSE Throws

FromNumber(n, to, overflow) ==
    FromTyped(n, IF n < 0 THEN [to EXCEPT !.isSigned = TRUE] ELSE to, to, overflow)

Cast(i, to) == IF i.type = to THEN i ELSE FromTyped(i.value, i.type, to, "truncate")

---------------------------------------------------------------------------
(* Operators.                                                              *)

Promote(i) == IF i.type.byteWidth < IntWidth THEN Cast(i, IntType(IntWidth, TRUE)) ELSE i

\* The type both operands are converted to.
CommonType(s, t) ==
    IF s = t THEN s
    ELSE IF s.isSigned = t.isSigned THEN (IF s.byteWidth > t.byteWidth THEN s ELSE t)
    ELSE LET unsigned == IF s.isSigned THEN t ELSE s
             signed == IF s.isSigned THEN s ELSE t
         IN  IF unsigned.byteWidth >= signed.byteWidth THEN unsigned ELSE signed

DivTrunc(a, b) ==
    LET q == (IF a < 0 THEN -a ELSE a) \div (IF b < 0 THEN -b ELSE b)
    IN  IF (a < 0) = (b < 0) THEN q ELSE -q

\* divCeil: away from zero, but a quotient that is cut to zero becomes one.
DivCeil(a, b) ==
    LET q == DivTrunc(a, b)
    IN  IF q * b = a THEN q ELSE IF q < 0 THEN q - 1 ELSE q + 1

\* BN.divRound of numbers that are not negative: a half goes up.
DivRound(a, b) ==
    LET q == DivTrunc(a, b)
        rest == a - q * b
        half == b \div 2
    IN  IF rest = 0 \/ rest < half \/ (b % 2 = 1 /\ rest = half) THEN q ELSE q + 1

Exact(op, a, b) ==
    CASE op = "add" -> a + b
      [] op = "sub" -> a - b
      [] op = "mul" -> a * b
      [] op = "div" -> DivTrunc(a, b)
      [] op = "divCeil" -> DivCeil(a, b)
      [] op = "divRound" -> DivRound(a, b)

\* Int.add and the others; the methods cast the result to the type of "this".
Operator(op, lhs, rhs) ==
    LET a == Promote(lhs)
        b == Promote(rhs)
        type == CommonType(a.type, b.type)
    IN  FromNumber(Exact(op, Cast(a, type).value, Cast(b, type).value), type, "truncate")

Operating(op, lhs, rhs) == Cast(Operator(op, lhs, rhs), lhs.type)

---------------------------------------------------------------------------
(* UInt256: two halves, in units of 1 / Scale.                             *)

Half == Power(2, HalfBits)
MaxUInt256 == Half * Half - 1

FromRaw(raw) == IF raw < 0 \/ raw > MaxUInt256 THEN Throws
                ELSE [low |-> raw % Half, high |-> raw \div Half]

Raw(u) == u.high * Half + u.low

UAdd(a, b) == FromRaw(Raw(a) + Raw(b))
USubtract(a, b) == FromRaw(Raw(a) - Raw(b))
UMultiply(a, b) == FromRaw((Raw(a) * Raw(b)) \div Scale)
UDivide(a, b) == IF Raw(b) = 0 THEN Throws ELSE FromRaw((Raw(a) * Scale) \div Raw(b))

---------------------------------------------------------------------------
(* Asset amounts as text: digits and at most one point, in units of        *)
(* 10^-precision.                                                          *)

Point == -1
DigitsOf(n) == Digits(n, 10, WrittenLength(n, 10))

\* formatUnits.
FormatUnits(units, precision) ==
    LET digits == DigitsOf(IF units < 0 THEN -units ELSE units)
        zeros == IF Len(digits) <= precision THEN precision + 1 - Len(digits) ELSE 0
        padded == [i \in 1..zeros |-> 0] \o digits
        whole == Len(padded) - precision
    IN  [negative |-> units < 0,
         text |-> IF precision = 0 THEN padded
                  ELSE SubSeq(padded, 1, whole) \o <<Point>> \o SubSeq(padded, whole + 1, Len(padded))]

\* Asset.fromString: the point is dropped, what is behind it is the precision.
ParseUnits(s) ==
    LET points == {i \in DOMAIN s.text : s.text[i] = Point}
        value[i \in 0..Len(s.text)] ==
            IF i = 0 THEN 0
            ELSE IF s.text[i] = Point THEN value[i - 1] ELSE 10 * value[i - 1] + s.text[i]
        units == value[Len(s.text)]
    IN  [units |-> IF s.negative THEN -units ELSE units,
         precision |-> IF points = {} THEN 0 ELSE Len(s.text) - (CHOOSE i \in points : TRUE)]
=============================================================================
