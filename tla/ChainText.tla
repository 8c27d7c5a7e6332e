----------------------------- MODULE ChainText -----------------------------
(***************************************************************************)
(* The chain types that have a text: names and slugs packed in an integer, *)
(* symbols and amounts, times, block ids, and bytes in base 58 and 64.     *)
(*                                                                         *)
(* A character is a number, its place in the alphabet at hand; the         *)
(* alphabets and widths are constants, so that all short texts and all     *)
(* packed values can be enumerated.                                        *)
(***************************************************************************)
EXTENDS ChainIntegers, SequencesExt

CONSTANTS
    NameBits, CharBits,         \* a name: 64 bits, 5 for a character
    SlugBase, SlugChars,        \* a slug: 64 values of a slot, 8 slots
    SlugLetters, SlugSymbols,   \* 26 letters of 37 characters
    MaxSafeInteger,             \* 2^53 - 1
    MaxPrecision, CodeLength,   \* a symbol: 18, and 7 letters
    CodeLetters,                \* the bytes that are letters A to Z
    Milli, SlotMs, EpochMs,     \* 1000, 500 and the first block's time
    TextBase, ByteValues,       \* 58 and 256
    SextetBits                  \* 6; the bytes have a third more

ASSUME ChainTextAssumption ==
    /\ CharBits \in Nat \ {0, 1} /\ NameBits \in Nat /\ NameBits % CharBits = CharBits - 1
    /\ {SlugSymbols, SlugBase, ByteValues, SextetBits, CodeLength} \subseteq Nat
    /\ SlugLetters \in 1..SlugSymbols /\ SlugSymbols < SlugBase /\ SlugChars \in Nat \ {0}
    /\ MaxPrecision \in 0..(ByteValues - 1) /\ CodeLetters \subseteq 1..(ByteValues - 1)
    /\ Milli \in Nat \ {0} /\ SlotMs \in Nat \ {0} /\ EpochMs \in Nat
    /\ TextBase \in 2..ByteValues /\ SextetBits % 3 = 0 /\ MaxSafeInteger \in Nat

\* What throws, where a text or bytes are expected; and two characters that
\* are in no alphabet, the second with a code past the table of base 58.
Rejected == <<-1>>
Alien == -1
FarAlien == -2

---------------------------------------------------------------------------
(* Names: 0 is the dot, then come the digits and the letters.              *)

Whole == NameBits \div CharBits
RestBits == CharBits - 1
Dot == 0

\* charToSymbol makes a dot of what it does not know; the last character has
\* a bit less, and loses the highest.
StringToName(s) ==
    LET symbol == [i \in 1..(Whole + 1) |-> IF i \in DOMAIN s /\ s[i] >= 0 THEN s[i] ELSE Dot]
    IN  Number(SubSeq(symbol, 1, Whole), Power(2, CharBits)) * Power(2, RestBits) + (symbol[Whole + 1] % Power(2, RestBits))

NameToString(n) ==
    LET all == Append(Digits(n \div Power(2, RestBits), Power(2, CharBits), Whole), n % Power(2, RestBits))
    IN  CHOOSE s \in {SubSeq(all, 1, k) : k \in 0..Len(all)} :
            /\ s # <<>> => Last(s) # Dot
            /\ \A i \in (Len(s) + 1)..Len(all) : all[i] = Dot

CanonicalName(s) ==
    /\ Len(s) <= Whole + 1
    /\ \A i \in DOMAIN s : s[i] >= 0
    /\ s # <<>> => Last(s) # Dot
    /\ Len(s) = Whole + 1 => Last(s) < Power(2, RestBits)

IsValidName(s) == CanonicalName(s) /\ NameToString(StringToName(s)) = s

---------------------------------------------------------------------------
(* Slugs: a character is its slot, 0 ends the text.                        *)

Refuses == -1

SlugFrom(s) ==
    IF s = <<>> \/ Len(s) > SlugChars \/ (\E i \in DOMAIN s : s[i] \notin 1..SlugSymbols)
           \/ s[1] > SlugLetters
    THEN Refuses
    ELSE Number(s, SlugBase) * Power(SlugBase, SlugChars - Len(s))

SlugToString(n) ==
    LET slot == Digits(n, SlugBase, SlugChars)
        ends == {i \in 1..SlugChars : slot[i] \notin 1..SlugSymbols}
    IN  SubSeq(slot, 1, (IF ends = {} THEN SlugChars + 1 ELSE Min(ends)) - 1)

\* A cell of a table: a text, or a number on its own or in an object.
SlugValue(cell) ==
    LET packed == IF cell.text THEN SlugFrom(cell.value)
                  ELSE IF cell.value \in 0..MaxSafeInteger THEN cell.value ELSE Refuses
    IN  IF packed <= 0 THEN Refuses ELSE packed

---------------------------------------------------------------------------
(* Symbols: the precision is the lowest byte, the code's letters follow.   *)

IsCode(name) == Len(name) <= CodeLength /\ \A i \in DOMAIN name : name[i] \in CodeLetters

\* toArray("be"), without leading zeros but never empty, and reversed.
CharsOf(raw) == Reverse(Digits(raw, ByteValues, WrittenLength(raw, ByteValues)))

SymbolName(raw) == Tail(CharsOf(raw))
SymbolPrecision(raw) == raw % ByteValues
SymbolCodeName(raw) == CharsOf(raw)

MakesSymbol(raw) ==
    /\ SymbolPrecision(raw) <= MaxPrecision
    /\ raw # 0 => IsCode(SymbolName(raw))

MakesSymbolCode(raw) == raw # 0 => IsCode(SymbolCodeName(raw))

ToRawSymbolCode(name) == Number(Reverse(name), ByteValues)

SymbolFromParts(name, precision) ==
    IF IsCode(name) /\ precision <= MaxPrecision THEN ToRawSymbolCode(name) * ByteValues + precision ELSE Refuses

SymbolCodeFrom(name) == IF IsCode(name) THEN ToRawSymbolCode(name) ELSE Refuses

\* Asset.fromString and toString: the amount is that of ChainIntegers.
AssetFromString(text) ==
    LET amount == ParseUnits(text.quantity)
        symbol == SymbolFromParts(text.name, amount.precision)
    IN  IF symbol = Refuses THEN Throws ELSE [units |-> amount.units, symbol |-> symbol]

AssetToString(a) ==
    [quantity |-> FormatUnits(a.units, SymbolPrecision(a.symbol)), name |-> SymbolName(a.symbol)]

---------------------------------------------------------------------------
(* Times: microseconds, seconds or slots of half a second.                 *)

SecType == IntType(IntWidth, FALSE)

\* Math.round: a half goes up.
MathRound(n, d) == (2 * n + d) \div (2 * d)

Time(kind, value) == IF kind # "point" /\ ~Fits(value, SecType) THEN Throws ELSE [kind |-> kind, value |-> value]

ToMilliseconds(t) ==
    CASE t.kind = "point" -> DivRound(t.value, Milli)
      [] t.kind = "sec" -> t.value * Milli
      [] t.kind = "block" -> t.value * SlotMs + EpochMs

FromMilliseconds(kind, ms) ==
    CASE kind = "point" -> Time(kind, ms * Milli)
      [] kind = "sec" -> Time(kind, MathRound(ms, Milli))
      [] kind = "block" -> Time(kind, MathRound(ms - EpochMs, SlotMs))

TimeFrom(kind, t) == IF t.kind = kind THEN t ELSE FromMilliseconds(kind, ToMilliseconds(t))

\* The text is a date in milliseconds, which of seconds leaves out the rest.
TimeToString(t) == IF t.kind = "sec" THEN (ToMilliseconds(t) \div Milli) * Milli ELSE ToMilliseconds(t)
TimeFromString(kind, text) == FromMilliseconds(kind, text)

TimeEquals(t, u) == TimeFrom(t.kind, u) # Throws /\ ToMilliseconds(t) = ToMilliseconds(TimeFrom(t.kind, u))

\* GetInfoResponse.getTransactionHeader.
ExpirationOf(headBlockTime, secondsAhead) ==
    FromMilliseconds("sec", ToMilliseconds(headBlockTime) + secondsAhead * Milli)

---------------------------------------------------------------------------
(* Block ids: the number is kept in the highest bytes of the checksum.     *)

FromBlockChecksum(checksum, num) == [checksum EXCEPT !.high = num]

\* Its bytes are shifted together in 32 bits that have a sign.
BlockNum(id) == IF id.high >= Size(SecType) \div 2 THEN Throws ELSE [ok |-> TRUE, num |-> id.high]

---------------------------------------------------------------------------
(* Base 58 and base 64.                                                    *)

Leading(s, x) == Cardinality({i \in DOMAIN s : \A j \in 1..i : s[j] = x})
Repeat(x, n) == [i \in 1..n |-> x]

\* Mutant: the zeros in front are lost.
Encode58Unpadded(bytes) ==
    LET n == Number(bytes, ByteValues)
    IN  Digits(n, TextBase, DigitCount(n, TextBase))

Encode58(bytes) ==
    LET n == Number(bytes, ByteValues)
    IN  Repeat(0, Leading(bytes, 0)) \o Digits(n, TextBase, DigitCount(n, TextBase))

\* One character more.  The table has no number for one past its end, and the
\* lowest byte becomes zero.
Shifted(n, c) == IF c = FarAlien THEN (n - (n % ByteValues)) * TextBase ELSE n * TextBase + c

\* The bytes grow by one where the number needs it.
Grown(r, c) ==
    LET n == Shifted(r.n, c)
    IN  [n |-> n, len |-> IF n >= Power(ByteValues, r.len) THEN r.len + 1 ELSE r.len]

Decode58(s) ==
    LET read[i \in 0..Len(s)] == IF i = 0 THEN [n |-> 0, len |-> 0] ELSE Grown(read[i - 1], s[i])
        r == read[Len(s)]
    IN  IF Contains(s, Alien) THEN Rejected
        ELSE Repeat(0, Leading(s, 0)) \o Digits(r.n, ByteValues, r.len)

\* Of a known size the leading ones say nothing; -1 if it is too little.
ShiftedWithin(n, c, size) ==
    IF n < 0 \/ Shifted(n, c) >= Power(ByteValues, size) THEN -1 ELSE Shifted(n, c)

Decode58Sized(s, size) ==
    LET read[i \in 0..Len(s)] == IF i = 0 THEN 0 ELSE ShiftedWithin(read[i - 1], s[i], size)
        n == read[Len(s)]
    IN  IF Contains(s, Alien) \/ n < 0 THEN Rejected ELSE Digits(n, ByteValues, size)

OctetBits == (SextetBits \div 3) * 4

\* The bits of the bytes, six at a time, the last filled up with zeros.
Encode64u(data) ==
    LET len == (4 * Len(data) + 2) \div 3
        chunks == (Len(data) + 2) \div 3
        n == Number(data \o Repeat(0, 3 * chunks - Len(data)), Power(2, OctetBits))
    IN  SubSeq(Digits(n, Power(2, SextetBits), 4 * chunks), 1, len)

\* An unknown character is read as the first one.
Decode64u(s) ==
    LET chunks == (Len(s) + 3) \div 4
        known == [i \in 1..(4 * chunks) |-> IF i \in DOMAIN s /\ s[i] >= 0 THEN s[i] ELSE 0]
        n == Number(known, Power(2, SextetBits))
    IN  SubSeq(Digits(n, Power(2, OctetBits), 3 * chunks), 1, (3 * Len(s)) \div 4)
=============================================================================
