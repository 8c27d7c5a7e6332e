---------------------------- MODULE MCSdkValues ----------------------------
(***************************************************************************)
(* The serializer and the integers over all small inputs: one is picked,   *)
(* and what is said of it is an invariant.                                 *)
(***************************************************************************)
EXTENDS AbiObjects, ChainValues

Int_ == Type("int", {})

MCAliases == [amount |-> Int_, maybe |-> Type("int", {"?"})]

Struct(base, fields) == [base |-> base, fields |-> fields]

MCStructs ==
    [empty |-> Struct("", <<>>),
     point |-> Struct("", <<Int_, Type("maybe", {})>>),
     point3 |-> Struct("point", <<Type("int", {"$"})>>),
     lists |-> Struct("", <<Type("int", {"[]"}), Type("amount", {"[]", "?"})>>),
     empties |-> Struct("", <<Type("empty", {"[]"})>>),
     grown |-> Struct("", <<Int_, Type("int", {"$"}), Type("int", {"$"})>>),
     grownList |-> Struct("", <<Int_, Type("int", {"[]", "$"})>>),
     grownAlias |-> Struct("", <<Int_, Type("amount", {"$"})>>),
     grownOptional |-> Struct("", <<Int_, Type("int", {"?", "$"})>>),
     grownOthers |-> Struct("", <<Type("color", {"$"}), Type("either", {"$"}), Type("tree", {"$"})>>),
     grownPair |-> Struct("", <<Type("flags", {"$"}), Type("pair", {"$"})>>),
     flags |-> Struct("", <<Type("bool", {"?"}), Type("color", {})>>),
     pair |-> Struct("", <<Type("flags", {}), Type("flags", {})>>),
     branch |-> Struct("", <<Type("tree", {})>>),
     looped |-> Struct("looped", <<Int_>>),
     around |-> Struct("", <<Type("point3", {}), Int_>>),
     node |-> Struct("", <<Type("node", {"?"})>>)]

MCVariants == [either |-> <<Int_, Type("point", {}), Type("bool", {"[]"})>>,
               tree |-> <<Type("branch", {}), Type("key", {})>>]

MCEnums == [color |-> [type |-> "int", values |-> << <<"red", 1>>, <<"blue", 2>>, <<"azure", 2>> >>]]

Types == {Type(name, s) : name \in DOMAIN MCAliases \cup DOMAIN MCStructs \cup DOMAIN MCVariants
                                      \cup DOMAIN MCEnums \cup Builtins,
                          s \in {{}, {"?"}, {"[]"}}}

\* Arrays of two are made of types with at most so many values.
MaxPaired == 12

RECURSIVE Values(_, _), Products(_, _)

\* The values of a type; fuel bounds how often a type contains itself.
Values(type, fuel) ==
    LET kind == KindOf(type.name)
        inner == CASE kind = "alias" -> Values(Aliases[type.name], fuel)
                   [] kind = "struct" ->
                        (IF fuel = 0 \/ ~HasFields(type.name) THEN {}
                         ELSE {Object(s) : s \in Products(AllFields(type.name), fuel - 1)})
                   [] kind = "variant" ->
                        UNION {{Variant(i - 1, v) : v \in Values(Variants[type.name][i], fuel)} :
                                   i \in DOMAIN Variants[type.name]}
                   [] kind = "enum" -> {Member("red"), Integer(3)}
                   [] type.name = "bool" -> {Bool(0), Bool(1)}
                   [] type.name = "key" -> {Key(2)}
                   [] OTHER -> {Integer(1), Integer(2)}
        full == IF type.isArray THEN {Array(<<>>)} \cup {Array(<<v>>) : v \in inner} \cup
                                     {Array(<<v, w>>) : v, w \in IF Cardinality(inner) > MaxPaired THEN {} ELSE inner}
                ELSE inner
    IN  full \cup (IF type.isOptional \/ type.isExtension THEN {Null} ELSE {})

Products(fields, fuel) ==
    IF fields = <<>> THEN {<<>>}
    ELSE {<<v>> \o s : v \in Values(Head(fields), fuel), s \in Products(Tail(fields), fuel)}

Marks == {"[]", "?", "$"}

Leaves == {Bool(0), Bool(1), Integer(2)}
InnerObjects == Leaves \cup {Array(<<Bool(1)>>)}
                    \cup UNION {{Plain(<< <<key, leaf>> >>) : leaf \in Leaves} : key \in {"a", "b"}}
Guessable == InnerObjects \cup {Plain(<< <<"a", v>>, <<"b", w>> >>) : v, w \in InnerObjects}
                 \cup {Array(<<v, w>>) : v, w \in InnerObjects}

MCIntTypes == {IntType(w, s) : w \in {1, 2, 4}, s \in BOOLEAN}
Numbers(type) == {[value |-> n, type |-> type] : n \in MinOf(type)..MaxOf(type)}

Inputs ==
    UNION {{<<"value", type, v>> : v \in Values(type, 5)} : type \in Types}
        \cup {<<"bytes", type, b>> : type \in Types, b \in UNION {[1..n -> 0..2] : n \in 0..4}}
        \cup {<<"text", <<"int">> \o s>> : s \in UNION {[1..n -> Marks] : n \in 0..4}}
        \cup {<<"classes", d>> : d \in [1..4 -> {<<>>, <<"x">>, <<"y", "z">>}]}
        \cup {<<"guess", v>> : v \in Guessable}
        \cup {<<"varuint", n>> : n \in 0..(2^MaxBits - 1)}
        \cup {<<"abi", n, version>> : n \in 7..10, version \in {"1.1", "2.0"}}
        \cup {<<"ints", a, b>> : a, b \in UNION {Numbers(t) : t \in MCIntTypes}}
        \cup {<<"number", n, t>> : n \in -40..40, t \in MCIntTypes}
        \cup {<<"uint256", a, b>> : a, b \in 0..MaxUInt256}
        \cup {<<"asset", n, p>> : n \in -120..120, p \in 0..3}

Unpicked == input = <<>>

Pick == input = <<>> /\ input' \in Inputs

---------------------------------------------------------------------------
(* The serializer.                                                         *)

IsEmpty(v) == v[1] = "object" /\ Range(v[2]) \subseteq {Null}

RECURSIVE HasEmptyElement(_)
HasEmptyElement(v) ==
    CASE v[1] = "array" -> \E i \in DOMAIN v[2] : IsEmpty(v[2][i]) \/ HasEmptyElement(v[2][i])
      [] v[1] = "object" -> \E i \in DOMAIN v[2] : HasEmptyElement(v[2][i])
      [] v[1] = "variant" -> HasEmptyElement(v[3])
      [] OTHER -> FALSE

Gap == 9

\* A missing extension is followed by bytes.
Followed(marked) == \E i, j \in DOMAIN marked : i < j /\ marked[i] = Gap /\ marked[j] # Gap
GapInside(value, type) == Followed(EncodeAny(value, type, <<Gap>>))

\* Types with an alias of an optional type: as objects they refuse its null.
RefusesNull == {"maybe", "point", "point3", "around", "either", "grownOthers"}

\* An extension that an alias or an array cannot leave out.
Unwritable == {"grownList", "grownAlias"}

\* back is what is read from the bytes of a value, made what is made of it.
ReadAsMade(value, type, bytes, back, made) ==
    \/ back = made
    \/ /\ type.name \in RefusesNull /\ ~made.ok
       /\ back.ok /\ AbiEncode(back.value, type) = bytes
    \/ ~back.ok /\ HasEmptyElement(value)
    \/ ~back.ok /\ DecodeBinary(type, bytes, [depth |-> -4 * MaxDepth, strict |-> FALSE]) = made

(***************************************************************************)
(* A value that is written is read back as it was, with no bytes left, but *)
(* for an optional false, which the constructor of a class takes for none. *)
(* The exceptions are the code's: a missing extension writes nothing, so   *)
(* what follows it is read in its place; elements of no bytes and values   *)
(* nested too deep are written but refused when read.                      *)
(***************************************************************************)
ValuesAreRead ==
    Is("value") =>
        LET type == input[2]
            value == input[3]
            bytes == AbiEncode(value, type)
        IN  bytes # Failed /\ ~GapInside(value, type) =>
                ReadAsMade(value, type, bytes, AbiDecode(bytes, type, FALSE), DecodeObject(value, type, FALSE))

WrittenAsRead(got, bytes, type) ==
    IF bytes = Failed THEN got.rest = <<>> /\ type.name \in Unwritable
    ELSE AbiDecode(bytes, type, FALSE) = Got(got.value, <<>>)

(***************************************************************************)
(* What was read from any bytes can be written, as the wallet does with    *)
(* the actions of a request, and is then read as the same value; only a    *)
(* missing extension of an alias or an array type cannot be written.       *)
(***************************************************************************)
ReadIsWritten ==
    Is("bytes") =>
        LET got == AbiDecode(input[3], input[2], FALSE)
        IN  got.ok => WrittenAsRead(got, AbiEncode(got.value, input[2]), input[2])

SameOrRefused(read, got, type) == read = got \/ (~read.ok /\ type.name \in RefusesNull)

EqualIfRead(read, back, json, type) ==
    /\ SameOrRefused(read, back, type)
    /\ read = back => Equals(back.value, json, type)

ReadUntagged(read, back, untagged, type) ==
    TypeNameOf(untagged) # <<>> /\ read.ok =>
        /\ DecodeObject(untagged, type, FALSE) = back
        /\ AbiEncode(untagged, type) = AbiEncode(back.value, type)

\* back and strict are what is read from bytes.
SameFromJson(type, back, strict) ==
    LET json == ToJson(back.value)
        read == DecodeObject(json, type, FALSE)
    IN  back.ok =>
            /\ EqualIfRead(read, back, json, type)
            /\ ReadUntagged(read, back, Untagged(back.value), type)
            /\ SameOrRefused(DecodeObject(json, type, TRUE), strict, type)
            /\ strict.ok => AbiDecode(AbiEncode(strict.value, type), type, FALSE) = strict

(***************************************************************************)
(* What was read from bytes is read again from its JSON, and equals it;    *)
(* and with strictExtensions bytes and JSON that end early give the same   *)
(* value or both fail, and it is one that can be written.  A value of a    *)
(* variant need not be tagged where its type tells which case it is.       *)
(***************************************************************************)
ObjectsAreRead ==
    Is("value") =>
        LET type == input[2]
            bytes == AbiEncode(input[3], type)
        IN  bytes # Failed /\ ~GapInside(input[3], type) =>
                SameFromJson(type, AbiDecode(bytes, type, FALSE), AbiDecode(bytes, type, TRUE))

RECURSIVE LeavesOf(_)
LeavesOf(v) == CASE v[1] = "plain" -> FlattenSeq([i \in DOMAIN v[2] |-> LeavesOf(v[2][i][2])])
                 [] v[1] = "array" -> <<Len(v[2])>> \o FlattenSeq([i \in DOMAIN v[2] |-> LeavesOf(v[2][i])])
                 [] OTHER -> <<v[2]>>

RECURSIVE Nested(_)
Nested(v) == IF v[1] # "plain" THEN {v} ELSE {v} \cup UNION {Nested(f[2]) : f \in Range(v[2])}

\* What the guess of a type gets wrong: arrays within, and objects of one
\* depth that differ.
Misguessed(value) ==
    LET parts == IF value[1] = "array" THEN Range(value[2]) ELSE {f[2] : f \in Range(value[2])}
        inside == UNION {Nested(v) : v \in parts}
    IN  \/ \E v \in inside : v[1] = "array"
        \/ \E v, w \in parts : v[1] = "plain" /\ w[1] = "plain" /\ GetType(v, 0) # GetType(w, 0)

(***************************************************************************)
(* Types are the same by whichever way they are declared: the text of a    *)
(* type is read as the type it was written for, and suffixes in another    *)
(* order are no type; the struct synthesized from a class has the fields   *)
(* its instances are made of, each class of the chain once, those that     *)
(* declare none included; and an object without a type is written as its   *)
(* leaves, in order.                                                       *)
(***************************************************************************)
DeclaredTypes ==
    /\ Is("text") =>
           LET type == ResolvedType(input[2])
           IN  /\ Tail(input[2]) = type.rest \o Tail(TypeText(type))
               /\ type.name = "int" <=> \E s \in SUBSET Marks : TypeText(Type("int", s)) = input[2]
    /\ Is("classes") =>
           \A i \in 1..Len(input[2]) :
               LET all == FlattenSeq(SubSeq(input[2], 1, i))
               IN  /\ StructFields(input[2], i) = all
                   /\ SynthesizedFields(SynthesizeABI(input[2], i), i) = all
    /\ Is("guess") =>
           LET value == input[2]
               bytes == AbiEncodeGuessed(value)
           IN  IF value[1] \notin {"plain", "array"} THEN bytes = LeavesOf(value)
               ELSE bytes # Failed /\ ~Misguessed(value) => bytes = LeavesOf(value)

(***************************************************************************)
(* Every number of the width is read back from its bytes, signed or not,   *)
(* with what follows it untouched; and an ABI of a writer that knew only   *)
(* some of the later sections is read with the others empty.               *)
(***************************************************************************)
VarintsAndAbis ==
    /\ Is("varuint") =>
           LET n == input[2]
               signed == IF n >= 2^(MaxBits - 1) THEN n - 2^MaxBits ELSE n
           IN  /\ ReadVaruint32(WriteVaruint32(n) \o <<1>>) = Got(n, <<1>>)
               /\ ReadVarint32(WriteVarint32(signed) \o <<1>>) = Got(signed, <<1>>)
    /\ Is("abi") =>
           LET n == input[2]
               def == [version |-> input[3], sections |-> [i \in DOMAIN Sections |-> <<i>>]]
               got == FromAbi(ToAbi(def, n, <<>>))
           IN  \A i \in DOMAIN Sections :
                   got.sections[i] = IF i <= n /\ Sections[i] \notin {"errors", "extensions"}
                                     THEN def.sections[i] ELSE <<>>

(***************************************************************************)
(* What the serializer writes, values of any type, varints and ABIs, it    *)
(* reads back, from bytes or objects, and what it reads it can write: the  *)
(* statements above.                                                       *)
(***************************************************************************)
CodecIsFaithful ==
    ValuesAreRead /\ ReadIsWritten /\ ObjectsAreRead /\ DeclaredTypes /\ VarintsAndAbis
=============================================================================
