------------------------------ MODULE AbiCodec ------------------------------
(***************************************************************************)
(* The ABI serializer: how the types of an ABI are resolved, and values    *)
(* written to bytes and read back.                                         *)
(*                                                                         *)
(* Three builtin types of one byte stand for the others: "int" a class     *)
(* whose instances carry the value, "bool" carried by the language's own   *)
(* values, "key" a class without a default.  Lengths and variant indexes   *)
(* are one byte here, their own coding is at the end.  A value is a tagged *)
(* tuple, an object the sequence of its fields.                            *)
(***************************************************************************)
EXTENDS Integers, Sequences, SequencesExt, FiniteSets

CONSTANTS
    Aliases, Structs, Variants, Enums,  \* the ABI: functions of type names
    Classes,                        \* the structs that have a class of their own
    MaxDepth,                       \* 32: the longest coding path of the decoder
    PayloadBits, MaxBits            \* of a varuint32: 7 and 32

ASSUME AbiCodecAssumption ==
    /\ MaxDepth \in Nat /\ PayloadBits \in Nat \ {0} /\ MaxBits \in Nat \ {0}
    /\ Classes \subseteq DOMAIN Structs

Builtins == {"int", "bool", "key"}

---------------------------------------------------------------------------
(* Types: a name and the suffixes [], ? and $.                             *)

Type(name, suffixes) ==
    [name |-> name, isArray |-> "[]" \in suffixes, isOptional |-> "?" \in suffixes,
     isExtension |-> "$" \in suffixes]

Null == <<"null">>
Integer(n) == <<"int", n>>
Bool(b) == <<"bool", b>>
Key(n) == <<"key", n>>
Member(name) == <<"name", name>>
Array(s) == <<"array", s>>
Object(s) == <<"object", s, "">>
InstanceOf(class, s) == <<"object", s, class>>
Variant(i, v) == <<"variant", i, v>>

\* What a name stands for: the sections of the ABI in the order of resolve.
KindOf(name) ==
    IF name \in DOMAIN Aliases THEN "alias"
    ELSE IF name \in DOMAIN Structs THEN "struct"
    ELSE IF name \in DOMAIN Variants THEN "variant"
    ELSE IF name \in DOMAIN Enums THEN "enum"
    ELSE IF name \in Builtins THEN "builtin" ELSE "unknown"

RECURSIVE BasesAreSound(_, _), AllFields(_)

\* Every base is a struct, and none its own: otherwise allFields is undefined.
BasesAreSound(name, seen) ==
    /\ KindOf(name) = "struct" /\ name \notin seen
    /\ Structs[name].base # "" => BasesAreSound(Structs[name].base, seen \cup {name})

HasFields(name) == BasesAreSound(name, {})

\* The fields of a struct after those of its bases.
AllFields(name) ==
    (IF Structs[name].base = "" THEN <<>> ELSE AllFields(Structs[name].base)) \o Structs[name].fields

\* [], ? and $ as they follow the name.
TypeText(type) ==
    <<type.name>> \o (IF type.isArray THEN <<"[]">> ELSE <<>>)
        \o (IF type.isOptional THEN <<"?">> ELSE <<>>) \o (IF type.isExtension THEN <<"$">> ELSE <<>>)

RECURSIVE TypeNameOf(_)

\* The type text that a value itself tells, <<>> if it does not.
TypeNameOf(value) ==
    CASE value[1] = "array" ->
           IF value[2] = <<>> \/ \E v \in Range(value[2]) : TypeNameOf(v) # TypeNameOf(value[2][1])
                             \/ TypeNameOf(value[2][1]) = <<>>
           THEN <<>> ELSE TypeNameOf(value[2][1]) \o <<"[]">>
      [] value[1] = "object" -> IF value[3] = "" THEN <<>> ELSE <<value[3]>>
      [] value[1] = "name" -> <<"string">>
      [] value[1] \in Builtins -> <<value[1]>>
      [] OTHER -> <<>>

NoIndex == -1

\* The case of a variant, and its value: tagged, or by what the value is.
IndexOf(value, types) ==
    IF value[1] = "variant" THEN (IF value[2] < Len(types) THEN value[2] ELSE NoIndex)
    ELSE LET is(t) == TypeText(t) = TypeNameOf(value)
         IN  IF \E i \in DOMAIN types : is(types[i]) THEN SelectInSeq(types, is) - 1 ELSE NoIndex

Untagged(value) == IF value[1] = "variant" THEN value[3] ELSE value

\* A field of anything that is an object of the language; strings and
\* booleans are not.
Primitives == {"bool", "name"}
Field(value, i) == IF value[1] = "object" /\ i \in DOMAIN value[2] THEN value[2][i] ELSE Null

---------------------------------------------------------------------------
(* Encoding: the bytes, or Failed.  gap is what a missing extension        *)
(* writes: nothing.                                                        *)

Failed == <<-1>>

\* The parts one after the other, if all of them can be written.
Join(parts) == IF Failed \in Range(parts) THEN Failed ELSE FlattenSeq(parts)

\* Anything but true is written as false.
EncodeBuiltin(value, name) ==
    CASE name = "bool" -> <<IF value = Bool(1) THEN 1 ELSE 0>>
      [] name \in Builtins /\ value[1] = name -> <<value[2]>>
      [] OTHER -> Failed

\* A member by its name, or a number; the type is not looked up in the ABI.
EncodeEnum(value, enum) ==
    LET named(m) == m[1] = value[2]
    IN  CASE value[1] = "name" ->
               IF \E m \in Range(enum.values) : named(m)
               THEN EncodeBuiltin(Integer(SelectSeq(enum.values, named)[1][2]), enum.type)
               ELSE Failed
          [] value[1] \in Builtins -> EncodeBuiltin(Integer(value[2]), enum.type)
          [] OTHER -> Failed

RECURSIVE EncodeAny(_, _, _), EncodeInner(_, _, _), EncodeFields(_, _, _), EncodeCase(_, _, _, _)

\* Mutant: no flag before an optional array.
EncodeAnyFlagless(value, type, gap) ==
    IF type.isOptional /\ value = Null THEN <<0>>
    ELSE IF ~type.isArray
    THEN Join(<<IF type.isOptional THEN <<1>> ELSE <<>>, EncodeInner(value, type, gap)>>)
    ELSE IF value[1] # "array" THEN Failed
    ELSE Join(<< <<Len(value[2])>> >> \o [i \in DOMAIN value[2] |-> EncodeInner(value[2][i], type, gap)])

EncodeAny(value, type, gap) ==
    IF type.isOptional /\ value = Null THEN <<0>>
    ELSE LET flag == IF type.isOptional THEN <<1>> ELSE <<>>
             body == IF ~type.isArray THEN EncodeInner(value, type, gap)
                     ELSE IF value[1] # "array" THEN Failed
                     ELSE Join(<< <<Len(value[2])>> >> \o
                               [i \in DOMAIN value[2] |-> EncodeInner(value[2][i], [type EXCEPT !.isExtension = FALSE], gap)])
         IN  Join(<<flag, body>>)

\* An alias is followed before the value is found to be missing.
EncodeInner(value, type, gap) ==
    LET kind == KindOf(type.name)
    IN  IF kind = "alias" THEN EncodeAny(value, Aliases[type.name], gap)
        ELSE IF value = Null THEN (IF type.isExtension THEN gap ELSE Failed)
        ELSE CASE kind = "struct" ->
                    IF value[1] \in Primitives \/ ~HasFields(type.name) THEN Failed
                    ELSE EncodeFields(value, AllFields(type.name), gap)
               [] kind = "variant" ->
                    EncodeCase(value, IndexOf(value, Variants[type.name]), Variants[type.name], gap)
               [] kind = "enum" -> EncodeEnum(value, Enums[type.name])
               [] OTHER -> EncodeBuiltin(value, type.name)

EncodeFields(value, fields, gap) ==
    Join([i \in DOMAIN fields |-> EncodeAny(Field(value, i), fields[i], gap)])

EncodeCase(value, index, types, gap) ==
    IF index = NoIndex THEN Failed
    ELSE Join(<< <<index>>, EncodeAny(Untagged(value), types[index + 1], gap) >>)

AbiEncode(value, type) == EncodeAny(value, type, <<>>)

---------------------------------------------------------------------------
(* What the decoders make.                                                 *)

NotDecoded == [ok |-> FALSE]
Got(value, rest) == [ok |-> TRUE, value |-> value, rest |-> rest]

\* What is made of what was decoded, if it was; and with another rest.
Made(got, Of(_)) == IF got.ok THEN Got(Of(got.value), got.rest) ELSE NotDecoded
WithRest(got, rest) == IF got.ok THEN Got(got.value, rest) ELSE NotDecoded
Before(first, others) == Made(others, LAMBDA s : <<first>> \o s)

Falsy(value) == value \in {Null, Bool(0)}

\* The constructor of a class leaves out the optional fields that are falsy.
MadeStruct(name, values) ==
    IF name \notin Classes THEN Object(values)
    ELSE InstanceOf(name, [i \in DOMAIN values |->
                              IF AllFields(name)[i].isOptional /\ Falsy(values[i]) THEN Null
                              ELSE values[i]])

\* The first member of a number, or the number.
MemberOf(n, enum) ==
    LET is(m) == m[2] = n
    IN  IF \E m \in Range(enum.values) : is(m) THEN Member(SelectSeq(enum.values, is)[1][1]) ELSE Integer(n)

RECURSIVE DefaultValue(_, _, _), DefaultFields(_, _, _), DefaultRest(_, _, _)

(* The value of a type as it is initialized.  seen are the names met in    *)
(* the struct around it, its other fields included: a second one is called *)
(* circular.  A variant starts anew, so a circle through one, which path   *)
(* detects here, exhausts the stack.                                       *)
DefaultValue(type, seen, path) ==
    LET kind == KindOf(type.name)
        met == seen \cup {type.name}
    IN  IF type.isArray THEN Got(Array(<<>>), seen)
        ELSE IF type.isOptional THEN Got(Null, seen)
        ELSE IF type.name = "int" THEN Got(Integer(0), seen)
        ELSE IF type.name = "bool" THEN Got(Bool(0), seen)
        ELSE IF type.name \in seen THEN NotDecoded
        ELSE CASE kind = "struct" /\ HasFields(type.name) ->
                    Made(DefaultFields(AllFields(type.name), met, path),
                         LAMBDA s : MadeStruct(type.name, s))
               [] kind = "enum" ->
                    LET values == Enums[type.name].values
                    IN  Got(IF values = <<>> THEN Integer(0) ELSE Member(values[1][1]), met)
               [] kind = "variant" ->
                    IF type.name \in path THEN NotDecoded
                    ELSE WithRest(Made(DefaultValue(Variants[type.name][1], {}, path \cup {type.name}),
                                       LAMBDA v : Variant(0, v)), met)
               [] kind = "alias" -> DefaultValue(Aliases[type.name], met, path)
               [] OTHER -> NotDecoded

\* The fields one after the other, each with the names met before it.
DefaultFields(types, seen, path) ==
    IF types = <<>> THEN Got(<<>>, seen)
    ELSE DefaultRest(DefaultValue(Head(types), seen, path), Tail(types), path)

DefaultRest(first, types, path) ==
    IF ~first.ok THEN NotDecoded
    ELSE Before(first.value, DefaultFields(types, first.rest, path))

Missing(type, strict) ==
    IF strict THEN WithRest(DefaultValue(type, {}, {}), <<>>) ELSE Got(Null, <<>>)

---------------------------------------------------------------------------
(* Decoding: the value and what is left of the bytes, or NotDecoded.  ctx  *)
(* is the length of the coding path and the handling of extensions.        *)

Deeper(ctx) == [ctx EXCEPT !.depth = @ + 1]

RECURSIVE DecodeBinary(_, _, _), DecodeInner(_, _, _), DecodeElements(_, _, _, _), DecodeFields(_, _, _),
    ElementsFrom(_, _, _, _, _), FieldsFrom(_, _, _)

DecodeBinary(type, bytes, ctx) ==
    IF ctx.depth > MaxDepth THEN NotDecoded
    ELSE IF type.isExtension /\ bytes = <<>> THEN Missing(type, ctx.strict)
    ELSE IF type.isOptional /\ bytes = <<>> THEN NotDecoded
    ELSE IF type.isOptional /\ Head(bytes) = 0 THEN Got(Null, Tail(bytes))
    ELSE LET body == IF type.isOptional THEN Tail(bytes) ELSE bytes
         IN  IF ~type.isArray THEN DecodeInner(type, body, ctx)
             ELSE IF body = <<>> THEN NotDecoded
             ELSE Made(DecodeElements(type, Tail(body), Head(body), ctx), Array)

DecodeElements(type, bytes, n, ctx) ==
    IF n = 0 THEN Got(<<>>, bytes)
    ELSE ElementsFrom(DecodeInner(type, bytes, Deeper(ctx)), type, bytes, n, ctx)

\* An element that takes no bytes is refused.
ElementsFrom(first, type, bytes, n, ctx) ==
    IF ~first.ok \/ first.rest = bytes THEN NotDecoded
    ELSE Before(first.value, DecodeElements(type, first.rest, n - 1, ctx))

DecodeFields(types, bytes, ctx) ==
    IF types = <<>> THEN Got(<<>>, bytes)
    ELSE FieldsFrom(DecodeBinary(Head(types), bytes, ctx), Tail(types), ctx)

FieldsFrom(first, types, ctx) ==
    IF ~first.ok THEN NotDecoded ELSE Before(first.value, DecodeFields(types, first.rest, ctx))

DecodeInner(type, bytes, ctx) ==
    LET kind == KindOf(type.name)
        types == Variants[type.name]
    IN  CASE kind = "alias" -> DecodeBinary(Aliases[type.name], bytes, Deeper(ctx))
          [] kind = "struct" ->
               IF ~HasFields(type.name) THEN NotDecoded
               ELSE Made(DecodeFields(AllFields(type.name), bytes, Deeper(ctx)),
                         LAMBDA s : MadeStruct(type.name, s))
          [] kind \notin {"alias", "struct"} /\ bytes = <<>> -> NotDecoded
          [] kind = "variant" /\ bytes # <<>> ->
               IF Head(bytes) >= Len(types) THEN NotDecoded
               ELSE Made(DecodeBinary(types[Head(bytes) + 1], Tail(bytes), Deeper(ctx)),
                         LAMBDA v : Variant(Head(bytes), v))
          [] kind = "enum" /\ bytes # <<>> -> Got(MemberOf(Head(bytes), Enums[type.name]), Tail(bytes))
          [] kind = "builtin" /\ bytes # <<>> ->
               Got(<<type.name, IF type.name = "bool" /\ Head(bytes) # 0 THEN 1 ELSE Head(bytes)>>, Tail(bytes))
          [] OTHER -> NotDecoded

\* abiDecode looks at no bytes after the value.
AbiDecode(bytes, type, strict) == DecodeBinary(type, bytes, [depth |-> 1, strict |-> strict])

---------------------------------------------------------------------------
(* varuint32 and varint32.                                                 *)

VaruintBase == 2^PayloadBits
Width == 2^MaxBits                   \* VaruintBase is also the continuation bit

RECURSIVE WriteVaruint32(_), ReadFrom(_, _, _)
WriteVaruint32(v) == IF v \div VaruintBase = 0 THEN <<v>>
                     ELSE <<VaruintBase + (v % VaruintBase)>> \o WriteVaruint32(v \div VaruintBase)

\* Bits over the width fall off; the byte that reaches it is the last.
ReadFrom(bytes, v, bit) ==
    IF bytes = <<>> THEN NotDecoded
    ELSE LET read == (v + (Head(bytes) % VaruintBase) * 2^bit) % Width
         IN  IF Head(bytes) < VaruintBase \/ bit + PayloadBits >= MaxBits
             THEN Got(read, Tail(bytes))
             ELSE ReadFrom(Tail(bytes), read, bit + PayloadBits)

ReadVaruint32(bytes) == ReadFrom(bytes, 0, 0)

\* (v << 1) ^ (v >> 31) of a signed v, as unsigned.
WriteVarint32(v) == WriteVaruint32(IF v >= 0 THEN 2 * v ELSE -2 * v - 1)

\* Odd: (~v >> 1) | sign bit; even: v >>> 1.
ReadVarint32(bytes) ==
    LET read == ReadVaruint32(bytes)
    IN  IF ~read.ok THEN NotDecoded
        ELSE Got(IF read.value % 2 = 1 THEN -(read.value \div 2) - 1 ELSE read.value \div 2, read.rest)

---------------------------------------------------------------------------
(* The binary form of an ABI itself: its sections in order, of which the   *)
(* last ones were added to the format one by one.                          *)

Sections == <<"types", "structs", "actions", "tables", "clauses", "errors", "extensions",
              "variants", "action_results", "enums">>
Required == 7

\* What a writer that knows the first n sections leaves; ours knows them all
\* and ends with the empty protobuf_types if it is a version 1.x.
ToAbi(def, n, trailers) == <<def.version>> \o [i \in 1..n |-> def.sections[i]] \o trailers

\* A missing section is empty; what follows the last one is drained if it is
\* text, that is, in versions 1.x.  Error messages and extensions are skipped.
FromAbi(bytes) ==
    IF Len(bytes) < Required + 1 THEN [ok |-> FALSE]
    ELSE [ok |-> TRUE, version |-> Head(bytes),
          sections |-> [i \in DOMAIN Sections |->
                           IF i < Len(bytes) /\ Sections[i] \notin {"errors", "extensions"}
                           THEN bytes[i + 1] ELSE <<>>]]
=============================================================================
