----------------------------- MODULE AbiObjects -----------------------------
(***************************************************************************)
(* Values as objects of the language: read from JSON or from what a        *)
(* caller wrote, made into the instances of classes, and written by a type *)
(* that is declared by classes, or guessed from the value.                 *)
(***************************************************************************)
EXTENDS AbiCodec

---------------------------------------------------------------------------
(* Decoding an object.                                                     *)

RECURSIVE DecodeObject(_, _, _), DecodeObjectInner(_, _, _), DecodeEach(_, _, _), DecodeCase(_, _, _, _)

\* The values, if each was decoded.
AllOf(gots) ==
    IF \E got \in Range(gots) : ~got.ok THEN NotDecoded
    ELSE Got([i \in DOMAIN gots |-> gots[i].value], <<>>)

DecodeObject(value, type, strict) ==
    IF value = Null
    THEN IF type.isOptional THEN Got(Null, <<>>)
         ELSE IF type.isExtension THEN Missing(type, strict)
         ELSE NotDecoded
    ELSE IF ~type.isArray THEN DecodeObjectInner(value, type, strict)
    ELSE IF value[1] # "array" THEN NotDecoded
    ELSE Made(AllOf([i \in DOMAIN value[2] |-> DecodeObjectInner(value[2][i], type, strict)]), Array)

\* The fields by their types; what the object has besides is left out.
DecodeEach(value, types, strict) ==
    AllOf([i \in DOMAIN types |-> DecodeObject(Field(value, i), types[i], strict)])

\* An instance of the class is taken as it is.
DecodeObjectInner(value, type, strict) ==
    LET kind == KindOf(type.name)
    IN  CASE kind = "alias" -> DecodeObject(value, Aliases[type.name], strict)
          [] kind = "struct" ->
               IF value = Null \/ value[1] \in Primitives THEN NotDecoded
               ELSE IF value[1] = "object" /\ value[3] = type.name /\ type.name \in Classes
               THEN Got(value, <<>>)
               ELSE IF ~HasFields(type.name) THEN NotDecoded
               ELSE Made(DecodeEach(value, AllFields(type.name), strict),
                         LAMBDA s : MadeStruct(type.name, s))
          [] kind = "enum" ->
               IF value[1] # "name" THEN Got(MemberOf(value[2], Enums[type.name]), <<>>)
               ELSE IF \E m \in Range(Enums[type.name].values) : m[1] = value[2] THEN Got(value, <<>>)
               ELSE NotDecoded
          [] kind = "variant" ->
               DecodeCase(value, IndexOf(value, Variants[type.name]), Variants[type.name], strict)
          [] kind = "builtin" ->
               IF type.name = "bool" \/ value[1] = type.name THEN Got(value, <<>>) ELSE NotDecoded
          [] OTHER -> IF type.name = "any" THEN Got(value, <<>>) ELSE NotDecoded

DecodeCase(value, index, types, strict) ==
    IF index = NoIndex THEN NotDecoded
    ELSE Made(DecodeObject(Untagged(value), types[index + 1], strict), LAMBDA v : Variant(index, v))

RECURSIVE ToJson(_)

\* Instances of classes become plain objects.
ToJson(value) ==
    CASE value[1] = "array" -> Array([i \in DOMAIN value[2] |-> ToJson(value[2][i])])
      [] value[1] = "object" -> Object([i \in DOMAIN value[2] |-> ToJson(value[2][i])])
      [] value[1] = "variant" -> Variant(value[2], ToJson(value[3]))
      [] OTHER -> value

\* Struct.equals and Variant.equals: the other one is read as an object first.
Equals(value, other, type) ==
    LET read == DecodeObject(other, type, FALSE)
    IN  read.ok /\ AbiEncode(value, type) = AbiEncode(read.value, type)

---------------------------------------------------------------------------
(* The text of a type: a name and suffixes, of which $, ? and [] are       *)
(* stripped from the end, in this order.  What is not stripped stays in    *)
(* the name.                                                               *)

WithoutLast(text, suffix) ==
    IF Len(text) > 1 /\ text[Len(text)] = suffix THEN Front(text) ELSE text

ResolvedType(text) ==
    LET required == WithoutLast(text, "$")
        present == WithoutLast(required, "?")
        element == WithoutLast(present, "[]")
    IN  [name |-> IF Len(element) = 1 THEN element[1] ELSE "unknown", rest |-> Tail(element),
         isExtension |-> required # text, isOptional |-> present # required,
         isArray |-> element # present]

---------------------------------------------------------------------------
(* Structs declared by classes: class i extends class i - 1 and declares   *)
(* the fields declared[i].  What a class does not set it inherits.         *)

RECURSIVE Statics(_, _), StructFields(_, _)

\* The decorator of a field starts new fields where those found are another's.
Statics(declared, i) ==
    IF i = 0 THEN [fields |-> <<>>, owner |-> 0, base |-> 0]
    ELSE LET inherited == Statics(declared, i - 1)
         IN  IF declared[i] = <<>> THEN inherited
             ELSE [fields |-> declared[i], owner |-> i, base |-> inherited.owner]

\* The fields a class makes its instances of.
StructFields(declared, i) ==
    LET own == Statics(declared, i)
    IN  (IF own.base = 0 THEN <<>> ELSE StructFields(declared, own.base)) \o own.fields

RECURSIVE SynthesizeABI(_, _)

\* The structs of an ABI made from a class: those of its bases, and its own.
SynthesizeABI(declared, i) ==
    LET own == Statics(declared, i)
    IN  (IF own.base = 0 THEN {} ELSE SynthesizeABI(declared, own.base))
            \cup {[name |-> i, base |-> own.base, fields |-> own.fields]}

RECURSIVE SynthesizedFields(_, _)

\* What such an ABI says of a struct.
SynthesizedFields(structs, name) ==
    LET struct == CHOOSE s \in structs : s.name = name
    IN  (IF struct.base = 0 THEN <<>> ELSE SynthesizedFields(structs, struct.base)) \o struct.fields

---------------------------------------------------------------------------
(* A type guessed from an object: plain objects are sequences of           *)
(* <<key, value>> here.  The type of an array is that of its elements, and *)
(* objects of the same depth have the same name, of which the first found  *)
(* is the struct.                                                          *)

Plain(s) == <<"plain", s>>
Unknown == [kind |-> "unknown"]

RECURSIVE GetType(_, _), FirstStruct(_, _), EncodeGuessed(_, _, _)

GetType(value, depth) ==
    CASE value[1] = "array" ->
           LET types == [i \in DOMAIN value[2] |-> GetType(value[2][i], depth)]
           IN  IF types = <<>> \/ \E t \in Range(types) : t = Unknown \/ t.name # types[1].name
               THEN Unknown ELSE types[1]
      [] value[1] = "plain" ->
           LET fields == [i \in DOMAIN value[2] |-> [key |-> value[2][i][1],
                                                     type |-> GetType(value[2][i][2], depth + 1)]]
           IN  IF \E f \in Range(fields) : f.type = Unknown THEN Unknown
               ELSE [kind |-> "struct", name |-> <<"jsobj", depth>>, fields |-> fields]
      [] OTHER -> [kind |-> "builtin", name |-> <<value[1]>>, fields |-> <<>>]

\* The struct a name finds: those of the fields come before the object's own.
FirstStruct(type, name) ==
    LET found == {i \in DOMAIN type.fields : FirstStruct(type.fields[i].type, name) # Unknown}
    IN  IF found # {} THEN FirstStruct(type.fields[CHOOSE i \in found : \A j \in found : i <= j].type, name)
        ELSE IF type.kind = "struct" /\ type.name = name THEN type
        ELSE Unknown

\* The value of a key, if the object has it.
At(value, key) ==
    LET found == {f \in Range(value[2]) : f[1] = key}
    IN  IF value[1] # "plain" \/ found = {} THEN Null ELSE (CHOOSE f \in found : TRUE)[2]

\* A field is never an array here: an array is written as if it were an element.
EncodeGuessed(value, type, root) ==
    LET struct == FirstStruct(root, type.name)
    IN  IF value = Null THEN Failed
        ELSE IF type.kind = "builtin" THEN EncodeBuiltin(value, type.name[1])
        ELSE IF value[1] \in Primitives THEN Failed
        ELSE Join([i \in DOMAIN struct.fields |->
                      EncodeGuessed(At(value, struct.fields[i].key), struct.fields[i].type, root)])

\* abiEncode of an object without a type; the root may be an array.
AbiEncodeGuessed(value) ==
    LET type == GetType(value, 0)
    IN  IF type = Unknown THEN Failed
        ELSE IF value[1] = "array"
        THEN Join(<< <<Len(value[2])>> >> \o [i \in DOMAIN value[2] |-> EncodeGuessed(value[2][i], type, type)])
        ELSE EncodeGuessed(value, type, type)
=============================================================================
