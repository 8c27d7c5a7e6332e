----------------------------- MODULE TableRows -----------------------------
(***************************************************************************)
(* The tables and actions of a contract: get_table_rows and what is made   *)
(* of the node's answer, getRows, the table clients of a contract, and the *)
(* actions that contract clients build.                                    *)
(*                                                                         *)
(* A row is a number, its key.  A bound is the kind of value it is and the *)
(* key; a text sent or received is the notation it is in and the key.      *)
(***************************************************************************)
EXTENDS Integers, Sequences, SequencesExt

CONSTANTS Unset, Wrong  \* an option that is not given, an exception

ASSUME TableAssumption == Unset # Wrong

Default(option, value) == IF option = Unset THEN value ELSE option

---------------------------------------------------------------------------
(* What is asked.                                                          *)

KeyTypes == [UInt64 |-> "i64", UInt128 |-> "i128", Checksum256 |-> "sha256",
             Checksum160 |-> "ripemd160"]

\* The key type follows from a bound's type, for some types of bounds.
KeyTypeOf(params) ==
    LET bound == Default(params.lower, params.upper)
    IN  IF params.keyType # Unset THEN params.keyType
        ELSE IF bound # Unset /\ bound[1] \in DOMAIN KeyTypes THEN KeyTypes[bound[1]] ELSE "name"

Notations == [UInt64 |-> "decimal", UInt128 |-> "decimal", Float64 |-> "decimal",
              Float128 |-> "decimal", Checksum256 |-> "hex", Checksum160 |-> "hex",
              Name |-> "name", cursor |-> "cursor"]

BoundText(bound) == IF bound = Unset THEN Unset ELSE <<Notations[bound[1]], bound[2]>>

\* If the type of the rows is known the node need not decode them.
Json(params) == Default(params.json, ~params.typed)

Request(params) ==
    [keyType |-> KeyTypeOf(params), json |-> Json(params), lower |-> BoundText(params.lower),
     upper |-> BoundText(params.upper), limit |-> params.limit, reverse |-> params.reverse,
     showPayer |-> params.showPayer]

---------------------------------------------------------------------------
(* The node, modelled from how it is used: a table is the sequence of its  *)
(* rows, each with its value, which may be undecodable, and its payer.     *)

Readable(text, keyType) ==
    text = Unset \/ text[1] \in
        (CASE keyType = "name" -> {"name", "cursor"}
           [] keyType = "i64" -> {"decimal", "name", "cursor"}
           [] keyType \in {"sha256", "ripemd160"} -> {"hex", "cursor"}
           [] OTHER -> {"decimal", "cursor"})

Value(row, json) == IF json /\ row.decodable THEN <<row.shape, row.key>> ELSE <<"hex", row.key>>

\* KV tables wrap their rows; the others do where payers are asked for.
AnsweredRow(kv, row, request) ==
    IF kv THEN [wrapped |-> "kv", value |-> Value(row, request.json),
                payer |-> IF row.payer = Unset THEN "" ELSE row.payer]
    ELSE IF request.showPayer THEN [wrapped |-> "payer", value |-> Value(row, request.json),
                                    payer |-> IF row.payer = Unset THEN "" ELSE row.payer]
    ELSE [wrapped |-> "no", value |-> Value(row, request.json), payer |-> ""]

AnswerRows(kv, table, request) ==
    LET within(row) ==
            /\ request.lower # Unset => row.key >= request.lower[2]
            /\ request.upper # Unset => row.key <= request.upper[2]
        all == SelectSeq(IF request.reverse THEN Reverse(table) ELSE table, within)
        more == Len(all) > request.limit
    IN  IF ~Readable(request.lower, request.keyType) \/ ~Readable(request.upper, request.keyType)
        THEN Wrong
        ELSE [rows |-> [i \in 1..(IF more THEN request.limit ELSE Len(all)) |->
                           AnsweredRow(kv, all[i], request)],
              more |-> more,
              next |-> IF ~more THEN Unset
                       ELSE <<IF kv THEN "cursor"
                              ELSE IF request.keyType \in {"sha256", "ripemd160"} THEN "hex"
                              ELSE "decimal", all[request.limit + 1].key>>]

---------------------------------------------------------------------------
(* What is made of the answer.                                             *)

\* Only the first row is looked at: an object with an object `key` and a `value`.
IsWireKvShape(rows) ==
    /\ rows # <<>>
    /\ \/ rows[1].wrapped = "kv"
       \/ rows[1].wrapped = "no" /\ rows[1].value[1] = "keyed"

Unwrap(rows, i) ==
    IF IsWireKvShape(rows)
    THEN (IF rows[i].wrapped = "kv" THEN rows[i].value ELSE <<"part", rows[i].value[2]>>)
    ELSE rows[i].value

Payers(rows, showPayer) ==
    IF ~showPayer THEN Unset
    ELSE [i \in DOMAIN rows |-> IF rows[i].payer = "" THEN Unset ELSE rows[i].payer]

\* Rows the node could not decode come as hex, and are decoded here.
Typed(value) == <<IF value[1] = "part" THEN "wrong type" ELSE "typed", value[2]>>

NextKey(request, next, rows) ==
    IF next = Unset THEN Unset
    ELSE IF IsWireKvShape(rows) \/ next[1] = "cursor" THEN <<"cursor", next[2]>>
    ELSE CASE request.keyType = "i64" -> <<"UInt64", next[2]>>
           [] request.keyType = "i128" -> <<"UInt128", next[2]>>
           [] request.keyType = "name" -> <<"Name", next[2]>>
           [] request.keyType = "float64" -> <<"Float64", next[2]>>
           [] request.keyType = "float128" -> <<"Float128", next[2]>>
           [] request.keyType = "sha256" -> <<"Checksum256", next[2]>>
           [] request.keyType = "ripemd160" -> <<"Checksum160", next[2]>>
           [] OTHER -> Wrong

GetTableRows(kv, table, params) ==
    LET request == Request(params)
        answer == AnswerRows(kv, table, request)
        next == NextKey(request, answer.next, answer.rows)
        unwrapped == [i \in DOMAIN answer.rows |-> Unwrap(answer.rows, i)]
    IN  IF answer = Wrong THEN Wrong
        ELSE IF next = Wrong THEN Wrong
        ELSE [rows |-> IF params.typed THEN [i \in DOMAIN unwrapped |-> Typed(unwrapped[i])]
                       ELSE unwrapped,
              payers |-> Payers(answer.rows, params.showPayer),
              more |-> answer.more,
              next |-> next]

\* getRows: other defaults, among them the last rows first.
GetRows(kv, table, options) ==
    GetTableRows(kv, table,
        [options EXCEPT !.keyType = Default(@, "i64"), !.limit = Default(@, 50), !.json = TRUE,
                        !.reverse = Default(@, TRUE), !.typed = FALSE, !.showPayer = FALSE])

\* The tables of a contract client: rows and first.
TableClientRows(kv, table, options) ==
    GetTableRows(kv, table, [options EXCEPT !.json = Default(@, TRUE)])

First(kv, table, options) ==
    LET result == TableClientRows(kv, table, [options EXCEPT !.limit = Default(@, 1)])
    IN  IF result = Wrong THEN Wrong
        ELSE IF result.rows = <<>> THEN Unset ELSE result.rows[1]

\* The tables of a system contract can be named without a client, not read.
Query(client, kv, table, options) ==
    IF client THEN TableClientRows(kv, table, options) ELSE Wrong

---------------------------------------------------------------------------
(* Actions of a contract client.  Data is encoded by an ABI or by the type *)
(* of its own it may have; encoded data is kept.                           *)

ActionFrom(data, abi) ==
    CASE data.form = "bytes" -> data
      [] abi # Unset -> IF abi.has THEN [data EXCEPT !.form = "bytes", !.by = abi.name] ELSE Wrong
      [] data.form = "typed" -> [data EXCEPT !.form = "bytes", !.by = "type"]
      [] OTHER -> Wrong

\* A serializer makes typed data of plain data, or throws.
BuildContractAction(data, serializer, abi) ==
    LET serialized == CASE serializer = "none" -> data
                        [] serializer = "serializes" /\ data.form # "bytes" ->
                               [data EXCEPT !.form = "typed"]
                        [] OTHER -> Wrong
    IN  IF serialized = Wrong THEN Wrong ELSE ActionFrom(serialized, abi)

\* What cannot be built for a system contract is left as it is, to the ABI that
\* the node has when it is pushed.
PrepareAction(data, codec, abi) ==
    LET built == BuildContractAction(data, codec, abi) IN IF built = Wrong THEN data ELSE built

AssertEncoded(data) == IF data.form = "bytes" THEN data ELSE Wrong
=============================================================================
