------------------------------- MODULE MCSdk -------------------------------
(***************************************************************************)
(* The parts of the SDK that share no state, one of them at a time: a      *)
(* signing request, or a value for the serializer, integers, texts, keys,  *)
(* the rows of a small table for every way to ask for them, the clients of *)
(* contracts after members of them were asked for, quotes of small pools   *)
(* and prices of small markets.                                            *)
(***************************************************************************)
EXTENDS SigningRequest, MCSdkValues, ContractClients

CONSTANTS A, B

\* Tables of three rows; the node may fail to decode one.
Tables == {[i \in 1..3 |-> [key |-> i, shape |-> shape, decodable |-> i # bad,
                            payer |-> IF i = 1 THEN Unset ELSE "payer"]] :
               shape \in {"plain", "keyed"}, bad \in {0, 1, 2}}

MCBounds == {Unset, <<"UInt64", 2>>, <<"Name", 2>>, <<"Float64", 2>>, <<"Checksum256", 2>>}

MCOptions ==
    [keyType : {Unset, "i64", "float64", "sha256", "other"}, lower : MCBounds, upper : {Unset},
     limit : {1, 2}, reverse : {FALSE}, json : {Unset, TRUE, FALSE}, typed : BOOLEAN,
     showPayer : BOOLEAN]
        \cup [keyType : {Unset, "sha256"}, lower : {Unset}, upper : MCBounds, limit : {1, 3},
              reverse : {TRUE}, json : {Unset}, typed : {FALSE}, showPayer : {FALSE}]

MCData == [form : {"plain", "typed", "bytes"}, by : {"caller"}]
MCAbis == {Unset} \cup [name : {"abi"}, has : BOOLEAN]

MCDefinitions ==
    [msig |-> [account |-> "sysio.msig", action |-> {"propose", "approve"}, table |-> {"proposal"}],
     swap |-> [account |-> "sysio.swap", action |-> {"propose"}, table |-> {}]]

\* Members of the root client one after the other, the second after the first.
Asks == {"msig", "swap", "other", "then"} \X {"action", "table"} \X {"propose", "proposal", "then"}

Clients == {CreateClient([msig |-> account, swap |-> Unset], online) : account \in {Unset, "own"}, online \in BOOLEAN}

TableInputs ==
    {<<"rows", kv, table, o>> : kv \in BOOLEAN, table \in Tables, o \in MCOptions}
        \cup {<<"members", client, ask, next>> : client \in Clients, ask, next \in Asks}
        \cup {<<"prepare", data, codec, known>> : data \in MCData,
                  codec \in {"none", "serializes", "throws"}, known \in MCAbis}

PickRows == input = <<>> /\ input' \in TableInputs

RECURSIVE Pages(_, _, _)

\* The pages one gets by passing on next_key.
Pages(kv, table, o) ==
    LET page == GetTableRows(kv, table, o)
    IN  IF page = Wrong THEN <<>>
        ELSE IF ~page.more THEN page.rows
        ELSE page.rows \o Pages(kv, table, IF o.reverse THEN [o EXCEPT !.upper = page.next]
                                           ELSE [o EXCEPT !.lower = page.next])

\* The rows from the bound on, as the caller is to see them.
Expected(table, o) ==
    LET rows == SelectSeq(IF o.reverse THEN Reverse(table) ELSE table,
                          LAMBDA row : /\ o.lower # Unset => row.key >= o.lower[2]
                                       /\ o.upper # Unset => row.key <= o.upper[2])
    IN  [i \in DOMAIN rows |-> IF o.typed THEN <<"typed", rows[i].key>>
                               ELSE Value(rows[i], Json(o))]

\* A legacy table whose rows look like those of a KV table is unwrapped as one.
LooksLikeKv(kv, table, o) ==
    ~kv /\ table[1].shape = "keyed" /\ Json(o) /\ ~o.showPayer

\* A bound of a type that names the key type, or one that fits the type given.
BoundFits(o) ==
    LET bound == Default(o.lower, o.upper)
    IN  Readable(BoundText(bound), Default(o.keyType,
            IF bound # Unset /\ bound[1] \in DOMAIN KeyTypes THEN KeyTypes[bound[1]] ELSE "name"))

(***************************************************************************)
(* Read in pages, a table gives each of its rows once, in order, decoded   *)
(* as asked, with its payer, whatever the node wraps them in; first is the *)
(* first of them, and getRows gives the last rows.                         *)
(***************************************************************************)
RowsAreRead ==
    Is("rows") =>
        LET kv == input[2]
            table == input[3]
            o == input[4]
            page == GetTableRows(kv, table, o)
            expected == Expected(table, o)
        IN  BoundFits(o) /\ o.keyType # "other" /\ ~LooksLikeKv(kv, table, o) =>
                /\ page # Wrong
                /\ Pages(kv, table, o) = expected
                /\ page.payers # Unset =>
                       page.payers = [i \in DOMAIN page.rows |-> table[i + 3 - Len(expected)].payer]
                /\ o.json = TRUE => Query(TRUE, kv, table, o) = page
                /\ o.json = TRUE => First(kv, table, [o EXCEPT !.limit = Unset]) = expected[1]
                /\ o.keyType = "i64" /\ ~o.typed /\ (kv \/ table[1].shape = "plain") =>
                       LET last == GetRows(kv, table, [o EXCEPT !.reverse = Unset])
                       IN  last.rows[1] = Value(table[3], TRUE) /\ last.payers = Unset

(***************************************************************************)
(* An action is prepared as its data says or is left as it was, for the    *)
(* ABI of the contract; data that is encoded already is never touched.     *)
(***************************************************************************)
PreparedOrKept ==
    Is("prepare") =>
        LET prepared == PrepareAction(input[2], input[3], input[4])
            built == BuildContractAction(input[2], input[3], input[4])
        IN  /\ AssertEncoded(prepared) = (IF built = Wrong THEN AssertEncoded(input[2]) ELSE built)
            /\ AssertEncoded(prepared) = Wrong => prepared = input[2]
            /\ input[2].form = "bytes" => prepared = input[2]
            /\ prepared.by = "abi" => input[4] # Unset

\* got is what a client gives of an action of a contract of this account.
ActsAsConfigured(got, definition, account) ==
    \A to \in {Unset, "elsewhere"}, data \in MCData, codec \in {"none", "serializes", "throws"}, known \in MCAbis :
        LET prepared == Prepare(got, to, data, codec, known)
            generic == BuildAction(ContractClient(definition, account), got.name, to, data, codec, known)
        IN  /\ prepared.account = Default(to, Default(account, definition.account))
            /\ generic \in {Wrong, prepared}
            /\ Invoke(got, to, data, codec, known) = (IF got.online THEN prepared ELSE Wrong)

ReadsAsConfigured(got, account) ==
    LET query == QueryOf(got, Unset)
    IN  IF got.online THEN query.code = account /\ query.scope = account
        ELSE query = Wrong /\ ScopesOf(got, <<>>) = Wrong

(***************************************************************************)
(* Whatever was asked of a client before, each member of it is of the      *)
(* contract as it was configured, and as a generic client of the same      *)
(* descriptor has it; an account given for one action is for it alone;     *)
(* what is no member is refused and leaves nothing behind; and offline     *)
(* actions can be prepared, but nothing sent or read.                      *)
(***************************************************************************)
MembersAreAsConfigured ==
    Is("members") =>
        LET client == Get(input[2], input[3][1], input[3][2], input[3][3])
            name == input[4][1]
            kind == input[4][2]
            member == input[4][3]
            got == Asked(client, name, kind, member)
            known == name \in DOMAIN Definitions
        IN  /\ got = Asked(input[2], name, kind, member)
            /\ got = Unset <=> name = "then" \/ (known /\ member = "then")
            /\ got \in {Unset, Wrong} =>
                   \A n \in DOMAIN client.contracts :
                       Get(client, name, kind, member).contracts[n] = client.contracts[n]
            /\ got = Wrong <=> IF known THEN member \notin Definitions[name][kind] \cup {"then"}
                               ELSE name # "then"
            /\ got \notin {Unset, Wrong} =>
                   LET account == client.accounts[name]
                   IN  IF kind = "action" THEN ActsAsConfigured(got, Definitions[name], account)
                       ELSE ReadsAsConfigured(got, Default(account, Definitions[name].account))

(***************************************************************************)
(* What the serializer and the clients built on it give is what was there: *)
(* values, rows and actions.                                               *)
(***************************************************************************)
DataIsFaithful == CodecIsFaithful /\ RowsAreRead /\ PreparedOrKept /\ MembersAreAsConfigured

---------------------------------------------------------------------------
(* Texts, over all short ones and small values; and keys of two owners.     *)

Texts(chars, len) == UNION {[1..n -> chars] : n \in 0..len}

Times == {t \in {Time(kind, n) : kind \in TimeTypes, n \in 0..70} : t # Throws}

TextInputs ==
    {<<"name", s>> : s \in Texts(-1..3, 4)}
        \cup {<<"packed name", n>> : n \in 0..(2^NameBits - 1)}
        \cup {<<"slug", s>> : s \in Texts(1..SlugBase - 1, SlugChars + 1)}
        \cup {<<"packed slug", n>> : n \in 0..(SlugBase^SlugChars - 1)}
        \cup {<<"symbol", n>> : n \in 0..(ByteValues^(CodeLength + 1) - 1)}
        \cup {<<"asset text", n, p, s>> : n \in {-12, 0, 7}, p \in 0..3, s \in Texts({1, 2, 3}, 3)}
        \cup {<<"times", t, u>> : t, u \in Times}
        \cup {<<"block", id, n>> : id \in {[high |-> 0, low |-> 5]}, n \in 0..MaxOf(SecType)}
        \cup {<<"data58", b>> : b \in Texts(0..(ByteValues - 1), 4)}
        \cup {<<"text58", s>> : s \in Texts({FarAlien, Alien} \cup 0..(TextBase - 1), 4)}
        \cup {<<"data64", b>> : b \in Texts(0..15, 2) \cup Texts({0, 6, 15}, 5)}

PickText == input = <<>> /\ input' \in TextInputs

PickKey == input = <<>> /\ input' \in KeyInputs

---------------------------------------------------------------------------
(* Quotes and prices.                                                      *)

Pools == [first : {1, 3, 5}, second : {1, 4}, fee : {0, 1, 3}, yieldLeg : {"none", "first", "second"},
          supply : {1, 3, 4}, locked : {0, 2}, max : {5}]

Yields == {Absent} \cup [index : {Absent, 0, 3},
                         account : {Absent} \cup [balance : {2}, checkpoint : {1, 4}, owed : {0, 1}]]

\* Yield matters only to the pools that have any.
QuoteInputs ==
    {<<"quote", pool, Absent>> : pool \in Pools}
        \cup {<<"quote", pool, yield>> : pool \in {p \in Pools : p.yieldLeg = "first" /\ p.locked = 0},
                                         yield \in Yields}

Resources ==
    [weight : {2, 3}, utilization : 0..3, adjusted : 0..3, exponent : {1, 2}, minPrice : {0, 1}, maxPrice : {3}]

PriceInputs ==
    {<<"powerup", r, sample>> : r \in Resources, sample \in {1, 2}}
        \cup {<<"ram", base, quote>> : base \in 2..10, quote \in 0..10}
        \cup {<<"sample", max, weight>> : max \in 0..9, weight \in 1..4}

PickQuotes == input = <<>> /\ input' \in QuoteInputs \cup PriceInputs

MCAmounts == {-7} \cup 0..5
MCSlips == {0, 1, FeeDenominator - 1}

\* Nothing is checked of what is no input of a specification.
ASSUME AreInputs ==
    /\ TextInputs \cup QuoteInputs \cup PriceInputs \subseteq ChainInputs
    /\ \A i \in Inputs : i[1] \in {"ints", "number", "uint256", "asset"} => i \in ChainInputs

---------------------------------------------------------------------------
(* Signing requests.                                                       *)

Level(actor, permission) == [actor |-> actor, permission |-> permission]

Transfer(auth, n) == [account |-> "token", authorization |-> <<auth>>,
                      data |-> SubSeq(<<PlaceholderName, "bob", PlaceholderPermission>>, 1, n)]

Auths == {PlaceholderAuth, Level(PlaceholderName, PlaceholderName), Level("alice", "owner")}

Base == [kind |-> "actions", actions |-> <<>>, tapos |-> NoTapos, permission |-> PlaceholderAuth,
         scope |-> NotGiven, chainId |-> A, chainIds |-> NotGiven, broadcast |-> NotGiven,
         callback |-> "https://app", info |-> <<>>, encoded |-> FALSE, big |-> FALSE]

OnChains(base) ==
    {[a EXCEPT !.chainId = c] : a \in base, c \in {A, AnyChain}}
        \cup {[a EXCEPT !.chainId = AnyChain, !.chainIds = {B}] : a \in base}

Actions == {[Base EXCEPT !.actions = <<Transfer(auth, 2)>>] : auth \in Auths}
               \cup {[Base EXCEPT !.actions = <<Transfer(PlaceholderAuth, 1)>>]}
               \cup {[Base EXCEPT !.actions = <<Transfer(PlaceholderAuth, 2), Transfer(Level("alice", "owner"), 2)>>,
                                  !.big = TRUE, !.callback = "", !.info = <<[key |-> "note", value |-> AsIs("note")]>>]}
               \cup {[Base EXCEPT !.actions = <<Transfer(PlaceholderAuth, 2)>>, !.encoded = TRUE]}

Transactions == {[Base EXCEPT !.kind = "transaction", !.actions = <<Transfer(PlaceholderAuth, 2)>>, !.tapos = t,
                                      !.encoded = TRUE] :
                    t \in {NoTapos, [expiration |-> 9, ref_block_num |-> 2, ref_block_prefix |-> 3]}}

Identities ==
    {[Base EXCEPT !.kind = "identity", !.permission = p, !.scope = s] :
        p \in {PlaceholderAuth, Level("alice", PlaceholderPermission), Level("alice", "owner")}, s \in {NotGiven, "app"}}
        \cup {[Base EXCEPT !.kind = "identity", !.scope = "app", !.big = TRUE]}

MCArguments == OnChains(Actions \cup Transactions \cup Identities)

Ctx == [expiration |-> NotGiven, ref_block_num |-> NotGiven, ref_block_prefix |-> NotGiven,
        block_num |-> NotGiven, timestamp |-> NotGiven, chainId |-> NotGiven]

MCContexts ==
    {[c EXCEPT !.chainId = chain] :
        chain \in {NotGiven, A, B},
        c \in {Ctx, [Ctx EXCEPT !.expiration = 5],
               [Ctx EXCEPT !.expiration = 5, !.ref_block_num = 5, !.ref_block_prefix = 1],
               [Ctx EXCEPT !.block_num = 8, !.ref_block_prefix = 1, !.timestamp = 4]}}

MCStrings == PlaceholderNames \cup {NoCallback, "alice", "bob", "owner", "active", "token", "app", "other",
                                    "note", "chain_ids", "https://app", "https://other"}

MCSigners == {Level("alice", "active"), Level("alice", "owner")}

---------------------------------------------------------------------------
MCSdkInit == RequestInit /\ input = <<>>

MCSdkNext ==
    \/ input = <<>> /\ RequestNext /\ UNCHANGED input
    \/ request = NotGiven /\ (Pick \/ PickText \/ PickKey \/ PickRows \/ PickQuotes) /\ UNCHANGED requestVars

MCSdkSpec == MCSdkInit /\ [][MCSdkNext]_<<requestVars, input>>
=============================================================================
