--------------------------- MODULE SigningRequest ---------------------------
(***************************************************************************)
(* A signing request from its making to its proof: an application creates, *)
(* changes and encodes it; a wallet opens the URI, resolves it for a       *)
(* signer and answers with a callback payload; a service recreates the     *)
(* resolved request, or an identity proof, from that payload.  Meanwhile   *)
(* the ABI of the contract may change.                                     *)
(*                                                                         *)
(* Action data is the sequence of its fields, names all of them; an ABI is *)
(* the number of fields it knows.  A hash and a transaction id are what is *)
(* hashed, and a signature is who signed what.                             *)
(***************************************************************************)
EXTENDS Integers, Sequences, FiniteSets, SequencesExt

CONSTANTS
    Arguments,      \* arguments of create and identity
    Signers,        \* permission levels the wallet signs with
    Contexts,       \* transaction contexts of resolve
    ResolveTimes,   \* when a wallet resolves a request
    RecreateTimes,  \* when a service recreates it
    Callbacks,      \* URLs an application changes its callback to
    Strings,        \* names, keys of the info, texts and URLs
    Chains,         \* chain ids
    AliasedChains,  \* those that have an alias
    AbiSizes,       \* how many fields the contract's action has, over time
    RefModulus,     \* UInt16: 2^16
    MaxChanges,     \* setter calls of the application
    AnyChain,       \* no chain: as an argument, null
    Refused, NotGiven

ASSUME ConstantsAssumption ==
    /\ RefModulus \in Nat \ {0} /\ MaxChanges \in Nat /\ AbiSizes \subseteq Nat
    /\ {AnyChain, NotGiven, Refused} \cap Chains = {} /\ AliasedChains \subseteq Chains
    /\ NotGiven # Refused

---------------------------------------------------------------------------
(* What there is: an action has an account, the levels that authorize it   *)
(* and its data; a request has its data and a signature of it.             *)

NoCallback == ""
NoTapos == [expiration |-> 0, ref_block_num |-> 0, ref_block_prefix |-> 0]

PermissionLevels == [actor : Strings, permission : Strings]
ActionLists == Seq([account : Strings, authorization : Seq(PermissionLevels), data : Seq(Strings)])
TaposValues == [expiration : Nat, ref_block_num : Nat, ref_block_prefix : Nat]

ChainIdVariants == [alias : BOOLEAN, of : Chains \cup {AnyChain}]
InfoValues == Strings \cup SUBSET ChainIdVariants
InfoPairs == [key : Strings, value : [typed : BOOLEAN, of : InfoValues]]

RequestKinds == {"action", "actions", "transaction", "identity"}

RequestData ==
    [chain_id : ChainIdVariants,
     req : [kind : RequestKinds, actions : ActionLists, tapos : TaposValues,
            permission : PermissionLevels \cup {NotGiven}, scope : Strings \cup {NotGiven}],
     broadcast : BOOLEAN, callback : Strings, info : Seq(InfoPairs), big : BOOLEAN]

RequestObjects ==
    [version : {2, 3}, data : RequestData, signature : ({2, 3} \X RequestData) \cup {NotGiven}]

\* NotGiven is not one of these things, and a request is an object.
ASSUME DistinctAssumption ==
    /\ NotGiven \notin Strings \cup Nat \cup BOOLEAN \cup PermissionLevels
    /\ \A ids \in SUBSET Chains : ids # NotGiven
    /\ \A variants \in SUBSET ChainIdVariants : variants # NotGiven
    /\ NotGiven \notin {2, 3} \X RequestData
    /\ {NotGiven, Refused} \cap RequestObjects = {}

NoKeyTwice(info) == \A i, j \in DOMAIN info : info[i].key = info[j].key => i = j

\* info is an object.
ArgumentRecords ==
    {a \in [kind : {"actions", "transaction", "identity"}, actions : ActionLists,
            tapos : TaposValues, permission : PermissionLevels, scope : Strings \cup {NotGiven},
            chainId : Chains \cup {AnyChain}, chainIds : {NotGiven} \cup SUBSET Chains,
            broadcast : BOOLEAN \cup {NotGiven}, callback : Strings, info : Seq(InfoPairs),
            encoded : BOOLEAN, big : BOOLEAN] : NoKeyTwice(a.info)}

ContextRecords ==
    [expiration : (Nat \ {0}) \cup {NotGiven}, ref_block_num : Nat \cup {NotGiven},
     ref_block_prefix : Nat \cup {NotGiven}, block_num : Nat \cup {NotGiven},
     timestamp : Nat \cup {NotGiven}, chainId : Chains \cup {NotGiven}]

\* Only a transaction comes with TAPoS values.
ASSUME InputsAssumption ==
    /\ \A a \in Arguments :
           /\ a \in ArgumentRecords
           /\ a.kind # "transaction" => a.tapos = NoTapos
    /\ Signers \subseteq PermissionLevels
    /\ Contexts \subseteq ContextRecords
    /\ ResolveTimes \cup RecreateTimes \subseteq Nat
    /\ Callbacks \cup {NoCallback, "chain_ids", "note", "other"} \subseteq Strings

---------------------------------------------------------------------------
VARIABLES
    abi,            \* fields of the action in the ABI the node answers
    args,           \* what the application asked for
    request,        \* the application's object
    changes,        \* its setter calls
    stale,          \* history: a setter ran after the request was signed
    uri,
    wallet,         \* the wallet's object, Refused, or NotGiven
    resolved,       \* what resolve returned, with the ABI it used
    payload,        \* the callback payload
    recreated       \* what fromPayload returned, with the ABI it used

requestVars == <<abi, args, request, changes, stale, uri, wallet, resolved, payload, recreated>>

---------------------------------------------------------------------------
(* Placeholders.                                                           *)

PlaceholderName == "............1"
PlaceholderPermission == "............2"
PlaceholderNames == {PlaceholderName, PlaceholderPermission}
PlaceholderAuth == [actor |-> PlaceholderName, permission |-> PlaceholderPermission]

ResolveName(name, signer) ==
    CASE name = PlaceholderName -> signer.actor
      [] name = PlaceholderPermission -> signer.permission
      [] OTHER -> name

\* In an authorization the actor's placeholder also stands for the permission.
ResolveAuth(auth, signer) ==
    [actor |-> IF auth.actor = PlaceholderName THEN signer.actor ELSE auth.actor,
     permission |-> IF auth.permission \in {PlaceholderName, PlaceholderPermission}
                    THEN signer.permission ELSE auth.permission]

---------------------------------------------------------------------------
(* Chain ids: those that have an alias are written as it; 0 is none.       *)

ChainVariant(chain) ==
    IF chain \in AliasedChains \cup {AnyChain} THEN [alias |-> TRUE, of |-> chain]
    ELSE [alias |-> FALSE, of |-> chain]

\* Alias 0 is not one of the lookup.
VariantChain(v) == IF v.alias /\ v.of \notin AliasedChains THEN Refused ELSE v.of

---------------------------------------------------------------------------
(* Info: a list of pairs.  Strings are written as they are, without type.  *)

AsIs(string) == [typed |-> FALSE, of |-> string]
Serialized(object) == [typed |-> TRUE, of |-> object]

PairsOf(info, key) == {i \in DOMAIN info : info[i].key = key}
FirstPair(info, key) == CHOOSE i \in PairsOf(info, key) : \A j \in PairsOf(info, key) : i <= j

SetRawInfoKey(info, key, value) ==
    IF PairsOf(info, key) = {} THEN Append(info, [key |-> key, value |-> value])
    ELSE [info EXCEPT ![FirstPair(info, key)].value = value]

\* What was written one way and is read the other is garbage.
GetInfoKey(info, key, typed) ==
    IF PairsOf(info, key) = {} THEN NotGiven
    ELSE LET value == info[FirstPair(info, key)].value
         IN  IF value.typed = typed THEN value.of ELSE Refused

---------------------------------------------------------------------------
(* Making a request.                                                       *)

NoAccount == ""

\* What setters set.
OtherNote == Serialized("other")
OtherScope == "other"

\* identity(): two placeholders are no permission.
IdentityPermission(a) == IF a.permission = PlaceholderAuth THEN NotGiven ELSE a.permission

Version(a) == IF a.chainId = AnyChain \/ (a.kind = "identity" /\ a.scope # NotGiven) THEN 3 ELSE 2

IsIdentity(r) == r.data.req.kind = "identity"

Req(a) ==
    [kind |-> IF a.kind = "actions" THEN (IF Len(a.actions) = 1 THEN "action" ELSE "actions")
              ELSE a.kind,
     actions |-> a.actions,
     tapos |-> a.tapos,
     permission |-> IdentityPermission(a),
     scope |-> a.scope]

\* The chain_ids pair is added to a multi-chain request only.
ChainVariants(ids) == {ChainVariant(id) : id \in ids}

Info(a) ==
    a.info \o (IF a.chainId = AnyChain /\ a.chainIds # NotGiven
               THEN <<[key |-> "chain_ids", value |-> Serialized(ChainVariants(a.chainIds))]>> ELSE <<>>)

\* The constructor refuses an identity request that is broadcast.
Allowed(r) == ~(r.data.req.kind = "identity" /\ r.data.broadcast)

\* Version 3 has no identity without a scope.
CanCreate(a) == a.kind = "identity" /\ Version(a) = 3 => a.scope # NotGiven

CreateSync(a) ==
    [version |-> Version(a),
     data |-> [chain_id |-> ChainVariant(a.chainId), req |-> Req(a),
               broadcast |-> IF a.broadcast = NotGiven THEN a.kind # "identity" ELSE a.broadcast,
               callback |-> a.callback, info |-> Info(a), big |-> a.big],
     signature |-> NotGiven]

\* The digest is of the protocol version and the data.
SignatureDigest(r) == <<r.version, r.data>>

Signed(r) == [r EXCEPT !.signature = SignatureDigest(r)]

---------------------------------------------------------------------------
(* Encoding.                                                               *)

\* Mutant: only the data is deflated.
EncodeData(r, deflated) ==
    [version |-> r.version, deflated |-> deflated, data |-> r.data,
     signature |-> IF deflated THEN NotGiven ELSE r.signature]

Encode(r, deflated) ==
    [version |-> r.version, deflated |-> deflated, data |-> r.data, signature |-> r.signature]

\* fromData refuses to inflate to more than maxInflatedBytes, and what the
\* constructor refuses.
Opens(u) == ~(u.deflated /\ u.data.big) /\ Allowed(u)

FromData(u) == [version |-> u.version, data |-> u.data, signature |-> u.signature]

Clone(r) == IF Allowed(r) THEN FromData(Encode(r, FALSE)) ELSE Refused

\* fromTransaction writes the bytes of a request and reads them.
TransactionBytes(a) ==
    [version |-> 2, deflated |-> FALSE,
     data |-> [chain_id |-> ChainVariant(a.chainId), req |-> Req(a),
               broadcast |-> TRUE, callback |-> NoCallback, info |-> <<>>, big |-> a.big],
     signature |-> NotGiven]

---------------------------------------------------------------------------
(* What a wallet shows of a request.                                       *)

ShouldBroadcast(r) == ~IsIdentity(r) /\ r.data.broadcast

AskedOf(r) == IF IsIdentity(r) THEN r.data.req.permission ELSE NotGiven

GetIdentity(r) ==
    LET asked == AskedOf(r)
    IN  IF asked = NotGiven THEN NotGiven
        ELSE IF asked.actor = PlaceholderName THEN NotGiven ELSE asked.actor

GetIdentityPermission(r) ==
    LET asked == AskedOf(r)
    IN  IF asked = NotGiven THEN NotGiven
        ELSE IF asked.permission = PlaceholderPermission THEN NotGiven ELSE asked.permission

GetIdentityScope(r) == IF IsIdentity(r) /\ r.version > 2 THEN r.data.req.scope ELSE NotGiven

IsMultiChain(r) == r.data.chain_id = [alias |-> TRUE, of |-> AnyChain]

\* getChainId of a multi-chain request throws.
GetChainId(r) == VariantChain(r.data.chain_id)

GetChainIds(r) ==
    LET ids == GetInfoKey(r.data.info, "chain_ids", TRUE)
    IN  IF ~IsMultiChain(r) \/ ids = NotGiven THEN NotGiven ELSE {VariantChain(v) : v \in ids}

---------------------------------------------------------------------------
(* Resolving.                                                              *)

\* The identity action of version 2 has no scope.
IdentityData(r, permission) ==
    (IF r.version = 2 THEN <<>> ELSE <<r.data.req.scope>>)
        \o <<permission.actor, permission.permission>>

RawActions(r) ==
    IF IsIdentity(r)
    THEN LET asked == r.data.req.permission
             permission == IF asked = NotGiven THEN PlaceholderAuth ELSE asked
         IN  <<[account |-> NoAccount, authorization |-> <<permission>>,
                data |-> IdentityData(r, permission)]>>
    ELSE r.data.req.actions

IsIdentityAction(action) == action.account = NoAccount

RequiredAbis(r) ==
    {action.account : action \in {a \in Range(RawActions(r)) : ~IsIdentityAction(a)}}

\* fetchAbis: what the node answers for each account.
FetchAbis(r, fields) == [account \in RequiredAbis(r) |-> fields]

\* Decoding reads the fields the ABI knows, and ignores what follows them.
Decodes(action, abis) ==
    IsIdentityAction(action)
        \/ (action.account \in DOMAIN abis /\ abis[action.account] <= Len(action.data))

Decoded(action, abis) ==
    IF IsIdentityAction(action) THEN action.data ELSE SubSeq(action.data, 1, abis[action.account])

\* resolveActions, and the encoding of what it decoded.
ResolveAction(action, signer, abis) ==
    [account |-> action.account,
     authorization |-> [i \in DOMAIN action.authorization |-> ResolveAuth(action.authorization[i], signer)],
     data |-> LET data == Decoded(action, abis)
              IN  [i \in DOMAIN data |-> ResolveName(data[i], signer)]]

ResolveActions(r, signer, abis) ==
    LET raw == RawActions(r) IN [i \in DOMAIN raw |-> ResolveAction(raw[i], signer, abis)]

HasTapos(tapos) == tapos # NoTapos

Explicit(ctx) == {ctx.expiration, ctx.ref_block_num, ctx.ref_block_prefix} \cap {NotGiven} = {}
FromBlock(ctx) == {ctx.block_num, ctx.ref_block_prefix, ctx.timestamp} \cap {NotGiven} = {}

\* A request that has no TAPoS values needs a context that gives them.
RequiresTapos(r) == ~IsIdentity(r) /\ ~HasTapos(r.data.req.tapos)

\* expirationTime: the default is the time of the clock, and 60 seconds.
ExpirationTime(timestamp, now) == (IF timestamp = NotGiven THEN now ELSE timestamp) + 1

Tapos(r, ctx, now) ==
    IF RequiresTapos(r)
    THEN [expiration |-> IF Explicit(ctx) THEN ctx.expiration ELSE ExpirationTime(ctx.timestamp, now),
          ref_block_num |-> (IF Explicit(ctx) THEN ctx.ref_block_num ELSE ctx.block_num) % RefModulus,
          ref_block_prefix |-> ctx.ref_block_prefix]
    ELSE IF IsIdentity(r) /\ r.version > 2
    THEN [NoTapos EXCEPT !.expiration = IF ctx.expiration # NotGiven THEN ctx.expiration
                                        ELSE ExpirationTime(ctx.timestamp, now)]
    ELSE r.data.req.tapos

\* Mutant: the list of chains is not looked at.
ChainAcceptedAny(r, chain) == IsMultiChain(r) => chain # NotGiven

ChainAccepted(r, chain) ==
    IsMultiChain(r) => chain # NotGiven /\ (GetChainIds(r) # NotGiven => chain \in GetChainIds(r))

CanResolve(r, ctx, abis) ==
    /\ RequiresTapos(r) => Explicit(ctx) \/ FromBlock(ctx)
    /\ \A action \in Range(RawActions(r)) : Decodes(action, abis)
    /\ ChainAccepted(r, ctx.chainId)

ResolvedRequest(r, signer, ctx, fields, now) ==
    [request |-> r, signer |-> signer, fields |-> fields,
     transaction |-> [tapos |-> Tapos(r, ctx, now),
                      actions |-> ResolveActions(r, signer, FetchAbis(r, fields))],
     chainId |-> IF IsMultiChain(r) THEN ctx.chainId ELSE GetChainId(r)]

\* What is signed of a resolved request: the key of the signer is its name.
DigestToSign(chainId, transaction) == <<chainId, transaction>>

SignatureOf(res) == [by |-> res.signer, of |-> DigestToSign(res.chainId, res.transaction)]

---------------------------------------------------------------------------
(* The callback and what is made of it.                                    *)

\* Mutant: two values swapped.
CallbackPayloadSwapped(res, deflated) ==
    [sig |-> SignatureOf(res), tx |-> res.transaction, rid |-> res.transaction.tapos.ref_block_num,
     rbn |-> res.transaction.tapos.ref_block_prefix, ex |-> res.transaction.tapos.expiration,
     sa |-> res.signer.actor, sp |-> res.signer.permission,
     req |-> Encode(res.request, deflated), cid |-> res.chainId]

CallbackPayload(res, deflated) ==
    [sig |-> SignatureOf(res), tx |-> res.transaction, rbn |-> res.transaction.tapos.ref_block_num,
     rid |-> res.transaction.tapos.ref_block_prefix, ex |-> res.transaction.tapos.expiration,
     sa |-> res.signer.actor, sp |-> res.signer.permission,
     req |-> Encode(res.request, deflated), cid |-> res.chainId]

PayloadSigner(p) == [actor |-> p.sa, permission |-> p.sp]

PayloadContext(p, chain) ==
    [expiration |-> p.ex, ref_block_num |-> p.rbn, ref_block_prefix |-> p.rid,
     block_num |-> NotGiven, timestamp |-> NotGiven, chainId |-> chain]

\* A payload may come without cid.
PayloadChain(p, withCid) == IF withCid THEN p.cid ELSE GetChainId(FromData(p.req))

\* fromPayload opens the request of the payload and resolves it again.
Recreated(p, withCid, fields, now) ==
    LET r == FromData(p.req)
        chain == PayloadChain(p, withCid)
        ctx == PayloadContext(p, chain)
    IN  IF ~Opens(p.req) \/ chain = Refused \/ ~CanResolve(r, ctx, FetchAbis(r, fields))
        THEN [error |-> TRUE, withCid |-> withCid, fields |-> fields]
        ELSE [error |-> FALSE, withCid |-> withCid, fields |-> fields,
              got |-> ResolvedRequest(r, PayloadSigner(p), ctx, fields, now)]

---------------------------------------------------------------------------
(* Proofs of identity.                                                     *)

\* The request opens, and is one of an identity.
HasProof(p) == Opens(p.req) /\ p.req.version >= 3 /\ IsIdentity(p.req)

\* IdentityProof.fromPayload, with or without cid as PayloadChain.
ProofOf(p, withCid) ==
    LET r == FromData(p.req)
        chain == PayloadChain(p, withCid)
    IN  IF ~HasProof(p) \/ chain = Refused THEN [error |-> TRUE]
        ELSE [error |-> FALSE,
              proof |-> [chainId |-> chain, scope |-> GetIdentityScope(r), expiration |-> p.ex,
                         signer |-> PayloadSigner(p), signature |-> p.sig]]

\* getIdentityProof of what the wallet resolved.
GetIdentityProof(res, signature) ==
    [chainId |-> res.chainId, scope |-> GetIdentityScope(res.request),
     expiration |-> res.transaction.tapos.expiration, signer |-> res.signer, signature |-> signature]

ProofTransaction(proof) ==
    [tapos |-> [NoTapos EXCEPT !.expiration = proof.expiration],
     actions |-> <<[account |-> NoAccount, authorization |-> <<proof.signer>>,
                    data |-> <<proof.scope, proof.signer.actor, proof.signer.permission>>]>>]

\* A signature of something else recovers a key of nobody.
Recover(proof) ==
    IF proof.signature.of = DigestToSign(proof.chainId, ProofTransaction(proof))
    THEN proof.signature.by ELSE NotGiven

\* An authority: a threshold, and the weights of keys; of those of accounts
\* nothing is asked.
KeyWeight(auth, key) == IF key \in DOMAIN auth.keys THEN auth.keys[key] ELSE 0

HasPermission(auth, key, includePartial) ==
    KeyWeight(auth, key) >= (IF includePartial THEN 1 ELSE auth.threshold)

Verify(proof, auth, now) == now < proof.expiration /\ HasPermission(auth, Recover(proof), FALSE)

---------------------------------------------------------------------------
RequestInit ==
    /\ abi \in AbiSizes
    /\ args = NotGiven /\ request = NotGiven /\ changes = 0 /\ stale = FALSE
    /\ uri = NotGiven /\ wallet = NotGiven /\ resolved = NotGiven /\ payload = NotGiven /\ recreated = NotGiven

\* create fetches the ABIs of the actions that are not encoded, createSync does
\* the rest and signs if there is a signature provider.
EncodeAction(action, encoded, fields) == encoded \/ Len(action.data) = fields

Create(a, sign) ==
    /\ request = NotGiven
    /\ CanCreate(a) /\ Allowed(CreateSync(a))
    /\ \A action \in Range(a.actions) : EncodeAction(action, a.encoded, abi)
    /\ args' = a
    /\ request' = IF sign THEN Signed(CreateSync(a)) ELSE CreateSync(a)
    /\ UNCHANGED <<abi, changes, stale, uri, wallet, resolved, payload, recreated>>

\* What it leaves to its caller.
TransactionArgs(a) ==
    [kind |-> "transaction", actions |-> a.actions, tapos |-> a.tapos, permission |-> a.permission,
     scope |-> a.scope, chainId |-> a.chainId, chainIds |-> NotGiven, broadcast |-> TRUE,
     callback |-> NoCallback, info |-> <<>>, encoded |-> a.encoded, big |-> a.big]

FromTransaction(a) ==
    /\ request = NotGiven
    /\ a.kind = "transaction" /\ a.encoded /\ a.chainId \in Chains
    /\ args' = TransactionArgs(a)
    /\ request' = FromData(TransactionBytes(a))
    /\ UNCHANGED <<abi, changes, stale, uri, wallet, resolved, payload, recreated>>

Sign ==
    /\ request # NotGiven /\ uri = NotGiven
    /\ request' = Signed(request)
    /\ stale' = FALSE
    /\ UNCHANGED <<abi, args, changes, uri, wallet, resolved, payload, recreated>>

\* The signature of a digest that was taken when the request was made.
SetSignature ==
    /\ request # NotGiven /\ uri = NotGiven
    /\ LET digest == SignatureDigest(CreateSync(args))
       IN  /\ request' = [request EXCEPT !.signature = digest]
           /\ stale' = (digest # SignatureDigest(request))
    /\ UNCHANGED <<abi, args, changes, uri, wallet, resolved, payload, recreated>>

\* setBroadcast, setCallback, setChainIds, setInfoKey: none touches the signature.
Set(data) ==
    /\ request # NotGiven /\ uri = NotGiven /\ changes < MaxChanges
    /\ request' = [request EXCEPT !.data = data]
    /\ changes' = changes + 1
    /\ stale' = (request.signature # NotGiven)
    /\ UNCHANGED <<abi, args, uri, wallet, resolved, payload, recreated>>

SetBroadcast(b) == request # NotGiven /\ Set([request.data EXCEPT !.broadcast = b])
SetCallback(url) == request # NotGiven /\ Set([request.data EXCEPT !.callback = url])
SetInfoKey(key, value) ==
    request # NotGiven /\ Set([request.data EXCEPT !.info = SetRawInfoKey(@, key, value)])

SetChainIds(ids) == SetInfoKey("chain_ids", Serialized(ChainVariants(ids)))

\* Deflated data is used if it is smaller.
EncodeRequest(deflated) ==
    /\ request # NotGiven /\ uri = NotGiven
    /\ uri' = Encode(request, deflated)
    /\ UNCHANGED <<abi, args, request, changes, stale, wallet, resolved, payload, recreated>>

Open ==
    /\ uri # NotGiven /\ wallet = NotGiven
    /\ wallet' = IF Opens(uri) THEN FromData(uri) ELSE Refused
    /\ UNCHANGED <<abi, args, request, changes, stale, uri, resolved, payload, recreated>>

Resolve(signer, ctx, now) ==
    /\ wallet \notin {NotGiven, Refused} /\ resolved = NotGiven
    /\ CanResolve(wallet, ctx, FetchAbis(wallet, abi))
    /\ resolved' = ResolvedRequest(wallet, signer, ctx, abi, now)
    /\ UNCHANGED <<abi, args, request, changes, stale, uri, wallet, payload, recreated>>

Callback(deflated) ==
    /\ resolved # NotGiven /\ payload = NotGiven
    /\ resolved.request.data.callback # NoCallback
    /\ payload' = CallbackPayload(resolved, deflated)
    /\ UNCHANGED <<abi, args, request, changes, stale, uri, wallet, resolved, recreated>>

FromPayload(withCid, now) ==
    /\ payload # NotGiven /\ recreated = NotGiven
    /\ recreated' = Recreated(payload, withCid, abi, now)
    /\ UNCHANGED <<abi, args, request, changes, stale, uri, wallet, resolved, payload>>

\* The contract gets another ABI.
SetAbi ==
    /\ request # NotGiven /\ recreated = NotGiven
    /\ abi' \in AbiSizes \ {abi}
    /\ UNCHANGED <<args, request, changes, stale, uri, wallet, resolved, payload, recreated>>

RequestNext ==
    \/ \E a \in Arguments, sign \in BOOLEAN : Create(a, sign)
    \/ \E a \in Arguments : FromTransaction(a)
    \/ Sign \/ SetSignature \/ Open \/ SetAbi
    \/ \E b \in BOOLEAN : SetBroadcast(b) \/ EncodeRequest(b) \/ Callback(b)
    \/ \E ids \in SUBSET Chains : SetChainIds(ids)
    \/ \E url \in Callbacks : SetCallback(url)
    \/ SetInfoKey("note", OtherNote)
    \/ \E signer \in Signers, ctx \in Contexts, now \in ResolveTimes : Resolve(signer, ctx, now)
    \/ \E withCid \in BOOLEAN, now \in RecreateTimes : FromPayload(withCid, now)

RequestSpec == RequestInit /\ [][RequestNext]_requestVars

---------------------------------------------------------------------------
(* Properties.                                                             *)

\* What the application meant by its arguments, of a signer.
MeantActions(signer) ==
    IF args.kind = "identity"
    THEN LET p == [actor |-> ResolveName(args.permission.actor, signer),
                   permission |-> ResolveName(args.permission.permission, signer)]
             scope == IF Version(args) = 2 THEN <<>> ELSE <<args.scope>>
         IN  <<[account |-> NoAccount, authorization |-> <<p>>, data |-> scope \o <<p.actor, p.permission>>]>>
    ELSE [i \in DOMAIN args.actions |->
             [account |-> args.actions[i].account,
              authorization |-> [j \in DOMAIN args.actions[i].authorization |->
                                    ResolveAuth(args.actions[i].authorization[j], signer)],
              data |-> [j \in DOMAIN args.actions[i].data |-> ResolveName(args.actions[i].data[j], signer)]]]

\* An identity is asked for by names that are what they stand for: an actor or
\* its placeholder, a permission or its placeholder, and a scope.
PlainIdentity(a) ==
    /\ a.permission.actor # PlaceholderPermission
    /\ a.permission.permission # PlaceholderName
    /\ a.scope \notin PlaceholderNames

\* The application does not write the list of chains itself.
NoChainsInInfo(a) == \A i \in DOMAIN a.info : a.info[i].key # "chain_ids"

\* An authority that has one key.
KeyAuth(key, threshold, weight) == [threshold |-> threshold, keys |-> [k \in {key} |-> weight]]

\* The chains the application allows, after its own changes.
MeantChains ==
    IF args.chainId # AnyChain THEN {args.chainId}
    ELSE IF GetChainIds(request) = NotGiven THEN Chains ELSE GetChainIds(request)

(***************************************************************************)
(* What a wallet resolves is what the application asked for: its actions   *)
(* for this signer, on a chain it allows, with values that let it expire.  *)
(* If the ABI was replaced by one with fewer fields, the data is cut, and  *)
(* nothing worse: the resolved data begins what was asked.  The identity a *)
(* wallet shows before it resolves the request is the one it resolves.     *)
(***************************************************************************)
ResolvedIsWhatWasAsked ==
    resolved # NotGiven /\ (args.kind = "identity" => PlainIdentity(args)) =>
        LET meant == MeantActions(resolved.signer)
            got == resolved.transaction.actions
        IN  /\ Len(got) = Len(meant)
            /\ \A i \in DOMAIN got :
                   /\ got[i].authorization = meant[i].authorization
                   /\ IsPrefix(got[i].data, meant[i].data)
                   /\ Len(got[i].data) < Len(meant[i].data) => resolved.fields = Len(got[i].data)
            /\ resolved.chainId \in MeantChains
            /\ resolved.transaction.tapos = NoTapos => args.kind = "identity" /\ Version(args) = 2
            /\ HasTapos(args.tapos) => resolved.transaction.tapos = args.tapos
            /\ args.kind = "identity" =>
                   LET shown(asked, own) == IF asked = NotGiven THEN own ELSE asked
                   IN  /\ ~ShouldBroadcast(wallet)
                       /\ got[1].authorization =
                              <<[actor |-> shown(GetIdentity(wallet), resolved.signer.actor),
                                 permission |-> shown(GetIdentityPermission(wallet), resolved.signer.permission)]>>
                       /\ Len(got[1].data) = 3 => got[1].data[1] = GetIdentityScope(wallet)

(***************************************************************************)
(* "Recreate a resolved request from a callback payload": the service gets *)
(* the transaction the wallet signed, unless the ABI has changed since,    *)
(* a multi-chain payload lacks its cid, or the wallet compressed a request *)
(* that is too big to be inflated.  With the same exceptions for the chain *)
(* and the size it gets the proof of an identity request that has a scope, *)
(* the one the wallet made: it is of the transaction the wallet signed if  *)
(* the signer is who was asked; only then does it verify, until it         *)
(* expires, for whom the signer's own key is enough, and for no other      *)
(* scope or chain.                                                         *)
(***************************************************************************)
PayloadRecreates ==
    /\ recreated # NotGiven /\ recreated.fields = resolved.fields =>
           IF recreated.error
           THEN \/ IsMultiChain(resolved.request) /\ ~recreated.withCid
                \/ payload.req.deflated /\ payload.req.data.big
           ELSE /\ recreated.got.transaction = payload.tx
                /\ recreated.got.signer = resolved.signer
                /\ recreated.got.chainId = resolved.chainId
    /\ payload # NotGiven /\ PlainIdentity(args) => \A withCid \in BOOLEAN :
           LET made == ProofOf(payload, withCid)
               proof == made.proof
               asked == resolved.transaction.actions[1].authorization = <<resolved.signer>>
           IN  IF made.error
               THEN \/ args.kind = "identity" => args.scope = NotGiven
                    \/ IsMultiChain(resolved.request) /\ ~withCid
                    \/ payload.req.deflated /\ payload.req.data.big
               ELSE /\ proof = GetIdentityProof(resolved, SignatureOf(resolved))
                    /\ ProofTransaction(proof) = resolved.transaction <=> asked
                    /\ \A key \in Signers, threshold \in 1..2, weight \in 1..2, now \in {payload.ex - 1, payload.ex} :
                           LET auth == KeyAuth(key, threshold, weight)
                           IN  /\ Verify(proof, auth, now) <=>
                                      asked /\ now < payload.ex /\ key = resolved.signer /\ weight >= threshold
                               /\ \A scope \in {OtherScope} \ {proof.scope} :
                                      ~Verify([proof EXCEPT !.scope = scope], auth, now)
                               /\ \A chain \in Chains \ {proof.chainId} :
                                      ~Verify([proof EXCEPT !.chainId = chain], auth, now)

(***************************************************************************)
(* A URI opens to the request the application had, unless setBroadcast has *)
(* made an identity request one to broadcast, which the constructor would  *)
(* have refused, or its data is too big; its signature is of the data it   *)
(* comes with, unless a setter ran after it was signed; its chains and its *)
(* info are those the application gave, and no key is there twice.         *)
(***************************************************************************)
OpensAsMade ==
    /\ wallet = Refused =>
           \/ args.kind = "identity" /\ changes > 0 /\ request.data.broadcast
           \/ uri.deflated /\ args.big
    /\ wallet \notin {NotGiven, Refused} =>
           /\ wallet = request /\ Clone(wallet) = wallet
           /\ VariantChain(wallet.data.chain_id) = (IF args.chainId = AnyChain THEN Refused ELSE args.chainId)
           /\ NoChainsInInfo(args) => NoKeyTwice(wallet.data.info)
           /\ changes = 0 /\ NoChainsInInfo(args) =>
                  /\ GetChainIds(wallet) = (IF args.chainId = AnyChain THEN args.chainIds ELSE NotGiven)
                  /\ \A pair \in Range(args.info) :
                         GetInfoKey(wallet.data.info, pair.key, pair.value.typed) = pair.value.of
           /\ wallet.signature # NotGiven /\ ~stale => wallet.signature = SignatureDigest(wallet)
=============================================================================
