--------------------------- MODULE RequestProofs ---------------------------
(***************************************************************************)
(* What is asked of a wallet.  Every request of a page is settled at most  *)
(* once, by its own answer if by any, for any number of requests.  Of      *)
(* signing requests, for all arguments, contexts, chains, ABIs and times:  *)
(* a URI opens to the request that was made, a wallet resolves what was    *)
(* asked, and what is recreated of its payload is what it resolved.  Of    *)
(* proposals, for any number of reads, pieces, permission levels, rows     *)
(* beside them and changes of the chain, any contracts and every strategy: *)
(* the bytes a read returns are one whole transaction, the one whose hash  *)
(* was verified, and a read that nothing disturbs is the chain.            *)
(***************************************************************************)
EXTENDS WalletProvider, SigningRequest, MsigReads, Lists, FiniteSetTheorems, SequenceTheorems, TLAPS

LEMMA HeadOfQueue ==
    ASSUME NEW S, NEW q \in Seq(S), q # <<>>
    PROVE  /\ Head(q) \in S /\ Head(q) = q[1] /\ 1 \in DOMAIN q
           /\ Tail(q) \in Seq(S)
           /\ \A i \in DOMAIN Tail(q) : i + 1 \in DOMAIN q /\ Tail(q)[i] = q[i + 1]
           /\ \A i \in DOMAIN Tail(q) : i \in Nat \ {0}
  OBVIOUS

LEMMA AppendToQueue ==
    ASSUME NEW S, NEW q \in Seq(S), NEW x \in S
    PROVE  /\ Append(q, x) \in Seq(S)
           /\ \A i \in DOMAIN Append(q, x) :
                  \/ i \in DOMAIN q /\ Append(q, x)[i] = q[i]
                  \/ i = Len(q) + 1 /\ Append(q, x)[i] = x
  OBVIOUS

LEMMA AtMostOne ==
    ASSUME NEW S, \A i, j \in S : i = j
    PROVE  Cardinality(S) = IF S = {} THEN 0 ELSE 1
  <1>1. CASE S = {}
    BY <1>1, FS_EmptySet
  <1>2. CASE S # {}
    <2>1. PICK i \in S : TRUE
      BY <1>2
    <2>2. S = {i}
      BY <2>1
    <2> QED BY <2>2, <1>2, FS_Singleton
  <1> QED BY <1>1, <1>2

---------------------------------------------------------------------------
(* The inductive invariant.                                                *)

InContent(r) == \E i \in DOMAIN toContent : toContent[i] = r
InPage(r) == \E i \in DOMAIN toPage : toPage[i].id = r

\* A message is in one place of the bridge, once, ...
OnePlace ==
    /\ \A i, j \in DOMAIN toContent : toContent[i] = toContent[j] => i = j
    /\ \A i, j \in DOMAIN toPage : toPage[i].id = toPage[j].id => i = j
    /\ \A r \in Requests : /\ ~(InContent(r) /\ r \in atBackground)
                           /\ ~(InContent(r) /\ InPage(r))
                           /\ ~(InPage(r) /\ r \in atBackground)

\* ... and there at all only for a request that was made.
Sent(r) == r \in pendingRequests \/ settles[r] > 0
OnlySent == \A r \in Requests : InContent(r) \/ r \in atBackground \/ InPage(r) => Sent(r)

\* What is on its way to the page answers the request it names.
AnswersNamed == \A i \in DOMAIN toPage : toPage[i].data \in {None, toPage[i].id}

IInv == ProviderTypeOK /\ SettledOnce /\ OwnAnswer /\ OnePlace /\ OnlySent /\ AnswersNamed

LEMMA InitIInv == ProviderInit => IInv
  <1> SUFFICES ASSUME ProviderInit PROVE IInv
    OBVIOUS
  <1>1. ProviderTypeOK
    <2>1. settles \in [Requests -> Nat] /\ value \in [Requests -> Requests \cup {None}]
      BY DEF ProviderInit
    <2>2. toContent \in Seq(Requests) /\ toPage \in Seq(Response)
      BY DEF ProviderInit
    <2> QED BY <2>1, <2>2 DEF ProviderInit, ProviderTypeOK
  <1>2. DOMAIN toContent = {} /\ DOMAIN toPage = {} /\ atBackground = {}
    BY DEF ProviderInit
  <1>3. SettledOnce /\ OwnAnswer
    BY DEF ProviderInit, SettledOnce, OwnAnswer
  <1>4. OnePlace /\ OnlySent /\ AnswersNamed
    BY <1>2 DEF OnePlace, OnlySent, AnswersNamed, InContent, InPage
  <1> QED BY <1>1, <1>3, <1>4 DEF IInv

---------------------------------------------------------------------------
(* The steps.                                                              *)

LEMMA ClientKeeps ==
    ASSUME IInv, Inject \/ WaitForProvider \/ Check \/ WaitTimesOut \/ UNCHANGED providerVars
    PROVE  IInv'
  <1>1. UNCHANGED <<provider, bridge>>
    BY DEF Inject, WaitForProvider, Check, WaitTimesOut, providerVars
  <1>2. /\ injected' \in BOOLEAN /\ waitTimer' \in BOOLEAN /\ checkTimer' \in BOOLEAN
        /\ wait' \in {"none", "open", "resolved", "rejected"}
    BY DEF IInv, ProviderTypeOK, Inject, WaitForProvider, Check, WaitTimesOut, providerVars, client
  <1>3. ProviderTypeOK'
    BY <1>1, <1>2 DEF IInv, ProviderTypeOK, provider, bridge, promises
  <1> QED BY <1>1, <1>3 DEF IInv, SettledOnce, OwnAnswer, OnePlace, OnlySent, AnswersNamed,
             InContent, InPage, Sent, provider, bridge, promises

LEMMA RequestKeeps ==
    ASSUME IInv, NEW r \in Requests, Request(r)
    PROVE  IInv'
  <1> USE DEF IInv, Request, client, promises
  <1>1. /\ Append(toContent, r) \in Seq(Requests)
        /\ \A i \in DOMAIN toContent' :
               \/ i \in DOMAIN toContent /\ toContent'[i] = toContent[i]
               \/ i = Len(toContent) + 1 /\ toContent'[i] = r
    BY AppendToQueue DEF ProviderTypeOK
  <1>2. ProviderTypeOK'
    BY <1>1 DEF ProviderTypeOK
  <1>3. ~InContent(r) /\ ~InPage(r) /\ r \notin atBackground
    BY DEF OnlySent, Sent, ProviderTypeOK
  <1>4. \A s \in Requests : /\ (InPage(s))' <=> InPage(s)
                            /\ (InContent(s))' => InContent(s) \/ s = r
    BY <1>1 DEF InPage, InContent
  <1>5. OnePlace'
    <2>1. \A i, j \in DOMAIN toContent' : toContent'[i] = toContent'[j] => i = j
      BY <1>1, <1>3 DEF OnePlace, InContent
    <2> QED BY <2>1, <1>3, <1>4 DEF OnePlace
  <1>6. OnlySent'
    BY <1>4 DEF OnlySent, Sent
  <1>7. SettledOnce' /\ OwnAnswer' /\ AnswersNamed'
    BY DEF SettledOnce, OwnAnswer, AnswersNamed
  <1> QED BY <1>2, <1>5, <1>6, <1>7

LEMMA TimeOutKeeps ==
    ASSUME IInv, NEW r \in Requests, TimeOut(r)
    PROVE  IInv'
  <1> USE DEF IInv, TimeOut, Settle, client, bridge, promises
  <1>1. CASE r \in pendingRequests
    <2> USE <1>1
    <2>1. settles[r] = 0
      BY DEF SettledOnce
    <2>2. settles' \in [Requests -> Nat]
      <3>1. settles' = [settles EXCEPT ![r] = 1]
        BY <2>1
      <3> QED BY <3>1 DEF ProviderTypeOK
    <2>3. value' \in [Requests -> Requests \cup {None}]
      <3>1. value' = [value EXCEPT ![r] = None]
        BY <2>1
      <3> QED BY <3>1 DEF ProviderTypeOK
    <2>4. ProviderTypeOK'
      BY <2>2, <2>3 DEF ProviderTypeOK
    <2>5. SettledOnce'
      BY <2>1 DEF SettledOnce, ProviderTypeOK
    <2>6. OwnAnswer' /\ AnswersNamed'
      BY DEF OwnAnswer, AnswersNamed, ProviderTypeOK
    <2>7. OnePlace'
      BY DEF OnePlace, InContent, InPage
    <2>8. OnlySent'
      BY <2>1 DEF OnlySent, Sent, InContent, InPage, ProviderTypeOK
    <2> QED BY <2>4, <2>5, <2>6, <2>7, <2>8
  <1>2. CASE r \notin pendingRequests
    <2> USE <1>2
    <2>1. ProviderTypeOK' /\ SettledOnce' /\ OwnAnswer' /\ AnswersNamed'
      BY DEF ProviderTypeOK, SettledOnce, OwnAnswer, AnswersNamed
    <2>2. OnePlace' /\ OnlySent'
      BY DEF OnePlace, OnlySent, Sent, InContent, InPage
    <2> QED BY <2>1, <2>2
  <1> QED BY <1>1, <1>2

LEMMA ReceiveResponseKeeps == ASSUME IInv, ReceiveResponse PROVE IInv'
  <1> DEFINE response == Head(toPage)
  <1> USE DEF IInv, ReceiveResponse, client
  <1>1. /\ response \in Response /\ response = toPage[1] /\ 1 \in DOMAIN toPage
        /\ toPage' \in Seq(Response)
        /\ \A i \in DOMAIN toPage' : i + 1 \in DOMAIN toPage /\ toPage'[i] = toPage[i + 1]
        /\ \A i \in DOMAIN toPage' : i \in Nat \ {0}
    BY HeadOfQueue DEF ProviderTypeOK
  <1>2. response.id \in Requests /\ response.data \in {None, response.id}
    BY <1>1 DEF Response, AnswersNamed
  <1>3. \A s \in Requests : /\ (InPage(s))' => InPage(s)
                            /\ (InContent(s))' <=> InContent(s)
    BY <1>1 DEF InPage, InContent
  <1>4. OnePlace'
    <2>1. \A i, j \in DOMAIN toPage' : toPage'[i].id = toPage'[j].id => i = j
      BY <1>1 DEF OnePlace
    <2> QED BY <2>1, <1>3 DEF OnePlace
  <1>5. AnswersNamed'
    BY <1>1 DEF AnswersNamed
  <1>6. CASE response.id \in pendingRequests
    <2> USE <1>2, <1>6 DEF Settle
    <2>1. settles[response.id] = 0
      BY DEF SettledOnce
    <2>2. PICK r \in Requests, data \in Requests \cup {None} :
              settles[r] = 0 /\ Settle(r, data)
      BY <2>1
    <2>3. settles' \in [Requests -> Nat] /\ value' \in [Requests -> Requests \cup {None}]
      BY <2>2 DEF ProviderTypeOK
    <2>4. ProviderTypeOK'
      BY <1>1, <2>3 DEF ProviderTypeOK
    <2>5. SettledOnce'
      BY <2>1 DEF SettledOnce, ProviderTypeOK
    <2>6. OwnAnswer'
      BY DEF OwnAnswer, ProviderTypeOK
    <2>7. OnlySent'
      BY <1>3, <2>1 DEF OnlySent, Sent, ProviderTypeOK
    <2> QED BY <1>4, <1>5, <2>4, <2>5, <2>6, <2>7
  <1>7. CASE response.id \notin pendingRequests
    <2> USE <1>7 DEF promises
    <2>1. pendingRequests' = pendingRequests
      OBVIOUS
    <2>2. ProviderTypeOK'
      BY <1>1 DEF ProviderTypeOK
    <2>3. SettledOnce' /\ OwnAnswer'
      BY <2>1 DEF SettledOnce, OwnAnswer
    <2>4. OnlySent'
      BY <1>3, <2>1 DEF OnlySent, Sent
    <2> QED BY <1>4, <1>5, <2>2, <2>3, <2>4
  <1> QED BY <1>6, <1>7

LEMMA RelayToBackgroundKeeps == ASSUME IInv, RelayToBackground PROVE IInv'
  <1> DEFINE r == Head(toContent)
  <1> USE DEF IInv, RelayToBackground, client, provider, promises
  <1>1. /\ r \in Requests /\ r = toContent[1] /\ 1 \in DOMAIN toContent
        /\ toContent' \in Seq(Requests)
        /\ \A i \in DOMAIN toContent' :
               i + 1 \in DOMAIN toContent /\ toContent'[i] = toContent[i + 1]
        /\ \A i \in DOMAIN toContent' : i \in Nat \ {0}
    BY HeadOfQueue DEF ProviderTypeOK
  <1>2. ProviderTypeOK'
    BY <1>1 DEF ProviderTypeOK
  <1>3. SettledOnce' /\ OwnAnswer' /\ AnswersNamed'
    BY DEF SettledOnce, OwnAnswer, AnswersNamed
  <1>4. \A s \in Requests : /\ (InPage(s))' <=> InPage(s)
                            /\ (InContent(s))' => InContent(s) /\ s # r
                            /\ s \in atBackground' <=> s \in atBackground \/ s = r
    BY <1>1 DEF InPage, InContent, OnePlace
  <1>5. InContent(r)
    BY <1>1 DEF InContent
  <1>6. OnePlace'
    <2>1. \A i, j \in DOMAIN toContent' : toContent'[i] = toContent'[j] => i = j
      BY <1>1 DEF OnePlace
    <2> QED BY <2>1, <1>1, <1>4, <1>5 DEF OnePlace
  <1>7. OnlySent'
    BY <1>1, <1>4, <1>5 DEF OnlySent, Sent
  <1> QED BY <1>2, <1>3, <1>6, <1>7

LEMMA AnswerRequestKeeps ==
    ASSUME IInv, NEW r \in Requests, AnswerRequest(r)
    PROVE  IInv'
  <1>1. PICK response \in Response :
            /\ response.id = r
            /\ response.data \in {None, r}
            /\ RelayToPage(r, response)
    BY DEF AnswerRequest, Success, Failure, Response
  <1> USE DEF IInv, RelayToPage, client, provider, promises
  <1>2. /\ toPage' \in Seq(Response)
        /\ \A i \in DOMAIN toPage' :
               \/ i \in DOMAIN toPage /\ toPage'[i] = toPage[i]
               \/ i = Len(toPage) + 1 /\ toPage'[i] = response
    BY <1>1, AppendToQueue DEF ProviderTypeOK
  <1>3. ProviderTypeOK'
    BY <1>1, <1>2 DEF ProviderTypeOK
  <1>4. SettledOnce' /\ OwnAnswer'
    BY <1>1 DEF SettledOnce, OwnAnswer
  <1>5. AnswersNamed'
    BY <1>1, <1>2 DEF AnswersNamed
  <1>6. r \in atBackground /\ ~InContent(r) /\ ~InPage(r)
    BY <1>1 DEF OnePlace
  <1>7. \A s \in Requests : /\ (InPage(s))' => InPage(s) \/ s = r
                            /\ (InContent(s))' <=> InContent(s)
                            /\ s \in atBackground' <=> s \in atBackground /\ s # r
    BY <1>1, <1>2 DEF InPage, InContent
  <1>8. OnePlace'
    <2>1. \A i, j \in DOMAIN toPage' : toPage'[i].id = toPage'[j].id => i = j
      BY <1>1, <1>2, <1>6 DEF OnePlace, InPage
    <2>2. UNCHANGED toContent
      BY <1>1
    <2> QED BY <2>1, <2>2, <1>6, <1>7 DEF OnePlace
  <1>9. OnlySent'
    BY <1>1, <1>6, <1>7 DEF OnlySent, Sent
  <1> QED BY <1>3, <1>4, <1>5, <1>8, <1>9

---------------------------------------------------------------------------
(* The theorems.                                                           *)

\* The inductive invariant: a message is in one place, and names its request.
THEOREM Invariant == ProviderSpec => []IInv
  <1>1. IInv /\ [ProviderNext]_providerVars => IInv'
    BY ClientKeeps, RequestKeeps, TimeOutKeeps, ReceiveResponseKeeps,
       RelayToBackgroundKeeps, AnswerRequestKeeps DEF ProviderNext
  <1> QED BY InitIInv, <1>1, PTL DEF ProviderSpec

\* Every variable of the page, the bridge and the worker stays in its type.
THEOREM TypeCorrect == ProviderSpec => []ProviderTypeOK
  <1>1. IInv => ProviderTypeOK
    BY DEF IInv
  <1> QED BY Invariant, <1>1, PTL

\* However answers and timeouts race, a request is settled at most once.
THEOREM SettlesOnce == ProviderSpec => []SettledOnce
  <1>1. IInv => SettledOnce
    BY DEF IInv
  <1> QED BY Invariant, <1>1, PTL

\* A promise never resolves with the answer to another request.
THEOREM AnswersMatch == ProviderSpec => []OwnAnswer
  <1>1. IInv => OwnAnswer
    BY DEF IInv
  <1> QED BY Invariant, <1>1, PTL

\* The worker gets each request at most once, and answers it at most once.
THEOREM NothingRelayedTwice == ProviderSpec => []RelayedOnce
  <1>1. IInv => RelayedOnce
    <2> SUFFICES ASSUME IInv, NEW r \in Requests
                 PROVE  Cardinality({i \in DOMAIN toContent : toContent[i] = r})
                          + (IF r \in atBackground THEN 1 ELSE 0)
                          + Cardinality({i \in DOMAIN toPage : toPage[i].id = r}) <= 1
      BY DEF RelayedOnce
    <2> DEFINE A == {i \in DOMAIN toContent : toContent[i] = r}
               B == {i \in DOMAIN toPage : toPage[i].id = r}
    <2>1. Cardinality(A) = IF A = {} THEN 0 ELSE 1
      BY AtMostOne DEF IInv, OnePlace
    <2>2. Cardinality(B) = IF B = {} THEN 0 ELSE 1
      BY AtMostOne DEF IInv, OnePlace
    <2>3. (A # {} <=> InContent(r)) /\ (B # {} <=> InPage(r))
      BY DEF InContent, InPage
    <2> QED BY <2>1, <2>2, <2>3 DEF IInv, OnePlace
  <1> QED BY Invariant, <1>1, PTL



---------------------------------------------------------------------------
(* The inductive invariant.                                                *)

\* The request as it was made.
Wanted == CreateSync(args)

\* What the application's setters leave as it was made.
MadeAsAsked ==
    /\ request \in RequestObjects
    /\ request.version = Version(args)
    /\ request.data.chain_id = Wanted.data.chain_id
    /\ request.data.req = Wanted.data.req
    /\ request.data.big = args.big
    /\ NoChainsInInfo(args) => NoKeyTwice(request.data.info)
    /\ changes = 0 => request.data = Wanted.data
    /\ request.signature # NotGiven /\ ~stale => request.signature = SignatureDigest(request)

GoodArguments(a) ==
    /\ a \in ArgumentRecords
    /\ a.kind # "transaction" => a.tapos = NoTapos
    /\ CanCreate(a)
    /\ Allowed(CreateSync(a))

RequestInv == request # NotGiven => GoodArguments(args) /\ MadeAsAsked

UriInv == uri # NotGiven => request # NotGiven /\ \E deflated \in BOOLEAN : uri = Encode(request, deflated)

WalletInv ==
    wallet # NotGiven => uri # NotGiven /\ wallet = (IF Opens(uri) THEN FromData(uri) ELSE Refused)

ResolvedBy(signer, ctx, fields, now) ==
    /\ CanResolve(wallet, ctx, FetchAbis(wallet, fields))
    /\ resolved = ResolvedRequest(wallet, signer, ctx, fields, now)

ResolvedInv ==
    resolved # NotGiven =>
        /\ wallet \notin {NotGiven, Refused}
        /\ \E signer \in Signers, ctx \in Contexts, fields \in AbiSizes, now \in Nat :
               ResolvedBy(signer, ctx, fields, now)

PayloadInv ==
    payload # NotGiven => resolved # NotGiven /\ \E deflated \in BOOLEAN : payload = CallbackPayload(resolved, deflated)

RecreatedInv ==
    recreated # NotGiven =>
        /\ payload # NotGiven
        /\ \E withCid \in BOOLEAN, fields \in AbiSizes, now \in Nat :
               recreated = Recreated(payload, withCid, fields, now)

SigningInv ==
    /\ abi \in AbiSizes /\ changes \in Nat
    /\ RequestInv /\ UriInv /\ WalletInv /\ ResolvedInv /\ PayloadInv /\ RecreatedInv
---------------------------------------------------------------------------
(* Chain ids.                                                              *)

LEMMA ChainIds ==
    ASSUME NEW chain \in Chains \cup {AnyChain}
    PROVE  /\ ChainVariant(chain) \in ChainIdVariants
           /\ ChainVariant(chain) = [alias |-> TRUE, of |-> AnyChain] <=> chain = AnyChain
           /\ VariantChain(ChainVariant(chain)) = (IF chain = AnyChain THEN Refused ELSE chain)
  BY ConstantsAssumption DEF ChainVariant, VariantChain, ChainIdVariants

LEMMA ChainLists ==
    ASSUME NEW ids \in SUBSET Chains
    PROVE  /\ ChainVariants(ids) \in SUBSET ChainIdVariants
           /\ {VariantChain(v) : v \in ChainVariants(ids)} = ids
           /\ ChainVariants(ids) # NotGiven
  <1>1. ASSUME NEW id \in ids
        PROVE  ChainVariant(id) \in ChainIdVariants /\ VariantChain(ChainVariant(id)) = id
    BY ChainIds, ConstantsAssumption
  <1>2. ChainVariants(ids) \in SUBSET ChainIdVariants
    BY <1>1 DEF ChainVariants
  <1>3. ChainVariants(ids) # NotGiven
    BY <1>2, DistinctAssumption
  <1>4. ASSUME NEW c PROVE c \in {VariantChain(v) : v \in ChainVariants(ids)} <=> c \in ids
    <2>1. ASSUME c \in ids PROVE \E v \in ChainVariants(ids) : VariantChain(v) = c
      BY <2>1, <1>1 DEF ChainVariants
    <2>2. ASSUME NEW v \in ChainVariants(ids), VariantChain(v) = c PROVE c \in ids
      BY <2>2, <1>1 DEF ChainVariants
    <2> QED BY <2>1, <2>2
  <1> HIDE DEF ChainVariants
  <1> QED BY <1>2, <1>3, <1>4

---------------------------------------------------------------------------
(* The list of pairs.                                                      *)

LEMMA NewChainPair ==
    ASSUME NEW what \in InfoValues
    PROVE  [key |-> "chain_ids", value |-> Serialized(what)] \in InfoPairs
  <1> DEFINE V == [typed : BOOLEAN, of : InfoValues]
             k == "chain_ids"
  <1>1. Serialized(what) \in V
    BY DEF Serialized
  <1>2. k \in Strings
    BY InputsAssumption
  <1>3. InfoPairs = [key : Strings, value : V]
    BY DEF InfoPairs
  <1> HIDE DEF V, k
  <1>4. [key |-> k, value |-> Serialized(what)] \in [key : Strings, value : V]
    BY <1>1, <1>2
  <1> QED BY <1>3, <1>4 DEF k

LEMMA FirstOfPairs ==
    ASSUME NEW info \in Seq(InfoPairs), NEW key, PairsOf(info, key) # {}
    PROVE  FirstPair(info, key) \in PairsOf(info, key)
  <1> DEFINE T == PairsOf(info, key)
  <1>1. T \in SUBSET Nat /\ T # {}
    BY DEF PairsOf
  <1> HIDE DEF T
  <1>2. \E n \in T : \A m \in T : n <= m
    BY <1>1, LeastNumber
  <1> QED BY <1>2 DEF FirstPair, T

LEMMA SetPairs ==
    ASSUME NEW info \in Seq(InfoPairs), NEW key \in Strings, NEW what, [key |-> key, value |-> what] \in InfoPairs
    PROVE  /\ SetRawInfoKey(info, key, what) \in Seq(InfoPairs)
           /\ NoKeyTwice(info) => NoKeyTwice(SetRawInfoKey(info, key, what))
  <1>1. CASE PairsOf(info, key) = {}
    <2> DEFINE new == [key |-> key, value |-> what]
    <2>1. SetRawInfoKey(info, key, what) = Append(info, new)
      BY <1>1 DEF SetRawInfoKey
    <2>2. \A i \in DOMAIN info : info[i].key # key
      BY <1>1 DEF PairsOf
    <2>3. new.key = key
      OBVIOUS
    <2> HIDE DEF new
    <2>4. Append(info, new) \in Seq(InfoPairs)
      BY DEF new
    <2>5. ASSUME NoKeyTwice(info) PROVE NoKeyTwice(Append(info, new))
      BY <2>2, <2>3, <2>5 DEF NoKeyTwice
    <2> QED BY <2>1, <2>4, <2>5
  <1>2. CASE PairsOf(info, key) # {}
    <2> DEFINE n == FirstPair(info, key)
               got == [info EXCEPT ![n].value = what]
    <2>1. n \in DOMAIN info /\ info[n].key = key
      BY <1>2, FirstOfPairs DEF PairsOf
    <2>2. SetRawInfoKey(info, key, what) = got
      BY <1>2 DEF SetRawInfoKey
    <2> HIDE DEF n
    <2>3. info[n] \in InfoPairs
      BY <2>1
    <2>4. [info[n] EXCEPT !.value = what] = [key |-> key, value |-> what]
      BY <2>1, <2>3 DEF InfoPairs
    <2>5. got = [i \in DOMAIN info |-> IF i = n THEN [key |-> key, value |-> what] ELSE info[i]]
      BY <2>1, <2>4
    <2> HIDE DEF got
    <2>6. got \in Seq(InfoPairs)
      BY <2>5
    <2>7. DOMAIN got = DOMAIN info /\ \A i \in DOMAIN info : got[i].key = info[i].key
      BY <2>5, <2>1
    <2> QED BY <2>2, <2>6, <2>7 DEF NoKeyTwice
  <1> QED BY <1>1, <1>2

LEMMA InfoOfArguments ==
    ASSUME NEW a \in ArgumentRecords
    PROVE  /\ Info(a) \in Seq(InfoPairs)
           /\ NoChainsInInfo(a) => NoKeyTwice(Info(a))
  <1>1. a.info \in Seq(InfoPairs) /\ NoKeyTwice(a.info) /\ a.chainIds \in {NotGiven} \cup SUBSET Chains
    BY DEF ArgumentRecords, NoKeyTwice
  <1>2. CASE a.chainId = AnyChain /\ a.chainIds # NotGiven
    <2> DEFINE new == [key |-> "chain_ids", value |-> Serialized(ChainVariants(a.chainIds))]
    <2>1. new \in InfoPairs
      <3>1. ChainVariants(a.chainIds) \in InfoValues
        BY <1>1, <1>2, ChainLists DEF InfoValues
      <3> QED BY <3>1, NewChainPair
    <2>2. Info(a) = a.info \o <<new>>
      BY <1>2 DEF Info
    <2>3. new.key = "chain_ids"
      OBVIOUS
    <2> HIDE DEF new
    <2>4. a.info \o <<new>> \in Seq(InfoPairs)
      BY <1>1, <2>1
    <2>5. ASSUME NoChainsInInfo(a) PROVE NoKeyTwice(a.info \o <<new>>)
      <3> DEFINE old == a.info
      <3>1. \A i \in DOMAIN old : old[i].key # "chain_ids"
        BY <2>5 DEF NoChainsInInfo
      <3>2. old \in Seq(InfoPairs) /\ NoKeyTwice(old)
        BY <1>1
      <3> HIDE DEF old
      <3>3. NoKeyTwice(old \o <<new>>)
        BY <3>1, <3>2, <2>3 DEF NoKeyTwice
      <3> QED BY <3>3 DEF old
    <2> QED BY <2>2, <2>4, <2>5
  <1>3. CASE ~(a.chainId = AnyChain /\ a.chainIds # NotGiven)
    <2>1. Info(a) = a.info \o <<>>
      BY <1>3 DEF Info
    <2>2. a.info \o <<>> = a.info
      BY <1>1
    <2> QED BY <1>1, <2>1, <2>2
  <1> QED BY <1>2, <1>3

---------------------------------------------------------------------------
(* Requests.                                                               *)

\* The fields of a record of arguments.
LEMMA ArgumentFields ==
    ASSUME NEW a \in ArgumentRecords
    PROVE  /\ a.kind \in {"actions", "transaction", "identity"}
           /\ a.actions \in ActionLists /\ a.tapos \in TaposValues
           /\ a.permission \in PermissionLevels /\ a.scope \in Strings \cup {NotGiven}
           /\ a.chainId \in Chains \cup {AnyChain} /\ a.chainIds \in {NotGiven} \cup SUBSET Chains
           /\ a.broadcast \in BOOLEAN \cup {NotGiven} /\ a.callback \in Strings
           /\ a.info \in Seq(InfoPairs) /\ NoKeyTwice(a.info)
           /\ a.encoded \in BOOLEAN /\ a.big \in BOOLEAN
  BY DEF ArgumentRecords

ReqRecords ==
    [kind : RequestKinds, actions : ActionLists, tapos : TaposValues,
     permission : PermissionLevels \cup {NotGiven}, scope : Strings \cup {NotGiven}]

LEMMA ReqOfArguments ==
    ASSUME NEW a \in ArgumentRecords
    PROVE  /\ Req(a) \in ReqRecords
           /\ Req(a).kind = "identity" <=> a.kind = "identity"
  BY ArgumentFields DEF Req, ReqRecords, RequestKinds, IdentityPermission

LEMMA CreateSyncTyped ==
    ASSUME NEW a \in ArgumentRecords
    PROVE  /\ CreateSync(a) \in RequestObjects
           /\ CreateSync(a).data \in RequestData
           /\ CreateSync(a).version \in {2, 3}
  <1> DEFINE chain == ChainVariant(a.chainId)
             req == Req(a)
             broadcast == IF a.broadcast = NotGiven THEN a.kind # "identity" ELSE a.broadcast
             info == Info(a)
             version == Version(a)
             data == [chain_id |-> chain, req |-> req, broadcast |-> broadcast,
                      callback |-> a.callback, info |-> info, big |-> a.big]
  <1>1. chain \in ChainIdVariants
    BY ArgumentFields, ChainIds
  <1>2. req \in ReqRecords
    BY ReqOfArguments
  <1>3. broadcast \in BOOLEAN /\ a.callback \in Strings /\ a.big \in BOOLEAN
    BY ArgumentFields
  <1>4. info \in Seq(InfoPairs)
    BY InfoOfArguments
  <1>5. version \in {2, 3}
    BY DEF Version
  <1>6. CreateSync(a) = [version |-> version, data |-> data, signature |-> NotGiven]
    BY DEF CreateSync
  <1> HIDE DEF chain, req, broadcast, info, version
  <1>7. data \in RequestData
    BY <1>1, <1>2, <1>3, <1>4 DEF RequestData, ReqRecords
  <1> HIDE DEF data
  <1> QED BY <1>5, <1>6, <1>7 DEF RequestObjects

\* Writing and reading leave a request as it is.
LEMMA EncodedIsRead ==
    ASSUME NEW r \in RequestObjects, NEW deflated
    PROVE  /\ FromData(Encode(r, deflated)) = r
           /\ Opens(Encode(r, deflated)) <=> ~(deflated /\ r.data.big) /\ Allowed(r)
  BY DEF FromData, Encode, RequestObjects, Opens, Allowed

LEMMA RequestsAreObjects ==
    ASSUME NEW r \in RequestObjects
    PROVE  r # NotGiven /\ r # Refused
  BY DistinctAssumption

LEMMA SignedTyped ==
    ASSUME NEW r \in RequestObjects
    PROVE  /\ Signed(r) \in RequestObjects
           /\ Signed(r).version = r.version /\ Signed(r).data = r.data
           /\ Signed(r).signature = SignatureDigest(r)
           /\ SignatureDigest(Signed(r)) = SignatureDigest(r)
           /\ SignatureDigest(r) # NotGiven
  BY DistinctAssumption DEF Signed, RequestObjects, SignatureDigest

---------------------------------------------------------------------------
(* The application.                                                        *)

LEMMA RequestInitInv == RequestInit => SigningInv
  BY DEF RequestInit, SigningInv, RequestInv, UriInv, WalletInv, ResolvedInv, PayloadInv, RecreatedInv

\* As long as there is no URI nobody else has anything.
LEMMA ApplicationStep ==
    ASSUME SigningInv, uri = NotGiven, RequestInv', changes' \in Nat,
           UNCHANGED <<abi, uri, wallet, resolved, payload, recreated>>
    PROVE  SigningInv'
  <1>1. abi' \in AbiSizes
    BY DEF SigningInv
  <1>2. UriInv'
    BY DEF UriInv
  <1>3. WalletInv' /\ wallet = NotGiven
    BY DEF SigningInv, WalletInv
  <1>4. ResolvedInv' /\ resolved = NotGiven
    BY <1>3 DEF SigningInv, ResolvedInv
  <1>5. PayloadInv' /\ payload = NotGiven
    BY <1>4 DEF SigningInv, PayloadInv
  <1>6. RecreatedInv'
    BY <1>5 DEF SigningInv, RecreatedInv
  <1> QED BY <1>1, <1>2, <1>3, <1>4, <1>5, <1>6 DEF SigningInv

LEMMA NoRequestNoUri ==
    ASSUME SigningInv, request = NotGiven
    PROVE  uri = NotGiven
  BY DEF SigningInv, UriInv

\* A request just made, signed or not.
LEMMA JustMade ==
    ASSUME NEW a \in ArgumentRecords, NEW r \in {CreateSync(a), Signed(CreateSync(a))},
           a.kind # "transaction" => a.tapos = NoTapos, CanCreate(a), Allowed(CreateSync(a)),
           args' = a, request' = r
    PROVE  RequestInv'
  <1>1. CreateSync(a) \in RequestObjects
    BY CreateSyncTyped
  <1>2. /\ CreateSync(a).version = Version(a) /\ CreateSync(a).data.big = a.big
        /\ CreateSync(a).data.info = Info(a) /\ CreateSync(a).signature = NotGiven
    BY DEF CreateSync
  <1>3. r \in RequestObjects /\ r.version = CreateSync(a).version /\ r.data = CreateSync(a).data
    BY <1>1, SignedTyped
  <1>4. r.signature # NotGiven => r.signature = SignatureDigest(r)
    BY <1>1, <1>2, SignedTyped
  <1>5. NoChainsInInfo(a) => NoKeyTwice(r.data.info)
    BY <1>2, <1>3, InfoOfArguments
  <1>6. GoodArguments(args')
    BY DEF GoodArguments
  <1>7. MadeAsAsked'
    BY <1>2, <1>3, <1>4, <1>5 DEF MadeAsAsked, Wanted
  <1> QED BY <1>6, <1>7 DEF RequestInv

LEMMA CreateInv ==
    ASSUME SigningInv, NEW a \in Arguments, NEW sign \in BOOLEAN, Create(a, sign)
    PROVE  SigningInv'
  <1>1. a \in ArgumentRecords /\ (a.kind # "transaction" => a.tapos = NoTapos)
    BY InputsAssumption
  <1>2. RequestInv'
    <2>1. request' \in {CreateSync(a), Signed(CreateSync(a))}
      BY DEF Create
    <2> QED BY <1>1, <2>1, JustMade DEF Create
  <1>3. changes' \in Nat
    BY DEF Create, SigningInv
  <1> QED BY <1>2, <1>3, NoRequestNoUri, ApplicationStep DEF Create

\* fromTransaction makes what create would make of its arguments.
LEMMA TransactionMade ==
    ASSUME NEW a \in ArgumentRecords, a.kind = "transaction", a.chainId \in Chains
    PROVE  /\ TransactionArgs(a) \in ArgumentRecords
           /\ TransactionArgs(a).kind = "transaction"
           /\ CanCreate(TransactionArgs(a)) /\ Allowed(CreateSync(TransactionArgs(a)))
           /\ FromData(TransactionBytes(a)) = CreateSync(TransactionArgs(a))
  <1> DEFINE t == TransactionArgs(a)
  <1>1. /\ t.kind = "transaction" /\ t.actions = a.actions /\ t.tapos = a.tapos
        /\ t.permission = a.permission /\ t.scope = a.scope /\ t.chainId = a.chainId
        /\ t.chainIds = NotGiven /\ t.broadcast = TRUE /\ t.callback = NoCallback /\ t.info = <<>>
        /\ t.encoded = a.encoded /\ t.big = a.big
    BY DEF TransactionArgs
  <1>2. t \in ArgumentRecords
    <2>1. <<>> \in Seq(InfoPairs) /\ NoKeyTwice(<<>>)
      BY DEF NoKeyTwice
    <2>2. NoCallback \in Strings
      BY InputsAssumption
    <2> QED BY <2>1, <2>2, ArgumentFields DEF TransactionArgs, ArgumentRecords
  <1> HIDE DEF t
  <1>3. a.chainId # AnyChain
    BY ConstantsAssumption
  <1>4. Version(t) = 2 /\ CanCreate(t)
    BY <1>1, <1>3 DEF Version, CanCreate
  <1>5. Req(t) = Req(a)
    BY <1>1 DEF Req, IdentityPermission
  <1>6. Info(t) = <<>>
    BY <1>1, <1>3 DEF Info
  <1>7. CreateSync(t) = [version |-> 2,
                         data |-> [chain_id |-> ChainVariant(a.chainId), req |-> Req(a), broadcast |-> TRUE,
                                   callback |-> NoCallback, info |-> <<>>, big |-> a.big],
                         signature |-> NotGiven]
    <2>1. TRUE # NotGiven
      BY DistinctAssumption
    <2> QED BY <1>1, <1>4, <1>5, <1>6, <2>1 DEF CreateSync
  <1>8. FromData(TransactionBytes(a)) = CreateSync(t)
    BY <1>7 DEF FromData, TransactionBytes
  <1>9. Allowed(CreateSync(t))
    <2>1. Req(a).kind # "identity"
      BY ReqOfArguments
    <2> QED BY <1>7, <2>1 DEF Allowed
  <1> QED BY <1>1, <1>2, <1>4, <1>8, <1>9 DEF t

LEMMA FromTransactionInv ==
    ASSUME SigningInv, NEW a \in Arguments, FromTransaction(a)
    PROVE  SigningInv'
  <1>1. a \in ArgumentRecords
    BY InputsAssumption
  <1>2. RequestInv'
    BY <1>1, TransactionMade, JustMade DEF FromTransaction
  <1>3. changes' \in Nat
    BY DEF FromTransaction, SigningInv
  <1> QED BY <1>2, <1>3, NoRequestNoUri, ApplicationStep DEF FromTransaction

LEMMA SignInv ==
    ASSUME SigningInv, Sign
    PROVE  SigningInv'
  <1>1. MadeAsAsked /\ GoodArguments(args)
    BY DEF SigningInv, RequestInv, Sign
  <1>2. request \in RequestObjects /\ request' = Signed(request)
    BY <1>1 DEF MadeAsAsked, Sign
  <1>3. args' = args /\ changes' = changes
    BY DEF Sign
  <1>4. MadeAsAsked'
    BY <1>1, <1>2, <1>3, SignedTyped DEF MadeAsAsked, Wanted
  <1>5. RequestInv'
    BY <1>1, <1>3, <1>4 DEF RequestInv
  <1> QED BY <1>5, ApplicationStep DEF Sign, SigningInv

LEMMA SetSignatureInv ==
    ASSUME SigningInv, SetSignature
    PROVE  SigningInv'
  <1> DEFINE digest == SignatureDigest(CreateSync(args))
  <1>1. MadeAsAsked /\ GoodArguments(args)
    BY DEF SigningInv, RequestInv, SetSignature
  <1>2. args' = args /\ changes' = changes
    BY DEF SetSignature
  <1>3. digest \in {2, 3} \X RequestData
    BY <1>1, CreateSyncTyped DEF GoodArguments, SignatureDigest
  <1>4. /\ request' = [request EXCEPT !.signature = digest]
        /\ stale' = (digest # SignatureDigest(request))
    BY DEF SetSignature
  <1> HIDE DEF digest
  <1>5. /\ request' \in RequestObjects
        /\ request'.version = request.version /\ request'.data = request.data
        /\ request'.signature = digest
    BY <1>1, <1>3, <1>4 DEF MadeAsAsked, RequestObjects
  <1>6. SignatureDigest(request)' = SignatureDigest(request)
    BY <1>5 DEF SignatureDigest
  <1>7. MadeAsAsked'
    BY <1>1, <1>2, <1>4, <1>5, <1>6 DEF MadeAsAsked, Wanted
  <1>8. RequestInv'
    BY <1>1, <1>2, <1>7 DEF RequestInv
  <1> QED BY <1>8, ApplicationStep DEF SetSignature, SigningInv

\* A setter changes what a request says beside its chain and what it asks.
LEMMA SetInv ==
    ASSUME SigningInv, NEW data \in RequestData, Set(data),
           data.chain_id = request.data.chain_id, data.req = request.data.req, data.big = request.data.big,
           NoKeyTwice(request.data.info) => NoKeyTwice(data.info)
    PROVE  SigningInv'
  <1>1. MadeAsAsked /\ GoodArguments(args)
    BY DEF SigningInv, RequestInv, Set
  <1>2. args' = args /\ changes' = changes + 1 /\ stale' = (request.signature # NotGiven)
    BY DEF Set
  <1>3. /\ request' \in RequestObjects /\ request'.version = request.version /\ request'.data = data
        /\ request'.signature = request.signature
    BY <1>1 DEF Set, MadeAsAsked, RequestObjects
  <1>4. changes' \in Nat /\ changes' # 0
    BY <1>2 DEF SigningInv
  <1>5. MadeAsAsked'
    BY <1>1, <1>2, <1>3, <1>4 DEF MadeAsAsked, Wanted
  <1>6. RequestInv'
    BY <1>1, <1>2, <1>5 DEF RequestInv
  <1> QED BY <1>4, <1>6, ApplicationStep DEF Set

LEMMA DataOfRequest ==
    ASSUME SigningInv, request # NotGiven
    PROVE  request.data \in RequestData
  BY DEF SigningInv, RequestInv, MadeAsAsked, RequestObjects

LEMMA SetBroadcastInv ==
    ASSUME SigningInv, NEW b \in BOOLEAN, SetBroadcast(b)
    PROVE  SigningInv'
  <1> DEFINE data == [request.data EXCEPT !.broadcast = b]
  <1>1. request.data \in RequestData /\ Set(data)
    BY DataOfRequest DEF SetBroadcast
  <1>2. /\ data \in RequestData
        /\ data.chain_id = request.data.chain_id /\ data.req = request.data.req
        /\ data.big = request.data.big /\ data.info = request.data.info
    BY <1>1 DEF RequestData
  <1> HIDE DEF data
  <1> QED BY <1>1, <1>2, SetInv

LEMMA SetCallbackInv ==
    ASSUME SigningInv, NEW url \in Strings, SetCallback(url)
    PROVE  SigningInv'
  <1> DEFINE data == [request.data EXCEPT !.callback = url]
  <1>1. request.data \in RequestData /\ Set(data)
    BY DataOfRequest DEF SetCallback
  <1>2. /\ data \in RequestData
        /\ data.chain_id = request.data.chain_id /\ data.req = request.data.req
        /\ data.big = request.data.big /\ data.info = request.data.info
    BY <1>1 DEF RequestData
  <1> HIDE DEF data
  <1> QED BY <1>1, <1>2, SetInv

LEMMA SetInfoKeyInv ==
    ASSUME SigningInv, NEW key \in Strings, NEW what, [key |-> key, value |-> what] \in InfoPairs,
           SetInfoKey(key, what)
    PROVE  SigningInv'
  <1> DEFINE info == SetRawInfoKey(request.data.info, key, what)
             data == [request.data EXCEPT !.info = info]
  <1>1. request.data \in RequestData /\ Set(data)
    BY DataOfRequest DEF SetInfoKey
  <1>2. request.data.info \in Seq(InfoPairs)
    BY <1>1 DEF RequestData
  <1>3. info \in Seq(InfoPairs) /\ (NoKeyTwice(request.data.info) => NoKeyTwice(info))
    BY <1>2, SetPairs
  <1> HIDE DEF info
  <1>4. /\ data \in RequestData
        /\ data.chain_id = request.data.chain_id /\ data.req = request.data.req
        /\ data.big = request.data.big /\ data.info = info
    BY <1>1, <1>3 DEF RequestData
  <1> HIDE DEF data
  <1> QED BY <1>1, <1>3, <1>4, SetInv

LEMMA SetChainIdsInv ==
    ASSUME SigningInv, NEW ids \in SUBSET Chains, SetChainIds(ids)
    PROVE  SigningInv'
  <1> DEFINE what == Serialized(ChainVariants(ids))
             key == "chain_ids"
  <1>1. key \in Strings
    BY InputsAssumption
  <1>2. [key |-> key, value |-> what] \in InfoPairs
    BY ChainLists, NewChainPair DEF InfoValues
  <1>3. SetInfoKey(key, what)
    BY DEF SetChainIds
  <1> HIDE DEF what, key
  <1> QED BY <1>1, <1>2, <1>3, SetInfoKeyInv

LEMMA SetNoteInv ==
    ASSUME SigningInv, SetInfoKey("note", OtherNote)
    PROVE  SigningInv'
  <1> DEFINE key == "note"
             text == "other"
  <1>1. key \in Strings /\ text \in Strings
    BY InputsAssumption
  <1>2. OtherNote = [typed |-> TRUE, of |-> text]
    BY DEF OtherNote, Serialized
  <1> HIDE DEF text
  <1>3. OtherNote \in [typed : BOOLEAN, of : InfoValues]
    BY <1>1, <1>2 DEF InfoValues
  <1>4. SetInfoKey(key, OtherNote)
    OBVIOUS
  <1> HIDE DEF key
  <1>5. [key |-> key, value |-> OtherNote] \in InfoPairs
    BY <1>1, <1>3 DEF InfoPairs
  <1> QED BY <1>1, <1>4, <1>5, SetInfoKeyInv

---------------------------------------------------------------------------
(* The wallet and the service.                                             *)

LEMMA EncodeRequestInv ==
    ASSUME SigningInv, NEW deflated \in BOOLEAN, EncodeRequest(deflated)
    PROVE  SigningInv'
  <1>1. uri = NotGiven /\ wallet = NotGiven /\ resolved = NotGiven /\ payload = NotGiven /\ recreated = NotGiven
    BY DEF EncodeRequest, SigningInv, WalletInv, ResolvedInv, PayloadInv, RecreatedInv
  <1>2. RequestInv'
    BY DEF EncodeRequest, SigningInv, RequestInv, GoodArguments, MadeAsAsked, Wanted
  <1>3. UriInv'
    BY DEF EncodeRequest, UriInv
  <1>4. WalletInv' /\ ResolvedInv' /\ PayloadInv' /\ RecreatedInv'
    BY <1>1 DEF EncodeRequest, WalletInv, ResolvedInv, PayloadInv, RecreatedInv
  <1> QED BY <1>2, <1>3, <1>4 DEF SigningInv, EncodeRequest

\* What the application has and sent.
Before == <<args, request, changes, stale, uri>>

LEMMA BeforeKept ==
    ASSUME SigningInv, UNCHANGED Before
    PROVE  RequestInv' /\ UriInv' /\ changes' \in Nat
  BY DEF Before, SigningInv, RequestInv, GoodArguments, MadeAsAsked, Wanted, UriInv

LEMMA OpenInv ==
    ASSUME SigningInv, Open
    PROVE  SigningInv'
  <1>1. resolved = NotGiven /\ payload = NotGiven /\ recreated = NotGiven
    BY DEF Open, SigningInv, ResolvedInv, PayloadInv, RecreatedInv
  <1>2. RequestInv' /\ UriInv' /\ changes' \in Nat
    BY BeforeKept DEF Open, Before
  <1>3. WalletInv'
    BY DEF Open, WalletInv
  <1>4. ResolvedInv' /\ PayloadInv' /\ RecreatedInv'
    BY <1>1 DEF Open, ResolvedInv, PayloadInv, RecreatedInv
  <1> QED BY <1>2, <1>3, <1>4 DEF SigningInv, Open

LEMMA ResolveInv ==
    ASSUME SigningInv, NEW signer \in Signers, NEW ctx \in Contexts, NEW now \in Nat,
           Resolve(signer, ctx, now)
    PROVE  SigningInv'
  <1>1. payload = NotGiven /\ recreated = NotGiven
    BY DEF Resolve, SigningInv, PayloadInv, RecreatedInv
  <1>2. RequestInv' /\ UriInv' /\ changes' \in Nat
    BY BeforeKept DEF Resolve, Before
  <1>3. WalletInv'
    BY DEF Resolve, WalletInv, SigningInv
  <1>4. ResolvedInv'
    <2>1. abi \in AbiSizes
      BY DEF SigningInv
    <2>2. /\ CanResolve(wallet', ctx, FetchAbis(wallet', abi))
          /\ resolved' = ResolvedRequest(wallet', signer, ctx, abi, now)
          /\ wallet' \notin {NotGiven, Refused}
      BY DEF Resolve
    <2>3. \E s \in Signers, c \in Contexts, f \in AbiSizes, n \in Nat :
              /\ CanResolve(wallet', c, FetchAbis(wallet', f))
              /\ resolved' = ResolvedRequest(wallet', s, c, f, n)
      BY <2>1, <2>2
    <2> QED BY <2>2, <2>3 DEF ResolvedInv, ResolvedBy
  <1>5. PayloadInv' /\ RecreatedInv'
    BY <1>1 DEF Resolve, PayloadInv, RecreatedInv
  <1> QED BY <1>2, <1>3, <1>4, <1>5 DEF SigningInv, Resolve

LEMMA CallbackInv ==
    ASSUME SigningInv, NEW deflated \in BOOLEAN, Callback(deflated)
    PROVE  SigningInv'
  <1>1. recreated = NotGiven
    BY DEF Callback, SigningInv, RecreatedInv
  <1>2. RequestInv' /\ UriInv' /\ changes' \in Nat
    BY BeforeKept DEF Callback, Before
  <1>3. WalletInv' /\ ResolvedInv'
    BY DEF Callback, WalletInv, ResolvedInv, ResolvedBy, SigningInv
  <1>4. PayloadInv'
    BY DEF Callback, PayloadInv
  <1>5. RecreatedInv'
    BY <1>1 DEF Callback, RecreatedInv
  <1> QED BY <1>2, <1>3, <1>4, <1>5 DEF SigningInv, Callback

LEMMA FromPayloadInv ==
    ASSUME SigningInv, NEW withCid \in BOOLEAN, NEW now \in Nat, FromPayload(withCid, now)
    PROVE  SigningInv'
  <1>1. RequestInv' /\ UriInv' /\ changes' \in Nat
    BY BeforeKept DEF FromPayload, Before
  <1>2. WalletInv' /\ ResolvedInv' /\ PayloadInv'
    BY DEF FromPayload, WalletInv, ResolvedInv, ResolvedBy, PayloadInv, SigningInv
  <1>3. RecreatedInv'
    <2>1. abi \in AbiSizes
      BY DEF SigningInv
    <2>2. payload' # NotGiven /\ recreated' = Recreated(payload', withCid, abi, now)
      BY DEF FromPayload
    <2> QED BY <2>1, <2>2 DEF RecreatedInv
  <1> QED BY <1>1, <1>2, <1>3 DEF SigningInv, FromPayload

LEMMA SetAbiInv ==
    ASSUME SigningInv, SetAbi
    PROVE  SigningInv'
  <1>1. RequestInv' /\ UriInv' /\ changes' \in Nat
    BY BeforeKept DEF SetAbi, Before
  <1>2. WalletInv' /\ ResolvedInv' /\ PayloadInv' /\ RecreatedInv'
    BY DEF SetAbi, WalletInv, ResolvedInv, ResolvedBy, PayloadInv, RecreatedInv, SigningInv
  <1>3. abi' \in AbiSizes
    BY DEF SetAbi
  <1> QED BY <1>1, <1>2, <1>3 DEF SigningInv

LEMMA StutterInv ==
    ASSUME SigningInv, UNCHANGED requestVars
    PROVE  SigningInv'
  <1>1. RequestInv' /\ UriInv' /\ changes' \in Nat
    BY BeforeKept DEF requestVars, Before
  <1>2. WalletInv' /\ ResolvedInv' /\ PayloadInv' /\ RecreatedInv' /\ abi' \in AbiSizes
    BY DEF requestVars, WalletInv, ResolvedInv, ResolvedBy, PayloadInv, RecreatedInv, SigningInv
  <1> QED BY <1>1, <1>2 DEF SigningInv

LEMMA RequestStepInv ==
    ASSUME SigningInv, [RequestNext]_requestVars
    PROVE  SigningInv'
  <1>1. ASSUME NEW a \in Arguments, NEW sign \in BOOLEAN, Create(a, sign) PROVE SigningInv'
    BY <1>1, CreateInv
  <1>2. ASSUME NEW a \in Arguments, FromTransaction(a) PROVE SigningInv'
    BY <1>2, FromTransactionInv
  <1>3. CASE Sign
    BY <1>3, SignInv
  <1>4. CASE SetSignature
    BY <1>4, SetSignatureInv
  <1>5. CASE Open
    BY <1>5, OpenInv
  <1>6. CASE SetAbi
    BY <1>6, SetAbiInv
  <1>7. ASSUME NEW b \in BOOLEAN, SetBroadcast(b) PROVE SigningInv'
    BY <1>7, SetBroadcastInv
  <1>8. ASSUME NEW b \in BOOLEAN, EncodeRequest(b) PROVE SigningInv'
    BY <1>8, EncodeRequestInv
  <1>9. ASSUME NEW b \in BOOLEAN, Callback(b) PROVE SigningInv'
    BY <1>9, CallbackInv
  <1>10. ASSUME NEW ids \in SUBSET Chains, SetChainIds(ids) PROVE SigningInv'
    BY <1>10, SetChainIdsInv
  <1>11. ASSUME NEW url \in Callbacks, SetCallback(url) PROVE SigningInv'
    <2>1. url \in Strings
      BY InputsAssumption
    <2> QED BY <1>11, <2>1, SetCallbackInv
  <1>12. CASE SetInfoKey("note", OtherNote)
    BY <1>12, SetNoteInv
  <1>13. ASSUME NEW signer \in Signers, NEW ctx \in Contexts, NEW now \in ResolveTimes, Resolve(signer, ctx, now)
         PROVE  SigningInv'
    <2>1. now \in Nat
      BY InputsAssumption
    <2> QED BY <1>13, <2>1, ResolveInv
  <1>14. ASSUME NEW withCid \in BOOLEAN, NEW now \in RecreateTimes, FromPayload(withCid, now) PROVE SigningInv'
    <2>1. now \in Nat
      BY InputsAssumption
    <2> QED BY <1>14, <2>1, FromPayloadInv
  <1>15. CASE UNCHANGED requestVars
    BY <1>15, StutterInv
  <1> QED
    BY <1>1, <1>2, <1>3, <1>4, <1>5, <1>6, <1>7, <1>8, <1>9, <1>10, <1>11, <1>12, <1>13, <1>14, <1>15
       DEF RequestNext

---------------------------------------------------------------------------
(* What the wallet has.                                                    *)

LEMMA WalletHas ==
    ASSUME SigningInv, wallet # NotGiven
    PROVE  /\ GoodArguments(args) /\ MadeAsAsked
           /\ uri.deflated \in BOOLEAN
           /\ wallet = (IF ~(uri.deflated /\ args.big) /\ Allowed(request) THEN request ELSE Refused)
           /\ wallet # Refused => wallet = request /\ Allowed(request)
  <1>1. uri # NotGiven /\ request # NotGiven /\ wallet = (IF Opens(uri) THEN FromData(uri) ELSE Refused)
    BY DEF SigningInv, WalletInv, UriInv
  <1>2. PICK deflated \in BOOLEAN : uri = Encode(request, deflated)
    BY <1>1 DEF SigningInv, UriInv
  <1>3. GoodArguments(args) /\ MadeAsAsked
    BY <1>1 DEF SigningInv, RequestInv
  <1>4. request \in RequestObjects /\ request.data.big = args.big
    BY <1>3 DEF MadeAsAsked
  <1>5. uri.deflated = deflated
    BY <1>2 DEF Encode
  <1> QED BY <1>1, <1>2, <1>3, <1>4, <1>5, EncodedIsRead

LEMMA ArgumentsOfRequest ==
    ASSUME GoodArguments(args), MadeAsAsked
    PROVE  /\ request.version = Version(args)
           /\ request.data.req = Req(args)
           /\ request.data.chain_id = ChainVariant(args.chainId)
           /\ IsIdentity(request) <=> args.kind = "identity"
           /\ IsMultiChain(request) <=> args.chainId = AnyChain
           /\ GetChainId(request) = (IF args.chainId = AnyChain THEN Refused ELSE args.chainId)
  <1>1. args \in ArgumentRecords
    BY DEF GoodArguments
  <1>2. /\ request.version = Version(args)
        /\ request.data.req = Req(args)
        /\ request.data.chain_id = ChainVariant(args.chainId)
    BY DEF MadeAsAsked, Wanted, CreateSync
  <1>3. IsIdentity(request) <=> args.kind = "identity"
    BY <1>1, <1>2, ReqOfArguments DEF IsIdentity
  <1>4. args.chainId \in Chains \cup {AnyChain}
    BY <1>1, ArgumentFields
  <1> QED BY <1>2, <1>3, <1>4, ChainIds DEF IsMultiChain, GetChainId

LEMMA PairIsRead ==
    ASSUME NEW info \in Seq(InfoPairs), NoKeyTwice(info), NEW i \in DOMAIN info,
           NEW key, key = info[i].key
    PROVE  GetInfoKey(info, key, info[i].value.typed) = info[i].value.of
  <1>1. i \in PairsOf(info, key)
    BY DEF PairsOf
  <1>2. FirstPair(info, key) \in PairsOf(info, key)
    BY <1>1, FirstOfPairs
  <1>3. FirstPair(info, key) = i
    BY <1>2 DEF PairsOf, NoKeyTwice
  <1> QED BY <1>1, <1>3 DEF GetInfoKey

LEMMA InfoAtFirst ==
    ASSUME NEW a \in ArgumentRecords, NoChainsInInfo(a)
    PROVE  /\ \A pair \in Range(a.info) : GetInfoKey(Info(a), pair.key, pair.value.typed) = pair.value.of
           /\ a.chainId = AnyChain =>
                  GetInfoKey(Info(a), "chain_ids", TRUE) =
                      (IF a.chainIds = NotGiven THEN NotGiven ELSE ChainVariants(a.chainIds))
  <1> DEFINE old == a.info
             info == Info(a)
             key == "chain_ids"
  <1>1. old \in Seq(InfoPairs)
    BY ArgumentFields
  <1>2. info \in Seq(InfoPairs) /\ NoKeyTwice(info)
    BY InfoOfArguments
  <1>3. info = old \o (IF a.chainId = AnyChain /\ a.chainIds # NotGiven
                       THEN <<[key |-> key, value |-> Serialized(ChainVariants(a.chainIds))]>> ELSE <<>>)
    BY DEF Info
  <1>4. \A i \in DOMAIN old : old[i].key # key
    BY DEF NoChainsInInfo
  <1> HIDE DEF old, info, key
  <1>5. ASSUME NEW pair \in Range(old)
        PROVE  GetInfoKey(info, pair.key, pair.value.typed) = pair.value.of
    <2>1. PICK i \in DOMAIN old : pair = old[i]
      BY <1>5 DEF Range
    <2>2. i \in DOMAIN info /\ info[i] = pair
      BY <1>1, <1>3, <2>1
    <2> QED BY <1>2, <2>2, PairIsRead
  <1>6. ASSUME a.chainId = AnyChain, a.chainIds # NotGiven
        PROVE  GetInfoKey(info, key, TRUE) = ChainVariants(a.chainIds)
    <2> DEFINE new == [key |-> key, value |-> Serialized(ChainVariants(a.chainIds))]
    <2>1. info = old \o <<new>>
      BY <1>3, <1>6
    <2>2. new.key = key /\ new.value.typed = TRUE /\ new.value.of = ChainVariants(a.chainIds)
      BY DEF Serialized
    <2> HIDE DEF new
    <2>3. Len(old) + 1 \in DOMAIN info /\ info[Len(old) + 1] = new
      BY <1>1, <2>1
    <2> QED BY <1>2, <2>2, <2>3, PairIsRead
  <1>7. ASSUME a.chainIds = NotGiven
        PROVE  GetInfoKey(info, key, TRUE) = NotGiven
    <2>1. info = old
      BY <1>1, <1>3, <1>7
    <2>2. PairsOf(info, key) = {}
      BY <1>4, <2>1 DEF PairsOf
    <2> QED BY <2>2 DEF GetInfoKey
  <1> QED BY <1>5, <1>6, <1>7 DEF old, info, key

LEMMA OpensAsMadeHolds == SigningInv => OpensAsMade
  <1> SUFFICES ASSUME SigningInv, wallet # NotGiven
               PROVE  OpensAsMade
    BY ConstantsAssumption DEF OpensAsMade
  <1>1. /\ GoodArguments(args) /\ MadeAsAsked
        /\ uri.deflated \in BOOLEAN
        /\ wallet = (IF ~(uri.deflated /\ args.big) /\ Allowed(request) THEN request ELSE Refused)
        /\ wallet # Refused => wallet = request /\ Allowed(request)
    BY WalletHas
  <1>2. request \in RequestObjects /\ request # Refused
    BY <1>1, RequestsAreObjects DEF MadeAsAsked
  <1>3. args \in ArgumentRecords /\ Allowed(Wanted)
    BY <1>1 DEF GoodArguments, Wanted
  <1>4. ASSUME wallet = Refused
        PROVE  \/ args.kind = "identity" /\ changes > 0 /\ request.data.broadcast
               \/ uri.deflated /\ args.big
    <2>1. CASE uri.deflated /\ args.big
      BY <2>1
    <2>2. CASE ~Allowed(request)
      <3>1. request.data.req.kind = "identity" /\ request.data.broadcast
        BY <2>2 DEF Allowed
      <3>2. args.kind = "identity"
        BY <1>1, <3>1, ArgumentsOfRequest DEF IsIdentity
      <3>3. changes # 0
        <4>1. changes = 0 => request.data = Wanted.data
          BY <1>1 DEF MadeAsAsked
        <4> QED BY <4>1, <1>3, <2>2 DEF Allowed
      <3>4. changes \in Nat
        BY DEF SigningInv
      <3> QED BY <3>1, <3>2, <3>3, <3>4
    <2> QED BY <1>1, <1>2, <1>4, <2>1, <2>2
  <1>5. ASSUME wallet # Refused
        PROVE  /\ wallet = request /\ Clone(wallet) = wallet
               /\ VariantChain(wallet.data.chain_id) =
                      (IF args.chainId = AnyChain THEN Refused ELSE args.chainId)
               /\ NoChainsInInfo(args) => NoKeyTwice(wallet.data.info)
               /\ wallet.signature # NotGiven /\ ~stale => wallet.signature = SignatureDigest(wallet)
    <2>1. wallet = request /\ Allowed(wallet)
      BY <1>1, <1>5
    <2>2. Clone(wallet) = wallet
      BY <2>1, <1>2, EncodedIsRead DEF Clone
    <2>3. VariantChain(wallet.data.chain_id) = (IF args.chainId = AnyChain THEN Refused ELSE args.chainId)
      BY <1>1, <2>1, ArgumentsOfRequest DEF GetChainId
    <2> QED BY <1>1, <2>1, <2>2, <2>3 DEF MadeAsAsked
  <1>6. ASSUME wallet # Refused, changes = 0, NoChainsInInfo(args)
        PROVE  /\ GetChainIds(wallet) = (IF args.chainId = AnyChain THEN args.chainIds ELSE NotGiven)
               /\ \A pair \in Range(args.info) :
                      GetInfoKey(wallet.data.info, pair.key, pair.value.typed) = pair.value.of
    <2>1. wallet = request
      BY <1>1, <1>6
    <2>2. wallet.data.info = Info(args)
      BY <1>1, <1>6, <2>1 DEF MadeAsAsked, Wanted, CreateSync
    <2>3. IsMultiChain(wallet) <=> args.chainId = AnyChain
      BY <1>1, <2>1, ArgumentsOfRequest
    <2>4. GetChainIds(wallet) = (IF args.chainId = AnyChain THEN args.chainIds ELSE NotGiven)
      <3>1. CASE args.chainId # AnyChain
        BY <3>1, <2>3 DEF GetChainIds
      <3>2. CASE args.chainId = AnyChain /\ args.chainIds = NotGiven
        <4>1. GetInfoKey(wallet.data.info, "chain_ids", TRUE) = NotGiven
          BY <1>3, <1>6, <2>2, <3>2, InfoAtFirst
        <4> QED BY <4>1, <3>2 DEF GetChainIds
      <3>3. CASE args.chainId = AnyChain /\ args.chainIds # NotGiven
        <4> DEFINE variants == ChainVariants(args.chainIds)
        <4>1. GetInfoKey(wallet.data.info, "chain_ids", TRUE) = variants
          BY <1>3, <1>6, <2>2, <3>3, InfoAtFirst
        <4>2. args.chainIds \in SUBSET Chains
          BY <1>3, <3>3, ArgumentFields
        <4>3. {VariantChain(v) : v \in variants} = args.chainIds /\ variants # NotGiven
          BY <4>2, ChainLists
        <4> HIDE DEF variants
        <4> QED BY <2>3, <3>3, <4>1, <4>3 DEF GetChainIds
      <3> QED BY <3>1, <3>2, <3>3
    <2>5. \A pair \in Range(args.info) :
              GetInfoKey(wallet.data.info, pair.key, pair.value.typed) = pair.value.of
      BY <1>3, <1>6, <2>2, InfoAtFirst
    <2> QED BY <2>4, <2>5
  <1> QED BY <1>4, <1>5, <1>6 DEF OpensAsMade

---------------------------------------------------------------------------
(* What the wallet resolved.                                               *)

LEMMA ResolvedHas ==
    ASSUME SigningInv, resolved # NotGiven
    PROVE  /\ wallet = request /\ Allowed(request) /\ GoodArguments(args) /\ MadeAsAsked
           /\ \E signer \in Signers, ctx \in Contexts, fields \in AbiSizes, now \in Nat :
                  /\ CanResolve(request, ctx, FetchAbis(request, fields))
                  /\ resolved = ResolvedRequest(request, signer, ctx, fields, now)
  <1>1. wallet \notin {NotGiven, Refused}
    BY DEF SigningInv, ResolvedInv
  <1>2. wallet = request /\ Allowed(request) /\ GoodArguments(args) /\ MadeAsAsked
    BY <1>1, WalletHas
  <1>3. \E signer \in Signers, ctx \in Contexts, fields \in AbiSizes, now \in Nat :
            ResolvedBy(signer, ctx, fields, now)
    BY DEF SigningInv, ResolvedInv
  <1> QED BY <1>2, <1>3 DEF ResolvedBy

LEMMA MappedList ==
    ASSUME NEW S, NEW s \in Seq(S), NEW T, NEW t \in [DOMAIN s -> T]
    PROVE  t \in Seq(T) /\ Len(t) = Len(s)
  OBVIOUS

LEMMA PrefixByElements ==
    ASSUME NEW S, NEW s \in Seq(S), NEW t \in Seq(S), Len(s) <= Len(t),
           \A i \in 1..Len(s) : s[i] = t[i]
    PROVE  IsPrefix(s, t)
  <1>1. SubSeq(s, 1, Len(s)) = [i \in 1..Len(s) |-> s[i]]
    OBVIOUS
  <1>2. SubSeq(t, 1, Len(s)) = [i \in 1..Len(s) |-> t[i]]
    OBVIOUS
  <1> QED BY <1>1, <1>2 DEF IsPrefix

LEMMA NamesResolve ==
    ASSUME NEW signer \in PermissionLevels, NEW name \in Strings
    PROVE  ResolveName(name, signer) \in Strings
  BY DEF ResolveName, PermissionLevels

ActionRecords == [account : Strings, authorization : Seq(PermissionLevels), data : Seq(Strings)]

(***************************************************************************)
(* Every ABI that knows no more fields than the data has gives back a      *)
(* beginning of it, with the names resolved.                               *)
(***************************************************************************)
LEMMA ActionResolves ==
    ASSUME NEW action \in ActionRecords, NEW signer \in PermissionLevels, NEW fields \in Nat,
           NEW abis, \A account \in DOMAIN abis : abis[account] = fields,
           Decodes(action, abis)
    PROVE  LET got == ResolveAction(action, signer, abis)
               meant == [j \in DOMAIN action.data |-> ResolveName(action.data[j], signer)]
           IN  /\ got.account = action.account
               /\ got.authorization = [j \in DOMAIN action.authorization |->
                                           ResolveAuth(action.authorization[j], signer)]
               /\ IsPrefix(got.data, meant)
               /\ Len(got.data) < Len(meant) => fields = Len(got.data)
  <1> DEFINE data == action.data
             decoded == Decoded(action, abis)
             got == [j \in DOMAIN decoded |-> ResolveName(decoded[j], signer)]
             meant == [j \in DOMAIN data |-> ResolveName(data[j], signer)]
  <1>1. data \in Seq(Strings)
    BY DEF ActionRecords
  <1>2. \/ decoded = data
        \/ fields <= Len(data) /\ decoded = SubSeq(data, 1, fields)
    BY DEF Decodes, Decoded
  <1> HIDE DEF data, decoded
  <1>3. /\ decoded \in Seq(Strings) /\ Len(decoded) <= Len(data)
        /\ \A j \in 1..Len(decoded) : decoded[j] = data[j]
        /\ Len(decoded) < Len(data) => fields = Len(decoded)
    BY <1>1, <1>2
  <1>4. got \in [DOMAIN decoded -> Strings]
    BY <1>3, NamesResolve
  <1>5. meant \in [DOMAIN data -> Strings]
    BY <1>1, NamesResolve
  <1>6. \A j \in 1..Len(decoded) : got[j] = meant[j]
    BY <1>1, <1>3
  <1> HIDE DEF got, meant
  <1>7. got \in Seq(Strings) /\ Len(got) = Len(decoded) /\ meant \in Seq(Strings) /\ Len(meant) = Len(data)
    BY <1>1, <1>3, <1>4, <1>5, MappedList
  <1>8. IsPrefix(got, meant)
    BY <1>3, <1>6, <1>7, PrefixByElements
  <1>9. Len(got) < Len(meant) => fields = Len(got)
    BY <1>3, <1>7
  <1>10. ResolveAction(action, signer, abis).data = got
    BY DEF ResolveAction, got, decoded
  <1>11. meant = [j \in DOMAIN action.data |-> ResolveName(action.data[j], signer)]
    BY DEF meant, data
  <1> QED BY <1>8, <1>9, <1>10, <1>11 DEF ResolveAction

LEMMA OfThree ==
    ASSUME NEW x, NEW y, NEW z
    PROVE  /\ <<x>> \in Seq({x, y, z}) /\ <<x>>[1] = x /\ Len(<<x>>) = 1
           /\ <<y, z>> \in Seq({x, y, z}) /\ <<y, z>>[1] = y /\ <<y, z>>[2] = z /\ Len(<<y, z>>) = 2
           /\ <<x, y, z>> \in Seq({x, y, z}) /\ Len(<<x, y, z>>) = 3
           /\ <<x, y, z>>[1] = x /\ <<x, y, z>>[2] = y /\ <<x, y, z>>[3] = z
  <1>1. <<x>> \in Seq({x, y, z}) /\ <<x>>[1] = x /\ Len(<<x>>) = 1
    OBVIOUS
  <1>2. <<y, z>> \in Seq({x, y, z})
    OBVIOUS
  <1>3. <<y, z>>[1] = y
    OBVIOUS
  <1>4. <<y, z>>[2] = z
    OBVIOUS
  <1>5. <<x, y, z>> \in Seq({x, y, z})
    OBVIOUS
  <1>6. <<x, y, z>>[1] = x
    OBVIOUS
  <1>7. <<x, y, z>>[2] = y
    OBVIOUS
  <1>8. <<x, y, z>>[3] = z
    OBVIOUS
  <1>9. Len(<<y, z>>) = 2
    OBVIOUS
  <1>10. Len(<<x, y, z>>) = 3
    OBVIOUS
  <1> QED BY <1>1, <1>2, <1>3, <1>4, <1>5, <1>6, <1>7, <1>8, <1>9, <1>10, Zenon

LEMMA Joined ==
    ASSUME NEW x, NEW y, NEW z
    PROVE  <<>> \o <<y, z>> = <<y, z>> /\ <<x>> \o <<y, z>> = <<x, y, z>>
  <1> DEFINE S == {x, y, z}
             u == <<x>>
             v == <<y, z>>
             w == <<x, y, z>>
             c == u \o v
  <1>1. u \in Seq(S) /\ v \in Seq(S) /\ w \in Seq(S) /\ Len(u) = 1 /\ Len(v) = 2 /\ Len(w) = 3
    BY OfThree, Zenon
  <1>2. u[1] = x /\ v[1] = y /\ v[2] = z /\ w[1] = x /\ w[2] = y /\ w[3] = z
    BY OfThree, Zenon
  <1> HIDE DEF u, v, w
  <1>3. c \in Seq(S) /\ Len(c) = 3
    <2>1. c \in Seq(S) /\ Len(c) = Len(u) + Len(v)
      <3> HIDE DEF S
      <3> QED BY <1>1, ConcatProperties, Zenon
    <2> HIDE DEF c
    <2> QED BY <1>1, <2>1
  <1>4. \A i \in 1..(Len(u) + Len(v)) : c[i] = IF i <= Len(u) THEN u[i] ELSE v[i - Len(u)]
    <2> HIDE DEF S
    <2> QED BY <1>1, ConcatProperties, Zenon
  <1> HIDE DEF c
  <1>5. c[1] = u[1] /\ c[2] = v[2 - 1] /\ c[3] = v[3 - 1]
    <2>1. {1, 2, 3} \subseteq 1..(Len(u) + Len(v))
      BY <1>1
    <2>2. c[1] = u[1]
      BY <1>1, <1>4, <2>1
    <2>3. c[2] = v[2 - 1]
      BY <1>1, <1>4, <2>1
    <2>4. c[3] = v[3 - 1]
      BY <1>1, <1>4, <2>1
    <2> QED BY <2>2, <2>3, <2>4
  <1>6. \A i \in 1..3 : c[i] = w[i]
    <2>1. \A i \in 1..3 : i = 1 \/ i = 2 \/ i = 3
      OBVIOUS
    <2> QED BY <1>2, <1>5, <2>1
  <1>7. c = w
    BY <1>1, <1>3, <1>6
  <1>8. <<>> \o v = v
    BY <1>1
  <1> QED BY <1>7, <1>8 DEF u, v, w, c

(***************************************************************************)
(* The identity action of a request for a plain identity: the placeholders *)
(* are the signer's in the authorization and in the data.                  *)
(***************************************************************************)
Who(a, signer) == ResolveAuth(a.permission, signer)

IdentityAction(a, signer) ==
    [account |-> NoAccount, authorization |-> <<Who(a, signer)>>,
     data |-> IF Version(a) = 2 THEN <<Who(a, signer).actor, Who(a, signer).permission>>
              ELSE <<a.scope, Who(a, signer).actor, Who(a, signer).permission>>]

LEMMA IdentityResolves ==
    ASSUME GoodArguments(args), MadeAsAsked, args.kind = "identity", PlainIdentity(args),
           NEW signer \in PermissionLevels, NEW abis
    PROVE  /\ ResolveActions(request, signer, abis) = <<IdentityAction(args, signer)>>
           /\ Who(args, signer) = [actor |-> ResolveName(args.permission.actor, signer),
                                   permission |-> ResolveName(args.permission.permission, signer)]
           /\ Who(args, signer) \in PermissionLevels
           /\ ResolveName(args.scope, signer) = args.scope
           /\ Version(args) \in {2, 3}
  <1> DEFINE p == args.permission
             scope == args.scope
             v == Version(args)
             who == Who(args, signer)
  <1>1. p \in PermissionLevels /\ p # NotGiven
    BY ArgumentFields, DistinctAssumption DEF GoodArguments
  <1>2. /\ request.version = v /\ IsIdentity(request)
        /\ request.data.req.permission = IdentityPermission(args)
        /\ request.data.req.scope = scope
    BY ArgumentsOfRequest DEF Req
  <1>3. v \in {2, 3}
    BY DEF Version
  <1>4. /\ p.actor # PlaceholderPermission /\ p.permission # PlaceholderName
        /\ scope # PlaceholderName /\ scope # PlaceholderPermission
    BY DEF PlainIdentity, PlaceholderNames
  <1>5. who = [actor |-> ResolveName(p.actor, signer), permission |-> ResolveName(p.permission, signer)]
    BY <1>4 DEF Who, ResolveAuth, ResolveName
  <1>6. who \in PermissionLevels
    BY <1>1, <1>5, NamesResolve DEF PermissionLevels
  <1>7. ResolveName(scope, signer) = scope
    BY <1>4 DEF ResolveName
  <1>8. IF request.data.req.permission = NotGiven THEN PlaceholderAuth = p ELSE request.data.req.permission = p
    BY <1>1, <1>2 DEF IdentityPermission
  <1> DEFINE data == IdentityData(request, p)
             raw == [account |-> NoAccount, authorization |-> <<p>>, data |-> data]
  <1>9. RawActions(request) = <<raw>>
    BY <1>2, <1>8 DEF RawActions
  <1>10. data = IF v = 2 THEN <<p.actor, p.permission>> ELSE <<scope, p.actor, p.permission>>
    <2>1. data = (IF v = 2 THEN <<>> ELSE <<scope>>) \o <<p.actor, p.permission>>
      BY <1>2 DEF IdentityData
    <2> HIDE DEF data, p, scope, v
    <2> QED BY <2>1, Joined
  <1> DEFINE resolvedData == [j \in DOMAIN data |-> ResolveName(data[j], signer)]
  <1>11. resolvedData = IF v = 2 THEN <<ResolveName(p.actor, signer), ResolveName(p.permission, signer)>>
                        ELSE <<ResolveName(scope, signer), ResolveName(p.actor, signer),
                               ResolveName(p.permission, signer)>>
    <2> HIDE DEF data
    <2>1. CASE v = 2
      <3>1. data = <<p.actor, p.permission>>
        BY <1>10, <2>1
      <3> HIDE DEF p, v
      <3> QED BY <2>1, <3>1
    <2>2. CASE v # 2
      <3>1. data = <<scope, p.actor, p.permission>>
        BY <1>10, <2>2
      <3> HIDE DEF p, v, scope
      <3> QED BY <2>2, <3>1
    <2> QED BY <2>1, <2>2
  <1>12. ResolveAction(raw, signer, abis) = IdentityAction(args, signer)
    <2>1. resolvedData = IF v = 2 THEN <<who.actor, who.permission>>
                         ELSE <<scope, who.actor, who.permission>>
      BY <1>5, <1>7, <1>11
    <2>2. raw.account = NoAccount /\ raw.authorization = <<p>> /\ raw.data = data
      OBVIOUS
    <2>3. IsIdentityAction(raw)
      BY <2>2 DEF IsIdentityAction
    <2>4. [i \in DOMAIN raw.authorization |-> ResolveAuth(raw.authorization[i], signer)] = <<who>>
      BY <2>2 DEF Who
    <2> HIDE DEF raw, data
    <2>5. ResolveAction(raw, signer, abis) = [account |-> NoAccount, authorization |-> <<who>>,
                                              data |-> resolvedData]
      BY <2>2, <2>3, <2>4 DEF ResolveAction, Decoded
    <2> QED BY <2>1, <2>5 DEF IdentityAction
  <1> HIDE DEF raw
  <1>13. ResolveActions(request, signer, abis) = <<IdentityAction(args, signer)>>
    BY <1>9, <1>12 DEF ResolveActions
  <1> QED BY <1>3, <1>5, <1>6, <1>7, <1>13

\* How the wallet came to what it resolved.
ResolvedAs(signer, ctx, fields, now) ==
    /\ signer \in Signers /\ ctx \in Contexts /\ fields \in AbiSizes /\ now \in Nat
    /\ CanResolve(request, ctx, FetchAbis(request, fields))
    /\ resolved = ResolvedRequest(request, signer, ctx, fields, now)

LEMMA ContextFields ==
    ASSUME NEW ctx \in Contexts
    PROVE  /\ ctx.expiration \in (Nat \ {0}) \cup {NotGiven}
           /\ ctx.ref_block_num \in Nat \cup {NotGiven} /\ ctx.ref_block_prefix \in Nat \cup {NotGiven}
           /\ ctx.block_num \in Nat \cup {NotGiven} /\ ctx.timestamp \in Nat \cup {NotGiven}
           /\ ctx.chainId \in Chains \cup {NotGiven}
  BY InputsAssumption DEF ContextRecords

\* The chain is one the request allows.
LEMMA ChainResolves ==
    ASSUME GoodArguments(args), MadeAsAsked, NEW signer, NEW ctx, NEW fields, NEW now,
           ResolvedAs(signer, ctx, fields, now)
    PROVE  resolved.chainId \in MeantChains /\ resolved.chainId \in Chains
  <1>1. resolved.chainId = IF IsMultiChain(request) THEN ctx.chainId ELSE GetChainId(request)
    BY DEF ResolvedAs, ResolvedRequest
  <1>2. ChainAccepted(request, ctx.chainId)
    BY DEF ResolvedAs, CanResolve
  <1>3. args.chainId \in Chains \cup {AnyChain}
    BY ArgumentFields DEF GoodArguments
  <1>4. ctx.chainId \in Chains \cup {NotGiven}
    BY ContextFields DEF ResolvedAs
  <1>5. CASE args.chainId = AnyChain
    <2>1. IsMultiChain(request) /\ resolved.chainId = ctx.chainId
      BY <1>1, <1>5, ArgumentsOfRequest
    <2>2. ctx.chainId \in Chains /\ (GetChainIds(request) # NotGiven => ctx.chainId \in GetChainIds(request))
      BY <1>2, <1>4, <2>1 DEF ChainAccepted
    <2> QED BY <1>5, <2>1, <2>2 DEF MeantChains
  <1>6. CASE args.chainId # AnyChain
    BY <1>1, <1>3, <1>6, ArgumentsOfRequest DEF MeantChains
  <1> QED BY <1>5, <1>6

\* The TAPoS values let the transaction expire.
LEMMA TaposResolves ==
    ASSUME GoodArguments(args), MadeAsAsked, NEW signer, NEW ctx, NEW fields, NEW now,
           ResolvedAs(signer, ctx, fields, now)
    PROVE  /\ resolved.transaction.tapos \in TaposValues
           /\ resolved.transaction.tapos = NoTapos => args.kind = "identity" /\ Version(args) = 2
           /\ HasTapos(args.tapos) => resolved.transaction.tapos = args.tapos
           /\ RequiresTapos(request) => resolved.transaction.tapos.ref_block_num \in 0..RefModulus - 1
           /\ args.kind = "identity" /\ Version(args) # 2 =>
                  resolved.transaction.tapos = [expiration |-> resolved.transaction.tapos.expiration,
                                                ref_block_num |-> 0, ref_block_prefix |-> 0]
  <1> DEFINE t == resolved.transaction.tapos
  <1>1. t = Tapos(request, ctx, now)
    BY DEF ResolvedAs, ResolvedRequest
  <1>2. /\ request.version = Version(args) /\ request.data.req.tapos = args.tapos
        /\ IsIdentity(request) <=> args.kind = "identity"
    BY ArgumentsOfRequest DEF Req
  <1>3. args.tapos \in TaposValues /\ (args.kind = "identity" => args.tapos = NoTapos)
    BY ArgumentFields DEF GoodArguments
  <1>4. RequiresTapos(request) => Explicit(ctx) \/ FromBlock(ctx)
    BY DEF ResolvedAs, CanResolve
  <1>5. now \in Nat
    BY DEF ResolvedAs
  <1>6. /\ ctx.expiration \in (Nat \ {0}) \cup {NotGiven}
        /\ ctx.ref_block_num \in Nat \cup {NotGiven} /\ ctx.ref_block_prefix \in Nat \cup {NotGiven}
        /\ ctx.block_num \in Nat \cup {NotGiven} /\ ctx.timestamp \in Nat \cup {NotGiven}
    BY ContextFields DEF ResolvedAs
  <1>7. Version(args) \in {2, 3}
    BY DEF Version
  <1>8. ExpirationTime(ctx.timestamp, now) \in Nat \ {0}
    BY <1>5, <1>6 DEF ExpirationTime
  <1> HIDE DEF t
  <1>9. CASE RequiresTapos(request)
    <2> DEFINE e == IF Explicit(ctx) THEN ctx.expiration ELSE ExpirationTime(ctx.timestamp, now)
               n == IF Explicit(ctx) THEN ctx.ref_block_num ELSE ctx.block_num
               p == ctx.ref_block_prefix
    <2>1. t = [expiration |-> e, ref_block_num |-> n % RefModulus, ref_block_prefix |-> p]
      BY <1>1, <1>9 DEF Tapos
    <2>2. Explicit(ctx) => ctx.expiration # NotGiven /\ ctx.ref_block_num # NotGiven /\ p # NotGiven
      BY DEF Explicit
    <2>3. FromBlock(ctx) => ctx.block_num # NotGiven /\ p # NotGiven
      BY DEF FromBlock
    <2>4. e \in Nat \ {0} /\ n \in Nat /\ p \in Nat
      BY <1>4, <1>6, <1>8, <1>9, <2>2, <2>3
    <2> HIDE DEF e, n, p
    <2>5. n % RefModulus \in 0..RefModulus - 1
      BY <2>4, ConstantsAssumption
    <2>6. t.expiration # 0 /\ t \in TaposValues /\ t.ref_block_num \in 0..RefModulus - 1
      BY <2>1, <2>4, <2>5, ConstantsAssumption DEF TaposValues
    <2>7. t # NoTapos
      BY <2>6 DEF NoTapos
    <2>8. ~HasTapos(args.tapos) /\ args.kind # "identity"
      BY <1>2, <1>9 DEF RequiresTapos
    <2> QED BY <2>6, <2>7, <2>8 DEF t
  <1>10. CASE ~RequiresTapos(request) /\ IsIdentity(request) /\ request.version > 2
    <2> DEFINE e == IF ctx.expiration # NotGiven THEN ctx.expiration ELSE ExpirationTime(ctx.timestamp, now)
    <2>1. t = [NoTapos EXCEPT !.expiration = e]
      BY <1>1, <1>10 DEF Tapos
    <2>2. e \in Nat \ {0}
      BY <1>6, <1>8
    <2> HIDE DEF e
    <2>3. t = [expiration |-> e, ref_block_num |-> 0, ref_block_prefix |-> 0]
      BY <2>1 DEF NoTapos
    <2>4. t # NoTapos /\ t \in TaposValues
      BY <2>2, <2>3 DEF NoTapos, TaposValues
    <2>5. ~HasTapos(args.tapos)
      BY <1>2, <1>3, <1>10 DEF HasTapos
    <2> QED BY <1>10, <2>3, <2>4, <2>5 DEF t
  <1>11. CASE ~RequiresTapos(request) /\ ~(IsIdentity(request) /\ request.version > 2)
    <2>1. t = args.tapos
      BY <1>1, <1>2, <1>11 DEF Tapos
    <2>2. CASE IsIdentity(request)
      BY <1>2, <1>3, <1>7, <1>11, <2>1, <2>2 DEF t, HasTapos
    <2>3. CASE ~IsIdentity(request)
      <3>1. HasTapos(args.tapos)
        BY <1>2, <1>11, <2>3 DEF RequiresTapos
      <3> QED BY <1>2, <1>3, <1>11, <2>1, <2>3, <3>1 DEF t, HasTapos
    <2> QED BY <2>2, <2>3
  <1> QED BY <1>9, <1>10, <1>11

\* What a request asks beside an identity.
LEMMA ActionsResolve ==
    ASSUME GoodArguments(args), MadeAsAsked, NEW signer, NEW ctx, NEW fields, NEW now,
           ResolvedAs(signer, ctx, fields, now), args.kind # "identity"
    PROVE  LET meant == MeantActions(resolved.signer)
               got == resolved.transaction.actions
           IN  /\ Len(got) = Len(meant)
               /\ \A i \in DOMAIN got :
                      /\ got[i].authorization = meant[i].authorization
                      /\ IsPrefix(got[i].data, meant[i].data)
                      /\ Len(got[i].data) < Len(meant[i].data) => resolved.fields = Len(got[i].data)
  <1> DEFINE raw == args.actions
             abis == FetchAbis(request, fields)
             one(i) == ResolveAction(raw[i], signer, abis)
             meantData(i) == [j \in DOMAIN raw[i].data |-> ResolveName(raw[i].data[j], signer)]
             auths(i) == [j \in DOMAIN raw[i].authorization |-> ResolveAuth(raw[i].authorization[j], signer)]
             meant == [i \in DOMAIN raw |-> [account |-> raw[i].account, authorization |-> auths(i),
                                             data |-> meantData(i)]]
             got == [i \in DOMAIN raw |-> one(i)]
  <1>1. raw \in Seq(ActionRecords)
    BY ArgumentFields DEF GoodArguments, ActionLists, ActionRecords
  <1>2. RawActions(request) = raw
    BY ArgumentsOfRequest DEF RawActions, Req
  <1>3. resolved.signer = signer /\ resolved.fields = fields /\ resolved.transaction.actions = got
    BY <1>2 DEF ResolvedAs, ResolvedRequest, ResolveActions
  <1>4. MeantActions(signer) = meant
    BY DEF MeantActions
  <1>5. signer \in PermissionLevels /\ fields \in Nat
    BY InputsAssumption, ConstantsAssumption DEF ResolvedAs
  <1>6. \A account \in DOMAIN abis : abis[account] = fields
    BY DEF FetchAbis
  <1>7. \A i \in DOMAIN raw : raw[i] \in ActionRecords /\ Decodes(raw[i], abis)
    <2>1. \A action \in Range(raw) : Decodes(action, abis)
      BY <1>2 DEF ResolvedAs, CanResolve
    <2> QED BY <1>1, <2>1 DEF Range
  <1>8. ASSUME NEW i \in DOMAIN raw
        PROVE  /\ one(i).authorization = auths(i)
               /\ IsPrefix(one(i).data, meantData(i))
               /\ Len(one(i).data) < Len(meantData(i)) => fields = Len(one(i).data)
    <2> DEFINE action == raw[i]
    <2>1. action \in ActionRecords /\ Decodes(action, abis)
      BY <1>7
    <2> HIDE DEF action, abis
    <2>2. /\ ResolveAction(action, signer, abis).authorization =
                 [j \in DOMAIN action.authorization |-> ResolveAuth(action.authorization[j], signer)]
          /\ IsPrefix(ResolveAction(action, signer, abis).data,
                      [j \in DOMAIN action.data |-> ResolveName(action.data[j], signer)])
          /\ Len(ResolveAction(action, signer, abis).data) <
                 Len([j \in DOMAIN action.data |-> ResolveName(action.data[j], signer)]) =>
                 fields = Len(ResolveAction(action, signer, abis).data)
      BY <1>5, <1>6, <2>1, ActionResolves
    <2> QED BY <2>2 DEF action
  <1>9. \A i \in DOMAIN raw : got[i] = one(i) /\ meant[i].authorization = auths(i) /\ meant[i].data = meantData(i)
    OBVIOUS
  <1>10. DOMAIN got = DOMAIN raw /\ DOMAIN meant = DOMAIN raw
    OBVIOUS
  <1>11. Len(got) = Len(raw) /\ Len(meant) = Len(raw)
    <2> DEFINE T == {got[i] : i \in DOMAIN raw}
               U == {meant[i] : i \in DOMAIN raw}
    <2>1. got \in [DOMAIN raw -> T]
      OBVIOUS
    <2>2. meant \in [DOMAIN raw -> U]
      OBVIOUS
    <2> HIDE DEF got, meant, T, U
    <2> QED BY <1>1, <2>1, <2>2, MappedList
  <1> HIDE DEF got, meant, one, meantData, auths
  <1>12. \A i \in DOMAIN got :
             /\ got[i].authorization = meant[i].authorization
             /\ IsPrefix(got[i].data, meant[i].data)
             /\ Len(got[i].data) < Len(meant[i].data) => fields = Len(got[i].data)
    BY <1>8, <1>9, <1>10
  <1> QED BY <1>3, <1>4, <1>11, <1>12

\* What an identity request asks.
LEMMA IdentityMeant ==
    ASSUME GoodArguments(args), MadeAsAsked, Allowed(request), NEW signer, NEW ctx, NEW fields, NEW now,
           ResolvedAs(signer, ctx, fields, now), args.kind = "identity", PlainIdentity(args)
    PROVE  /\ resolved.transaction.actions = <<IdentityAction(args, signer)>>
           /\ MeantActions(resolved.signer) = <<IdentityAction(args, signer)>>
  <1> DEFINE who == Who(args, signer)
             p == [actor |-> ResolveName(args.permission.actor, signer),
                   permission |-> ResolveName(args.permission.permission, signer)]
             scope == IF Version(args) = 2 THEN <<>> ELSE <<args.scope>>
  <1>1. signer \in PermissionLevels
    BY InputsAssumption DEF ResolvedAs
  <1>2. resolved.signer = signer
        /\ resolved.transaction.actions = ResolveActions(request, signer, FetchAbis(request, fields))
    BY DEF ResolvedAs, ResolvedRequest
  <1>3. resolved.transaction.actions = <<IdentityAction(args, signer)>> /\ who = p /\ Version(args) \in {2, 3}
    BY <1>1, <1>2, IdentityResolves
  <1>4. MeantActions(signer) =
            <<[account |-> NoAccount, authorization |-> <<p>>, data |-> scope \o <<p.actor, p.permission>>]>>
    BY DEF MeantActions
  <1> HIDE DEF p
  <1>5. scope \o <<p.actor, p.permission>> =
            IF Version(args) = 2 THEN <<p.actor, p.permission>> ELSE <<args.scope, p.actor, p.permission>>
    BY Joined
  <1> QED BY <1>2, <1>3, <1>4, <1>5 DEF IdentityAction

LEMMA SeqOfOne ==
    ASSUME NEW x
    PROVE  Len(<<x>>) = 1 /\ DOMAIN <<x>> = {1} /\ <<x>>[1] = x
  OBVIOUS

LEMMA PrefixOfItself ==
    ASSUME NEW S, NEW s \in Seq(S)
    PROVE  IsPrefix(s, s)
  BY DEF IsPrefix

LEMMA IdentityDataTyped ==
    ASSUME GoodArguments(args), MadeAsAsked, args.kind = "identity", PlainIdentity(args),
           NEW signer \in PermissionLevels
    PROVE  LET data == IdentityAction(args, signer).data
           IN  /\ data \in Seq(Strings)
               /\ Len(data) = 3 => Version(args) = 3 /\ data[1] = args.scope
  <1> DEFINE data == IdentityAction(args, signer).data
             who == Who(args, signer)
             scope == args.scope
  <1>1. who \in PermissionLevels /\ Version(args) \in {2, 3}
    BY IdentityResolves
  <1>2. who.actor \in Strings /\ who.permission \in Strings
    BY <1>1 DEF PermissionLevels
  <1>3. Version(args) = 3 => scope \in Strings
    BY ArgumentFields DEF GoodArguments, CanCreate
  <1>4. data = IF Version(args) = 2 THEN <<who.actor, who.permission>> ELSE <<scope, who.actor, who.permission>>
    BY DEF IdentityAction
  <1> HIDE DEF data, who, scope
  <1>5. CASE Version(args) = 2
    <2>1. data = <<who.actor, who.permission>>
      BY <1>4, <1>5
    <2>2. data \in Seq(Strings) /\ Len(data) = 2
      BY <1>2, <2>1
    <2> QED BY <1>5, <2>2 DEF data, scope
  <1>6. CASE Version(args) = 3
    <2>1. data = <<scope, who.actor, who.permission>>
      BY <1>4, <1>6
    <2>2. data \in Seq(Strings) /\ data[1] = scope
      BY <1>2, <1>3, <1>6, <2>1
    <2> QED BY <1>6, <2>2 DEF data, scope
  <1> QED BY <1>1, <1>5, <1>6

LEMMA ResolvedIsWhatWasAskedHolds == SigningInv => ResolvedIsWhatWasAsked
  <1> SUFFICES ASSUME SigningInv, resolved # NotGiven, args.kind = "identity" => PlainIdentity(args)
               PROVE  ResolvedIsWhatWasAsked
    BY DEF ResolvedIsWhatWasAsked
  <1> DEFINE meant == MeantActions(resolved.signer)
             got == resolved.transaction.actions
  <1>1. wallet = request /\ Allowed(request) /\ GoodArguments(args) /\ MadeAsAsked
    BY ResolvedHas
  <1>2. PICK signer, ctx, fields, now : ResolvedAs(signer, ctx, fields, now)
    BY ResolvedHas DEF ResolvedAs
  <1>3. resolved.chainId \in MeantChains
    BY <1>1, <1>2, ChainResolves
  <1>4. /\ resolved.transaction.tapos = NoTapos => args.kind = "identity" /\ Version(args) = 2
        /\ HasTapos(args.tapos) => resolved.transaction.tapos = args.tapos
    BY <1>1, <1>2, TaposResolves
  <1>5. CASE args.kind # "identity"
    <2>1. /\ Len(got) = Len(meant)
          /\ \A i \in DOMAIN got :
                 /\ got[i].authorization = meant[i].authorization
                 /\ IsPrefix(got[i].data, meant[i].data)
                 /\ Len(got[i].data) < Len(meant[i].data) => resolved.fields = Len(got[i].data)
      BY <1>1, <1>2, <1>5, ActionsResolve
    <2> HIDE DEF got, meant
    <2> QED BY <1>3, <1>4, <1>5, <2>1 DEF ResolvedIsWhatWasAsked, got, meant
  <1>6. CASE args.kind = "identity"
    <2> DEFINE action == IdentityAction(args, signer)
               p == args.permission
               shown(asked, own) == IF asked = NotGiven THEN own ELSE asked
    <2>1. got = <<action>> /\ meant = <<action>>
      BY <1>1, <1>2, <1>6, IdentityMeant
    <2>2. /\ IsPrefix(action.data, action.data) /\ Len(action.data) \in Nat
          /\ Len(action.data) = 3 => Version(args) = 3 /\ action.data[1] = args.scope
      <3>1. signer \in PermissionLevels
        BY <1>2, InputsAssumption DEF ResolvedAs
      <3>2. action.data \in Seq(Strings) /\ (Len(action.data) = 3 => Version(args) = 3 /\ action.data[1] = args.scope)
        BY <1>1, <1>6, <3>1, IdentityDataTyped
      <3> HIDE DEF action
      <3> QED BY <3>2, PrefixOfItself
    <2>3. action.authorization = <<Who(args, signer)>>
      BY DEF IdentityAction
    <2> HIDE DEF action, got, meant
    <2>4. /\ Len(got) = Len(meant)
          /\ \A i \in DOMAIN got :
                 /\ got[i].authorization = meant[i].authorization
                 /\ IsPrefix(got[i].data, meant[i].data)
                 /\ ~(Len(got[i].data) < Len(meant[i].data))
      <3>1. got[1] = action /\ meant[1] = action /\ Len(got) = 1 /\ Len(meant) = 1 /\ DOMAIN got = {1}
        BY <2>1, SeqOfOne
      <3>2. ~(Len(action.data) < Len(action.data))
        BY <2>2
      <3> QED BY <2>2, <3>1, <3>2
    <2>5. resolved.signer = signer
      BY <1>2 DEF ResolvedAs, ResolvedRequest
    <2>6. IsIdentity(wallet) /\ AskedOf(wallet) = IdentityPermission(args) /\ wallet.version = Version(args)
          /\ wallet.data.req.scope = args.scope
      BY <1>1, <1>6, ArgumentsOfRequest DEF AskedOf, Req
    <2>7. ~ShouldBroadcast(wallet)
      BY <2>6 DEF ShouldBroadcast
    <2>8. p \in PermissionLevels /\ p # NotGiven /\ p.actor # NotGiven /\ p.permission # NotGiven
      <3>1. p \in PermissionLevels
        BY <1>1, ArgumentFields DEF GoodArguments
      <3>2. p.actor \in Strings /\ p.permission \in Strings
        BY <3>1 DEF PermissionLevels
      <3> QED BY <3>1, <3>2, DistinctAssumption
    <2>9. Who(args, signer) = [actor |-> shown(GetIdentity(wallet), signer.actor),
                               permission |-> shown(GetIdentityPermission(wallet), signer.permission)]
      <3>1. p.actor # PlaceholderPermission /\ p.permission # PlaceholderName
        BY <1>6 DEF PlainIdentity
      <3>2. shown(GetIdentity(wallet), signer.actor) = IF p.actor = PlaceholderName THEN signer.actor ELSE p.actor
        BY <2>6, <2>8 DEF GetIdentity, IdentityPermission, PlaceholderAuth
      <3>3. shown(GetIdentityPermission(wallet), signer.permission) =
                IF p.permission = PlaceholderPermission THEN signer.permission ELSE p.permission
        BY <2>6, <2>8 DEF GetIdentityPermission, IdentityPermission, PlaceholderAuth
      <3> QED BY <3>1, <3>2, <3>3 DEF Who, ResolveAuth
    <2>10. Len(got[1].data) = 3 => got[1].data[1] = GetIdentityScope(wallet)
      BY <2>1, <2>2, <2>6, SeqOfOne DEF GetIdentityScope
    <2>11. got[1].authorization = <<Who(args, signer)>>
      BY <2>1, <2>3, SeqOfOne
    <2> QED BY <1>3, <1>4, <2>4, <2>5, <2>7, <2>9, <2>10, <2>11 DEF ResolvedIsWhatWasAsked, got, meant
  <1> QED BY <1>5, <1>6

---------------------------------------------------------------------------
(* The payload and what is made of it.                                     *)

LEMMA PayloadHas ==
    ASSUME SigningInv, payload # NotGiven
    PROVE  /\ resolved # NotGiven
           /\ \E deflated \in BOOLEAN : payload = CallbackPayload(resolved, deflated)
  BY DEF SigningInv, PayloadInv

LEMMA RemainderTwice ==
    ASSUME NEW m \in Nat \ {0}, NEW n \in 0..m - 1
    PROVE  n % m = n
  OBVIOUS

(***************************************************************************)
(* What is recreated of a payload, of the same ABI, is what was resolved,  *)
(* if the chain is known and the request can be opened.                    *)
(***************************************************************************)
LEMMA RecreatesTheSame ==
    ASSUME GoodArguments(args), MadeAsAsked, Allowed(request),
           NEW signer, NEW ctx, NEW fields, NEW now, ResolvedAs(signer, ctx, fields, now),
           NEW deflated \in BOOLEAN, payload = CallbackPayload(resolved, deflated),
           NEW withCid \in BOOLEAN, NEW later \in Nat,
           NEW new, new = Recreated(payload, withCid, fields, later)
    PROVE  IF new.error
           THEN \/ IsMultiChain(resolved.request) /\ ~withCid
                \/ payload.req.deflated /\ payload.req.data.big
           ELSE /\ new.got.transaction = payload.tx
                /\ new.got.signer = resolved.signer
                /\ new.got.chainId = resolved.chainId
  <1> DEFINE t == resolved.transaction.tapos
             chain == PayloadChain(payload, withCid)
             again == PayloadContext(payload, chain)
             abis == FetchAbis(request, fields)
  <1>1. request \in RequestObjects
    BY DEF MadeAsAsked
  <1>2. /\ resolved.request = request /\ resolved.signer = signer
        /\ resolved.transaction.tapos = Tapos(request, ctx, now)
        /\ resolved.transaction = [tapos |-> t, actions |-> ResolveActions(request, signer, abis)]
        /\ resolved.chainId = (IF IsMultiChain(request) THEN ctx.chainId ELSE GetChainId(request))
    BY DEF ResolvedAs, ResolvedRequest
  <1>3. signer \in PermissionLevels
    BY InputsAssumption DEF ResolvedAs
  <1>4. /\ payload.tx = resolved.transaction /\ payload.ex = t.expiration /\ payload.rbn = t.ref_block_num
        /\ payload.rid = t.ref_block_prefix /\ payload.sa = signer.actor /\ payload.sp = signer.permission
        /\ payload.req = Encode(request, deflated) /\ payload.cid = resolved.chainId
    BY <1>2 DEF CallbackPayload
  <1>5. PayloadSigner(payload) = signer
    BY <1>3, <1>4 DEF PayloadSigner, PermissionLevels
  <1>6. /\ FromData(payload.req) = request
        /\ Opens(payload.req) <=> ~(payload.req.deflated /\ payload.req.data.big)
    <2>1. payload.req.deflated = deflated /\ payload.req.data = request.data
      BY <1>4 DEF Encode
    <2> QED BY <1>1, <1>4, <2>1, EncodedIsRead
  <1>7. /\ t \in TaposValues
        /\ RequiresTapos(request) => t.ref_block_num \in 0..RefModulus - 1
        /\ args.kind = "identity" /\ Version(args) # 2 =>
               t = [expiration |-> t.expiration, ref_block_num |-> 0, ref_block_prefix |-> 0]
    BY TaposResolves
  <1>8. resolved.chainId \in Chains
    BY ChainResolves
  <1>9. chain = IF withCid THEN resolved.chainId ELSE GetChainId(request)
    BY <1>4, <1>6 DEF PayloadChain
  <1>10. CASE IsMultiChain(request) /\ ~withCid
    <2>1. chain = Refused
      BY <1>9, <1>10, ArgumentsOfRequest
    <2>2. new.error = TRUE
      BY <2>1 DEF Recreated
    <2> QED BY <1>2, <1>10, <2>2
  <1>11. CASE ~IsMultiChain(request) \/ withCid
    <2>1. chain = resolved.chainId /\ chain # Refused
      BY <1>2, <1>8, <1>9, <1>11, ConstantsAssumption
    <2>2. /\ again.expiration = t.expiration /\ again.ref_block_num = t.ref_block_num
          /\ again.ref_block_prefix = t.ref_block_prefix /\ again.chainId = chain
      BY <1>4 DEF PayloadContext
    <2>3. t.expiration \in Nat /\ t.ref_block_num \in Nat /\ t.ref_block_prefix \in Nat
      BY <1>7 DEF TaposValues
    <2>4. Explicit(again) /\ again.expiration # NotGiven
      BY <2>2, <2>3, DistinctAssumption DEF Explicit
    <2>5. CanResolve(request, again, abis)
      <3>1. /\ \A action \in Range(RawActions(request)) : Decodes(action, abis)
            /\ ChainAccepted(request, ctx.chainId)
        BY DEF ResolvedAs, CanResolve
      <3>2. ChainAccepted(request, again.chainId)
        BY <1>2, <2>1, <2>2, <3>1 DEF ChainAccepted
      <3> QED BY <2>4, <3>1, <3>2 DEF CanResolve
    <2>6. Tapos(request, again, later) = t
      <3>1. CASE RequiresTapos(request)
        <4>1. Tapos(request, again, later) =
                  [expiration |-> t.expiration, ref_block_num |-> t.ref_block_num % RefModulus,
                   ref_block_prefix |-> t.ref_block_prefix]
          BY <2>2, <2>4, <3>1 DEF Tapos
        <4>2. t.ref_block_num % RefModulus = t.ref_block_num
          BY <1>7, <3>1, RemainderTwice, ConstantsAssumption
        <4> QED BY <1>7, <4>1, <4>2 DEF TaposValues
      <3>2. CASE ~RequiresTapos(request) /\ IsIdentity(request) /\ request.version > 2
        <4>1. args.kind = "identity" /\ Version(args) # 2
          BY <3>2, ArgumentsOfRequest
        <4>2. Tapos(request, again, later) = [NoTapos EXCEPT !.expiration = t.expiration]
          BY <2>2, <2>4, <3>2 DEF Tapos
        <4> QED BY <1>7, <4>1, <4>2 DEF NoTapos
      <3>3. CASE ~RequiresTapos(request) /\ ~(IsIdentity(request) /\ request.version > 2)
        BY <1>2, <3>3 DEF Tapos
      <3> QED BY <3>1, <3>2, <3>3
    <2>7. CASE ~Opens(payload.req)
      BY <1>6, <2>7 DEF Recreated
    <2>8. CASE Opens(payload.req)
      <3>1. new = [error |-> FALSE, withCid |-> withCid, fields |-> fields,
                   got |-> ResolvedRequest(request, signer, again, fields, later)]
        BY <1>5, <1>6, <2>1, <2>5, <2>8 DEF Recreated
      <3>2. new.got = ResolvedRequest(request, signer, again, fields, later) /\ new.error = FALSE
        BY <3>1
      <3>3. new.got.transaction = [tapos |-> t, actions |-> ResolveActions(request, signer, abis)]
        BY <2>6, <3>2 DEF ResolvedRequest
      <3>4. new.got.signer = signer /\ new.got.chainId = resolved.chainId
        BY <1>2, <2>1, <2>2, <3>2 DEF ResolvedRequest
      <3> QED BY <1>2, <1>4, <3>2, <3>3, <3>4
    <2> QED BY <2>7, <2>8
  <1> QED BY <1>10, <1>11

---------------------------------------------------------------------------
(* The proof of identity.                                                  *)

LEMMA RecoversNobody ==
    ASSUME NEW proof, proof.signature.of # DigestToSign(proof.chainId, ProofTransaction(proof)),
           NEW key \in Signers, NEW threshold \in 1..2, NEW weight \in 1..2, NEW now
    PROVE  ~Verify(proof, KeyAuth(key, threshold, weight), now)
  <1> DEFINE auth == KeyAuth(key, threshold, weight)
  <1>1. Recover(proof) = NotGiven
    BY DEF Recover
  <1>2. NotGiven # key
    BY InputsAssumption, DistinctAssumption
  <1>3. KeyWeight(auth, NotGiven) = 0
    BY <1>2 DEF KeyWeight, KeyAuth
  <1> QED BY <1>1, <1>3 DEF Verify, HasPermission, KeyAuth

LEMMA RecoversTheSigner ==
    ASSUME NEW proof, proof.signature.of = DigestToSign(proof.chainId, ProofTransaction(proof)),
           NEW key \in Signers, NEW threshold \in 1..2, NEW weight \in 1..2, NEW now
    PROVE  Verify(proof, KeyAuth(key, threshold, weight), now)
               <=> now < proof.expiration /\ key = proof.signature.by /\ weight >= threshold
  <1> DEFINE auth == KeyAuth(key, threshold, weight)
             by == proof.signature.by
  <1>1. Recover(proof) = by
    BY DEF Recover
  <1> HIDE DEF by
  <1>2. KeyWeight(auth, by) = IF by = key THEN weight ELSE 0
    BY DEF KeyWeight, KeyAuth
  <1>3. HasPermission(auth, by, FALSE) <=> by = key /\ weight >= threshold
    BY <1>2 DEF HasPermission, KeyAuth
  <1> QED BY <1>1, <1>3 DEF Verify, by

LEMMA DigestsDiffer ==
    ASSUME NEW c, NEW t, NEW d, NEW u, DigestToSign(c, t) = DigestToSign(d, u)
    PROVE  c = d /\ t = u
  BY DEF DigestToSign

(***************************************************************************)
(* The transaction of a proof is the one the wallet signed if and only if  *)
(* who was asked is the signer and the scope is the request's.             *)
(***************************************************************************)
LEMMA ProofOfTransaction ==
    ASSUME GoodArguments(args), MadeAsAsked, Allowed(request), args.kind = "identity", PlainIdentity(args),
           Version(args) # 2, NEW signer, NEW ctx, NEW fields, NEW now, ResolvedAs(signer, ctx, fields, now),
           NEW proof, proof.signer = signer, proof.expiration = resolved.transaction.tapos.expiration
    PROVE  /\ ProofTransaction(proof) = resolved.transaction =>
                  Who(args, signer) = signer /\ proof.scope = args.scope
           /\ Who(args, signer) = signer /\ proof.scope = args.scope =>
                  ProofTransaction(proof) = resolved.transaction
           /\ resolved.transaction.actions[1].authorization = <<Who(args, signer)>>
  <1> DEFINE t == resolved.transaction.tapos
             who == Who(args, signer)
             scope == args.scope
             action == IdentityAction(args, signer)
             proofAction == [account |-> NoAccount, authorization |-> <<proof.signer>>,
                             data |-> <<proof.scope, proof.signer.actor, proof.signer.permission>>]
  <1>1. resolved.transaction = [tapos |-> t, actions |-> resolved.transaction.actions]
    BY DEF ResolvedAs, ResolvedRequest
  <1>2. resolved.transaction.actions = <<action>>
    BY IdentityMeant
  <1>3. t = [expiration |-> t.expiration, ref_block_num |-> 0, ref_block_prefix |-> 0]
    BY TaposResolves
  <1>4. ProofTransaction(proof).tapos = t
    BY <1>3 DEF ProofTransaction, NoTapos
  <1>5. ProofTransaction(proof) = [tapos |-> t, actions |-> <<proofAction>>]
    BY <1>4 DEF ProofTransaction
  <1>6. action = [account |-> NoAccount, authorization |-> <<who>>,
                  data |-> <<scope, who.actor, who.permission>>]
    BY DEF IdentityAction
  <1>7. proofAction = [account |-> NoAccount, authorization |-> <<signer>>,
                       data |-> <<proof.scope, signer.actor, signer.permission>>]
    OBVIOUS
  <1> HIDE DEF who, scope, action, proofAction, t
  <1>8. ProofTransaction(proof) = resolved.transaction <=> proofAction = action
    BY <1>1, <1>2, <1>5
  <1>9. ASSUME proofAction = action PROVE who = signer /\ proof.scope = scope
    <2>1. <<who>> = <<signer>>
      BY <1>6, <1>7, <1>9
    <2>2. <<scope, who.actor, who.permission>> = <<proof.scope, signer.actor, signer.permission>>
      BY <1>6, <1>7, <1>9
    <2> QED BY <2>1, <2>2
  <1>10. ASSUME who = signer, proof.scope = scope PROVE proofAction = action
    BY <1>6, <1>7, <1>10
  <1>11. action.authorization = <<who>>
    BY <1>6
  <1>12. resolved.transaction.actions[1].authorization = <<who>>
    BY <1>2, <1>11, SeqOfOne
  <1> QED BY <1>8, <1>9, <1>10, <1>12 DEF who, scope

\* What fromPayload makes of the payload's request and chain.
LEMMA PayloadOpens ==
    ASSUME GoodArguments(args), MadeAsAsked, Allowed(request),
           NEW signer, NEW ctx, NEW fields, NEW time, ResolvedAs(signer, ctx, fields, time),
           NEW deflated \in BOOLEAN, payload = CallbackPayload(resolved, deflated), NEW withCid \in BOOLEAN
    PROVE  /\ resolved.request = request /\ FromData(payload.req) = request
           /\ Opens(payload.req) <=> ~(payload.req.deflated /\ payload.req.data.big)
           /\ payload.req.version = Version(args)
           /\ IsIdentity(payload.req) <=> args.kind = "identity"
           /\ PayloadChain(payload, withCid) =
                  IF IsMultiChain(request) /\ ~withCid THEN Refused ELSE resolved.chainId
  <1>1. request \in RequestObjects
    BY DEF MadeAsAsked
  <1>2. /\ resolved.request = request
        /\ resolved.chainId = (IF IsMultiChain(request) THEN ctx.chainId ELSE GetChainId(request))
    BY DEF ResolvedAs, ResolvedRequest
  <1>3. payload.req = Encode(request, deflated) /\ payload.cid = resolved.chainId
    BY <1>2 DEF CallbackPayload
  <1>4. /\ payload.req.deflated = deflated /\ payload.req.data = request.data
        /\ payload.req.version = request.version
    BY <1>3 DEF Encode
  <1>5. /\ FromData(payload.req) = request
        /\ Opens(payload.req) <=> ~(payload.req.deflated /\ payload.req.data.big)
    BY <1>1, <1>3, <1>4, EncodedIsRead
  <1>6. PayloadChain(payload, withCid) = IF withCid THEN resolved.chainId ELSE GetChainId(request)
    BY <1>3, <1>5 DEF PayloadChain
  <1>7. PayloadChain(payload, withCid) =
            IF IsMultiChain(request) /\ ~withCid THEN Refused ELSE resolved.chainId
    BY <1>2, <1>6, ArgumentsOfRequest
  <1>8. IsIdentity(payload.req) <=> args.kind = "identity"
    BY <1>4, ArgumentsOfRequest DEF IsIdentity
  <1>9. payload.req.version = Version(args)
    BY <1>4, ArgumentsOfRequest
  <1> QED BY <1>2, <1>5, <1>7, <1>8, <1>9

\* A proof is refused for what it is made of only.
LEMMA ProofIsRefused ==
    ASSUME GoodArguments(args), MadeAsAsked, Allowed(request),
           NEW signer, NEW ctx, NEW fields, NEW time, ResolvedAs(signer, ctx, fields, time),
           NEW deflated \in BOOLEAN, payload = CallbackPayload(resolved, deflated), NEW withCid \in BOOLEAN,
           ProofOf(payload, withCid).error
    PROVE  \/ args.kind = "identity" => args.scope = NotGiven
           \/ IsMultiChain(resolved.request) /\ ~withCid
           \/ payload.req.deflated /\ payload.req.data.big
  <1>1. ~HasProof(payload) \/ PayloadChain(payload, withCid) = Refused
    BY DEF ProofOf
  <1>2. CASE PayloadChain(payload, withCid) = Refused
    <2>1. resolved.chainId # Refused
      BY ChainResolves, ConstantsAssumption
    <2> QED BY <1>2, <2>1, PayloadOpens
  <1>3. CASE ~HasProof(payload)
    <2>1. args.kind = "identity" /\ args.scope # NotGiven => Version(args) = 3
      BY DEF Version
    <2> QED BY <1>3, <2>1, PayloadOpens DEF HasProof
  <1> QED BY <1>1, <1>2, <1>3

LEMMA ProofIsOfTheSigner ==
    ASSUME GoodArguments(args), MadeAsAsked, Allowed(request), PlainIdentity(args),
           NEW signer, NEW ctx, NEW fields, NEW time, ResolvedAs(signer, ctx, fields, time),
           NEW deflated \in BOOLEAN, payload = CallbackPayload(resolved, deflated), NEW withCid \in BOOLEAN,
           ~ProofOf(payload, withCid).error
    PROVE  LET proof == ProofOf(payload, withCid).proof
               asked == resolved.transaction.actions[1].authorization = <<resolved.signer>>
           IN  /\ proof = GetIdentityProof(resolved, SignatureOf(resolved))
               /\ ProofTransaction(proof) = resolved.transaction <=> asked
               /\ \A key \in Signers, threshold \in 1..2, weight \in 1..2, now \in {payload.ex - 1, payload.ex} :
                      LET auth == KeyAuth(key, threshold, weight)
                      IN  /\ Verify(proof, auth, now) <=>
                                 asked /\ now < payload.ex /\ key = resolved.signer /\ weight >= threshold
                          /\ \A scope \in {OtherScope} \ {proof.scope} :
                                 ~Verify([proof EXCEPT !.scope = scope], auth, now)
                          /\ \A chain \in Chains \ {proof.chainId} :
                                 ~Verify([proof EXCEPT !.chainId = chain], auth, now)
  <1> DEFINE proof == ProofOf(payload, withCid).proof
             asked == resolved.transaction.actions[1].authorization = <<resolved.signer>>
             t == resolved.transaction.tapos
             sig == SignatureOf(resolved)
  <1>1. request \in RequestObjects /\ signer \in PermissionLevels
    BY InputsAssumption DEF MadeAsAsked, ResolvedAs
  <1>2. resolved.request = request /\ resolved.signer = signer
    BY DEF ResolvedAs, ResolvedRequest
  <1>3. /\ payload.sig = sig /\ payload.ex = t.expiration /\ payload.cid = resolved.chainId
        /\ payload.sa = signer.actor /\ payload.sp = signer.permission /\ payload.req = Encode(request, deflated)
    BY <1>2 DEF CallbackPayload
  <1>4. PayloadSigner(payload) = signer
    BY <1>1, <1>3 DEF PayloadSigner, PermissionLevels
  <1>5. HasProof(payload) /\ PayloadChain(payload, withCid) # Refused
    BY DEF ProofOf
  <1>6. /\ FromData(payload.req) = request /\ PayloadChain(payload, withCid) = resolved.chainId
        /\ IsIdentity(request) /\ request.version >= 3
    BY <1>5, PayloadOpens, ArgumentsOfRequest DEF HasProof
  <1>7. args.kind = "identity" /\ Version(args) # 2 /\ Version(args) \in {2, 3}
    BY <1>6, ArgumentsOfRequest DEF Version
  <1>8. GetIdentityScope(request) = args.scope
    <2>1. request.version > 2
      BY <1>7, ArgumentsOfRequest
    <2>2. request.data.req.scope = args.scope
      BY ArgumentsOfRequest DEF Req
    <2> QED BY <1>6, <2>1, <2>2 DEF GetIdentityScope
  <1>9. proof = [chainId |-> resolved.chainId, scope |-> args.scope, expiration |-> t.expiration,
                 signer |-> signer, signature |-> sig]
    BY <1>3, <1>4, <1>5, <1>6, <1>8 DEF ProofOf
  <1>10. proof = GetIdentityProof(resolved, sig)
    BY <1>2, <1>8, <1>9 DEF GetIdentityProof
  <1>11. sig.by = signer /\ sig.of = DigestToSign(resolved.chainId, resolved.transaction)
    BY <1>2 DEF SignatureOf
  <1> HIDE DEF proof, t, sig
  <1>12. asked <=> Who(args, signer) = signer
    <2>1. resolved.transaction.actions[1].authorization = <<Who(args, signer)>>
      BY <1>7, <1>9, ProofOfTransaction DEF t
    <2>2. <<Who(args, signer)>> = <<signer>> <=> Who(args, signer) = signer
      OBVIOUS
    <2> QED BY <1>2, <2>1, <2>2
  <1>13. ProofTransaction(proof) = resolved.transaction <=> asked
    BY <1>7, <1>9, <1>12, ProofOfTransaction DEF t
  <1> HIDE DEF asked
  <1>14. ASSUME NEW key \in Signers, NEW threshold \in 1..2, NEW weight \in 1..2, NEW now
         PROVE  Verify(proof, KeyAuth(key, threshold, weight), now) <=>
                    asked /\ now < payload.ex /\ key = resolved.signer /\ weight >= threshold
    <2>1. CASE asked
      <3>1. proof.signature.of = DigestToSign(proof.chainId, ProofTransaction(proof))
        BY <1>9, <1>11, <1>13, <2>1
      <3>2. proof.expiration = payload.ex /\ proof.signature.by = resolved.signer
        BY <1>2, <1>3, <1>9, <1>11 DEF t
      <3>3. Verify(proof, KeyAuth(key, threshold, weight), now) <=>
                now < proof.expiration /\ key = proof.signature.by /\ weight >= threshold
        BY <3>1, RecoversTheSigner
      <3> QED BY <2>1, <3>2, <3>3
    <2>2. CASE ~asked
      <3>1. proof.signature.of # DigestToSign(proof.chainId, ProofTransaction(proof))
        BY <1>9, <1>11, <1>13, <2>2, DigestsDiffer
      <3> QED BY <2>2, <3>1, RecoversNobody
    <2> QED BY <2>1, <2>2
  <1>15. ASSUME NEW key \in Signers, NEW threshold \in 1..2, NEW weight \in 1..2, NEW now,
                NEW scope, scope # proof.scope
         PROVE  ~Verify([proof EXCEPT !.scope = scope], KeyAuth(key, threshold, weight), now)
    <2> DEFINE other == [proof EXCEPT !.scope = scope]
    <2>1. /\ other.scope = scope /\ other.signer = signer /\ other.expiration = t.expiration
          /\ other.chainId = resolved.chainId /\ other.signature = sig
      BY <1>9
    <2>2. scope # args.scope
      BY <1>9, <1>15
    <2> HIDE DEF other
    <2>3. ProofTransaction(other) # resolved.transaction
      BY <1>7, <2>1, <2>2, ProofOfTransaction DEF t
    <2>4. other.signature.of # DigestToSign(other.chainId, ProofTransaction(other))
      BY <1>11, <2>1, <2>3, DigestsDiffer
    <2>5. ~Verify(other, KeyAuth(key, threshold, weight), now)
      BY <2>4, RecoversNobody
    <2> QED BY <2>5 DEF other
  <1>16. ASSUME NEW key \in Signers, NEW threshold \in 1..2, NEW weight \in 1..2, NEW now,
                NEW chain, chain # proof.chainId
         PROVE  ~Verify([proof EXCEPT !.chainId = chain], KeyAuth(key, threshold, weight), now)
    <2> DEFINE other == [proof EXCEPT !.chainId = chain]
    <2>1. other.chainId = chain /\ other.signature = sig
      BY <1>9
    <2>2. chain # resolved.chainId
      BY <1>9, <1>16
    <2> HIDE DEF other
    <2>3. other.signature.of # DigestToSign(other.chainId, ProofTransaction(other))
      BY <1>11, <2>1, <2>2, DigestsDiffer
    <2>4. ~Verify(other, KeyAuth(key, threshold, weight), now)
      BY <2>3, RecoversNobody
    <2> QED BY <2>4 DEF other
  <1>17. ASSUME NEW key \in Signers, NEW threshold \in 1..2, NEW weight \in 1..2, NEW now
         PROVE  /\ Verify(proof, KeyAuth(key, threshold, weight), now) <=>
                       asked /\ now < payload.ex /\ key = resolved.signer /\ weight >= threshold
                /\ \A scope \in {OtherScope} \ {proof.scope} :
                       ~Verify([proof EXCEPT !.scope = scope], KeyAuth(key, threshold, weight), now)
                /\ \A chain \in Chains \ {proof.chainId} :
                       ~Verify([proof EXCEPT !.chainId = chain], KeyAuth(key, threshold, weight), now)
    <2>1. \A scope \in {OtherScope} \ {proof.scope} :
              ~Verify([proof EXCEPT !.scope = scope], KeyAuth(key, threshold, weight), now)
      BY <1>15, Zenon
    <2>2. \A chain \in Chains \ {proof.chainId} :
              ~Verify([proof EXCEPT !.chainId = chain], KeyAuth(key, threshold, weight), now)
      BY <1>16, Zenon
    <2> QED BY <1>14, <2>1, <2>2, Zenon
  <1> QED BY <1>10, <1>13, <1>17, Zenon DEF proof, asked, sig

LEMMA PayloadRecreatesHolds == SigningInv => PayloadRecreates
  <1> SUFFICES ASSUME SigningInv PROVE PayloadRecreates
    OBVIOUS
  <1>1. ASSUME payload # NotGiven
        PROVE  /\ GoodArguments(args) /\ MadeAsAsked /\ Allowed(request)
               /\ \E signer, ctx, fields, now : ResolvedAs(signer, ctx, fields, now)
               /\ \E deflated \in BOOLEAN : payload = CallbackPayload(resolved, deflated)
    BY <1>1, PayloadHas, ResolvedHas DEF ResolvedAs
  <1>2. ASSUME recreated # NotGiven, recreated.fields = resolved.fields
        PROVE  IF recreated.error
               THEN \/ IsMultiChain(resolved.request) /\ ~recreated.withCid
                    \/ payload.req.deflated /\ payload.req.data.big
               ELSE /\ recreated.got.transaction = payload.tx
                    /\ recreated.got.signer = resolved.signer
                    /\ recreated.got.chainId = resolved.chainId
    <2>1. payload # NotGiven
      BY <1>2 DEF SigningInv, RecreatedInv
    <2>2. PICK withCid \in BOOLEAN, f \in AbiSizes, later \in Nat :
              recreated = Recreated(payload, withCid, f, later)
      BY <1>2 DEF SigningInv, RecreatedInv
    <2>3. PICK signer, ctx, fields, now : ResolvedAs(signer, ctx, fields, now)
      BY <1>1, <2>1
    <2>4. PICK deflated \in BOOLEAN : payload = CallbackPayload(resolved, deflated)
      BY <1>1, <2>1
    <2>5. recreated.fields = f /\ recreated.withCid = withCid
      BY <2>2 DEF Recreated
    <2>6. f = fields
      BY <1>2, <2>3, <2>5 DEF ResolvedAs, ResolvedRequest
    <2>7. IF recreated.error
          THEN \/ IsMultiChain(resolved.request) /\ ~withCid
               \/ payload.req.deflated /\ payload.req.data.big
          ELSE /\ recreated.got.transaction = payload.tx
               /\ recreated.got.signer = resolved.signer
               /\ recreated.got.chainId = resolved.chainId
      BY <1>1, <2>1, <2>2, <2>3, <2>4, <2>6, RecreatesTheSame
    <2> QED BY <2>5, <2>7
  <1>3. ASSUME payload # NotGiven, PlainIdentity(args), NEW withCid \in BOOLEAN
        PROVE  LET made == ProofOf(payload, withCid)
                   proof == made.proof
                   asked == resolved.transaction.actions[1].authorization = <<resolved.signer>>
               IN  IF made.error
                   THEN \/ args.kind = "identity" => args.scope = NotGiven
                        \/ IsMultiChain(resolved.request) /\ ~withCid
                        \/ payload.req.deflated /\ payload.req.data.big
                   ELSE /\ proof = GetIdentityProof(resolved, SignatureOf(resolved))
                        /\ ProofTransaction(proof) = resolved.transaction <=> asked
                        /\ \A key \in Signers, threshold \in 1..2, weight \in 1..2,
                              now \in {payload.ex - 1, payload.ex} :
                               LET auth == KeyAuth(key, threshold, weight)
                               IN  /\ Verify(proof, auth, now) <=>
                                          asked /\ now < payload.ex /\ key = resolved.signer /\ weight >= threshold
                                   /\ \A scope \in {OtherScope} \ {proof.scope} :
                                          ~Verify([proof EXCEPT !.scope = scope], auth, now)
                                   /\ \A chain \in Chains \ {proof.chainId} :
                                          ~Verify([proof EXCEPT !.chainId = chain], auth, now)
    <2>1. GoodArguments(args) /\ MadeAsAsked /\ Allowed(request)
      BY <1>1, <1>3
    <2>2. PICK signer, ctx, fields, now : ResolvedAs(signer, ctx, fields, now)
      BY <1>1, <1>3
    <2>3. PICK deflated \in BOOLEAN : payload = CallbackPayload(resolved, deflated)
      BY <1>1, <1>3
    <2>4. CASE ProofOf(payload, withCid).error
      <3>1. \/ args.kind = "identity" => args.scope = NotGiven
            \/ IsMultiChain(resolved.request) /\ ~withCid
            \/ payload.req.deflated /\ payload.req.data.big
        BY <1>3, <2>1, <2>2, <2>3, <2>4, ProofIsRefused
      <3> QED BY <2>4, <3>1, Zenon
    <2>5. CASE ~ProofOf(payload, withCid).error
      BY <1>3, <2>1, <2>2, <2>3, <2>5, ProofIsOfTheSigner, Zenon
    <2> QED BY <2>4, <2>5
  <1> QED BY <1>2, <1>3, Zenon DEF PayloadRecreates

---------------------------------------------------------------------------
(* Theorems.                                                               *)

\* For any arguments, chains and changes, a URI that opens gives the request it was
\* made of: create (SigningRequest.ts), encode and from are inverse, with the
\* chains and the info that were asked for, and the signature if it still is of it.
THEOREM AnOpenedRequestIsTheOneMade == RequestSpec => []OpensAsMade
  <1>1. RequestSpec => []SigningInv
    BY RequestInitInv, RequestStepInv, PTL DEF RequestSpec
  <1> QED BY <1>1, OpensAsMadeHolds, PTL

\* For any arguments, signer, context and fields of the ABI, what a wallet's resolve
\* gives is what the application asked for: its actions by the signer where it left
\* placeholders, on a chain it allowed, with its TAPoS values or the context's.
THEOREM AWalletResolvesWhatWasAsked == RequestSpec => []ResolvedIsWhatWasAsked
  <1>1. RequestSpec => []SigningInv
    BY RequestInitInv, RequestStepInv, PTL DEF RequestSpec
  <1> QED BY <1>1, ResolvedIsWhatWasAskedHolds, PTL

\* For any of these, fromPayload of the callback's payload gives the resolved
\* transaction, signer and chain again, and the identity proof fromPayload makes
\* of it verifies for its signer, scope, chain and time and no other; they throw
\* for a request without its chain or too big to be inflated, and no other.
THEOREM APayloadIsWhatWasResolved == RequestSpec => []PayloadRecreates
  <1>1. RequestSpec => []SigningInv
    BY RequestInitInv, RequestStepInv, PTL DEF RequestSpec
  <1> QED BY <1>1, PayloadRecreatesHolds, PTL

---------------------------------------------------------------------------
(* Reads of a proposal.                                                    *)

Fields == {"step", "table", "wants", "capabilities", "profile", "proposal", "packed",
           "approvals", "quiet", "scanned"}

Tables == {"proposal", "approvals2", "approvals"}

\* A row of the proposal table after n changes of the chain.
IsRow(row, n) ==
    \E g \in 1..n, chunks \in {0, Pieces} : \E hash \in {Absent, Body(g)} :
        row = [gen |-> g, chunk_count |-> chunks, trx_hash |-> hash]

\* The bytes of a transaction that was proposed.
Whole(packed, n) == \E g \in 1..n : packed = Body(g)

\* What a read has got: bytes are there only with the row they came with.
GotWell(r, n) ==
    /\ DOMAIN r = Fields
    /\ r.packed # <<>> => IsRow(r.proposal, n) /\ Whole(r.packed, n)

\* Chunks are read only of a row that has them, rows only of a table.
ReadWell(r, n) ==
    /\ GotWell(r, n)
    /\ r.step \in {"profile", "query", "scan"} => r.table \in Tables
    /\ r.step = "chunks" => IsRow(r.proposal, n) /\ r.proposal.chunk_count > 0

ChainWell ==
    /\ height \in Nat /\ others \in Nat /\ neighbours \in Nat
    /\ proposal = Absent \/ IsRow(proposal, height)

ReadsWell == DOMAIN reads = Reads /\ \A r \in Reads : ReadWell(reads[r], height)

BytesInv == ChainWell /\ ReadsWell

---------------------------------------------------------------------------
(* The rows and the chunks.                                                *)

LEMMA MsigNumbers == Pieces \in Nat /\ Pieces > 0 /\ ScanLimit \in Nat
BY MsigAssumption

\* Later changes of the chain do not undo what was proposed.
LEMMA StaysWell ==
    ASSUME NEW n \in Nat
    PROVE  /\ \A row : IsRow(row, n) => IsRow(row, n + 1)
           /\ \A r : ReadWell(r, n) => ReadWell(r, n + 1)
  <1>1. 1..n \subseteq 1..(n + 1)
    OBVIOUS
  <1>2. \A row : IsRow(row, n) => IsRow(row, n + 1)
    BY <1>1, Zenon DEF IsRow
  <1>3. \A packed : Whole(packed, n) => Whole(packed, n + 1)
    BY <1>1, Zenon DEF Whole
  <1> QED BY <1>2, <1>3, Zenon DEF ReadWell, GotWell

LEMMA RowFields ==
    ASSUME NEW n \in Nat, NEW row, IsRow(row, n)
    PROVE  /\ row.gen \in 1..n /\ row.chunk_count \in {0, Pieces}
           /\ row.trx_hash # Absent => row.trx_hash = Body(row.gen)
  <1>1. PICK g \in 1..n, chunks \in {0, Pieces} : \E hash \in {Absent, Body(g)} :
            row = [gen |-> g, chunk_count |-> chunks, trx_hash |-> hash]
    BY DEF IsRow
  <1>2. PICK hash \in {Absent, Body(g)} :
            row = [gen |-> g, chunk_count |-> chunks, trx_hash |-> hash]
    BY <1>1
  <1> QED BY <1>2

\* As many chunks as the row says are all chunks of the proposal there is now,
\* whether it is the one of the row or not.
LEMMA ChunksAreWhole ==
    ASSUME ChainWell, NEW row, IsRow(row, height), row.chunk_count > 0, NEW n \in Nat,
           Assemble(row, FirstChunkRows(n)) # Absent
    PROVE  /\ IsRow(proposal, height) /\ Assemble(row, FirstChunkRows(n)) = Body(proposal.gen)
           /\ Whole(Assemble(row, FirstChunkRows(n)), height)
  <1> DEFINE rows == FirstChunkRows(n)
             chunks == ChunkRows
             k == IF n - neighbours < Len(chunks) THEN n - neighbours ELSE Len(chunks)
  <1>1. row.chunk_count = Pieces /\ height \in Nat /\ neighbours \in Nat
    BY RowFields DEF ChainWell
  <1>2. Len(rows) = Pieces /\ Assemble(row, rows) = [i \in 1..Pieces |-> rows[i].data]
    BY <1>1 DEF Assemble
  <1>3. rows = SubSeq(chunks, 1, k)
    BY DEF FirstChunkRows
  <1>4. proposal # Absent
    <2> SUFFICES ASSUME proposal = Absent PROVE FALSE
      OBVIOUS
    <2>1. chunks = <<>>
      BY DEF ChunkRows
    <2>2. rows = <<>>
      <3>1. Len(chunks) = 0 /\ k \in Int /\ k <= 0
        BY <1>1, <2>1
      <3> HIDE DEF k
      <3> QED BY <1>3, <2>1, <3>1
    <2> QED BY <1>2, <2>2, MsigNumbers
  <1>5. IsRow(proposal, height)
    BY <1>4 DEF ChainWell
  <1> DEFINE g == proposal.gen
             m == proposal.chunk_count
  <1>6. g \in 1..height /\ m \in {0, Pieces}
    BY <1>1, <1>5, RowFields
  <1>7. /\ chunks = [i \in 1..m |-> [chunk_index |-> i, data |-> <<g, i>>]]
        /\ m \in Nat
    BY <1>4, <1>6, MsigNumbers DEF ChunkRows
  <1> HIDE DEF g, m, chunks, rows
  <1>8. /\ Len(chunks) = m /\ \A i \in 1..m : chunks[i].data = <<g, i>>
        /\ chunks \in Seq([chunk_index : 1..m, data : {<<g, i>> : i \in 1..m}])
    BY <1>7
  <1>9. k \in Int /\ k <= m
    BY <1>1, <1>7, <1>8
  <1> HIDE DEF k
  <1>10. Len(rows) = (IF k > 0 THEN k ELSE 0) /\ \A i \in 1..k : rows[i] = chunks[i]
    BY <1>3, <1>8, <1>9
  <1>11. k = Pieces /\ m = Pieces
    BY <1>2, <1>6, <1>7, <1>9, <1>10, MsigNumbers
  <1>12. \A i \in 1..Pieces : rows[i].data = <<g, i>>
    BY <1>8, <1>10, <1>11
  <1>13. [i \in 1..Pieces |-> rows[i].data] = Body(g)
    BY <1>12 DEF Body
  <1> QED BY <1>2, <1>5, <1>6, <1>13 DEF Whole, rows, g

---------------------------------------------------------------------------
(* What a read goes on to.                                                 *)

LEMMA ThrowWell ==
    ASSUME NEW r, NEW n
    PROVE  \A why \in {"unsupported", "missing", "chunkCount", "failed"} : ReadWell(Throw(r, why), n)
BY DEF Throw, Idle, ReadWell, GotWell, Fields

LEMMA AskWell ==
    ASSUME NEW r, NEW n, GotWell(r, n), NEW table \in Tables, NEW c
    PROVE  ReadWell(AskProfile(r, table, c), n) /\ ReadWell(Query(r, table, c), n)
  <1>1. ReadWell(Query(r, table, c), n)
    <2> DEFINE q == Query(r, table, c)
    <2>1. DOMAIN q = Fields /\ q.packed = r.packed /\ q.proposal = r.proposal /\ q.table = table
      BY DEF GotWell, Query, Fields
    <2>2. q.step \in {"scan", "query"}
      BY DEF GotWell, Query, Fields
    <2> HIDE DEF q
    <2>3. ReadWell(q, n)
      BY <2>1, <2>2 DEF ReadWell, GotWell
    <2> QED BY <2>3 DEF q
  <1>2. ASSUME c \in {Absent, Pending}
        PROVE  ReadWell(AskProfile(r, table, c), n)
    <2> DEFINE q == [r EXCEPT !.table = table, !.step = "profile"]
    <2>1. /\ DOMAIN q = Fields /\ q.packed = r.packed /\ q.proposal = r.proposal
          /\ q.step = "profile" /\ q.table = table
      BY DEF GotWell, Fields
    <2> HIDE DEF q
    <2>2. ReadWell(q, n)
      BY <2>1 DEF ReadWell, GotWell
    <2> QED BY <1>2, <2>2 DEF q, AskProfile
  <1> QED BY <1>1, <1>2 DEF AskProfile

LEMMA FinishWell ==
    ASSUME NEW r, NEW n, GotWell(r, n)
    PROVE  ReadWell(Finish(r), n)
  <1> DEFINE q == Finish(r)
  <1>1. DOMAIN q = Fields /\ q.packed = r.packed /\ q.proposal = r.proposal /\ q.step = "done"
    BY DEF GotWell, Finish, Fields
  <1> HIDE DEF q
  <1>2. ReadWell(q, n)
    BY <1>1 DEF ReadWell, GotWell
  <1> QED BY <1>2 DEF q

LEMMA SelectWell ==
    ASSUME NEW r, NEW n, GotWell(r, n), NEW c, NEW cached
    PROVE  ReadWell(Select(r, c, cached), n)
  <1> DEFINE known == [r EXCEPT !.capabilities = c]
  <1>1. GotWell(known, n)
    <2>1. DOMAIN known = Fields /\ known.packed = r.packed /\ known.proposal = r.proposal
      BY DEF GotWell, Fields
    <2> HIDE DEF known
    <2> QED BY <2>1 DEF GotWell
  <1> DEFINE asked == [known EXCEPT !.step = "readonly"]
  <1>2. ReadWell(asked, n)
    <2> HIDE DEF known
    <2>1. DOMAIN asked = Fields /\ asked.packed = known.packed /\ asked.proposal = known.proposal
          /\ asked.step = "readonly"
      BY <1>1 DEF GotWell, Fields
    <2> HIDE DEF asked
    <2> QED BY <1>1, <2>1 DEF ReadWell, GotWell
  <1>3. ReadWell(AskProfile(known, "proposal", cached), n)
    <2> HIDE DEF known
    <2>1. "proposal" \in Tables
      BY DEF Tables
    <2> QED BY <1>1, <2>1, AskWell
  <1>4. ReadWell(Throw(r, "unsupported"), n)
    BY ThrowWell
  <1>5. \/ Select(r, c, cached) = Throw(r, "unsupported")
        \/ Select(r, c, cached) = asked
        \/ Select(r, c, cached) = AskProfile(known, "proposal", cached)
    <2> DEFINE strategy == SelectReadStrategy(c)
    <2>1. Select(r, c, cached) =
              IF strategy = "FeatureError" THEN Throw(r, "unsupported")
              ELSE IF strategy = "readOnlyGetProposal" THEN asked
              ELSE AskProfile(known, "proposal", cached)
      BY DEF Select
    <2> HIDE DEF strategy, asked, known
    <2> QED BY <2>1
  <1> HIDE DEF asked, known
  <1> QED BY <1>2, <1>3, <1>4, <1>5

LEMMA HasProposalWell ==
    ASSUME NEW r, NEW n, DOMAIN r = Fields, NEW row, NEW packed,
           packed # <<>> => IsRow(row, n) /\ Whole(packed, n)
    PROVE  ReadWell(HasProposal(r, row, packed), n)
  <1> DEFINE got == [r EXCEPT !.proposal = row, !.packed = packed]
  <1>1. DOMAIN got = Fields /\ got.packed = packed /\ got.proposal = row
    BY DEF Fields
  <1>2. HasProposal(r, row, packed) = IF r.wants = "detail" THEN AskProfile(got, "approvals2", capabilities)
                                      ELSE Finish(got)
    BY DEF HasProposal
  <1> HIDE DEF got
  <1>3. GotWell(got, n)
    BY <1>1 DEF GotWell
  <1>4. "approvals2" \in Tables
    BY DEF Tables
  <1> QED BY <1>2, <1>3, <1>4, AskWell, FinishWell

LEMMA FoundProposalWell ==
    ASSUME NEW r, NEW n \in Nat, DOMAIN r = Fields, GotWell(r, n), NEW row, IsRow(row, n)
    PROVE  ReadWell(FoundProposal(r, row), n)
  <1> DEFINE chunks == [r EXCEPT !.proposal = row, !.step = "chunks"]
  <1>1. /\ row.gen \in 1..n /\ row.chunk_count \in {0, Pieces}
    BY RowFields
  <1>2. ReadWell(HasProposal(r, row, PackedTransaction(row)), n)
    <2>1. PackedTransaction(row) # <<>> => PackedTransaction(row) = Body(row.gen)
      BY DEF PackedTransaction
    <2>2. PackedTransaction(row) # <<>> => Whole(PackedTransaction(row), n)
      BY <1>1, <2>1 DEF Whole
    <2> QED BY <2>2, HasProposalWell
  <1>3. row.chunk_count > 0 => ReadWell(chunks, n)
    <2>1. /\ DOMAIN chunks = Fields /\ chunks.packed = r.packed /\ chunks.proposal = row
          /\ chunks.step = "chunks"
      BY DEF Fields
    <2> HIDE DEF chunks
    <2>2. r.packed # <<>> => Whole(r.packed, n)
      BY DEF GotWell
    <2> QED BY <2>1, <2>2 DEF ReadWell, GotWell
  <1> QED BY <1>2, <1>3 DEF FoundProposal

LEMMA FoundRowWell ==
    ASSUME ChainWell, NEW r, ReadWell(r, height), RowOf(r.table) # Absent
    PROVE  ReadWell(FoundRow(r, RowOf(r.table)), height)
  <1> DEFINE row == RowOf(r.table)
             got == [r EXCEPT !.approvals = row]
  <1>1. CASE r.table = "proposal"
    <2>1. row = proposal /\ proposal # Absent
      BY <1>1 DEF RowOf
    <2>2. IsRow(row, height) /\ height \in Nat
      BY <2>1 DEF ChainWell
    <2>3. GotWell(r, height) /\ DOMAIN r = Fields
      BY DEF ReadWell, GotWell
    <2> HIDE DEF row
    <2>4. ReadWell(FoundProposal(r, row), height)
      BY <2>2, <2>3, FoundProposalWell
    <2> QED BY <1>1, <2>4 DEF FoundRow, row
  <1>2. CASE r.table # "proposal"
    <2> HIDE DEF row
    <2>1. DOMAIN got = Fields /\ got.packed = r.packed /\ got.proposal = r.proposal
      BY DEF ReadWell, GotWell, Fields
    <2>2. FoundRow(r, row) = Finish(got)
      BY <1>2 DEF FoundRow
    <2> HIDE DEF got
    <2>3. GotWell(got, height)
      BY <2>1 DEF ReadWell, GotWell
    <2> QED BY <2>2, <2>3, FinishWell DEF row
  <1> QED BY <1>1, <1>2

---------------------------------------------------------------------------
(* Every step.                                                             *)

LEMMA BytesInit == MsigInit => BytesInv
  <1> SUFFICES ASSUME MsigInit PROVE BytesInv
    OBVIOUS
  <1>1. ChainWell
    BY MsigNumbers DEF MsigInit, ChainWell
  <1>2. ReadWell(Idle, height)
    BY DEF Idle, ReadWell, GotWell, Fields
  <1>3. DOMAIN reads = Reads /\ \A r \in Reads : reads[r] = Idle
    BY DEF MsigInit
  <1> QED BY <1>1, <1>2, <1>3, Zenon DEF BytesInv, ReadsWell

\* One read goes on, to something that is well.
LEMMA ContinueWell ==
    ASSUME BytesInv, NEW r \in Reads, NEW next, ReadWell(next, height), Continue(r, next)
    PROVE  BytesInv'
  <1>1. reads' = [reads EXCEPT ![r] = next] /\ UNCHANGED ledger
    BY DEF Continue
  <1>2. ChainWell'
    BY <1>1 DEF BytesInv, ChainWell, ledger
  <1>3. DOMAIN reads' = Reads /\ height' = height
    BY <1>1 DEF BytesInv, ReadsWell, ledger
  <1>4. \A s \in Reads : reads'[s] = next \/ reads'[s] = reads[s]
    BY <1>1 DEF BytesInv, ReadsWell
  <1>5. \A s \in Reads : ReadWell(reads'[s], height')
    BY <1>3, <1>4 DEF BytesInv, ReadsWell
  <1> QED BY <1>2, <1>3, <1>5 DEF BytesInv, ReadsWell

LEMMA StartWell ==
    ASSUME BytesInv, NEW r \in Reads,
           (\E wants \in {"proposal", "detail"} : StartRead(r, wants)) \/ StartApprovals(r)
    PROVE  BytesInv'
  <1>1. ASSUME NEW wants, StartRead(r, wants)
        PROVE  BytesInv'
    <2> DEFINE asking == [Idle EXCEPT !.step = "capabilities", !.wants = wants]
    <2>1. ReadWell(asking, height)
      BY DEF Idle, ReadWell, GotWell, Fields
    <2> HIDE DEF asking
    <2>2. ReadWell(Select(asking, capabilities, capabilities), height)
      BY <2>1, SelectWell DEF ReadWell
    <2>3. Continue(r, IF capabilities \in {Absent, Pending} THEN asking
                      ELSE Select(asking, capabilities, capabilities))
      BY <1>1 DEF StartRead, asking
    <2>4. ReadWell(IF capabilities \in {Absent, Pending} THEN asking
                   ELSE Select(asking, capabilities, capabilities), height)
      BY <2>1, <2>2
    <2> QED BY <2>3, <2>4, ContinueWell
  <1>2. ASSUME StartApprovals(r)
        PROVE  BytesInv'
    <2> DEFINE asking == [Idle EXCEPT !.wants = "approvals"]
    <2>1. GotWell(asking, height)
      BY DEF Idle, GotWell, Fields
    <2>2. Continue(r, AskProfile(asking, "approvals2", capabilities))
      BY <1>2 DEF StartApprovals
    <2>3. "approvals2" \in Tables
      BY DEF Tables
    <2> HIDE DEF asking
    <2> QED BY <2>1, <2>2, <2>3, AskWell, ContinueWell
  <1> QED BY <1>1, <1>2

LEMMA DetectWell == BytesInv /\ Detect => BytesInv'
  <1> SUFFICES ASSUME BytesInv, Detect PROVE BytesInv'
    OBVIOUS
  <1>1. PICK read \in {contract, Absent} :
            LET c == CapabilitiesFromAbi(read)
                kept == IF c.profile = "unknown" THEN Absent ELSE c
            IN  reads' = [r \in Reads |-> IF r \in Waiting THEN Resume(reads[r], c, kept) ELSE reads[r]]
    BY DEF Detect
  <1> DEFINE c == CapabilitiesFromAbi(read)
             kept == IF c.profile = "unknown" THEN Absent ELSE c
  <1> HIDE DEF c, kept
  <1>2. reads' = [r \in Reads |-> IF r \in Waiting THEN Resume(reads[r], c, kept) ELSE reads[r]]
    BY <1>1 DEF c, kept
  <1>3. UNCHANGED ledger
    BY DEF Detect
  <1>4. \A r \in Reads : ReadWell(reads[r], height)
    BY DEF BytesInv, ReadsWell
  <1>5. ASSUME NEW r \in Waiting
        PROVE  ReadWell(Resume(reads[r], c, kept), height)
    <2>1. GotWell(reads[r], height) /\ (reads[r].step = "profile" => reads[r].table \in Tables)
      BY <1>4 DEF Waiting, ReadWell
    <2>2. reads[r].step \in {"capabilities", "profile"}
      BY DEF Waiting
    <2> QED BY <2>1, <2>2, SelectWell, AskWell DEF Resume
  <1>6. \A r \in Reads : ReadWell(reads'[r], height)
    BY <1>2, <1>4, <1>5
  <1> QED BY <1>2, <1>3, <1>6 DEF BytesInv, ReadsWell, ChainWell, ledger

LEMMA AnswerWell ==
    ASSUME BytesInv, NEW r \in Reads, Answer(r)
    PROVE  BytesInv'
  <1>1. ChainWell /\ ReadWell(reads[r], height) /\ GotWell(reads[r], height) /\ height \in Nat
    BY DEF BytesInv, ReadsWell, ReadWell, ChainWell
  <1>2. CASE RunGetProposal(r)
    <2>1. proposal # Absent /\ Continue(r, HasProposal(reads[r], proposal, ReadOnlyReturn(proposal)))
      BY <1>2 DEF RunGetProposal
    <2>2. IsRow(proposal, height)
      BY <1>1, <2>1 DEF ChainWell
    <2>3. Whole(ReadOnlyReturn(proposal), height)
      BY <1>1, <2>2, RowFields DEF Whole, ReadOnlyReturn
    <2>4. DOMAIN reads[r] = Fields
      BY <1>1 DEF GotWell
    <2> QED BY <2>1, <2>2, <2>3, <2>4, HasProposalWell, ContinueWell
  <1>3. CASE FallBackToTables(r)
    <2>1. "proposal" \in Tables
      BY DEF Tables
    <2> QED BY <1>1, <1>3, <2>1, AskWell, ContinueWell DEF FallBackToTables
  <1>4. CASE QueryRow(r)
    <2> DEFINE scan == [reads[r] EXCEPT !.step = "scan"]
    <2>1. ReadWell(scan, height)
      <3>1. DOMAIN scan = Fields /\ scan.packed = reads[r].packed /\ scan.proposal = reads[r].proposal
            /\ scan.step = "scan" /\ scan.table = reads[r].table /\ scan.table \in Tables
        BY <1>1, <1>4 DEF QueryRow, ReadWell, GotWell, Fields
      <3> HIDE DEF scan
      <3> QED BY <1>1, <3>1 DEF ReadWell, GotWell
    <2>2. \/ RowOf(reads[r].table) # Absent /\ Continue(r, FoundRow(reads[r], RowOf(reads[r].table)))
          \/ Continue(r, scan)
      BY <1>4 DEF QueryRow
    <2> HIDE DEF scan
    <2> QED BY <1>1, <2>1, <2>2, FoundRowWell, ContinueWell
  <1>5. CASE ScanRows(r)
    <2> DEFINE row == ScannedRow(reads[r].table)
    <2>1. Continue(r, IF row = Absent THEN NoRow(reads[r]) ELSE FoundRow(reads[r], row))
          /\ reads[r].step = "scan"
      BY <1>5 DEF ScanRows
    <2>2. CASE row # Absent
      <3>1. row = RowOf(reads[r].table)
        BY <2>2 DEF ScannedRow
      <3>2. ReadWell(FoundRow(reads[r], RowOf(reads[r].table)), height)
        BY <1>1, <2>2, <3>1, FoundRowWell
      <3> HIDE DEF row
      <3> QED BY <2>1, <2>2, <3>1, <3>2, ContinueWell
    <2>3. CASE row = Absent
      <3>1. Continue(r, NoRow(reads[r]))
        BY <2>1, <2>3
      <3>2. reads[r].table \in Tables /\ "approvals" \in Tables
        BY <1>1, <2>1 DEF ReadWell, Tables
      <3>3. ReadWell(NoRow(reads[r]), height)
        <4>1. ReadWell(Throw(reads[r], "missing"), height)
          BY ThrowWell
        <4>2. ReadWell(AskProfile(reads[r], "approvals", capabilities), height)
          BY <1>1, <3>2, AskWell
        <4>3. ReadWell(Finish(reads[r]), height)
          BY <1>1, FinishWell
        <4> QED BY <3>2, <4>1, <4>2, <4>3 DEF NoRow, Tables
      <3> QED BY <3>1, <3>3, ContinueWell
    <2> QED BY <2>2, <2>3
  <1>6. CASE AssembleChunks(r)
    <2> DEFINE row == reads[r].proposal
               n == IF row.chunk_count > ScanLimit THEN row.chunk_count ELSE ScanLimit
               packed == Assemble(row, FirstChunkRows(n))
    <2>1. /\ Continue(r, IF packed = Absent THEN Throw(reads[r], "chunkCount")
                         ELSE HasProposal(reads[r], row, packed))
          /\ reads[r].step = "chunks"
      BY <1>6 DEF AssembleChunks
    <2>2. IsRow(row, height) /\ row.chunk_count > 0
      BY <1>1, <2>1 DEF ReadWell
    <2>3. n \in Nat
      BY <1>1, <2>2, RowFields, MsigNumbers
    <2> HIDE DEF n
    <2>4. packed # Absent => Whole(packed, height)
      BY <1>1, <2>2, <2>3, ChunksAreWhole
    <2>5. DOMAIN reads[r] = Fields
      BY <1>1 DEF GotWell
    <2> HIDE DEF packed, row
    <2>6. packed # Absent => ReadWell(HasProposal(reads[r], row, packed), height)
      BY <2>2, <2>4, <2>5, HasProposalWell
    <2>7. ReadWell(Throw(reads[r], "chunkCount"), height)
      BY ThrowWell
    <2>8. ReadWell(IF packed = Absent THEN Throw(reads[r], "chunkCount")
                   ELSE HasProposal(reads[r], row, packed), height)
      BY <2>6, <2>7
    <2> QED BY <2>1, <2>8, ContinueWell
  <1>7. CASE FailRequest(r)
    BY <1>1, <1>7, ThrowWell, ContinueWell DEF FailRequest
  <1> QED BY <1>2, <1>3, <1>4, <1>5, <1>6, <1>7 DEF Answer

LEMMA ChainStepWell == BytesInv /\ ChainStep => BytesInv'
  <1> SUFFICES ASSUME BytesInv, ChainStep PROVE BytesInv'
    OBVIOUS
  <1>1. Change /\ height \in Nat
    BY DEF ChainStep, Propose, Approve, RemoveProposal, Upgrade, BytesInv, ChainWell
  <1>2. height' = height + 1 /\ others' = others /\ neighbours' = neighbours /\ height' \in Nat
    BY <1>1 DEF Change
  <1>3. ReadsWell'
    <2>1. DOMAIN reads' = Reads
      BY <1>1 DEF Change
    <2>2. ASSUME NEW r \in Reads
          PROVE  ReadWell(reads'[r], height')
      <3> DEFINE old == reads[r]
                 new == [old EXCEPT !.quiet = old.step = "idle"]
      <3>1. reads'[r] = new
        BY <1>1 DEF Change
      <3>2. ReadWell(old, height')
        BY <1>1, <1>2, StaysWell DEF BytesInv, ReadsWell
      <3> HIDE DEF old
      <3>3. DOMAIN new = Fields /\ new.packed = old.packed /\ new.proposal = old.proposal
            /\ new.step = old.step /\ new.table = old.table
        BY <3>2 DEF ReadWell, GotWell, Fields
      <3> HIDE DEF new
      <3>4. ReadWell(new, height')
        BY <3>2, <3>3 DEF ReadWell, GotWell
      <3> QED BY <3>1, <3>4
    <2> QED BY <2>1, <2>2 DEF ReadsWell
  <1>4. proposal' = Absent \/ IsRow(proposal', height')
    <2>1. CASE Propose
      <3>1. PICK chunks \in {0, Pieces} :
                proposal' = [gen |-> height', chunk_count |-> chunks,
                             trx_hash |-> IF "chunk_fields" \in contract THEN Body(height') ELSE Absent]
        BY <2>1 DEF Propose
      <3>2. height' \in 1..height'
        BY <1>1, <1>2
      <3> DEFINE hash == IF "chunk_fields" \in contract THEN Body(height') ELSE Absent
      <3>3. hash \in {Absent, Body(height')}
        OBVIOUS
      <3> HIDE DEF hash
      <3> QED BY <3>1, <3>2, <3>3 DEF IsRow, hash
    <2>2. CASE RemoveProposal
      BY <2>2 DEF RemoveProposal
    <2>3. CASE UNCHANGED proposal
      BY <1>1, <1>2, <2>3, StaysWell DEF BytesInv, ChainWell
    <2>4. Propose \/ RemoveProposal \/ UNCHANGED proposal
      BY DEF ChainStep, Approve, Upgrade
    <2> QED BY <2>1, <2>2, <2>3, <2>4
  <1> QED BY <1>2, <1>3, <1>4 DEF BytesInv, ChainWell

LEMMA BytesNext == BytesInv /\ [MsigNext]_msigVars => BytesInv'
  <1>1. BytesInv /\ UNCHANGED msigVars => BytesInv'
    BY DEF msigVars, ledger, BytesInv, ChainWell, ReadsWell
  <1> QED BY <1>1, StartWell, DetectWell, AnswerWell, ChainStepWell, Zenon DEF MsigNext

---------------------------------------------------------------------------
(***************************************************************************)
(* MsigClient.getProposal, getProposalDetail: the bytes of a read are one  *)
(* whole transaction however the chain changes between its requests, and  *)
(* that of the row if its hash is verified.                                *)
(***************************************************************************)
THEOREM BytesNeverMixed == MsigSpec => []BytesAreOneTransaction
  <1>1. BytesInv => BytesAreOneTransaction
    <2> SUFFICES ASSUME BytesInv, NEW r \in Reads, HasBytes(r)
                 PROVE  /\ \E g \in 1..height : reads[r].packed = Body(g)
                        /\ HashStatus(reads[r]) = "verified" => reads[r].packed = Body(reads[r].proposal.gen)
      BY DEF BytesAreOneTransaction
    <2>1. /\ height \in Nat /\ IsRow(reads[r].proposal, height) /\ Whole(reads[r].packed, height)
      BY DEF BytesInv, ChainWell, ReadsWell, ReadWell, GotWell, HasBytes
    <2>2. reads[r].proposal.trx_hash # Absent => reads[r].proposal.trx_hash = Body(reads[r].proposal.gen)
      BY <2>1, RowFields
    <2>3. HashStatus(reads[r]) = "verified" =>
              reads[r].proposal.trx_hash # Absent /\ reads[r].packed = reads[r].proposal.trx_hash
      BY DEF HashStatus
    <2> QED BY <2>1, <2>2, <2>3 DEF Whole
  <1> QED BY BytesInit, BytesNext, <1>1, PTL DEF MsigSpec

---------------------------------------------------------------------------
(* Reads that nothing disturbed.                                           *)

IsApprovals(row, n) ==
    \E gen \in 1..n, table \in {"approvals2", "approvals"}, requested \in SUBSET Levels :
        row = [gen |-> gen, table |-> table, requested |-> requested, provided |-> Levels \ requested]

ChainRight ==
    /\ contract \in Contracts
    /\ approvals = Absent \/ IsApprovals(approvals, height)

\* What a read has got of the proposal is what there is.
GotProposal(r) ==
    /\ r.proposal = proposal /\ IsRow(proposal, height)
    /\ r.packed \in {<<>>, Body(proposal.gen)}
    /\ r.packed = <<>> => proposal.chunk_count > 0 /\ ~r.capabilities.supports.chunkedProposals

Asking(r) == r.step \in {"profile", "query", "scan"}

\* A row was looked for in vain.
NotFound(r, row) == row = Absent \/ Missed(r)

GotApprovals(r) == r.approvals = approvals \/ (r.approvals = Absent /\ Missed(r))

\* A read whose bounds were understood scans only for a row that is not there.
Bounded(r) ==
    /\ r.quiet /\ r.step = "query" => Understood(r.profile)
    /\ r.quiet /\ r.step = "scan" => RowOf(r.table) = Absent

\* What a read looks for, and what it has found if it was not disturbed.
QuietWell(r) ==
    /\ r.wants \in {"proposal", "detail", "approvals"}
    /\ r.step # "done" => r.approvals = Absent
    /\ r.step \in {"capabilities", "readonly", "chunks"} \/ (Asking(r) /\ r.table = "proposal") =>
           r.wants \in {"proposal", "detail"}
    /\ Asking(r) /\ r.table # "proposal" => r.wants \in {"approvals", "detail"}
    /\ r.quiet /\ r.step = "chunks" => r.proposal = proposal
    /\ r.quiet /\ Asking(r) /\ r.table # "proposal" /\ r.wants = "detail" => GotProposal(r)
    /\ r.quiet /\ Asking(r) /\ r.table = "approvals" => NotFound(r, RowOf("approvals2"))
    /\ ~r.scanned => Bounded(r)
    /\ r.quiet /\ r.step = "missing" => NotFound(r, proposal)
    /\ r.quiet /\ r.step = "done" =>
           /\ r.wants \in {"proposal", "detail"} => GotProposal(r)
           /\ r.wants \in {"approvals", "detail"} => GotApprovals(r)

ReadsQuiet == \A r \in Reads : QuietWell(reads[r])

QuietInv == BytesInv /\ ChainRight /\ ReadsQuiet /\ UnknownIsRetried

\* A read that goes on, and asks for the capabilities only if they are not kept.
GoesOn(r, cached) ==
    QuietWell(r) /\ r.step # "capabilities" /\ (r.step = "profile" => cached \in {Absent, Pending})

---------------------------------------------------------------------------
LEMMA ThrowQuiet ==
    ASSUME NEW r, r.wants \in {"proposal", "detail", "approvals"}, NEW cached,
           NEW why \in {"unsupported", "missing", "chunkCount", "failed"},
           why = "missing" /\ r.quiet => NotFound(r, proposal)
    PROVE  GoesOn(Throw(r, why), cached)
  <1> DEFINE q == Throw(r, why)
  <1>1. /\ q.step = why /\ q.wants = r.wants /\ q.approvals = Absent
        /\ q.quiet = r.quiet /\ q.scanned = r.scanned
    BY DEF Throw, Idle
  <1> HIDE DEF q
  <1>2. NotFound(r, proposal) => NotFound(q, proposal)
    BY <1>1 DEF NotFound, Missed
  <1>3. QuietWell(q) /\ q.step \notin {"capabilities", "profile"}
    BY <1>1, <1>2 DEF QuietWell, Asking, Bounded
  <1> QED BY <1>3 DEF GoesOn, q

\* What a read that asks for rows of a table must know.
MayAsk(r, table) ==
    /\ DOMAIN r = Fields /\ table \in Tables /\ r.approvals = Absent
    /\ r.wants \in (IF table = "proposal" THEN {"proposal", "detail"} ELSE {"approvals", "detail"})
    /\ r.quiet /\ table # "proposal" /\ r.wants = "detail" => GotProposal(r)
    /\ r.quiet /\ table = "approvals" => NotFound(r, RowOf("approvals2"))

LEMMA AsksQuiet ==
    ASSUME NEW r, NEW q, NEW table, MayAsk(r, table), q.step \in {"profile", "query", "scan"},
           q.table = table, q.approvals = r.approvals, q.wants = r.wants, q.quiet = r.quiet,
           q.proposal = r.proposal, q.packed = r.packed, q.capabilities = r.capabilities,
           r.scanned => q.scanned, ~q.scanned => Bounded(q)
    PROVE  QuietWell(q)
  <1>1. GotProposal(r) => GotProposal(q)
    BY DEF GotProposal
  <1>2. NotFound(r, RowOf("approvals2")) => NotFound(q, RowOf("approvals2"))
    BY DEF NotFound, Missed
  <1> QED BY <1>1, <1>2 DEF QuietWell, MayAsk, Asking, Tables

LEMMA AskQuiet ==
    ASSUME NEW r, NEW table, MayAsk(r, table), NEW c, NEW cached
    PROVE  GoesOn(AskProfile(r, table, c), c) /\ GoesOn(Query(r, table, c), cached)
  <1>1. ASSUME NEW any PROVE GoesOn(Query(r, table, c), any)
    <2> DEFINE q == Query(r, table, c)
    <2>1. /\ q.table = table /\ q.approvals = r.approvals /\ q.wants = r.wants /\ q.quiet = r.quiet
          /\ q.proposal = r.proposal /\ q.packed = r.packed /\ q.capabilities = r.capabilities
          /\ q.step = IF c.profile = "unknown" THEN "scan" ELSE "query"
          /\ q.profile = c.profile /\ q.scanned = (r.scanned \/ ~Understood(c.profile))
      BY DEF MayAsk, Query, Fields
    <2> HIDE DEF q
    <2>2. /\ r.scanned => q.scanned
          /\ ~q.scanned => Understood(q.profile)
      BY <2>1
    <2>3. q.step = "scan" => q.scanned
      BY <2>1, <2>2 DEF Understood
    <2>4. QuietWell(q)
      BY <2>1, <2>2, <2>3, AsksQuiet DEF Bounded
    <2> QED BY <2>1, <2>4 DEF GoesOn, q
  <1>2. ASSUME c \in {Absent, Pending} PROVE GoesOn(AskProfile(r, table, c), c)
    <2> DEFINE q == [r EXCEPT !.table = table, !.step = "profile"]
    <2>1. /\ q.table = table /\ q.approvals = r.approvals /\ q.wants = r.wants /\ q.quiet = r.quiet
          /\ q.proposal = r.proposal /\ q.packed = r.packed /\ q.capabilities = r.capabilities
          /\ q.step = "profile" /\ q.scanned = r.scanned
      BY DEF MayAsk, Fields
    <2> HIDE DEF q
    <2>2. QuietWell(q)
      BY <2>1, AsksQuiet DEF Bounded
    <2>3. GoesOn(q, c)
      BY <1>2, <2>1, <2>2 DEF GoesOn
    <2> QED BY <1>2, <2>3 DEF AskProfile, q
  <1> QED BY <1>1, <1>2 DEF AskProfile

LEMMA FinishQuiet ==
    ASSUME NEW r, DOMAIN r = Fields, r.wants \in {"proposal", "detail", "approvals"}, NEW cached,
           r.quiet /\ r.wants \in {"proposal", "detail"} => GotProposal(r),
           r.quiet /\ r.wants \in {"approvals", "detail"} => GotApprovals(r)
    PROVE  GoesOn(Finish(r), cached)
  <1> DEFINE q == Finish(r)
  <1>1. /\ q.approvals = r.approvals /\ q.wants = r.wants /\ q.quiet = r.quiet
        /\ q.proposal = r.proposal /\ q.packed = r.packed /\ q.capabilities = r.capabilities
        /\ q.step = "done" /\ q.scanned = r.scanned
    BY DEF Finish, Fields
  <1> HIDE DEF q
  <1>2. (GotProposal(r) => GotProposal(q)) /\ (GotApprovals(r) => GotApprovals(q))
    BY <1>1 DEF GotProposal, GotApprovals, Missed
  <1>3. QuietWell(q)
    BY <1>1, <1>2 DEF QuietWell, Asking, Bounded
  <1> QED BY <1>1, <1>3 DEF GoesOn, q

LEMMA SelectQuiet ==
    ASSUME NEW r, DOMAIN r = Fields, r.step = "capabilities", QuietWell(r), NEW c, NEW cached
    PROVE  GoesOn(Select(r, c, cached), cached)
  <1> DEFINE known == [r EXCEPT !.capabilities = c]
             asked == [known EXCEPT !.step = "readonly"]
  <1>0. r.wants \in {"proposal", "detail"} /\ r.approvals = Absent
    BY DEF QuietWell
  <1>1. /\ DOMAIN known = Fields /\ known.wants = r.wants /\ known.approvals = r.approvals
        /\ known.quiet = r.quiet
    BY DEF Fields
  <1>2. GoesOn(asked, cached)
    <2> HIDE DEF known
    <2>1. asked.wants = r.wants /\ asked.approvals = r.approvals /\ asked.step = "readonly"
      BY <1>1 DEF Fields
    <2> HIDE DEF asked
    <2> QED BY <1>0, <2>1 DEF GoesOn, QuietWell, Asking, Bounded
  <1>3. GoesOn(AskProfile(known, "proposal", cached), cached)
    <2> HIDE DEF known
    <2>1. MayAsk(known, "proposal")
      BY <1>0, <1>1 DEF MayAsk, Tables
    <2> QED BY <2>1, AskQuiet
  <1>4. GoesOn(Throw(r, "unsupported"), cached)
    BY <1>0, ThrowQuiet
  <1>5. \/ Select(r, c, cached) = Throw(r, "unsupported")
        \/ Select(r, c, cached) = asked
        \/ Select(r, c, cached) = AskProfile(known, "proposal", cached)
    <2> DEFINE strategy == SelectReadStrategy(c)
    <2>1. Select(r, c, cached) =
              IF strategy = "FeatureError" THEN Throw(r, "unsupported")
              ELSE IF strategy = "readOnlyGetProposal" THEN asked
              ELSE AskProfile(known, "proposal", cached)
      BY DEF Select
    <2> HIDE DEF strategy, asked, known
    <2> QED BY <2>1
  <1> HIDE DEF asked, known
  <1> QED BY <1>2, <1>3, <1>4, <1>5

LEMMA HasProposalQuiet ==
    ASSUME NEW r, DOMAIN r = Fields, r.wants \in {"proposal", "detail"}, r.approvals = Absent,
           NEW row, NEW packed,
           r.quiet => /\ row = proposal /\ IsRow(proposal, height)
                      /\ packed \in {<<>>, Body(proposal.gen)}
                      /\ packed = <<>> => proposal.chunk_count > 0 /\ ~r.capabilities.supports.chunkedProposals
    PROVE  GoesOn(HasProposal(r, row, packed), capabilities)
  <1> DEFINE got == [r EXCEPT !.proposal = row, !.packed = packed]
  <1>1. /\ DOMAIN got = Fields /\ got.packed = packed /\ got.proposal = row /\ got.wants = r.wants
        /\ got.quiet = r.quiet /\ got.approvals = Absent /\ got.capabilities = r.capabilities
    BY DEF Fields
  <1>2. HasProposal(r, row, packed) = IF r.wants = "detail" THEN AskProfile(got, "approvals2", capabilities)
                                      ELSE Finish(got)
    BY DEF HasProposal
  <1> HIDE DEF got
  <1>3. got.quiet => GotProposal(got)
    BY <1>1 DEF GotProposal
  <1>4. CASE r.wants = "detail"
    <2>1. MayAsk(got, "approvals2")
      BY <1>1, <1>3, <1>4 DEF MayAsk, Tables
    <2> QED BY <1>2, <1>4, <2>1, AskQuiet
  <1>5. CASE r.wants = "proposal"
    <2>1. GoesOn(Finish(got), capabilities)
      BY <1>1, <1>3, <1>5, FinishQuiet
    <2> QED BY <1>2, <1>5, <2>1
  <1> QED BY <1>4, <1>5

LEMMA BodyIsNotEmpty ==
    ASSUME NEW g PROVE Body(g) # <<>> /\ Len(Body(g)) = Pieces
  <1>1. Body(g) \in Seq({<<g, i>> : i \in 1..Pieces}) /\ Len(Body(g)) = Pieces
    BY MsigNumbers DEF Body
  <1> QED BY <1>1, MsigNumbers

LEMMA FoundProposalQuiet ==
    ASSUME NEW r, DOMAIN r = Fields, r.wants \in {"proposal", "detail"}, r.approvals = Absent,
           ChainWell, IsRow(proposal, height)
    PROVE  GoesOn(FoundProposal(r, proposal), capabilities)
  <1> DEFINE chunks == [r EXCEPT !.proposal = proposal, !.step = "chunks"]
             supported == r.capabilities.supports.chunkedProposals /\ proposal.chunk_count > 0
             packed == PackedTransaction(proposal)
  <1>1. GoesOn(chunks, capabilities)
    <2>1. /\ chunks.wants = r.wants /\ chunks.approvals = Absent /\ chunks.proposal = proposal
          /\ chunks.step = "chunks"
      BY DEF Fields
    <2> HIDE DEF chunks
    <2> QED BY <2>1 DEF GoesOn, QuietWell, Asking, Bounded
  <1>2. proposal.chunk_count \in {0, Pieces} /\ Pieces \in Nat \ {0}
    BY RowFields, MsigNumbers DEF ChainWell
  <1>3. CASE ~supported
    <2>1. packed \in {<<>>, Body(proposal.gen)} /\ (packed = <<>> => proposal.chunk_count > 0)
      <3>1. CASE proposal.chunk_count = 0
        <4>1. packed = Body(proposal.gen)
          BY <3>1 DEF PackedTransaction
        <4> QED BY <1>2, <4>1, BodyIsNotEmpty
      <3>2. CASE proposal.chunk_count > 0
        <4>1. packed = <<>>
          BY <3>2, <1>2 DEF PackedTransaction
        <4> QED BY <3>2, <4>1
      <3> QED BY <1>2, <3>1, <3>2
    <2> HIDE DEF packed
    <2>2. GoesOn(HasProposal(r, proposal, packed), capabilities)
      BY <1>3, <2>1, HasProposalQuiet
    <2> QED BY <1>3, <2>2 DEF FoundProposal, packed
  <1>4. CASE supported
    BY <1>1, <1>4 DEF FoundProposal
  <1> QED BY <1>3, <1>4

\* A read that asks for rows has what it may.
LEMMA AskingMayAsk ==
    ASSUME NEW r, DOMAIN r = Fields, QuietWell(r), Asking(r), r.table \in Tables
    PROVE  MayAsk(r, r.table)
  <1>1. r.step # "done" /\ r.approvals = Absent
    BY DEF QuietWell, Asking
  <1> QED BY <1>1 DEF QuietWell, MayAsk, Tables

LEMMA FoundRowQuiet ==
    ASSUME NEW r, DOMAIN r = Fields, MayAsk(r, r.table), ChainWell, RowOf(r.table) # Absent
    PROVE  GoesOn(FoundRow(r, RowOf(r.table)), capabilities)
  <1>1. CASE r.table = "proposal"
    <2>1. RowOf(r.table) = proposal /\ IsRow(proposal, height)
      BY <1>1 DEF RowOf, ChainWell
    <2>2. r.wants \in {"proposal", "detail"} /\ r.approvals = Absent
      BY <1>1 DEF MayAsk
    <2>3. GoesOn(FoundProposal(r, proposal), capabilities)
      BY <2>1, <2>2, FoundProposalQuiet
    <2> QED BY <1>1, <2>1, <2>3 DEF FoundRow
  <1>2. CASE r.table # "proposal"
    <2> DEFINE got == [r EXCEPT !.approvals = RowOf(r.table)]
    <2>1. RowOf(r.table) = approvals
      BY <1>2 DEF RowOf
    <2>2. /\ DOMAIN got = Fields /\ got.wants = r.wants /\ got.quiet = r.quiet /\ got.approvals = approvals
          /\ got.proposal = r.proposal /\ got.packed = r.packed /\ got.capabilities = r.capabilities
      BY <2>1 DEF Fields
    <2>3. FoundRow(r, RowOf(r.table)) = Finish(got)
      BY <1>2 DEF FoundRow
    <2> HIDE DEF got
    <2>4. got.wants \in {"approvals", "detail"} /\ (r.quiet /\ r.wants = "detail" => GotProposal(r))
      BY <1>2, <2>2 DEF MayAsk
    <2>5. GotProposal(r) => GotProposal(got)
      BY <2>2 DEF GotProposal
    <2>6. GoesOn(Finish(got), capabilities)
      BY <2>2, <2>4, <2>5, FinishQuiet DEF GotApprovals
    <2> QED BY <2>3, <2>6
  <1> QED BY <1>1, <1>2

LEMMA NoRowQuiet ==
    ASSUME NEW r, DOMAIN r = Fields, MayAsk(r, r.table), ChainRight,
           r.quiet => NotFound(r, RowOf(r.table))
    PROVE  GoesOn(NoRow(r), capabilities)
  <1>0. r.wants \in {"proposal", "detail", "approvals"} /\ r.table \in Tables
    BY DEF MayAsk
  <1>1. CASE r.table = "proposal"
    <2>1. r.quiet => NotFound(r, proposal)
      BY <1>1 DEF RowOf
    <2>2. GoesOn(Throw(r, "missing"), capabilities)
      BY <1>0, <2>1, ThrowQuiet
    <2> QED BY <1>1, <2>2 DEF NoRow
  <1>2. CASE r.table = "approvals2"
    <2>1. MayAsk(r, "approvals")
      BY <1>2 DEF MayAsk, Tables
    <2>2. NoRow(r) = AskProfile(r, "approvals", capabilities)
      BY <1>2 DEF NoRow
    <2> QED BY <2>1, <2>2, AskQuiet
  <1>3. CASE r.table = "approvals"
    <2>1. NoRow(r) = Finish(r)
      BY <1>3 DEF NoRow
    <2>2. r.quiet => approvals = Absent \/ Missed(r)
      <3>1. r.quiet => \/ RowOf("approvals2") = Absent /\ RowOf("approvals") = Absent
                       \/ Missed(r)
        BY <1>3 DEF MayAsk, NotFound
      <3>2. approvals # Absent => approvals.table \in {"approvals2", "approvals"}
        BY DEF ChainRight, IsApprovals
      <3> QED BY <3>1, <3>2 DEF RowOf
    <2>3. r.approvals = Absent /\ (r.quiet /\ r.wants = "detail" => GotProposal(r))
          /\ r.wants \in {"approvals", "detail"}
      BY <1>3 DEF MayAsk
    <2> QED BY <1>0, <2>1, <2>2, <2>3, FinishQuiet DEF GotApprovals
  <1> QED BY <1>0, <1>1, <1>2, <1>3 DEF Tables

---------------------------------------------------------------------------
(* Every step.                                                             *)

\* A request leaves the chain as it is.
LEMMA ChainKept ==
    ASSUME UNCHANGED ledger, ChainRight
    PROVE  ChainRight' /\ \A q : QuietWell(q) => QuietWell(q)'
  <1>1. /\ contract' = contract /\ proposal' = proposal /\ approvals' = approvals
        /\ others' = others /\ height' = height
    BY DEF ledger
  <1>2. ChainRight'
    BY <1>1 DEF ChainRight
  <1>3. ASSUME NEW q PROVE GotProposal(q) => GotProposal(q)'
    BY <1>1 DEF GotProposal
  <1>4. ASSUME NEW table PROVE RowOf(table) = RowOf(table)'
    BY <1>1 DEF RowOf
  <1>5. ASSUME NEW q, QuietWell(q) PROVE QuietWell(q)'
    <2>1. GotProposal(q) => GotProposal(q)'
      BY <1>3
    <2>2. Missed(q) => Missed(q)'
      BY <1>1 DEF Missed
    <2>3. /\ NotFound(q, proposal) => NotFound(q, proposal)'
          /\ NotFound(q, RowOf("approvals2")) => NotFound(q, RowOf("approvals2"))'
          /\ GotApprovals(q) => GotApprovals(q)'
      BY <1>1, <1>4, <2>2 DEF NotFound, GotApprovals
    <2>4. Bounded(q) => Bounded(q)'
      BY <1>1, <1>4 DEF Bounded, Understood, KeyValueTables
    <2> QED BY <1>1, <1>5, <2>1, <2>3, <2>4 DEF QuietWell, Asking
  <1> QED BY <1>2, <1>5

\* One read goes on, that did not wait for the capabilities.
LEMMA ContinueQuiet ==
    ASSUME QuietInv, BytesInv', NEW r \in Reads, NEW next, r \notin Waiting, QuietWell(next),
           next.step \in {"capabilities", "profile"} => capabilities \in {Absent, Pending},
           Continue(r, next)
    PROVE  QuietInv'
  <1>1. /\ reads' = [reads EXCEPT ![r] = next] /\ UNCHANGED ledger /\ DOMAIN reads = Reads
        /\ capabilities' = Detecting(next.step \in {"capabilities", "profile"})
    BY DEF Continue, QuietInv, BytesInv, ReadsWell
  <1>2. \A s \in Reads : reads'[s] = IF s = r THEN next ELSE reads[s]
    BY <1>1
  <1>3. ChainRight' /\ ReadsQuiet'
    <2>1. ChainRight' /\ \A q : QuietWell(q) => QuietWell(q)'
      BY <1>1, ChainKept DEF QuietInv
    <2>2. \A s \in Reads : QuietWell(reads'[s])
      BY <1>2 DEF QuietInv, ReadsQuiet
    <2> QED BY <2>1, <2>2 DEF ReadsQuiet
  <1>4. UnknownIsRetried'
    <2>0. /\ capabilities = Pending => Waiting # {}
          /\ capabilities \notin {Absent, Pending} => capabilities.profile # "unknown"
          /\ Waiting # {} => capabilities = Pending
      BY DEF QuietInv, UnknownIsRetried
    <2>1. CASE next.step \in {"capabilities", "profile"}
      <3>1. capabilities' = Pending
        BY <1>1, <2>1 DEF Detecting
      <3>2. r \in Waiting'
        BY <1>2, <2>1 DEF Waiting
      <3> QED BY <3>1, <3>2 DEF UnknownIsRetried
    <2>2. CASE next.step \notin {"capabilities", "profile"}
      <3>1. capabilities' = capabilities
        BY <1>1, <2>2 DEF Detecting
      <3>2. Waiting' = Waiting
        BY <1>2, <2>2 DEF Waiting
      <3> QED BY <2>0, <3>1, <3>2 DEF UnknownIsRetried
    <2> QED BY <2>1, <2>2
  <1> QED BY <1>3, <1>4 DEF QuietInv

LEMMA StartQuiet ==
    ASSUME QuietInv, BytesInv', NEW r \in Reads,
           (\E wants \in {"proposal", "detail"} : StartRead(r, wants)) \/ StartApprovals(r)
    PROVE  QuietInv'
  <1>0. r \notin Waiting
    BY DEF Waiting, StartRead, StartApprovals
  <1>1. ASSUME NEW wants \in {"proposal", "detail"}, StartRead(r, wants)
        PROVE  QuietInv'
    <2> DEFINE asking == [Idle EXCEPT !.step = "capabilities", !.wants = wants]
               next == IF capabilities \in {Absent, Pending} THEN asking
                       ELSE Select(asking, capabilities, capabilities)
    <2>1. /\ DOMAIN asking = Fields /\ asking.step = "capabilities" /\ asking.wants = wants
          /\ asking.approvals = Absent
      BY DEF Idle, Fields
    <2>2. Continue(r, next)
      BY <1>1 DEF StartRead
    <2> HIDE DEF asking
    <2>3. QuietWell(asking)
      BY <2>1 DEF QuietWell, Asking, Bounded
    <2>4. GoesOn(Select(asking, capabilities, capabilities), capabilities)
      BY <2>1, <2>3, SelectQuiet
    <2>5. QuietWell(next) /\ (next.step \in {"capabilities", "profile"} => capabilities \in {Absent, Pending})
      BY <2>3, <2>4 DEF GoesOn
    <2> HIDE DEF next
    <2> QED BY <1>0, <2>2, <2>5, ContinueQuiet
  <1>2. ASSUME StartApprovals(r)
        PROVE  QuietInv'
    <2> DEFINE asking == [Idle EXCEPT !.wants = "approvals"]
               next == AskProfile(asking, "approvals2", capabilities)
    <2>1. DOMAIN asking = Fields /\ asking.wants = "approvals" /\ asking.approvals = Absent
      BY DEF Idle, Fields
    <2>2. Continue(r, next)
      BY <1>2 DEF StartApprovals
    <2> HIDE DEF asking
    <2>3. MayAsk(asking, "approvals2")
      BY <2>1 DEF MayAsk, Tables
    <2>4. GoesOn(next, capabilities)
      BY <2>3, AskQuiet
    <2> HIDE DEF next
    <2> QED BY <1>0, <2>2, <2>4, ContinueQuiet DEF GoesOn
  <1> QED BY <1>1, <1>2

LEMMA DetectQuiet ==
    ASSUME QuietInv, BytesInv', Detect
    PROVE  QuietInv'
  <1>1. PICK read \in {contract, Absent} :
            LET c == CapabilitiesFromAbi(read)
                kept == IF c.profile = "unknown" THEN Absent ELSE c
            IN  /\ reads' = [r \in Reads |-> IF r \in Waiting THEN Resume(reads[r], c, kept) ELSE reads[r]]
                /\ capabilities' = IF \E r \in Waiting : reads'[r].step = "profile" THEN Pending ELSE kept
    BY DEF Detect
  <1> DEFINE c == CapabilitiesFromAbi(read)
             kept == IF c.profile = "unknown" THEN Absent ELSE c
  <1>2. kept # Pending /\ (kept \notin {Absent, Pending} => kept.profile # "unknown")
    <2>1. contract \in Contracts
      BY DEF QuietInv, ChainRight
    <2>2. c # Pending /\ Absent # Pending
      BY <2>1, CapabilitiesAssumption, MsigAssumption
    <2> HIDE DEF c
    <2> QED BY <2>2
  <1> HIDE DEF c, kept
  <1>3. /\ reads' = [r \in Reads |-> IF r \in Waiting THEN Resume(reads[r], c, kept) ELSE reads[r]]
        /\ capabilities' = IF \E r \in Waiting : reads'[r].step = "profile" THEN Pending ELSE kept
    BY <1>1 DEF c, kept
  <1>4. UNCHANGED ledger
    BY DEF Detect
  <1>5. \A r \in Reads : QuietWell(reads[r]) /\ ReadWell(reads[r], height)
    BY DEF QuietInv, ReadsQuiet, BytesInv, ReadsWell
  <1>6. Waiting \subseteq Reads /\ \A r \in Reads : r \in Waiting <=> reads[r].step \in {"capabilities", "profile"}
    BY DEF Waiting
  <1>7. ASSUME NEW r \in Waiting
        PROVE  GoesOn(Resume(reads[r], c, kept), kept)
    <2>1. DOMAIN reads[r] = Fields /\ reads[r].step \in {"capabilities", "profile"} /\ QuietWell(reads[r])
      BY <1>5, <1>6 DEF ReadWell, GotWell
    <2>2. CASE reads[r].step = "capabilities"
      BY <2>1, <2>2, SelectQuiet DEF Resume
    <2>3. CASE reads[r].step = "profile"
      <3>1. Asking(reads[r]) /\ reads[r].table \in Tables
        BY <1>5, <1>6, <2>3 DEF Asking, ReadWell
      <3>2. MayAsk(reads[r], reads[r].table)
        BY <2>1, <3>1, AskingMayAsk
      <3>3. Resume(reads[r], c, kept) = Query(reads[r], reads[r].table, c)
        BY <2>3 DEF Resume
      <3> QED BY <3>2, <3>3, AskQuiet
    <2> QED BY <2>1, <2>2, <2>3
  <1>8. ChainRight' /\ ReadsQuiet'
    <2>1. ChainRight' /\ \A q : QuietWell(q) => QuietWell(q)'
      BY <1>4, ChainKept DEF QuietInv
    <2>2. \A r \in Reads : QuietWell(reads'[r])
      BY <1>3, <1>5, <1>7 DEF GoesOn
    <2> QED BY <2>1, <2>2 DEF ReadsQuiet
  <1>9. \A r \in Reads : reads'[r].step \in {"capabilities", "profile"} =>
            r \in Waiting /\ reads'[r].step = "profile"
    BY <1>3, <1>6, <1>7 DEF GoesOn
  <1>10. Waiting' = {r \in Waiting : reads'[r].step = "profile"}
    BY <1>6, <1>9 DEF Waiting
  <1>11. UnknownIsRetried'
    <2>1. CASE \E r \in Waiting : reads'[r].step = "profile"
      BY <1>3, <1>10, <2>1 DEF UnknownIsRetried
    <2>2. CASE ~\E r \in Waiting : reads'[r].step = "profile"
      BY <1>2, <1>3, <1>10, <2>2 DEF UnknownIsRetried
    <2> QED BY <2>1, <2>2
  <1> QED BY <1>8, <1>11 DEF QuietInv

LEMMA AnswerQuiet ==
    ASSUME QuietInv, BytesInv', NEW r \in Reads, Answer(r)
    PROVE  QuietInv'
  <1> DEFINE old == reads[r]
  <1>1. /\ ChainWell /\ ChainRight /\ QuietWell(old) /\ ReadWell(old, height) /\ DOMAIN old = Fields
        /\ height \in Nat
    BY DEF QuietInv, ReadsQuiet, BytesInv, ReadsWell, ReadWell, GotWell, ChainWell
  <1>2. /\ old.step \in {"readonly", "query", "scan", "chunks"} /\ r \notin Waiting
        /\ old.wants \in {"proposal", "detail", "approvals"}
    BY <1>1 DEF Answer, RunGetProposal, FallBackToTables, QueryRow, ScanRows, AssembleChunks, FailRequest,
                Waiting, QuietWell
  <1>3. ASSUME NEW next, GoesOn(next, capabilities), Continue(r, next)
        PROVE  QuietInv'
    BY <1>2, <1>3, ContinueQuiet DEF GoesOn
  <1>4. old.step \in {"query", "scan"} => MayAsk(old, old.table)
    BY <1>1, AskingMayAsk DEF ReadWell, Asking
  <1>5. old.step \in {"readonly", "chunks"} => old.wants \in {"proposal", "detail"} /\ old.approvals = Absent
    BY <1>1 DEF QuietWell
  <1>6. CASE RunGetProposal(r)
    <2>1. /\ old.step = "readonly" /\ proposal # Absent
          /\ Continue(r, HasProposal(old, proposal, ReadOnlyReturn(proposal)))
      BY <1>6 DEF RunGetProposal
    <2>2. IsRow(proposal, height)
      BY <1>1, <2>1 DEF ChainWell
    <2>3. ReadOnlyReturn(proposal) = Body(proposal.gen) /\ ReadOnlyReturn(proposal) # <<>>
      BY BodyIsNotEmpty DEF ReadOnlyReturn
    <2> HIDE DEF old
    <2>4. GoesOn(HasProposal(old, proposal, ReadOnlyReturn(proposal)), capabilities)
      BY <1>1, <1>5, <2>1, <2>2, <2>3, HasProposalQuiet
    <2> QED BY <1>3, <2>1, <2>4
  <1>7. CASE FallBackToTables(r)
    <2>1. old.step = "readonly" /\ Continue(r, AskProfile(old, "proposal", capabilities))
      BY <1>7 DEF FallBackToTables
    <2>2. MayAsk(old, "proposal")
      BY <1>1, <1>5, <2>1 DEF MayAsk, Tables
    <2> HIDE DEF old
    <2>3. GoesOn(AskProfile(old, "proposal", capabilities), capabilities)
      BY <2>2, AskQuiet
    <2> QED BY <1>3, <2>1, <2>3
  <1>8. CASE QueryRow(r)
    <2> DEFINE scan == [old EXCEPT !.step = "scan"]
    <2>1. old.step = "query" /\ MayAsk(old, old.table)
      BY <1>4, <1>8 DEF QueryRow
    <2>2. \/ RowOf(old.table) # Absent /\ Continue(r, FoundRow(old, RowOf(old.table)))
          \/ (Understood(old.profile) => RowOf(old.table) = Absent) /\ Continue(r, scan)
      BY <1>8 DEF QueryRow
    <2>3. ASSUME Understood(old.profile) => RowOf(old.table) = Absent
          PROVE  GoesOn(scan, capabilities)
      <3>1. /\ scan.table = old.table /\ scan.approvals = old.approvals /\ scan.wants = old.wants
            /\ scan.quiet = old.quiet /\ scan.proposal = old.proposal /\ scan.packed = old.packed
            /\ scan.capabilities = old.capabilities /\ scan.step = "scan" /\ scan.scanned = old.scanned
        BY <1>1 DEF Fields
      <3> HIDE DEF scan, old
      <3>0. ~scan.scanned => Bounded(scan)
        BY <1>1, <2>1, <2>3, <3>1 DEF QuietWell, Bounded
      <3>2. QuietWell(scan)
        BY <2>1, <3>0, <3>1, AsksQuiet
      <3> QED BY <3>1, <3>2 DEF GoesOn
    <2>4. RowOf(old.table) # Absent => GoesOn(FoundRow(old, RowOf(old.table)), capabilities)
      BY <1>1, <2>1, FoundRowQuiet
    <2> HIDE DEF scan, old
    <2> QED BY <1>3, <2>2, <2>3, <2>4
  <1>9. CASE ScanRows(r)
    <2> DEFINE row == ScannedRow(old.table)
               next == IF row = Absent THEN NoRow(old) ELSE FoundRow(old, row)
    <2>1. old.step = "scan" /\ Continue(r, next)
      BY <1>9 DEF ScanRows
    <2>2. MayAsk(old, old.table)
      BY <1>4, <2>1
    <2>3. CASE row # Absent
      <3>1. row = RowOf(old.table)
        BY <2>3 DEF ScannedRow
      <3>2. GoesOn(FoundRow(old, RowOf(old.table)), capabilities)
        BY <1>1, <2>2, <2>3, <3>1, FoundRowQuiet
      <3> HIDE DEF row, old
      <3>3. GoesOn(next, capabilities)
        BY <2>3, <3>1, <3>2
      <3> HIDE DEF next
      <3> QED BY <1>3, <2>1, <3>3
    <2>4. CASE row = Absent
      <3>1. old.quiet => NotFound(old, RowOf(old.table))
        <4>1. others < ScanLimit \/ others >= ScanLimit
          BY <1>1, MsigNumbers DEF ChainWell
        <4>2. others < ScanLimit => RowOf(old.table) = Absent
          BY <2>4 DEF ScannedRow
        <4>3. old.quiet /\ ~old.scanned => RowOf(old.table) = Absent
          BY <1>1, <2>1 DEF QuietWell, Bounded
        <4> QED BY <4>1, <4>2, <4>3 DEF NotFound, Missed
      <3>2. GoesOn(NoRow(old), capabilities)
        BY <1>1, <2>2, <3>1, NoRowQuiet
      <3> HIDE DEF row, old
      <3>3. GoesOn(next, capabilities)
        BY <2>4, <3>2
      <3> HIDE DEF next
      <3> QED BY <1>3, <2>1, <3>3
    <2> QED BY <2>3, <2>4
  <1>10. CASE AssembleChunks(r)
    <2> DEFINE row == old.proposal
               n == IF row.chunk_count > ScanLimit THEN row.chunk_count ELSE ScanLimit
               packed == Assemble(row, FirstChunkRows(n))
    <2>1. /\ Continue(r, IF packed = Absent THEN Throw(old, "chunkCount") ELSE HasProposal(old, row, packed))
          /\ old.step = "chunks"
      BY <1>10 DEF AssembleChunks
    <2>2. IsRow(row, height) /\ row.chunk_count > 0
      BY <1>1, <2>1 DEF ReadWell
    <2>3. n \in Nat
      BY <1>1, <2>2, RowFields, MsigNumbers
    <2>4. old.quiet => row = proposal
      BY <1>1, <2>1 DEF QuietWell
    <2> HIDE DEF n
    <2>5. packed # Absent /\ old.quiet => packed = Body(proposal.gen)
      BY <1>1, <2>2, <2>3, ChunksAreWhole
    <2> HIDE DEF packed, row, old
    <2>6. packed # Absent => GoesOn(HasProposal(old, row, packed), capabilities)
      BY <1>1, <1>5, <2>1, <2>2, <2>4, <2>5, BodyIsNotEmpty, HasProposalQuiet
    <2>7. GoesOn(Throw(old, "chunkCount"), capabilities)
      BY <1>2, ThrowQuiet
    <2> QED BY <1>3, <2>1, <2>6, <2>7
  <1>11. CASE FailRequest(r)
    <2>1. Continue(r, Throw(old, "failed"))
      BY <1>11 DEF FailRequest
    <2> HIDE DEF old
    <2>2. GoesOn(Throw(old, "failed"), capabilities)
      BY <1>2, ThrowQuiet
    <2> QED BY <1>3, <2>1, <2>2
  <1> QED BY <1>6, <1>7, <1>8, <1>9, <1>10, <1>11 DEF Answer

\* What others do disturbs every read there is.
LEMMA ChainStepQuiet ==
    ASSUME QuietInv, BytesInv', ChainStep
    PROVE  QuietInv'
  <1>1. Change /\ height \in Nat
    BY DEF ChainStep, Propose, Approve, RemoveProposal, Upgrade, QuietInv, BytesInv, ChainWell
  <1>2. /\ reads' = [r \in Reads |-> [reads[r] EXCEPT !.quiet = reads[r].step = "idle"]]
        /\ capabilities' = capabilities /\ height' = height + 1
    BY <1>1 DEF Change
  <1>3. ASSUME NEW r \in Reads
        PROVE  QuietWell(reads[r]) /\ DOMAIN reads[r] = Fields
    BY DEF QuietInv, ReadsQuiet, BytesInv, ReadsWell, ReadWell, GotWell
  <1>4. ReadsQuiet'
    <2>1. ASSUME NEW r \in Reads
          PROVE  /\ reads'[r].wants = reads[r].wants /\ reads'[r].step = reads[r].step
                 /\ reads'[r].approvals = reads[r].approvals /\ reads'[r].table = reads[r].table
                 /\ reads'[r].quiet => reads'[r].step = "idle"
      BY <1>2, <1>3 DEF Fields
    <2>2. ASSUME NEW r \in Reads
          PROVE  /\ reads[r].wants \in {"proposal", "detail", "approvals"}
                 /\ reads[r].step # "done" => reads[r].approvals = Absent
                 /\ reads[r].step \in {"capabilities", "readonly", "chunks"}
                    \/ (Asking(reads[r]) /\ reads[r].table = "proposal") => reads[r].wants \in {"proposal", "detail"}
                 /\ Asking(reads[r]) /\ reads[r].table # "proposal" => reads[r].wants \in {"approvals", "detail"}
      BY <1>3 DEF QuietWell
    <2> QED BY <2>1, <2>2 DEF ReadsQuiet, QuietWell, Asking, Bounded
  <1>5. UnknownIsRetried'
    <2>1. Waiting' = Waiting
      BY <1>2, <1>3 DEF Waiting, Fields
    <2> QED BY <1>2, <2>1 DEF QuietInv, UnknownIsRetried
  <1>6. contract' \in Contracts
    BY DEF ChainStep, Propose, Approve, RemoveProposal, Upgrade, QuietInv, ChainRight
  <1>7. approvals' = Absent \/ IsApprovals(approvals', height')
    <2>1. CASE Propose
      <3>1. PICK table \in {"approvals2", "approvals"} :
                approvals' = [gen |-> height', table |-> table, requested |-> Levels, provided |-> {}]
        BY <2>1 DEF Propose
      <3>2. height' \in 1..height' /\ Levels \in SUBSET Levels /\ {} = Levels \ Levels
        BY <1>1, <1>2
      <3> QED BY <3>1, <3>2 DEF IsApprovals
    <2>2. ASSUME NEW level \in Levels, Approve(level) PROVE IsApprovals(approvals', height')
      <3>1. IsApprovals(approvals, height)
        BY <2>2 DEF Approve, QuietInv, ChainRight
      <3>2. PICK gen \in 1..height, table \in {"approvals2", "approvals"}, requested \in SUBSET Levels :
                approvals = [gen |-> gen, table |-> table, requested |-> requested,
                             provided |-> Levels \ requested]
        BY <3>1 DEF IsApprovals
      <3>3. approvals' = [gen |-> gen, table |-> table, requested |-> requested \ {level},
                          provided |-> (Levels \ requested) \cup {level}]
        BY <2>2, <3>2 DEF Approve
      <3>4. /\ (Levels \ requested) \cup {level} = Levels \ (requested \ {level})
            /\ requested \ {level} \in SUBSET Levels /\ gen \in 1..height'
        BY <1>1, <1>2
      <3> QED BY <3>3, <3>4 DEF IsApprovals
    <2>3. CASE RemoveProposal
      BY <2>3 DEF RemoveProposal
    <2>4. CASE UNCHANGED approvals
      <3>1. 1..height \subseteq 1..height'
        BY <1>1, <1>2
      <3>2. \A row : IsApprovals(row, height) => IsApprovals(row, height')
        BY <3>1 DEF IsApprovals
      <3> QED BY <2>4, <3>2 DEF QuietInv, ChainRight
    <2> QED BY <2>1, <2>2, <2>3, <2>4 DEF ChainStep, Upgrade
  <1> QED BY <1>4, <1>5, <1>6, <1>7 DEF QuietInv, ChainRight

LEMMA QuietInit == MsigInit => QuietInv
  <1> SUFFICES ASSUME MsigInit PROVE QuietInv
    OBVIOUS
  <1>1. QuietWell(Idle)
    <2>1. Idle.step = "idle" /\ Idle.wants = "proposal" /\ Idle.approvals = Absent
      BY DEF Idle
    <2> QED BY <2>1 DEF QuietWell, Asking, Bounded
  <1>2. Waiting = {} /\ capabilities = Absent /\ Absent # Pending
    BY MsigAssumption DEF MsigInit, Waiting, Idle
  <1> QED BY <1>1, <1>2, BytesInit DEF MsigInit, QuietInv, ReadsQuiet, ChainRight, UnknownIsRetried

LEMMA QuietNext == QuietInv /\ [MsigNext]_msigVars => QuietInv'
  <1>1. QuietInv /\ UNCHANGED msigVars => QuietInv'
    <2> SUFFICES ASSUME QuietInv, UNCHANGED msigVars PROVE QuietInv'
      OBVIOUS
    <2>1. BytesInv'
      BY BytesNext DEF QuietInv
    <2>2. ChainRight' /\ \A q : QuietWell(q) => QuietWell(q)'
      BY ChainKept DEF msigVars, QuietInv
    <2>3. reads' = reads /\ capabilities' = capabilities /\ Waiting' = Waiting
      BY DEF msigVars, Waiting
    <2> QED BY <2>1, <2>2, <2>3 DEF QuietInv, ReadsQuiet, UnknownIsRetried
  <1>2. ASSUME QuietInv, MsigNext PROVE QuietInv'
    <2>1. BytesInv'
      BY <1>2, BytesNext DEF QuietInv
    <2> QED BY <1>2, <2>1, StartQuiet, DetectQuiet, AnswerQuiet, ChainStepQuiet DEF MsigNext
  <1> QED BY <1>1, <1>2

(***************************************************************************)
(* MsigClient.getProposal, getProposalDetail, getApprovals: a read during  *)
(* which nothing changes returns the row, the bytes, the approvals and the *)
(* status that the chain has, whichever way it went, unless it had to scan *)
(* without a bound and there were more rows than the scan reads; and an    *)
(* unknown profile is never kept by getCapabilities.                       *)
(***************************************************************************)
THEOREM QuietReadsAreAlwaysTheChain == MsigSpec => []QuietReadsAreTheChain
  <1>1. QuietInv => QuietReadsAreTheChain
    <2> SUFFICES ASSUME QuietInv, NEW r \in Reads, reads[r].quiet
                 PROVE  /\ Done(r) /\ reads[r].wants \in {"proposal", "detail"} =>
                               /\ reads[r].proposal = proposal
                               /\ reads[r].packed \in {<<>>, Body(proposal.gen)}
                               /\ reads[r].packed = <<>> =>
                                      proposal.chunk_count > 0 /\ ~reads[r].capabilities.supports.chunkedProposals
                               /\ HashStatus(reads[r]) # "mismatch"
                        /\ Done(r) /\ reads[r].wants \in {"approvals", "detail"} =>
                               /\ \/ reads[r].approvals = approvals
                                  \/ reads[r].approvals = Absent /\ Missed(reads[r])
                               /\ FullyApproved(reads[r]) <=>
                                      reads[r].approvals # Absent /\ approvals.requested = {}
                        /\ reads[r].step = "missing" => proposal = Absent \/ Missed(reads[r])
      BY DEF QuietInv, QuietReadsAreTheChain, QuietDetailIsTheChain
    <2>1. /\ Done(r) /\ reads[r].wants \in {"proposal", "detail"} => GotProposal(reads[r])
          /\ Done(r) /\ reads[r].wants \in {"approvals", "detail"} => GotApprovals(reads[r])
          /\ height \in Nat
      BY DEF QuietInv, ReadsQuiet, QuietWell, Done, BytesInv, ChainWell
    <2>2. ASSUME Done(r), reads[r].wants \in {"proposal", "detail"}
          PROVE  HashStatus(reads[r]) # "mismatch"
      <3>1. GotProposal(reads[r])
        BY <2>1, <2>2
      <3>2. reads[r].proposal.trx_hash # Absent => reads[r].proposal.trx_hash = Body(proposal.gen)
        BY <2>1, <3>1, RowFields DEF GotProposal
      <3> QED BY <3>1, <3>2 DEF GotProposal, HashStatus
    <2>3. ASSUME GotApprovals(reads[r])
          PROVE  FullyApproved(reads[r]) <=> reads[r].approvals # Absent /\ approvals.requested = {}
      <3>1. CASE reads[r].approvals = Absent
        BY <3>1 DEF FullyApproved, ApprovalLists
      <3>2. CASE reads[r].approvals # Absent
        <4>0. reads[r].approvals = approvals
          BY <2>3, <3>2 DEF GotApprovals
        <4>1. IsApprovals(approvals, height)
          BY <3>2, <4>0 DEF QuietInv, ChainRight
        <4>2. approvals.provided = Levels \ approvals.requested /\ approvals.requested \in SUBSET Levels
          BY <4>1 DEF IsApprovals
        <4>3. /\ ApprovalLists(reads[r]).requested = approvals.requested
              /\ ApprovalLists(reads[r]).provided = approvals.provided
          BY <3>2, <4>0 DEF ApprovalLists
        <4>4. Levels # {}
          BY MsigAssumption
        <4> QED BY <3>2, <4>2, <4>3, <4>4 DEF FullyApproved, Outstanding
      <3> QED BY <3>1, <3>2
    <2>4. reads[r].step = "missing" => proposal = Absent \/ Missed(reads[r])
      BY DEF QuietInv, ReadsQuiet, QuietWell, NotFound
    <2> QED BY <2>1, <2>2, <2>3, <2>4 DEF GotProposal, GotApprovals
  <1> QED BY QuietInit, QuietNext, <1>1, PTL DEF MsigSpec
=============================================================================
