---------------------------- MODULE ClientProofs ----------------------------
(***************************************************************************)
(* What goes over the network, for every number of calls, of accounts, of  *)
(* transactions and of suites, every limit and every body: answers are     *)
(* bounded and whole and lookups share requests; a client's answers are    *)
(* true; a wallet's operations on an outpost are decided on what the chain *)
(* has, and its suite is the one that is live.                             *)
(***************************************************************************)
EXTENDS AbiCache, ApiClient, OutpostWallet, OutpostVerification, SequenceTheorems, TLAPS

---------------------------------------------------------------------------
(* The inductive invariant.                                                *)

\* Nothing has been read before the response came, ...
NotReadYet == \A c \in Calls : operation[c] \in {"idle", "fetching"} => length[c] = 0

\* ... a body read at once has its room, ...
RoomForBuffer == \A c \in Calls : operation[c] = "buffering" => capacity[c] = body[c]

\* ... only the timeout aborts, and what was not started has no outcome.
AbortedByTimeout ==
    \A c \in Calls :
        /\ aborted[c] => outcome[c] = "timeout"
        /\ operation[c] = "idle" => outcome[c] = "none" /\ ~timer[c]
        /\ outcome[c] = "text" => operation[c] = "settled"

FetchInv == NotReadYet /\ RoomForBuffer /\ AbortedByTimeout /\ BodyBounded /\ TextIsBody

\* A lookup waits for the request its account has pending.
WaitsForPending ==
    \A l \in Lookups : awaits[l] # None =>
        account[l] # None /\ awaits[l] = pending[account[l]]

\* Two accounts never have the same request, for it was started for one.
PendingOfOne ==
    /\ \A k \in Accounts : pending[k] # None => operation[pending[k]] # "idle"
    /\ \A j, k \in Accounts : pending[j] # None /\ pending[j] = pending[k] => j = k

CacheInv == WaitsForPending /\ PendingOfOne

IInv == TypeOK /\ FetchInv /\ CacheInv

LEMMA InitIInv == Init => IInv
  BY FetchAssumption, AbiAssumption
  DEF Init, FetchInit, IInv, TypeOK, FetchTypeOK, FetchInv, NotReadYet, RoomForBuffer,
      AbortedByTimeout, BodyBounded, TextIsBody, CacheInv, WaitsForPending, PendingOfOne,
      Stages, Outcomes, Abi

---------------------------------------------------------------------------
(* Calls.                                                                  *)

LEMMA StartCallKeepsFetch ==
    ASSUME FetchTypeOK, FetchInv, NEW c \in Calls, StartCall(c)
    PROVE  FetchTypeOK' /\ FetchInv'
  <1> USE DEF StartCall, FetchTypeOK, Stages, Outcomes
  <1>1. FetchTypeOK'
    OBVIOUS
  <1>2. NotReadYet' /\ RoomForBuffer'
    BY DEF FetchInv, NotReadYet, RoomForBuffer
  <1>3. AbortedByTimeout'
    BY DEF FetchInv, AbortedByTimeout
  <1>4. BodyBounded' /\ TextIsBody'
    BY DEF FetchInv, BodyBounded, TextIsBody, AbortedByTimeout
  <1> QED BY <1>1, <1>2, <1>3, <1>4 DEF FetchInv

LEMMA RoomIsEnough ==
    ASSUME FetchTypeOK, BodyBounded, NEW c \in Calls, NEW bytes \in Nat, bytes <= MaxBytes
    PROVE  /\ RoomFor(c, bytes) \in Nat
           /\ bytes <= RoomFor(c, bytes)
           /\ RoomFor(c, bytes) <= MaxBytes
  BY FetchAssumption DEF FetchTypeOK, BodyBounded, RoomFor, Lesser, Greater

LEMMA ServerKeepsFetchType ==
    ASSUME FetchTypeOK, FetchInv, NEW c \in Calls, ServerStep(c)
    PROVE  FetchTypeOK'
  <1> USE FetchAssumption DEF FetchTypeOK, Stages, Outcomes, SettleOperation
  <1>1. CASE \E declared \in Declarations : RespondWithStream(c, declared)
    <2>1. PICK declared \in Declarations : RespondWithStream(c, declared)
      BY <1>1
    <2>2. Lesser(InitialBytes, MaxBytes) \in Nat
      BY DEF Lesser
    <2>3. capacity' \in [Calls -> Nat]
      BY <2>1, <2>2 DEF RespondWithStream
    <2>4. body' \in [Calls -> Bodies \cup {0}] /\ length' \in [Calls -> Nat]
      BY <2>1 DEF RespondWithStream
    <2>5. /\ operation' \in [Calls -> Stages] /\ outcome' \in [Calls -> Outcomes]
          /\ timer' \in [Calls -> BOOLEAN] /\ aborted' \in [Calls -> BOOLEAN]
      BY <2>1 DEF RespondWithStream
    <2> QED BY <2>3, <2>4, <2>5
  <1>2. CASE \E declared \in Declarations, encoded \in BOOLEAN :
                 RespondWithBuffer(c, declared, encoded)
    <2>1. PICK declared \in Declarations, encoded \in BOOLEAN :
              RespondWithBuffer(c, declared, encoded)
      BY <1>2
    <2>2. declared # Unknown => declared \in Bodies /\ declared \in Nat
      BY DEF Declarations
    <2>3. capacity' \in [Calls -> Nat]
      BY <2>1, <2>2 DEF RespondWithBuffer, FallbackRuledOut
    <2>4. body' \in [Calls -> Bodies \cup {0}] /\ length' \in [Calls -> Nat]
      BY <2>1, <2>2 DEF RespondWithBuffer, FallbackRuledOut
    <2>5. /\ operation' \in [Calls -> Stages] /\ outcome' \in [Calls -> Outcomes]
          /\ timer' \in [Calls -> BOOLEAN] /\ aborted' \in [Calls -> BOOLEAN]
      BY <2>1 DEF RespondWithBuffer
    <2> QED BY <2>3, <2>4, <2>5
  <1>3. CASE FinishBuffer(c)
    <2>1. Bodies \cup {0} \subseteq Nat
      OBVIOUS
    <2>2. body[c] \in Nat
      BY <2>1
    <2>3. length' \in [Calls -> Nat]
      BY <1>3, <2>2 DEF FinishBuffer
    <2> QED BY <1>3, <2>3 DEF FinishBuffer
  <1>4. CASE \E n \in 1..(body[c] - length[c]) : ReadChunk(c, n)
    <2>1. PICK n \in 1..(body[c] - length[c]) : ReadChunk(c, n)
      BY <1>4
    <2>2. n \in Nat /\ length[c] + n \in Nat
      BY <2>1
    <2>3. CASE length[c] + n > MaxBytes
      BY <2>1, <2>3 DEF ReadChunk
    <2>4. CASE length[c] + n <= MaxBytes
      <3>1. RoomFor(c, length[c] + n) \in Nat
        BY <2>2, <2>4, RoomIsEnough DEF FetchInv
      <3> QED BY <2>1, <2>2, <2>4, <3>1 DEF ReadChunk
    <2> QED BY <2>2, <2>3, <2>4
  <1>5. CASE FinishStream(c) \/ FailOperation(c)
    BY <1>5 DEF FinishStream, FailOperation
  <1> QED BY <1>1, <1>2, <1>3, <1>4, <1>5 DEF ServerStep

LEMMA ServerKeepsFetchInv ==
    ASSUME FetchTypeOK, FetchInv, NEW c \in Calls, ServerStep(c)
    PROVE  FetchInv'
  <1> USE FetchAssumption DEF FetchTypeOK, Stages, Outcomes, SettleOperation, FetchInv
  <1>1. CASE \E declared \in Declarations : RespondWithStream(c, declared)
    <2> USE <1>1 DEF RespondWithStream, Lesser
    <2>1. NotReadYet' /\ RoomForBuffer'
      BY DEF NotReadYet, RoomForBuffer
    <2>2. AbortedByTimeout'
      BY DEF AbortedByTimeout
    <2>3. BodyBounded'
      BY DEF BodyBounded, NotReadYet
    <2>4. TextIsBody'
      BY DEF TextIsBody, AbortedByTimeout
    <2> QED BY <2>1, <2>2, <2>3, <2>4
  <1>2. CASE \E declared \in Declarations, encoded \in BOOLEAN :
                 RespondWithBuffer(c, declared, encoded)
    <2> USE <1>2 DEF RespondWithBuffer, FallbackRuledOut, DeclaredTooLong, Declarations
    <2>1. NotReadYet' /\ RoomForBuffer'
      BY DEF NotReadYet, RoomForBuffer
    <2>2. AbortedByTimeout'
      BY DEF AbortedByTimeout
    <2>3. BodyBounded'
      BY DEF BodyBounded, NotReadYet
    <2>4. TextIsBody'
      BY DEF TextIsBody, AbortedByTimeout
    <2> QED BY <2>1, <2>2, <2>3, <2>4
  <1>3. CASE FinishBuffer(c)
    <2> USE <1>3 DEF FinishBuffer
    <2>1. NotReadYet' /\ RoomForBuffer'
      BY DEF NotReadYet, RoomForBuffer
    <2>2. AbortedByTimeout'
      BY DEF AbortedByTimeout
    <2>3. BodyBounded'
      BY DEF BodyBounded, RoomForBuffer
    <2>4. TextIsBody'
      BY DEF TextIsBody, AbortedByTimeout
    <2> QED BY <2>1, <2>2, <2>3, <2>4
  <1>4. CASE \E n \in 1..(body[c] - length[c]) : ReadChunk(c, n)
    <2>1. PICK n \in 1..(body[c] - length[c]) : ReadChunk(c, n)
      BY <1>4
    <2>2. n \in Nat /\ length[c] + n \in Nat /\ operation[c] = "streaming"
      BY <2>1 DEF ReadChunk
    <2>3. CASE length[c] + n > MaxBytes
      <3> USE <2>1, <2>2, <2>3 DEF ReadChunk
      <3>1. NotReadYet' /\ RoomForBuffer'
        BY DEF NotReadYet, RoomForBuffer
      <3>2. AbortedByTimeout'
        BY DEF AbortedByTimeout
      <3>3. BodyBounded'
        BY DEF BodyBounded
      <3>4. TextIsBody'
        BY DEF TextIsBody, AbortedByTimeout
      <3> QED BY <3>1, <3>2, <3>3, <3>4
    <2>4. CASE length[c] + n <= MaxBytes
      <3>1. /\ RoomFor(c, length[c] + n) \in Nat
            /\ length[c] + n <= RoomFor(c, length[c] + n)
            /\ RoomFor(c, length[c] + n) <= MaxBytes
        BY <2>2, <2>4, RoomIsEnough
      <3>2. /\ length' = [length EXCEPT ![c] = length[c] + n]
            /\ capacity' = [capacity EXCEPT ![c] = RoomFor(c, length[c] + n)]
            /\ UNCHANGED <<operation, outcome, timer, aborted, body>>
        BY <2>1, <2>2, <2>4 DEF ReadChunk
      <3>3. NotReadYet' /\ RoomForBuffer'
        BY <2>2, <3>2 DEF NotReadYet, RoomForBuffer
      <3>4. AbortedByTimeout'
        BY <3>2 DEF AbortedByTimeout
      <3>5. BodyBounded'
        BY <3>1, <3>2 DEF BodyBounded
      <3>6. TextIsBody'
        BY <2>2, <3>2 DEF TextIsBody, AbortedByTimeout
      <3> QED BY <3>3, <3>4, <3>5, <3>6
    <2> QED BY <2>2, <2>3, <2>4
  <1>5. CASE FinishStream(c) \/ FailOperation(c)
    <2> USE <1>5 DEF FinishStream, FailOperation
    <2>1. NotReadYet' /\ RoomForBuffer'
      BY DEF NotReadYet, RoomForBuffer
    <2>2. AbortedByTimeout'
      BY DEF AbortedByTimeout
    <2>3. BodyBounded'
      BY DEF BodyBounded
    <2>4. TextIsBody'
      BY DEF TextIsBody, AbortedByTimeout
    <2> QED BY <2>1, <2>2, <2>3, <2>4
  <1> QED BY <1>1, <1>2, <1>3, <1>4, <1>5 DEF ServerStep

LEMMA TimeOutKeepsFetch ==
    ASSUME FetchTypeOK, FetchInv, NEW c \in Calls, TimeOutCall(c)
    PROVE  FetchTypeOK' /\ FetchInv'
  <1> USE FetchAssumption DEF TimeOutCall, FetchTypeOK, FetchInv, Outcomes
  <1>1. FetchTypeOK'
    OBVIOUS
  <1>2. NotReadYet' /\ RoomForBuffer' /\ BodyBounded'
    BY DEF NotReadYet, RoomForBuffer, BodyBounded
  <1>3. AbortedByTimeout'
    BY DEF AbortedByTimeout, TextIsBody
  <1>4. TextIsBody'
    BY DEF TextIsBody
  <1> QED BY <1>1, <1>2, <1>3, <1>4

---------------------------------------------------------------------------
(* The cache.                                                              *)

\* A call that is started stays started.
LEMMA StaysStarted ==
    ASSUME FetchTypeOK, NEW c \in Calls, ServerStep(c) \/ TimeOutCall(c) \/ StartCall(c)
    PROVE  \A d \in Calls : operation[d] # "idle" => operation'[d] # "idle"
  <1> USE DEF FetchTypeOK, SettleOperation
  <1>1. CASE StartCall(c) \/ TimeOutCall(c)
    BY <1>1 DEF StartCall, TimeOutCall
  <1>2. CASE \E declared \in Declarations : RespondWithStream(c, declared)
    BY <1>2 DEF RespondWithStream
  <1>3. CASE \E declared \in Declarations, encoded \in BOOLEAN :
                 RespondWithBuffer(c, declared, encoded)
    BY <1>3 DEF RespondWithBuffer
  <1>4. CASE \E n \in 1..(body[c] - length[c]) : ReadChunk(c, n)
    BY <1>4 DEF ReadChunk
  <1>5. CASE FinishBuffer(c) \/ FinishStream(c) \/ FailOperation(c)
    BY <1>5 DEF FinishBuffer, FinishStream, FailOperation
  <1> QED BY <1>1, <1>2, <1>3, <1>4, <1>5 DEF ServerStep

\* What the steps that leave the calls alone need not be asked about.
LEMMA FetchUnchanged ==
    ASSUME FetchTypeOK, FetchInv, UNCHANGED fetch
    PROVE  FetchTypeOK' /\ FetchInv'
  BY DEF fetch, FetchTypeOK, FetchInv, NotReadYet, RoomForBuffer, AbortedByTimeout,
         BodyBounded, TextIsBody

LEMMA GetAbiKeeps ==
    ASSUME IInv, NEW l \in Lookups, NEW k \in Accounts, GetAbi(l, k)
    PROVE  IInv'
  <1> USE AbiAssumption DEF IInv, TypeOK, CacheInv
  <1>1. CASE AnswerFromCache(l, k)
    <2>1. FetchTypeOK' /\ FetchInv'
      BY <1>1, FetchUnchanged DEF AnswerFromCache
    <2>2. TypeOK'
      BY <1>1, <2>1 DEF GetAbi, AnswerFromCache
    <2>3. WaitsForPending'
      BY <1>1 DEF GetAbi, AnswerFromCache, WaitsForPending
    <2>4. PendingOfOne'
      BY <1>1 DEF GetAbi, AnswerFromCache, PendingOfOne, fetch
    <2> QED BY <2>1, <2>2, <2>3, <2>4
  <1>2. CASE JoinPending(l, k)
    <2>1. FetchTypeOK' /\ FetchInv'
      BY <1>2, FetchUnchanged DEF JoinPending
    <2>2. TypeOK'
      BY <1>2, <2>1 DEF GetAbi, JoinPending
    <2>3. WaitsForPending'
      BY <1>2 DEF GetAbi, JoinPending, WaitsForPending
    <2>4. PendingOfOne'
      BY <1>2 DEF GetAbi, JoinPending, PendingOfOne, fetch
    <2> QED BY <2>1, <2>2, <2>3, <2>4
  <1>3. CASE RequestAbi(l, k)
    <2>1. PICK c \in Calls : /\ StartCall(c)
                             /\ pending' = [pending EXCEPT ![k] = c]
                             /\ awaits' = [awaits EXCEPT ![l] = c]
      BY <1>3 DEF RequestAbi
    <2>2. FetchTypeOK' /\ FetchInv'
      BY <2>1, StartCallKeepsFetch
    <2>3. TypeOK'
      BY <1>3, <2>1, <2>2 DEF GetAbi, RequestAbi
    <2>4. WaitsForPending'
      BY <1>3, <2>1 DEF GetAbi, RequestAbi, WaitsForPending
    <2>5. operation[c] = "idle" /\ operation'[c] # "idle"
      BY <2>1 DEF StartCall, FetchTypeOK
    <2>6. \A d \in Calls : operation[d] # "idle" => operation'[d] # "idle"
      BY <2>1, StaysStarted
    <2>7. \A j \in Accounts : pending[j] # c
      BY <2>5 DEF PendingOfOne
    <2>8. PendingOfOne'
      BY <2>1, <2>5, <2>6, <2>7 DEF PendingOfOne
    <2> QED BY <2>2, <2>3, <2>4, <2>8
  <1> QED BY <1>1, <1>2, <1>3 DEF GetAbi

LEMMA ContinueKeeps ==
    ASSUME IInv, NEW c \in Calls, NEW result \in {"abi", "error"}, Continue(c, result)
    PROVE  /\ FetchTypeOK' /\ FetchInv'
           /\ account' \in [Lookups -> Accounts \cup {None}]
           /\ awaits' \in [Lookups -> Calls \cup {None}]
           /\ answer' \in [Lookups -> {"none", "abi", "error"}]
           /\ sets' \in 0..MaxSets
           /\ \A l \in Lookups : awaits'[l] # None => awaits[l] # c /\ awaits'[l] = awaits[l]
  <1>1. FetchTypeOK' /\ FetchInv'
    BY FetchUnchanged DEF IInv, TypeOK, Continue
  <1> QED BY <1>1, AbiAssumption DEF IInv, TypeOK, Continue, Waiters

LEMMA ReceiveAbiKeeps ==
    ASSUME IInv, NEW c \in Calls, ReceiveAbi(c)
    PROVE  IInv'
  <1> USE AbiAssumption DEF IInv, CacheInv
  <1>1. PICK l \in Waiters(c) :
            /\ pending' = [pending EXCEPT ![account[l]] = None]
            /\ \/ cache' = [cache EXCEPT ![account[l]] = {Chain}] /\ Continue(c, "abi")
               \/ UNCHANGED cache /\ Continue(c, "error")
    BY DEF ReceiveAbi
  <1>2. PICK result \in {"abi", "error"} : Continue(c, result)
    BY <1>1
  <1>3. /\ FetchTypeOK' /\ FetchInv'
        /\ account' \in [Lookups -> Accounts \cup {None}]
        /\ awaits' \in [Lookups -> Calls \cup {None}]
        /\ answer' \in [Lookups -> {"none", "abi", "error"}]
        /\ sets' \in 0..MaxSets
        /\ \A m \in Lookups : awaits'[m] # None => awaits[m] # c /\ awaits'[m] = awaits[m]
    BY <1>2, ContinueKeeps
  <1>4. /\ l \in Lookups /\ awaits[l] = c /\ c # None
        /\ account[l] \in Accounts /\ pending[account[l]] = c
    BY <1>1 DEF Waiters, WaitsForPending, TypeOK
  <1>5. UNCHANGED <<fetch, account, sets>>
    BY <1>2 DEF Continue
  <1>6. cache' \in [Accounts -> Abi]
    BY <1>1, <1>4 DEF TypeOK, Abi
  <1>7. TypeOK'
    BY <1>1, <1>3, <1>6 DEF TypeOK
  <1>8. WaitsForPending'
    <2> SUFFICES ASSUME NEW m \in Lookups, awaits'[m] # None
                 PROVE  account'[m] # None /\ awaits'[m] = pending'[account'[m]]
      BY DEF WaitsForPending
    <2>1. awaits[m] # c /\ awaits'[m] = awaits[m]
      BY <1>3
    <2>2. account[m] # None /\ awaits[m] = pending[account[m]] /\ account[m] \in Accounts
      BY <2>1 DEF WaitsForPending, TypeOK
    <2>3. account[m] # account[l]
      BY <2>1, <2>2, <1>4
    <2> QED BY <1>1, <1>4, <1>5, <2>1, <2>2, <2>3 DEF TypeOK
  <1>9. PendingOfOne'
    BY <1>1, <1>4, <1>5 DEF PendingOfOne, TypeOK, fetch
  <1> QED BY <1>3, <1>7, <1>8, <1>9

LEMMA LoseAbiKeeps ==
    ASSUME IInv, NEW c \in Calls, LoseAbi(c)
    PROVE  IInv'
  <1> USE AbiAssumption DEF IInv, CacheInv
  <1>1. Continue(c, "error") /\ UNCHANGED <<cache, pending>>
    BY DEF LoseAbi
  <1>2. /\ FetchTypeOK' /\ FetchInv'
        /\ account' \in [Lookups -> Accounts \cup {None}]
        /\ awaits' \in [Lookups -> Calls \cup {None}]
        /\ answer' \in [Lookups -> {"none", "abi", "error"}]
        /\ sets' \in 0..MaxSets
        /\ \A m \in Lookups : awaits'[m] # None => awaits[m] # c /\ awaits'[m] = awaits[m]
    BY <1>1, ContinueKeeps
  <1>3. TypeOK'
    BY <1>1, <1>2 DEF TypeOK
  <1>4. WaitsForPending'
    BY <1>1, <1>2 DEF WaitsForPending, Continue
  <1>5. PendingOfOne'
    BY <1>1 DEF PendingOfOne, Continue, fetch
  <1> QED BY <1>2, <1>3, <1>4, <1>5

LEMMA SetAbiKeeps ==
    ASSUME IInv, NEW k \in Accounts, NEW s \in Sources, NEW merge \in BOOLEAN, SetAbi(k, s, merge)
    PROVE  IInv'
  <1> USE AbiAssumption DEF IInv, CacheInv, SetAbi
  <1>1. FetchTypeOK' /\ FetchInv'
    BY FetchUnchanged DEF TypeOK
  <1>2. cache' \in [Accounts -> Abi]
    BY DEF TypeOK, Abi
  <1>3. TypeOK'
    BY <1>1, <1>2 DEF TypeOK
  <1>4. WaitsForPending' /\ PendingOfOne'
    BY DEF WaitsForPending, PendingOfOne, fetch
  <1> QED BY <1>1, <1>3, <1>4

LEMMA FetchStepKeeps ==
    ASSUME IInv, NEW c \in Calls, FetchStep(c)
    PROVE  IInv'
  <1> USE DEF IInv, CacheInv
  <1>1. (ServerStep(c) \/ TimeOutCall(c)) /\ UNCHANGED <<abi, sets>>
    BY DEF FetchStep
  <1>2. FetchTypeOK' /\ FetchInv'
    BY <1>1, ServerKeepsFetchType, ServerKeepsFetchInv, TimeOutKeepsFetch DEF TypeOK
  <1>3. TypeOK'
    BY <1>1, <1>2 DEF TypeOK, abi
  <1>4. WaitsForPending'
    BY <1>1 DEF WaitsForPending, abi
  <1>5. \A d \in Calls : operation[d] # "idle" => operation'[d] # "idle"
    BY <1>1, StaysStarted DEF TypeOK
  <1>6. PendingOfOne'
    BY <1>1, <1>5 DEF PendingOfOne, abi, TypeOK
  <1> QED BY <1>2, <1>3, <1>4, <1>6

LEMMA StutterKeeps == IInv /\ UNCHANGED vars => IInv'
  <1> SUFFICES ASSUME IInv, UNCHANGED vars PROVE IInv'
    OBVIOUS
  <1>1. FetchTypeOK' /\ FetchInv'
    BY FetchUnchanged DEF IInv, TypeOK, vars
  <1>2. TypeOK'
    BY <1>1 DEF IInv, TypeOK, vars, abi
  <1>3. CacheInv'
    BY DEF IInv, CacheInv, WaitsForPending, PendingOfOne, vars, abi, fetch
  <1> QED BY <1>1, <1>2, <1>3 DEF IInv

---------------------------------------------------------------------------
(* The theorems.                                                           *)

\* The inductive invariant: a lookup waits for its own account's request.
THEOREM Invariant == Spec => []IInv
  <1>1. IInv /\ [Next]_vars => IInv'
    BY GetAbiKeeps, ReceiveAbiKeeps, LoseAbiKeeps, SetAbiKeeps, FetchStepKeeps, StutterKeeps
    DEF Next
  <1> QED BY InitIInv, <1>1, PTL DEF Spec

\* Every variable of the cache and of its calls stays in its type.
THEOREM TypeCorrect == Spec => []TypeOK
  <1>1. IInv => TypeOK
    BY DEF IInv
  <1> QED BY Invariant, <1>1, PTL

\* No response makes FetchProvider store more than maxResponseBytes.
THEOREM ResponsesBounded == Spec => []BodyBounded
  <1>1. IInv => BodyBounded
    BY DEF IInv, FetchInv
  <1> QED BY Invariant, <1>1, PTL

\* A call that succeeds has read its whole body and was not aborted.
THEOREM NothingTruncated == Spec => []TextIsBody
  <1>1. IInv => TextIsBody
    BY DEF IInv, FetchInv
  <1> QED BY Invariant, <1>1, PTL

\* Lookups of one account wait for one request, those of others for others.
THEOREM RequestsShared == Spec => []OneRequest
  <1>1. IInv => OneRequest
    <2> SUFFICES ASSUME IInv, NEW l \in Lookups, NEW m \in Lookups,
                        awaits[l] # None, awaits[m] # None
                 PROVE  account[l] = account[m] <=> awaits[l] = awaits[m]
      BY DEF OneRequest
    <2>1. /\ account[l] \in Accounts /\ awaits[l] = pending[account[l]]
          /\ account[m] \in Accounts /\ awaits[m] = pending[account[m]]
      BY DEF IInv, TypeOK, CacheInv, WaitsForPending
    <2> QED BY <2>1 DEF IInv, CacheInv, PendingOfOne
  <1> QED BY Invariant, <1>1, PTL

---------------------------------------------------------------------------
(* Pushes of transactions: the inductive invariant.                        *)

Signers == Keys \cup {Nobody}

Transactions == [header : [expires : Int, ref : Int], actions : Seq(Nat), extension : SUBSET Signers]

PushRecords ==
    [stage : {"idle", "abi", "info", "pushing", "awaiting", "ok", "failed"},
     encoded : Seq(Nat), known : Nat,
     keyType : {"none", "K1", "R1", "EM", "ED"}, signedBy : Signers, tx : Transactions \cup {<<>>}, block : Nat,
     began : [generation : Nat, signer : Signers, head : Nat]]

ApiTypeOK ==
    /\ push \in [Pushes -> PushRecords]
    /\ signer \in Signers
    /\ request \in [Pushes -> {"none", "signed", "misSigned", "executed", "refused"}]
    /\ head \in Nat /\ lib \in Nat /\ lib < head
    /\ generation \in Nat \ {0}
    /\ forks \in Nat
    /\ included \in SUBSET [tx : Transactions, block : Nat]

\* A call began before now, with a signer that is not replaced by none, ...
BeganBefore ==
    \A p \in Pushes : push[p].stage # "idle" =>
        push[p].began.generation <= generation /\ push[p].began.head <= head
SignerStays ==
    \A p \in Pushes : push[p].stage \in {"abi", "info"} =>
        signer # Nobody /\ push[p].keyType = KeyType[push[p].began.signer]

\* ... what it has encoded is of ABIs there were since, those of strings of one, ...
EncodedSince ==
    \A p \in Pushes :
        /\ push[p].known # 0 => push[p].known \in push[p].began.generation..generation
        /\ \A n \in 1..Len(push[p].encoded) :
               /\ push[p].encoded[n] \in push[p].began.generation..generation
               /\ Forms[p][n] = "string" =>
                      push[p].known # 0 /\ push[p].encoded[n] = push[p].known

\* ... it asks the node once it has signed, ...
AsksWhenSigned ==
    \A p \in Pushes :
        /\ request[p] = "none" => push[p].tx = <<>>
        /\ push[p].stage \in {"idle", "abi", "info"} => request[p] = "none"
        /\ push[p].stage \in {"pushing", "awaiting", "ok"} => request[p] # "none"
        /\ push[p].stage \in {"awaiting", "ok"} => request[p] = "executed"
        /\ push[p].stage = "ok" /\ p \in Final => push[p].block <= lib

\* ... what it has built, with the signature of the signer it found, ...
SignedAsBuilt ==
    \A p \in Pushes : request[p] # "none" =>
        /\ push[p].tx \in Transactions
        /\ push[p].tx.actions = push[p].encoded
        /\ push[p].tx.header.expires >= Seconds(push[p].began.head) + SecondsAhead
        /\ request[p] = "misSigned" => push[p].signedBy # push[p].began.signer

\* ... and what is in a block is what a call had executed, for each its own.
IncludedIsExecuted ==
    \A i \in included : \E p \in Pushes : request[p] = "executed" /\ push[p].tx = i.tx
ExecutedIsIncluded ==
    forks = 0 =>
        \A p \in Pushes : request[p] = "executed" =>
            /\ [tx |-> push[p].tx, block |-> push[p].block] \in included
            /\ \A q \in Pushes \ {p} : request[q] = "executed" => push[q].tx # push[p].tx

ApiInv ==
    /\ ApiTypeOK
    /\ BeganBefore /\ SignerStays /\ EncodedSince
    /\ AsksWhenSigned /\ SignedAsBuilt
    /\ IncludedIsExecuted /\ ExecutedIsIncluded
    /\ RefusedForACause

---------------------------------------------------------------------------
LEMMA Division ==
    ASSUME NEW a \in Nat, NEW d \in Nat \ {0}
    PROVE  a \div d \in Nat /\ d * (a \div d) <= a /\ a < d * (a \div d) + d
  BY Z3T(60)

LEMMA ProductsGrow ==
    ASSUME NEW m \in Nat, NEW n \in Nat, NEW d \in Nat, m <= n
    PROVE  d * m <= d * n
  OBVIOUS

LEMMA QuotientsGrow ==
    ASSUME NEW a \in Nat, NEW b \in Nat, NEW d \in Nat \ {0}, a <= b
    PROVE  a \div d \in Nat /\ b \div d \in Nat /\ a \div d <= b \div d
  <1> DEFINE m == a \div d
             n == b \div d
  <1>1. m \in Nat /\ n \in Nat /\ d * m <= a /\ b < d * n + d
    BY Division
  <1> HIDE DEF m, n
  <1>2. ASSUME n < m PROVE FALSE
    <2>1. n + 1 \in Nat /\ n + 1 <= m
      BY <1>1, <1>2
    <2>2. d * (n + 1) <= d * m
      BY <1>1, <2>1, ProductsGrow
    <2>3. d * (n + 1) = d * n + d
      BY <1>1
    <2>4. d * m \in Nat /\ d * n \in Nat
      BY <1>1
    <2> QED BY <1>1, <2>2, <2>3, <2>4
  <1>3. m <= n
    BY <1>1, <1>2
  <1> QED BY <1>1, <1>3 DEF m, n

LEMMA SecondsGrow ==
    ASSUME NEW a \in Nat, NEW b \in Nat, a <= b
    PROVE  Seconds(a) \in Nat /\ Seconds(b) \in Nat /\ Seconds(a) <= Seconds(b)
  <1> DEFINE m == 2 * a + BlocksPerSecond
             n == 2 * b + BlocksPerSecond
             d == 2 * BlocksPerSecond
  <1>1. m \in Nat /\ n \in Nat /\ d \in Nat \ {0} /\ m <= n
    BY ApiAssumption
  <1>2. Seconds(a) = m \div d /\ Seconds(b) = n \div d
    BY DEF Seconds
  <1> HIDE DEF m, n, d
  <1> QED BY <1>1, <1>2, QuotientsGrow

LEMMA SecondsAreNumbers == \A block \in Nat : Seconds(block) \in Nat
  <1> TAKE block \in Nat
  <1>1. block <= block
    OBVIOUS
  <1> QED BY <1>1, SecondsGrow

LEMMA IdleIsARecord == Idle \in PushRecords
  <1>1. /\ <<>> \in Seq(Nat) /\ <<>> \in Transactions \cup {<<>>} /\ Nobody \in Signers
        /\ 0 \in Nat /\ "none" \in {"none", "K1", "R1", "EM", "ED"}
        /\ "idle" \in {"idle", "abi", "info", "pushing", "awaiting", "ok", "failed"}
    BY DEF Signers
  <1> QED BY <1>1 DEF Idle, PushRecords

LEMMA ApiInitInv == ApiInit => ApiInv
  <1> SUFFICES ASSUME ApiInit PROVE ApiInv
    OBVIOUS
  <1> USE ApiAssumption DEF ApiInit
  <1>1. Idle \in PushRecords
    BY IdleIsARecord
  <1>2. ApiTypeOK
    BY <1>1 DEF ApiTypeOK, Signers
  <1>3. \A p \in Pushes : /\ push[p].stage = "idle" /\ push[p].encoded = <<>> /\ push[p].known = 0
                         /\ push[p].tx = <<>> /\ request[p] = "none"
    BY DEF Idle
  <1>4. BeganBefore /\ SignerStays /\ EncodedSince
    BY <1>3 DEF BeganBefore, SignerStays, EncodedSince
  <1>5. AsksWhenSigned /\ SignedAsBuilt /\ IncludedIsExecuted /\ ExecutedIsIncluded /\ RefusedForACause
    BY <1>3 DEF AsksWhenSigned, SignedAsBuilt, IncludedIsExecuted, ExecutedIsIncluded, RefusedForACause
  <1> QED BY <1>2, <1>4, <1>5 DEF ApiInv

\* A step of one call that leaves its requests and the node alone.
LEMMA CallGoesOn ==
    ASSUME ApiInv, NEW p \in Pushes, NEW r \in PushRecords,
           push' = [push EXCEPT ![p] = r], UNCHANGED <<signer, node>>,
           r.stage # "idle" => r.began.generation <= generation /\ r.began.head <= head,
           r.stage \in {"abi", "info"} => signer # Nobody /\ r.keyType = KeyType[r.began.signer],
           r.known # 0 => r.known \in r.began.generation..generation,
           \A n \in 1..Len(r.encoded) :
               /\ r.encoded[n] \in r.began.generation..generation
               /\ Forms[p][n] = "string" => r.known # 0 /\ r.encoded[n] = r.known,
           r.stage \in {"idle", "abi", "info"} => request[p] = "none",
           r.stage \in {"pushing", "awaiting", "ok"} => request[p] # "none",
           r.stage \in {"awaiting", "ok"} => request[p] = "executed",
           r.stage = "ok" /\ p \in Final => r.block <= lib,
           request[p] = "none" => r.tx = <<>>,
           request[p] # "none" => /\ r.tx = push[p].tx /\ r.block = push[p].block
                                  /\ r.signedBy = push[p].signedBy
                                  /\ r.encoded = push[p].encoded /\ r.began = push[p].began
    PROVE  ApiInv'
  <1> USE DEF ApiInv
  <1>0. UNCHANGED <<signer, request, head, lib, generation, included, forks>>
    BY DEF node
  <1>1. push' \in [Pushes -> PushRecords] /\ push'[p] = r
        /\ \A q \in Pushes : q # p => push'[q] = push[q]
    BY DEF ApiTypeOK
  <1>2. ApiTypeOK'
    BY <1>0, <1>1 DEF ApiTypeOK
  <1>3. BeganBefore'
    BY <1>0, <1>1 DEF BeganBefore
  <1>4. SignerStays'
    BY <1>0, <1>1 DEF SignerStays
  <1>5. EncodedSince'
    BY <1>0, <1>1 DEF EncodedSince
  <1>6. AsksWhenSigned'
    BY <1>0, <1>1 DEF AsksWhenSigned
  <1>7. \A q \in Pushes : request[q] # "none" =>
            /\ push'[q].tx = push[q].tx /\ push'[q].block = push[q].block
            /\ push'[q].signedBy = push[q].signedBy
            /\ push'[q].encoded = push[q].encoded /\ push'[q].began = push[q].began
    BY <1>1
  <1>8. \A q \in Pushes : request[q] # "none" =>
            Seconds(push[q].began.head)' = Seconds(push[q].began.head)
    BY <1>7 DEF Seconds
  <1>9. SignedAsBuilt'
    BY <1>0, <1>7, <1>8 DEF SignedAsBuilt
  <1>10. IncludedIsExecuted'
    BY <1>0, <1>7 DEF IncludedIsExecuted
  <1>11. ExecutedIsIncluded'
    BY <1>0, <1>7 DEF ExecutedIsIncluded
  <1>12. RefusedForACause'
    <2>1. Seconds(head)' = Seconds(head)
      BY <1>0 DEF Seconds
    <2> QED BY <1>0, <1>7, <1>8, <2>1 DEF RefusedForACause
  <1> QED BY <1>2, <1>3, <1>4, <1>5, <1>6, <1>9, <1>10, <1>11, <1>12

LEMMA PushTransactionInv ==
    ASSUME ApiInv, NEW p \in Pushes, PushTransaction(p)
    PROVE  ApiInv'
  <1>1. /\ push[p].stage = "idle" /\ request[p] = "none"
        /\ generation \in Nat /\ head \in Nat /\ signer \in Signers
    BY DEF PushTransaction, ApiInv, AsksWhenSigned, ApiTypeOK
  <1>2. CASE signer = Nobody
    <2> DEFINE r == [Idle EXCEPT !.stage = "failed"]
    <2>1. push' = [push EXCEPT ![p] = r] /\ UNCHANGED <<signer, node>>
      BY <1>2 DEF PushTransaction
    <2>2. /\ r \in PushRecords /\ r.stage = "failed"
          /\ r.encoded = <<>> /\ r.known = 0 /\ r.tx = <<>>
          /\ r.began.generation = 0 /\ r.began.head = 0
      BY IdleIsARecord DEF Idle, PushRecords
    <2> HIDE DEF r
    <2>3. 1..Len(r.encoded) = {} /\ r.stage \notin {"idle", "abi", "info", "pushing", "awaiting", "ok"}
      BY <2>2
    <2>4. request[p] # "none" => FALSE
      BY <1>1
    <2>5. r.began.generation <= generation /\ r.began.head <= head
      BY <1>1, <2>2
    <2> QED BY <1>1, <2>1, <2>2, <2>3, <2>4, <2>5, CallGoesOn
  <1>3. CASE signer # Nobody
    <2> DEFINE began == [generation |-> generation, signer |-> signer, head |-> head]
               r == [Idle EXCEPT !.stage = "abi", !.keyType = KeyType[signer], !.began = began]
    <2>1. push' = [push EXCEPT ![p] = r] /\ UNCHANGED <<signer, node>>
      BY <1>3 DEF PushTransaction
    <2>2. began \in [generation : Nat, signer : Signers, head : Nat]
      BY <1>1
    <2>3. KeyType[signer] \in {"K1", "R1", "EM", "ED"}
      BY <1>1, <1>3, ApiAssumption DEF Signers
    <2>4. began.generation = generation /\ began.signer = signer /\ began.head = head
      OBVIOUS
    <2> HIDE DEF began
    <2>5. /\ r \in PushRecords /\ r.stage = "abi" /\ r.keyType = KeyType[signer] /\ r.began = began
          /\ r.encoded = <<>> /\ r.known = 0 /\ r.tx = <<>>
      BY <2>2, <2>3, IdleIsARecord DEF Idle, PushRecords
    <2> HIDE DEF r
    <2>6. 1..Len(r.encoded) = {} /\ r.stage \notin {"idle", "pushing", "awaiting", "ok"}
      BY <2>5
    <2>7. request[p] # "none" => FALSE
      BY <1>1
    <2>8. r.began.generation <= generation /\ r.began.head <= head /\ r.keyType = KeyType[r.began.signer]
      BY <1>1, <2>4, <2>5
    <2> QED BY <1>1, <1>3, <2>1, <2>5, <2>6, <2>7, <2>8, CallGoesOn
  <1> QED BY <1>2, <1>3

LEMMA EncodeInv ==
    ASSUME ApiInv, NEW p \in Pushes, push[p].stage = "abi", NEW given \in Nat, Encode(p, given),
           given \in push[p].began.generation..generation,
           Current(p) = "string" => given # 0 /\ push[p].known \in {0, given},
           UNCHANGED <<signer, node>>
    PROVE  ApiInv'
  <1> DEFINE c == push[p]
             x == IF Current(p) = "encoded" THEN c.began.generation ELSE given
             e == Append(c.encoded, x)
             r == [c EXCEPT !.known = IF Current(p) = "string" THEN given ELSE @,
                            !.encoded = e,
                            !.stage = IF Len(c.encoded) + 1 = Len(Forms[p]) THEN "info" ELSE @]
  <1>1. c \in PushRecords /\ generation \in Nat
    BY DEF ApiInv, ApiTypeOK
  <1>2. /\ c.encoded \in Seq(Nat) /\ c.began.generation \in Nat
    BY <1>1 DEF PushRecords
  <1>3. x \in Nat /\ x \in c.began.generation..generation
    BY <1>1, <1>2
  <1> HIDE DEF x
  <1>4. e \in Seq(Nat) /\ Len(e) = Len(c.encoded) + 1
        /\ \A n \in 1..Len(e) : e[n] = IF n = Len(c.encoded) + 1 THEN x ELSE c.encoded[n]
    <2> HIDE DEF c
    <2> QED BY <1>2, <1>3
  <1>5. push' = [push EXCEPT ![p] = r]
    BY <1>1, <1>2 DEF Encode, ApiInv, ApiTypeOK, x
  <1> HIDE DEF e
  <1>6. /\ r \in PushRecords /\ r.stage \in {"abi", "info"} /\ r.encoded = e
        /\ r.known = (IF Current(p) = "string" THEN given ELSE c.known)
        /\ r.keyType = c.keyType /\ r.tx = c.tx /\ r.began = c.began
    BY <1>1, <1>4 DEF PushRecords
  <1>7. /\ request[p] = "none" /\ c.tx = <<>>
        /\ c.began.generation <= generation /\ c.began.head <= head
        /\ signer # Nobody /\ c.keyType = KeyType[c.began.signer]
    BY DEF ApiInv, AsksWhenSigned, BeganBefore, SignerStays
  <1>8. r.known # 0 => r.known \in c.began.generation..generation
    BY <1>6 DEF ApiInv, EncodedSince
  <1>9. ASSUME NEW n \in 1..Len(e)
        PROVE  /\ e[n] \in c.began.generation..generation
               /\ Forms[p][n] = "string" => r.known # 0 /\ e[n] = r.known
    <2>1. CASE n = Len(c.encoded) + 1
      <3>1. Forms[p][n] = Current(p)
        BY <2>1 DEF Current
      <3> QED BY <2>1, <3>1, <1>3, <1>4, <1>6 DEF x
    <2>2. CASE n # Len(c.encoded) + 1
      <3>1. n \in 1..Len(c.encoded) /\ e[n] = c.encoded[n]
        <4>1. n \in 1..(Len(c.encoded) + 1) /\ Len(c.encoded) \in Nat
          BY <1>2, <1>4
        <4> HIDE DEF c
        <4> QED BY <2>2, <1>4, <4>1
      <3>2. /\ c.encoded[n] \in c.began.generation..generation
            /\ Forms[p][n] = "string" => c.known # 0 /\ c.encoded[n] = c.known
        BY <3>1 DEF ApiInv, EncodedSince
      <3> QED BY <3>1, <3>2, <1>6
    <2> QED BY <2>1, <2>2
  <1> HIDE DEF r, c
  <1>10. r.stage # "idle" /\ r.stage \notin {"pushing", "awaiting", "ok"}
    BY <1>6
  <1> QED BY <1>5, <1>6, <1>7, <1>8, <1>9, <1>10, CallGoesOn

LEMMA AnyToActionInv ==
    ASSUME ApiInv, NEW p \in Pushes, AnyToAction(p)
    PROVE  ApiInv'
  <1>1. push[p].stage = "abi" /\ UNCHANGED <<signer, node>>
    BY DEF AnyToAction
  <1>2. /\ generation \in Nat \ {0} /\ push[p].began.generation \in Nat /\ push[p].known \in Nat
        /\ push[p].began.generation <= generation
    BY <1>1 DEF ApiInv, ApiTypeOK, PushRecords, BeganBefore
  <1>3. CASE Current(p) = "string" /\ push[p].known # 0
    <2>1. Encode(p, push[p].known)
      BY <1>3 DEF AnyToAction
    <2>2. push[p].known \in push[p].began.generation..generation
      BY <1>3 DEF ApiInv, EncodedSince
    <2> QED BY <1>1, <1>2, <1>3, <2>1, <2>2, EncodeInv
  <1>4. CASE ~(Current(p) = "string" /\ push[p].known # 0)
    <2>1. Encode(p, generation)
      BY <1>4 DEF AnyToAction
    <2> QED BY <1>1, <1>2, <1>4, <2>1, EncodeInv
  <1> QED BY <1>3, <1>4

\* A call whose stage alone changes, after it has asked the node.
LEMMA StageChanges ==
    ASSUME ApiInv, NEW p \in Pushes, NEW to \in {"awaiting", "ok", "failed"},
           push[p].stage \in {"pushing", "awaiting"},
           push' = [push EXCEPT ![p].stage = to], UNCHANGED <<signer, node>>,
           to # "failed" => request[p] = "executed",
           to = "ok" /\ p \in Final => push[p].block <= lib
    PROVE  ApiInv'
  <1> DEFINE c == push[p]
             r == [c EXCEPT !.stage = to]
  <1>1. c \in PushRecords /\ push' = [push EXCEPT ![p] = r]
    BY DEF ApiInv, ApiTypeOK
  <1>2. /\ r \in PushRecords /\ r.stage = to
        /\ r.encoded = c.encoded /\ r.known = c.known /\ r.keyType = c.keyType
        /\ r.signedBy = c.signedBy /\ r.tx = c.tx /\ r.block = c.block /\ r.began = c.began
    BY <1>1 DEF PushRecords
  <1>3. request[p] # "none" /\ c.began.generation <= generation /\ c.began.head <= head
    BY DEF ApiInv, AsksWhenSigned, BeganBefore
  <1>4. /\ c.known # 0 => c.known \in c.began.generation..generation
        /\ \A n \in 1..Len(c.encoded) :
               /\ c.encoded[n] \in c.began.generation..generation
               /\ Forms[p][n] = "string" => c.known # 0 /\ c.encoded[n] = c.known
    BY DEF ApiInv, EncodedSince
  <1>5. r.stage \notin {"idle", "abi", "info"}
    BY <1>2
  <1> HIDE DEF r
  <1>6. /\ r.known # 0 => r.known \in r.began.generation..generation
        /\ \A n \in 1..Len(r.encoded) :
               /\ r.encoded[n] \in r.began.generation..generation
               /\ Forms[p][n] = "string" => r.known # 0 /\ r.encoded[n] = r.known
        /\ r.began.generation <= generation /\ r.began.head <= head
    BY <1>2, <1>3, <1>4
  <1>7. /\ r.stage \in {"awaiting", "ok"} => request[p] = "executed"
        /\ r.stage = "ok" /\ p \in Final => r.block <= lib
    BY <1>2
  <1> QED BY <1>1, <1>2, <1>3, <1>5, <1>6, <1>7, CallGoesOn

LEMMA ReceivePushedInv ==
    ASSUME ApiInv, NEW p \in Pushes, ReceivePushed(p)
    PROVE  ApiInv'
  <1>1. PICK response \in CASE request[p] = "executed" -> {Acceptance}
                            [] request[p] = "refused" -> Refusals
                            [] OTHER -> {} :
            push' = [push EXCEPT ![p].stage =
                         IF ~Accepts(response) THEN "failed"
                         ELSE IF p \in Final THEN "awaiting" ELSE "ok"]
    BY DEF ReceivePushed
  <1>2. push[p].stage = "pushing" /\ UNCHANGED <<signer, node>>
    BY DEF ReceivePushed
  <1>3. \A refusal \in Refusals : ~Accepts(refusal)
    BY DEF Refusals, Accepts
  <1>4. CASE request[p] = "executed"
    BY <1>1, <1>2, <1>4, StageChanges
  <1>5. CASE request[p] = "refused"
    BY <1>1, <1>2, <1>3, <1>5, StageChanges
  <1>6. request[p] \in {"executed", "refused"}
    BY <1>1
  <1> QED BY <1>4, <1>5, <1>6

LEMMA AwaitBlockInv ==
    ASSUME ApiInv, NEW p \in Pushes, AwaitBlock(p)
    PROVE  ApiInv'
  <1>1. push[p].stage = "awaiting" /\ request[p] = "executed"
    BY DEF AwaitBlock, ApiInv, AsksWhenSigned
  <1>2. push[p].block <= lib
    BY DEF AwaitBlock, ApiInv, ApiTypeOK, PushRecords
  <1> QED BY <1>1, <1>2, StageChanges DEF AwaitBlock

LEMMA FailInv ==
    ASSUME ApiInv, NEW p \in Pushes, Fail(p)
    PROVE  ApiInv'
  <1>1. CASE push[p].stage \in {"abi", "info"}
    <2> DEFINE r == [Idle EXCEPT !.stage = "failed"]
    <2>1. push' = [push EXCEPT ![p] = r] /\ UNCHANGED <<signer, node>>
      BY <1>1 DEF Fail
    <2>2. /\ r \in PushRecords /\ r.stage = "failed"
          /\ r.encoded = <<>> /\ r.known = 0 /\ r.tx = <<>>
          /\ r.began.generation = 0 /\ r.began.head = 0
      BY IdleIsARecord DEF Idle, PushRecords
    <2> HIDE DEF r
    <2>3. 1..Len(r.encoded) = {} /\ r.stage \notin {"idle", "abi", "info", "pushing", "awaiting", "ok"}
      BY <2>2
    <2>4. request[p] = "none"
      BY <1>1 DEF ApiInv, AsksWhenSigned
    <2>5. r.began.generation <= generation /\ r.began.head <= head
      <3>1. generation \in Nat /\ head \in Nat
        BY DEF ApiInv, ApiTypeOK
      <3> QED BY <2>2, <3>1
    <2> QED BY <2>1, <2>2, <2>3, <2>4, <2>5, CallGoesOn
  <1>2. CASE push[p].stage \in {"pushing", "awaiting"}
    <2>1. push' = [push EXCEPT ![p].stage = "failed"] /\ UNCHANGED <<signer, node>>
      BY <1>2 DEF Fail
    <2> QED BY <1>2, <2>1, StageChanges
  <1> QED BY <1>1, <1>2 DEF Fail

LEMMA GetInfoAndSignInv ==
    ASSUME ApiInv, NEW p \in Pushes, GetInfoAndSign(p)
    PROVE  ApiInv'
  <1> DEFINE c == push[p]
             tx == Transaction(p)
             r == [c EXCEPT !.stage = "pushing", !.tx = tx, !.signedBy = signer]
  <1>0. UNCHANGED <<signer, head, lib, generation, included, forks>>
    BY DEF GetInfoAndSign
  <1>17. ApiTypeOK /\ AsksWhenSigned /\ SignedAsBuilt /\ IncludedIsExecuted /\ ExecutedIsIncluded
         /\ BeganBefore /\ SignerStays /\ EncodedSince /\ RefusedForACause
    BY DEF ApiInv
  <1>1. /\ c \in PushRecords /\ c.stage = "info"
        /\ signer \in Signers /\ head \in Nat /\ lib \in Nat
    BY DEF GetInfoAndSign, ApiInv, ApiTypeOK
  <1>2. /\ tx \in Transactions /\ tx.actions = c.encoded
        /\ tx.header.expires = Seconds(head) + SecondsAhead
    <2>1. Seconds(head) + SecondsAhead \in Int
      <3>1. Seconds(head) \in Nat
        BY <1>1, SecondsAreNumbers
      <3>2. SecondsAhead \in Int
        BY ApiAssumption
      <3> QED BY <3>1, <3>2
    <2>2. Header \in [expires : Int, ref : Int] /\ Header.expires = Seconds(head) + SecondsAhead
      BY <1>1, <2>1 DEF Header
    <2>3. c.encoded \in Seq(Nat) /\ (IF c.keyType = "ED" THEN {signer} ELSE {}) \in SUBSET Signers
      BY <1>1 DEF PushRecords
    <2> QED BY <2>2, <2>3 DEF Transaction, Transactions
  <1>3. push' = [push EXCEPT ![p] = r]
    BY DEF GetInfoAndSign, ApiInv, ApiTypeOK
  <1> HIDE DEF tx
  <1>4. /\ r \in PushRecords /\ r.stage = "pushing" /\ r.tx = tx /\ r.signedBy = signer
        /\ r.encoded = c.encoded /\ r.known = c.known /\ r.keyType = c.keyType
        /\ r.block = c.block /\ r.began = c.began
    BY <1>1, <1>2 DEF PushRecords
  <1>6. /\ request[p] = "none" /\ signer # Nobody /\ c.keyType = KeyType[c.began.signer]
        /\ c.began.generation <= generation /\ c.began.head <= head
        /\ c.began.head \in Nat
    BY <1>1 DEF ApiInv, AsksWhenSigned, SignerStays, BeganBefore, PushRecords
  <1>7. /\ request'[p] \in {"signed", "misSigned"}
        /\ (request'[p] = "misSigned" => signer # c.began.signer)
        /\ \A q \in Pushes : q # p => request'[q] = request[q]
        /\ request' \in [Pushes -> {"none", "signed", "misSigned", "executed", "refused"}]
    BY <1>6 DEF GetInfoAndSign, ApiInv, ApiTypeOK
  <1>8. push' \in [Pushes -> PushRecords] /\ push'[p] = r
        /\ \A q \in Pushes : q # p => push'[q] = push[q]
    BY <1>3, <1>4 DEF ApiInv, ApiTypeOK
  <1> HIDE DEF r
  <1>9. ApiTypeOK'
    <2>1. signer' \in Signers /\ generation' \in Nat \ {0} /\ forks' \in Nat
      BY <1>0, <1>17 DEF ApiTypeOK
    <2>5. head' \in Nat /\ lib' \in Nat /\ lib' < head'
      BY <1>0, <1>17 DEF ApiTypeOK
    <2>2. included' \in SUBSET [tx : Transactions, block : Nat]
      BY <1>0, <1>17 DEF ApiTypeOK
    <2>3. push' \in [Pushes -> PushRecords]
      BY <1>8
    <2>4. request' \in [Pushes -> {"none", "signed", "misSigned", "executed", "refused"}]
      BY <1>7
    <2> QED BY <2>1, <2>2, <2>3, <2>4, <2>5 DEF ApiTypeOK
  <1>10. BeganBefore' /\ SignerStays'
    BY <1>0, <1>4, <1>6, <1>8, <1>17 DEF BeganBefore, SignerStays
  <1>11. EncodedSince'
    BY <1>0, <1>4, <1>8, <1>17 DEF EncodedSince
  <1>12. AsksWhenSigned'
    BY <1>0, <1>4, <1>7, <1>8, <1>17 DEF AsksWhenSigned
  <1>13. SignedAsBuilt'
    <2>1. Seconds(head) >= Seconds(c.began.head)
      <3>1. c.began.head \in Nat /\ head \in Nat /\ c.began.head <= head
        BY <1>1, <1>6
      <3> QED BY <3>1, SecondsGrow
    <2>2. tx.header.expires >= Seconds(c.began.head) + SecondsAhead
      <3>1. Seconds(head) \in Int /\ Seconds(c.began.head) \in Int /\ SecondsAhead \in Int
        <4>1. head \in Nat /\ c.began.head \in Nat
          BY <1>1, <1>6
        <4>2. SecondsAhead \in Nat
          BY ApiAssumption
        <4> QED BY <4>1, <4>2, SecondsAreNumbers
      <3> QED BY <3>1, <2>1, <1>2
    <2> SUFFICES ASSUME NEW q \in Pushes, request'[q] # "none"
                 PROVE  /\ push'[q].tx \in Transactions
                        /\ push'[q].tx.actions = push'[q].encoded
                        /\ push'[q].tx.header.expires >= Seconds(push'[q].began.head) + SecondsAhead
                        /\ request'[q] = "misSigned" => push'[q].signedBy # push'[q].began.signer
      BY DEF SignedAsBuilt, Seconds
    <2>3. CASE q = p
      BY <1>2, <1>4, <1>7, <1>8, <2>2, <2>3
    <2>4. CASE q # p
      BY <1>7, <1>8, <2>4, <1>17 DEF SignedAsBuilt
    <2> QED BY <2>3, <2>4
  <1>14. IncludedIsExecuted'
    BY <1>0, <1>6, <1>7, <1>8, <1>17 DEF IncludedIsExecuted
  <1>15. ExecutedIsIncluded'
    BY <1>0, <1>7, <1>8, <1>17 DEF ExecutedIsIncluded
  <1>16. RefusedForACause'
    <2> SUFFICES ASSUME NEW q \in Pushes, request'[q] = "refused"
                 PROVE  \/ Seconds(head) > Seconds(push'[q].began.head) + SecondsAhead
                        \/ generation # push'[q].began.generation
                        \/ push'[q].signedBy # push'[q].began.signer
                        \/ \E o \in Pushes \ {q} : push'[o].tx = push'[q].tx /\ request'[o] = "executed"
      BY <1>0 DEF RefusedForACause, Seconds
    <2>1. q # p /\ request[q] = "refused" /\ push'[q] = push[q]
      BY <1>7, <1>8
    <2>2. \A o \in Pushes : request[o] = "executed" => push'[o] = push[o] /\ request'[o] = "executed"
      BY <1>6, <1>7, <1>8
    <2> QED BY <2>1, <2>2, <1>17 DEF RefusedForACause
  <1> QED BY <1>9, <1>10, <1>11, <1>12, <1>13, <1>14, <1>15, <1>16 DEF ApiInv

\* What the node does with a request, and what it leaves alone.
NodeStep(p) == ProcessPush(p) /\ UNCHANGED <<signer, head, lib, generation, forks, mishaps>>

Executes(p) ==
    /\ request[p] = "signed" /\ ~Included(push[p].tx)
    /\ request' = [request EXCEPT ![p] = "executed"]
    /\ included' = included \cup {[tx |-> push[p].tx, block |-> head + 1]}
    /\ push' = [push EXCEPT ![p].block = head + 1]

LEMMA ExecuteInv ==
    ASSUME ApiInv, NEW p \in Pushes,
           Executes(p), UNCHANGED <<signer, head, lib, generation, forks>>
    PROVE  ApiInv'
  <1> DEFINE r == [push[p] EXCEPT !.block = head + 1]
  <1>14. ApiTypeOK /\ AsksWhenSigned /\ SignedAsBuilt /\ IncludedIsExecuted /\ ExecutedIsIncluded
         /\ BeganBefore /\ SignerStays /\ EncodedSince /\ RefusedForACause
    BY DEF ApiInv
  <1>15. /\ request[p] = "signed" /\ ~Included(push[p].tx)
         /\ included' = included \cup {[tx |-> push[p].tx, block |-> head + 1]}
    BY DEF Executes
  <1>16. /\ signer' = signer /\ head' = head /\ lib' = lib
         /\ generation' = generation /\ forks' = forks
    OBVIOUS
  <1>1. push[p] \in PushRecords /\ head + 1 \in Nat /\ push' = [push EXCEPT ![p] = r]
    <2>1. push \in [Pushes -> PushRecords] /\ head \in Nat
      BY <1>14 DEF ApiTypeOK
    <2>2. push' = [push EXCEPT ![p].block = head + 1]
      BY DEF Executes
    <2> QED BY <2>1, <2>2
  <1>2. /\ r \in PushRecords /\ r.stage = push[p].stage /\ r.tx = push[p].tx /\ r.block = head + 1
        /\ r.encoded = push[p].encoded /\ r.known = push[p].known /\ r.keyType = push[p].keyType
        /\ r.signedBy = push[p].signedBy /\ r.began = push[p].began
    BY <1>1 DEF PushRecords
  <1> HIDE DEF r
  <1>3. push' \in [Pushes -> PushRecords] /\ push'[p] = r
        /\ \A q \in Pushes : q # p => push'[q] = push[q]
    BY <1>1, <1>2, <1>14, <1>15, <1>16 DEF ApiTypeOK
  <1>4. \A q \in Pushes :
                         /\ push'[q].stage = push[q].stage /\ push'[q].tx = push[q].tx
                         /\ push'[q].encoded = push[q].encoded /\ push'[q].known = push[q].known
                         /\ push'[q].keyType = push[q].keyType /\ push'[q].signedBy = push[q].signedBy
                         /\ push'[q].began = push[q].began
                         /\ (q # p => push'[q].block = push[q].block)
    BY <1>2, <1>3
  <1>5. /\ request'[p] = "executed" 
        /\ \A q \in Pushes : q # p => request'[q] = request[q]
        /\ request' \in [Pushes -> {"none", "signed", "misSigned", "executed", "refused"}]
    BY <1>14 DEF Executes, ApiTypeOK
  <1>6. push[p].tx \in Transactions
    BY <1>14, <1>15, <1>16 DEF SignedAsBuilt
  <1>7. ApiTypeOK'
    BY <1>1, <1>3, <1>5, <1>6, <1>14, <1>15, <1>16 DEF ApiTypeOK
  <1>8. BeganBefore' /\ SignerStays' /\ EncodedSince'
    <2>1. BeganBefore'
      BY <1>4, <1>14, <1>16 DEF BeganBefore
    <2>2. SignerStays'
      BY <1>4, <1>14, <1>16 DEF SignerStays
    <2>3. EncodedSince'
      BY <1>4, <1>14, <1>16 DEF EncodedSince
    <2> QED BY <2>1, <2>2, <2>3
  <1>9. AsksWhenSigned'
    BY <1>4, <1>5, <1>14, <1>15, <1>16 DEF AsksWhenSigned
  <1>10. SignedAsBuilt'
    <2>1. \A q \in Pushes : Seconds(push[q].began.head)' = Seconds(push[q].began.head)
      BY <1>4, <1>16 DEF Seconds
    <2> QED BY <1>4, <1>5, <2>1, <1>14, <1>15, <1>16 DEF SignedAsBuilt
  <1>11. IncludedIsExecuted'
    <2> SUFFICES ASSUME NEW i \in included'
                 PROVE  \E q \in Pushes : request'[q] = "executed" /\ push'[q].tx = i.tx
      BY DEF IncludedIsExecuted
    <2>1. CASE i \in included
      BY <2>1, <1>4, <1>5, <1>14, <1>15, <1>16 DEF IncludedIsExecuted
    <2>2. CASE i = [tx |-> push[p].tx, block |-> head + 1]
      BY <2>2, <1>4, <1>5, <1>15
    <2> QED BY <2>1, <2>2, <1>15
  <1>12. ExecutedIsIncluded'
    <2> SUFFICES ASSUME forks = 0, NEW q \in Pushes, request'[q] = "executed"
                 PROVE  /\ [tx |-> push'[q].tx, block |-> push'[q].block] \in included'
                        /\ \A o \in Pushes \ {q} : request'[o] = "executed" => push'[o].tx # push'[q].tx
      BY DEF ExecutedIsIncluded
    <2>1. \A o \in Pushes : o # p /\ request[o] = "executed" =>
              [tx |-> push[o].tx, block |-> push[o].block] \in included /\ push[o].tx # push[p].tx
      BY <1>14, <1>15, <1>16 DEF ExecutedIsIncluded, Included
    <2>2. [tx |-> push'[q].tx, block |-> push'[q].block] \in included'
      BY <1>2, <1>3, <1>5, <1>15, <2>1
    <2>3. ASSUME NEW o \in Pushes \ {q}, request'[o] = "executed"
          PROVE  push'[o].tx # push'[q].tx
      <3>1. CASE o = p
        <4>1. q # p /\ request[q] = "executed"
          BY <3>1, <2>3, <1>5
        <4>2. push[q].tx # push[p].tx
          BY <4>1, <2>1
        <4> QED BY <3>1, <4>2, <1>4
      <3>2. CASE q = p
        <4>1. o # p /\ request[o] = "executed"
          BY <3>2, <2>3, <1>5
        <4>2. push[o].tx # push[p].tx
          BY <4>1, <2>1
        <4> QED BY <3>2, <4>2, <1>4
      <3>3. CASE o # p /\ q # p
        <4>1. request[o] = "executed" /\ request[q] = "executed" /\ forks = 0
          BY <3>3, <2>3, <1>5, <1>16
        <4>2. push[o].tx # push[q].tx
          BY <4>1, <2>3, <1>14 DEF ExecutedIsIncluded
        <4> QED BY <4>2, <1>4, <3>3
      <3> QED BY <3>1, <3>2, <3>3
    <2> QED BY <2>2, <2>3
  <1>13. RefusedForACause'
    <2> SUFFICES ASSUME NEW q \in Pushes, request'[q] = "refused"
                 PROVE  \/ Seconds(head) > Seconds(push[q].began.head) + SecondsAhead
                        \/ generation # push[q].began.generation
                        \/ push[q].signedBy # push[q].began.signer
                        \/ \E o \in Pushes \ {q} : push[o].tx = push[q].tx /\ request'[o] = "executed"
      BY <1>4, <1>16 DEF RefusedForACause, Seconds
    <2> QED BY <1>5, <1>14, <1>15, <1>16 DEF RefusedForACause
  <1> QED BY <1>7, <1>8, <1>9, <1>10, <1>11, <1>12, <1>13 DEF ApiInv

LEMMA RefuseInv ==
    ASSUME ApiInv, NEW p \in Pushes,
           \/ request[p] = "misSigned"
           \/ request[p] = "signed" /\ (Expired(push[p].tx) \/ Included(push[p].tx) \/ ~Decodes(push[p].tx)),
           request' = [request EXCEPT ![p] = "refused"],
           UNCHANGED <<push, included, signer, head, lib, generation, forks>>
    PROVE  ApiInv'
  <1>1. ApiTypeOK /\ AsksWhenSigned /\ SignedAsBuilt /\ IncludedIsExecuted /\ ExecutedIsIncluded
         /\ BeganBefore /\ SignerStays /\ EncodedSince /\ RefusedForACause
    BY DEF ApiInv
  <1>2. /\ push' = push /\ included' = included /\ signer' = signer /\ head' = head /\ lib' = lib
        /\ generation' = generation /\ forks' = forks
    OBVIOUS
  <1>3. /\ request'[p] = "refused" /\ request[p] \in {"signed", "misSigned"}
        /\ \A q \in Pushes : q # p => request'[q] = request[q]
    BY <1>1 DEF ApiTypeOK
  <1>4. ApiTypeOK'
    <2>1. request' \in [Pushes -> {"none", "signed", "misSigned", "executed", "refused"}]
      BY <1>1 DEF ApiTypeOK
    <2> QED BY <1>1, <1>2, <2>1 DEF ApiTypeOK
  <1>5. BeganBefore' /\ SignerStays' /\ EncodedSince'
    BY <1>1, <1>2 DEF BeganBefore, SignerStays, EncodedSince
  <1>6. AsksWhenSigned'
    BY <1>1, <1>2, <1>3 DEF AsksWhenSigned
  <1>7. SignedAsBuilt'
    <2>1. \A q \in Pushes : Seconds(push[q].began.head)' = Seconds(push[q].began.head)
      BY <1>2 DEF Seconds
    <2> QED BY <1>1, <1>2, <1>3, <2>1 DEF SignedAsBuilt
  <1>8. IncludedIsExecuted'
    BY <1>1, <1>2, <1>3 DEF IncludedIsExecuted
  <1>9. ExecutedIsIncluded'
    BY <1>1, <1>2, <1>3 DEF ExecutedIsIncluded
  <1>10. RefusedForACause'
    <2> SUFFICES ASSUME NEW q \in Pushes, request'[q] = "refused"
                 PROVE  \/ Seconds(head) > Seconds(push[q].began.head) + SecondsAhead
                        \/ generation # push[q].began.generation
                        \/ push[q].signedBy # push[q].began.signer
                        \/ \E o \in Pushes \ {q} : push[o].tx = push[q].tx /\ request'[o] = "executed"
      BY <1>2 DEF RefusedForACause, Seconds
    <2>1. CASE q # p
      BY <2>1, <1>1, <1>3 DEF RefusedForACause
    <2>2. CASE q = p
      <3>1. /\ push[p].tx \in Transactions
            /\ push[p].tx.actions = push[p].encoded
            /\ push[p].tx.header.expires >= Seconds(push[p].began.head) + SecondsAhead
            /\ request[p] = "misSigned" => push[p].signedBy # push[p].began.signer
        BY <1>1, <1>3 DEF SignedAsBuilt
      <3>2. /\ push[p] \in PushRecords /\ head \in Nat
        BY <1>1 DEF ApiTypeOK
      <3>3. CASE request[p] = "misSigned"
        BY <2>2, <3>1, <3>3
      <3>4. CASE Expired(push[p].tx)
        <4>1. /\ Seconds(head) \in Int /\ Seconds(push[p].began.head) \in Int
              /\ SecondsAhead \in Int /\ push[p].tx.header.expires \in Int
          <5>1. push[p].began.head \in Nat
            BY <3>2 DEF PushRecords
          <5>2. push[p].tx.header.expires \in Int
            BY <3>1 DEF Transactions
          <5>3. SecondsAhead \in Nat
            BY ApiAssumption
          <5> QED BY <3>2, <5>1, <5>2, <5>3, SecondsAreNumbers
        <4>2. Seconds(head) > push[p].tx.header.expires
          BY <3>4 DEF Expired
        <4>3. Seconds(head) > Seconds(push[p].began.head) + SecondsAhead
          BY <3>1, <4>1, <4>2
        <4> QED BY <2>2, <4>3
      <3>5. CASE request[p] = "signed" /\ Included(push[p].tx)
        <4>1. PICK i \in included : i.tx = push[p].tx
          BY <3>5 DEF Included
        <4>2. PICK o \in Pushes : request[o] = "executed" /\ push[o].tx = i.tx
          BY <1>1 DEF IncludedIsExecuted
        <4>3. o # p
          BY <3>5, <4>2
        <4> QED BY <2>2, <4>1, <4>2, <4>3, <1>3
      <3>6. CASE ~Decodes(push[p].tx)
        <4>1. PICK n \in 1..Len(push[p].encoded) : push[p].encoded[n] # generation
          BY <3>1, <3>6 DEF Decodes
        <4>2. push[p].encoded[n] \in push[p].began.generation..generation
          BY <1>1 DEF EncodedSince
        <4>3. generation \in Nat /\ push[p].began.generation \in Nat
          BY <1>1, <3>2 DEF ApiTypeOK, PushRecords
        <4>4. generation # push[p].began.generation
          BY <4>1, <4>2, <4>3
        <4> QED BY <2>2, <4>4
      <3> QED BY <3>3, <3>4, <3>5, <3>6
    <2> QED BY <2>1, <2>2
  <1> QED BY <1>4, <1>5, <1>6, <1>7, <1>8, <1>9, <1>10 DEF ApiInv

LEMMA ProcessPushInv ==
    ASSUME ApiInv, NEW p \in Pushes, ProcessPush(p),
           UNCHANGED <<signer, head, lib, generation, forks, mishaps>>
    PROVE  ApiInv'
  <1>1. CASE Executes(p)
    <2>1. UNCHANGED <<signer, head, lib, generation, forks>>
      OBVIOUS
    <2> QED BY <1>1, <2>1, ExecuteInv
  <1>2. CASE /\ \/ request[p] = "misSigned"
                \/ /\ request[p] = "signed"
                   /\ Expired(push[p].tx) \/ Included(push[p].tx) \/ ~Decodes(push[p].tx)
             /\ request' = [request EXCEPT ![p] = "refused"]
             /\ UNCHANGED <<included, push>>
    <2>1. UNCHANGED <<push, included, signer, head, lib, generation, forks>>
      BY <1>2
    <2>2. \/ request[p] = "misSigned"
          \/ request[p] = "signed" /\ (Expired(push[p].tx) \/ Included(push[p].tx) \/ ~Decodes(push[p].tx))
      BY <1>2
    <2> QED BY <1>2, <2>1, <2>2, RefuseInv
  <1> QED BY <1>1, <1>2 DEF ProcessPush, Executes

\* A step of the chain that changes neither calls nor requests.
LEMMA ChainGoesOn ==
    ASSUME ApiInv, push' = push, request' = request,
           signer' \in Keys \/ signer' = signer,
           head' \in Nat, lib' \in Nat, head <= head', lib <= lib', lib' < head',
           generation' \in Nat \ {0}, generation <= generation',
           included' \in SUBSET [tx : Transactions, block : Nat],
           \A i \in included' : \E j \in included : i.tx = j.tx,
           forks' \in Nat, forks' = 0 => forks = 0 /\ included' = included
    PROVE  ApiInv'
  <1>1. ApiTypeOK /\ AsksWhenSigned /\ SignedAsBuilt /\ IncludedIsExecuted /\ ExecutedIsIncluded
         /\ BeganBefore /\ SignerStays /\ EncodedSince /\ RefusedForACause
    BY DEF ApiInv
  <1>2. /\ head \in Nat /\ lib \in Nat /\ generation \in Nat /\ signer \in Signers
        /\ push \in [Pushes -> PushRecords]
        /\ request \in [Pushes -> {"none", "signed", "misSigned", "executed", "refused"}]
    BY <1>1 DEF ApiTypeOK
  <1>3. \A p \in Pushes : /\ push[p].began.generation \in Nat /\ push[p].began.head \in Nat
                         /\ push[p].known \in Nat /\ push[p].block \in Nat
                         /\ push[p].encoded \in Seq(Nat)
    BY <1>2 DEF PushRecords
  <1>4. ApiTypeOK'
    <2>1. signer' \in Signers
      BY <1>2 DEF Signers
    <2> QED BY <1>2, <2>1 DEF ApiTypeOK
  <1>5. BeganBefore'
    <2> SUFFICES ASSUME NEW p \in Pushes, push[p].stage # "idle"
                 PROVE  push[p].began.generation <= generation' /\ push[p].began.head <= head'
      BY DEF BeganBefore
    <2>1. push[p].began.generation <= generation /\ push[p].began.head <= head
      BY <1>1 DEF BeganBefore
    <2>2. push[p].began.generation \in Nat /\ push[p].began.head \in Nat
      BY <1>3
    <2> QED BY <2>1, <2>2, <1>2
  <1>6. SignerStays'
    BY <1>1, ApiAssumption DEF SignerStays
  <1>7. EncodedSince'
    <2>1. \A a, b \in Nat : b \in a..generation => b \in a..generation'
      BY <1>2
    <2> SUFFICES ASSUME NEW p \in Pushes
                 PROVE  /\ push[p].known # 0 => push[p].known \in push[p].began.generation..generation'
                        /\ \A n \in 1..Len(push[p].encoded) :
                               /\ push[p].encoded[n] \in push[p].began.generation..generation'
                               /\ Forms[p][n] = "string" =>
                                      push[p].known # 0 /\ push[p].encoded[n] = push[p].known
      BY DEF EncodedSince
    <2>2. push[p].known # 0 => push[p].known \in push[p].began.generation..generation'
      BY <1>1, <1>3, <2>1 DEF EncodedSince
    <2>3. ASSUME NEW n \in 1..Len(push[p].encoded)
          PROVE  /\ push[p].encoded[n] \in push[p].began.generation..generation'
                 /\ Forms[p][n] = "string" =>
                        push[p].known # 0 /\ push[p].encoded[n] = push[p].known
      <3>1. /\ push[p].encoded[n] \in push[p].began.generation..generation
            /\ Forms[p][n] = "string" =>
                        push[p].known # 0 /\ push[p].encoded[n] = push[p].known
        BY <1>1 DEF EncodedSince
      <3>2. push[p].encoded[n] \in Nat
        <4>1. push[p].encoded \in Seq(Nat)
          BY <1>3
        <4> DEFINE encoded == push[p].encoded
        <4>2. encoded \in Seq(Nat) /\ n \in 1..Len(encoded)
          BY <4>1
        <4> HIDE DEF encoded
        <4>3. encoded[n] \in Nat
          BY <4>2
        <4> QED BY <4>3 DEF encoded
      <3> QED BY <3>1, <3>2, <2>1, <1>3
    <2> QED BY <2>2, <2>3
  <1>8. AsksWhenSigned'
    <2>1. \A p \in Pushes : push[p].block <= lib => push[p].block <= lib'
      BY <1>2, <1>3
    <2> QED BY <1>1, <2>1 DEF AsksWhenSigned
  <1>9. SignedAsBuilt'
    <2>1. \A q \in Pushes : Seconds(push[q].began.head)' = Seconds(push[q].began.head)
      BY DEF Seconds
    <2> QED BY <1>1, <2>1 DEF SignedAsBuilt
  <1>10. IncludedIsExecuted'
    <2> SUFFICES ASSUME NEW i \in included'
                 PROVE  \E p \in Pushes : request[p] = "executed" /\ push[p].tx = i.tx
      BY DEF IncludedIsExecuted
    <2>1. PICK j \in included : i.tx = j.tx
      OBVIOUS
    <2> QED BY <2>1, <1>1 DEF IncludedIsExecuted
  <1>11. ExecutedIsIncluded'
    BY <1>1 DEF ExecutedIsIncluded
  <1>12. RefusedForACause'
    <2> SUFFICES ASSUME NEW q \in Pushes, request[q] = "refused"
                 PROVE  \/ Seconds(head') > Seconds(push[q].began.head) + SecondsAhead
                        \/ generation' # push[q].began.generation
                        \/ push[q].signedBy # push[q].began.signer
                        \/ \E o \in Pushes \ {q} : push[o].tx = push[q].tx /\ request[o] = "executed"
      BY DEF RefusedForACause, Seconds
    <2>1. CASE Seconds(head) > Seconds(push[q].began.head) + SecondsAhead
      <3>1. /\ Seconds(head) \in Nat /\ Seconds(head') \in Nat /\ Seconds(head) <= Seconds(head')
        BY <1>2, SecondsGrow
      <3>2. push[q].began.head \in Nat
        BY <1>3
      <3>3. Seconds(push[q].began.head) \in Nat
        BY <3>2, SecondsAreNumbers
      <3>4. SecondsAhead \in Nat
        BY ApiAssumption
      <3>5. Seconds(head') > Seconds(push[q].began.head) + SecondsAhead
        BY <2>1, <3>1, <3>3, <3>4
      <3> QED BY <3>5
    <2>2. CASE generation # push[q].began.generation
      <3>1. push[q].stage # "idle"
        BY <1>1 DEF AsksWhenSigned
      <3>2. push[q].began.generation <= generation /\ push[q].began.generation \in Nat
        BY <3>1, <1>1, <1>3 DEF BeganBefore
      <3>3. generation' # push[q].began.generation
        BY <2>2, <3>2, <1>2
      <3> QED BY <3>3
    <2> QED BY <2>1, <2>2, <1>1 DEF RefusedForACause
  <1> QED BY <1>4, <1>5, <1>6, <1>7, <1>8, <1>9, <1>10, <1>11, <1>12 DEF ApiInv

LEMMA ProduceBlockInv == ApiInv /\ ProduceBlock => ApiInv'
  <1> SUFFICES ASSUME ApiInv, ProduceBlock PROVE ApiInv'
    OBVIOUS
  <1>1. /\ head \in Nat /\ lib \in Nat /\ lib < head /\ generation \in Nat \ {0} /\ forks \in Nat
        /\ included \in SUBSET [tx : Transactions, block : Nat]
    BY DEF ApiInv, ApiTypeOK
  <1>2. /\ push' = push /\ request' = request /\ included' = included /\ generation' = generation
        /\ signer' = signer /\ forks' = forks
        /\ head' = head + 1 /\ lib' \in {lib, head}
    BY DEF ProduceBlock
  <1>3. /\ head' \in Nat /\ lib' \in Nat /\ head <= head' /\ lib <= lib' /\ lib' < head'
        /\ generation' \in Nat \ {0} /\ generation <= generation'
    BY <1>1, <1>2
  <1>4. \A i \in included' : \E j \in included : i.tx = j.tx
    BY <1>2
  <1>5. included' \in SUBSET [tx : Transactions, block : Nat] /\ forks' \in Nat
    BY <1>1, <1>2
  <1> QED BY <1>2, <1>3, <1>4, <1>5, ChainGoesOn

LEMMA MishapInv == ApiInv /\ Mishap => ApiInv'
  <1> SUFFICES ASSUME ApiInv, Mishap PROVE ApiInv'
    OBVIOUS
  <1>1. /\ head \in Nat /\ lib \in Nat /\ lib < head /\ generation \in Nat \ {0} /\ forks \in Nat
        /\ included \in SUBSET [tx : Transactions, block : Nat]
    BY DEF ApiInv, ApiTypeOK
  <1>2. head <= head /\ lib <= lib /\ generation <= generation
    BY <1>1
  <1>3. ASSUME NEW b \in 1..MaxHead + 1, SwitchBranch(b) PROVE ApiInv'
    <2>1. /\ push' = push /\ request' = request /\ head' = head /\ lib' = lib
          /\ generation' = generation /\ signer' = signer /\ forks' = forks + 1
      BY <1>3 DEF SwitchBranch
    <2> DEFINE undone == {i \in included : i.block >= b}
               moved(i) == [i EXCEPT !.block = IF @ = head + 1 THEN @ ELSE @ + 1]
    <2>2. PICK again \in SUBSET undone :
              included' = (included \ undone) \cup {moved(i) : i \in again}
      BY <1>3 DEF SwitchBranch
    <2>3. \A i \in included : moved(i) \in [tx : Transactions, block : Nat] /\ moved(i).tx = i.tx
      BY <1>1
    <2> HIDE DEF moved
    <2>4. included' \in SUBSET [tx : Transactions, block : Nat]
      BY <1>1, <2>2, <2>3
    <2>5. \A i \in included' : \E j \in included : i.tx = j.tx
      <3> SUFFICES ASSUME NEW i \in included' PROVE \E j \in included : i.tx = j.tx
        OBVIOUS
      <3>1. CASE i \in included
        BY <3>1
      <3>2. CASE \E j \in again : i = moved(j)
        <4>1. PICK j \in again : i = moved(j)
          BY <3>2
        <4>2. j \in included
          OBVIOUS
        <4> QED BY <4>1, <4>2, <2>3
      <3> QED BY <3>1, <3>2, <2>2
    <2>6. forks' \in Nat /\ forks' # 0
      BY <1>1, <2>1
    <2>7. /\ head' \in Nat /\ lib' \in Nat /\ head <= head' /\ lib <= lib' /\ lib' < head'
          /\ generation' \in Nat \ {0} /\ generation <= generation'
      BY <1>1, <1>2, <2>1
    <2> HIDE DEF undone
    <2> QED BY <2>1, <2>4, <2>5, <2>6, <2>7, ChainGoesOn
  <1>4. CASE UpgradeContract
    <2>1. /\ push' = push /\ request' = request /\ head' = head /\ lib' = lib
          /\ generation' = generation + 1 /\ signer' = signer /\ forks' = forks
          /\ included' = included
      BY <1>4 DEF UpgradeContract
    <2>2. /\ head' \in Nat /\ lib' \in Nat /\ head <= head' /\ lib <= lib' /\ lib' < head'
          /\ generation' \in Nat \ {0} /\ generation <= generation'
      BY <1>1, <1>2, <2>1
    <2>3. included' \in SUBSET [tx : Transactions, block : Nat] /\ forks' \in Nat
      BY <1>1, <2>1
    <2>4. \A i \in included' : \E j \in included : i.tx = j.tx
      BY <2>1
    <2> QED BY <2>1, <2>2, <2>3, <2>4, ChainGoesOn
  <1>5. ASSUME NEW s \in Keys \ {signer}, SetSigner(s) PROVE ApiInv'
    <2>1. /\ push' = push /\ request' = request /\ head' = head /\ lib' = lib
          /\ generation' = generation /\ signer' \in Keys /\ forks' = forks
          /\ included' = included
      BY <1>5 DEF SetSigner, node
    <2>2. /\ head' \in Nat /\ lib' \in Nat /\ head <= head' /\ lib <= lib' /\ lib' < head'
          /\ generation' \in Nat \ {0} /\ generation <= generation'
      BY <1>1, <1>2, <2>1
    <2>3. included' \in SUBSET [tx : Transactions, block : Nat] /\ forks' \in Nat
      BY <1>1, <2>1
    <2>4. \A i \in included' : \E j \in included : i.tx = j.tx
      BY <2>1
    <2> QED BY <2>1, <2>2, <2>3, <2>4, ChainGoesOn
  <1> QED BY <1>3, <1>4, <1>5 DEF Mishap

LEMMA ApiStepInv == ApiInv /\ [ApiNext]_api => ApiInv'
  <1> SUFFICES ASSUME ApiInv, [ApiNext]_api PROVE ApiInv'
    OBVIOUS
  <1>1. CASE UNCHANGED api
    <2>1. /\ push' = push /\ request' = request /\ included' = included /\ generation' = generation
          /\ signer' = signer /\ forks' = forks /\ head' = head /\ lib' = lib
      BY <1>1 DEF api, node
    <2>2. /\ head \in Nat /\ lib \in Nat /\ lib < head /\ generation \in Nat \ {0} /\ forks \in Nat
          /\ included \in SUBSET [tx : Transactions, block : Nat]
      BY DEF ApiInv, ApiTypeOK
    <2>3. /\ head' \in Nat /\ lib' \in Nat /\ head <= head' /\ lib <= lib' /\ lib' < head'
          /\ generation' \in Nat \ {0} /\ generation <= generation'
      BY <2>1, <2>2
    <2>4. included' \in SUBSET [tx : Transactions, block : Nat] /\ forks' \in Nat
      BY <2>1, <2>2
    <2>5. \A i \in included' : \E j \in included : i.tx = j.tx
      BY <2>1
    <2> QED BY <2>1, <2>3, <2>4, <2>5, ChainGoesOn
  <1>2. ASSUME NEW p \in Pushes, PushTransaction(p) PROVE ApiInv'
    BY <1>2, PushTransactionInv
  <1>3. ASSUME NEW p \in Pushes, AnyToAction(p) PROVE ApiInv'
    BY <1>3, AnyToActionInv
  <1>4. ASSUME NEW p \in Pushes, GetInfoAndSign(p) PROVE ApiInv'
    BY <1>4, GetInfoAndSignInv
  <1>5. ASSUME NEW p \in Pushes, ProcessPush(p),
               UNCHANGED <<signer, head, lib, generation, forks, mishaps>>
        PROVE  ApiInv'
    BY <1>5, ProcessPushInv
  <1>6. ASSUME NEW p \in Pushes, ReceivePushed(p) PROVE ApiInv'
    BY <1>6, ReceivePushedInv
  <1>7. ASSUME NEW p \in Pushes, AwaitBlock(p) PROVE ApiInv'
    BY <1>7, AwaitBlockInv
  <1>8. ASSUME NEW p \in Pushes, Fail(p) PROVE ApiInv'
    BY <1>8, FailInv
  <1> QED BY <1>1, <1>2, <1>3, <1>4, <1>5, <1>6, <1>7, <1>8, ProduceBlockInv, MishapInv DEF ApiNext

LEMMA ApiInvIsAnswersAreTrue == ApiInv => AnswersAreTrue
  <1> SUFFICES ASSUME ApiInv PROVE AnswersAreTrue
    OBVIOUS
  <1>1. ReturnedIsExecuted
    BY DEF ApiInv, AsksWhenSigned, ExecutedIsIncluded, ReturnedIsExecuted
  <1>2. EncodedAlike
    BY DEF ApiInv, EncodedSince, EncodedAlike
  <1> QED BY <1>1, <1>2 DEF AnswersAreTrue, ApiInv

(***************************************************************************)
(* For any calls, forms, signers and changes of branch, contract and       *)
(* signer: pushTransaction returns what it has had executed, is refused    *)
(* for a cause, and encodes alike what it has encoded for one account.     *)
(***************************************************************************)
THEOREM AnswersAreAlwaysTrue == ApiSpec => []AnswersAreTrue
  <1> QED BY ApiInitInv, ApiStepInv, ApiInvIsAnswersAreTrue, PTL DEF ApiSpec

---------------------------------------------------------------------------
(* A wallet's operations on an outpost: the inductive invariant.           *)

Receipts == [id : Int, amount : Int, readyAt : Int, mine : BOOLEAN]

Chains ==
    [time : Int, native : Int, liquid : Int, allowance : Int,
     tokenPaused : BOOLEAN, poolPaused : BOOLEAN, claimPaused : BOOLEAN,
     payout : Int, receipts : SUBSET Receipts, nextReceiptId : Int, approved : BOOLEAN, slots : Int]

Fields ==
    {"time", "native", "liquid", "allowance", "tokenPaused", "poolPaused", "claimPaused",
     "payout", "receipts", "nextReceiptId", "approved", "slots"}

Seen == Int \cup BOOLEAN \cup SUBSET Receipts

OpNames == {"deposit", "syndicate", "request", "claim", "approve", "commit"}

Seens == UNION {[D -> Seen] : D \in SUBSET Fields}

CallRecords ==
    [op : OpNames, arg : Int, step : {"reading", "building", "signing", "waiting", "done"},
     block : Chains, seen : Seens, receipt : Int, changed : BOOLEAN,
     result : {"none", "thrown", "refused", "succeeded", "reverted", "expired"}]

Entries == [call : WalletCalls, tx : [op : OpNames \cup {"approval"}, arg : Int, receipt : Int]]

OutpostTypeOK ==
    /\ deployment \in Deployments
    /\ chain \in Chains
    /\ calls \in [WalletCalls -> CallRecords \cup {NotCalled}]
    /\ mempool \in Seq(Entries)

\* A call waits for one transaction, its own.
OneTransactionEach ==
    /\ \A k \in DOMAIN mempool :
        LET call == calls[mempool[k].call]
        IN  call.step = "waiting" /\ mempool[k].tx = FirstTransaction(call)
    /\ \A j, k \in DOMAIN mempool : mempool[j].call = mempool[k].call => j = k

Receipt(call, receipts) == {r \in receipts : r.id = call.arg}

\* What a call has read is what the block had that it started with.
SeenRight(call, c) ==
    /\ \A f \in DOMAIN call.seen :
           Pinned(call.op) \/ (~call.changed /\ f \notin {"time", "receipts", "approved"}) =>
               call.seen[f] = call.block[f]
    /\ "receipts" \in DOMAIN call.seen /\ ~call.changed =>
           Receipt(call, call.seen.receipts) = Receipt(call, call.block.receipts)
    /\ "time" \in DOMAIN call.seen => call.seen.time \in call.block.time..c.time
    /\ "approved" \in DOMAIN call.seen /\ ~call.changed /\ call.op = "commit" /\ call.seen.approved => c.approved

\* Only what concerns the amounts: the rest is about the chain.
ArgumentRight(call) == call.op \in {"deposit", "syndicate", "request", "approve"} => call.arg \in Nat \ {0}

SameAsBlock(call, c) ==
    /\ call.block.time <= c.time
    /\ ~call.changed /\ call.op # "commit" => Relevant(call, c) = Relevant(call, call.block)

SlotsLeft(call, c) == ~call.changed /\ call.op = "commit" => c.slots > 0

AnyTransaction(call) == [op |-> call.op, arg |-> call.arg, receipt |-> call.block.nextReceiptId]

\* Unless something relevant changed, what is to be signed succeeds.
CallRight(call, c) ==
    /\ ArgumentRight(call)
    /\ call.step = "reading" =>
           DOMAIN call.seen \subseteq Reads(call.op) /\ SeenRight(call, c) /\ SameAsBlock(call, c) /\ SlotsLeft(call, c)
    /\ call.step = "building" =>
           /\ call.op = "request" /\ SameAsBlock(call, c)
           /\ ~call.changed => Requests(call.arg, c)
    /\ call.step \in {"signing", "waiting"} =>
           SlotsLeft(call, c) /\ (~call.changed => Succeeds(FirstTransaction(call), c))
    /\ call.step = "done" /\ ~call.changed =>
           /\ call.result # "reverted"
           /\ call.result = "thrown" => ~Succeeds(AnyTransaction(call), call.block)
    /\ call.step # "reading" /\ Pinned(call.op) => \A f \in Reads(call.op) : call.seen[f] = call.block[f]

CallsRight == \A i \in WalletCalls : calls[i].step # "idle" => CallRight(calls[i], chain)

OutpostInv == OutpostTypeOK /\ OneTransactionEach /\ CallsRight

---------------------------------------------------------------------------
(* What a call may rely on.                                                *)

\* A unit's worth of liquid tokens is credited, and only that.
LEMMA WholeUnits ==
    ASSUME NEW a \in Nat, NEW k \in Nat, NEW s \in Nat \ {0}
    PROVE  a >= k * s <=> a \div s >= k
  <1> DEFINE q == a \div s
             r == a % s
  <1>1. q \in Nat /\ r \in 0..s - 1 /\ a = s * q + r
    OBVIOUS
  <1> HIDE DEF q, r
  <1>2. ASSUME q >= k PROVE a >= k * s
    <2>1. s * q >= s * k
      BY <1>1, <1>2
    <2> QED BY <2>1, <1>1
  <1>3. ASSUME q < k PROVE a < k * s
    <2>1. q + 1 <= k
      BY <1>1, <1>3
    <2>2. s * (q + 1) <= s * k
      BY <1>1, <2>1
    <2>3. s * (q + 1) = s * q + s
      BY <1>1
    <2> QED BY <2>2, <2>3, <1>1
  <1>4. (a \div s >= k) <=> (q >= k)
    BY DEF q
  <1> QED BY <1>1, <1>2, <1>3, <1>4

\* The contracts' floor is the client's.
LEMMA LeastSyndication ==
    ASSUME NEW a \in Nat \ {0}
    PROVE  MinimumSyndication <= a <=>
               (Ethereum => a \div CreditScale > 0 /\ a \div CreditScale >= MinCredited)
  <1> DEFINE k == IF MinCredited = 0 THEN 1 ELSE MinCredited
  <1>1. k \in Nat \ {0} /\ CreditScale \in Nat \ {0} /\ MinCredited \in Nat
    BY OutpostWalletAssumption
  <1>2. a >= k * CreditScale <=> a \div CreditScale >= k
    BY <1>1, WholeUnits
  <1>3. a \div CreditScale \in Nat
    BY <1>1
  <1>4. a \div CreditScale >= k <=> a \div CreditScale > 0 /\ a \div CreditScale >= MinCredited
    BY <1>1, <1>3
  <1>5. CASE Ethereum
    <2>1. MinimumSyndication = k * CreditScale
      BY <1>5 DEF MinimumSyndication
    <2>2. k * CreditScale \in Nat
      BY <1>1
    <2>3. k * CreditScale <= a <=> a >= k * CreditScale
      BY <2>2
    <2> HIDE DEF k
    <2> QED BY <1>2, <1>4, <1>5, <2>1, <2>3
  <1>6. CASE ~Ethereum
    BY <1>6 DEF MinimumSyndication
  <1> QED BY <1>5, <1>6

LEMMA ApprovalSucceeds ==
    ASSUME NEW tx, NEW c, tx.op = "approval" PROVE Succeeds(tx, c)
  BY DEF Succeeds

\* Whether a transaction succeeds depends on what is relevant, and later is better.
LEMMA SuccessKept ==
    ASSUME NEW call \in CallRecords, NEW c \in Chains, NEW d \in Chains, NEW tx,
           tx.op = call.op, tx.arg = call.arg, tx.receipt = call.receipt \/ deployment # "solanaLegacy",
           Relevant(call, d) = Relevant(call, c), c.time <= d.time, Succeeds(tx, c)
    PROVE  Succeeds(tx, d)
  <1>0. call.op \in OpNames
    BY DEF CallRecords
  <1>1. CASE call.op = "deposit"
    BY <1>1 DEF Relevant, Succeeds
  <1>2. CASE call.op = "syndicate"
    BY <1>2 DEF Relevant, Succeeds
  <1>3. CASE call.op = "request"
    <2>1. /\ d.tokenPaused = c.tokenPaused /\ d.liquid = c.liquid
          /\ (deployment = "solanaLegacy" => d.nextReceiptId = call.receipt)
                 = (deployment = "solanaLegacy" => c.nextReceiptId = call.receipt)
      BY <1>3 DEF Relevant
    <2> QED BY <2>1, <1>3 DEF Succeeds
  <1>4. CASE call.op = "claim"
    <2>1. /\ d.claimPaused = c.claimPaused /\ d.payout = c.payout
          /\ {r \in d.receipts : r.id = call.arg} = {r \in c.receipts : r.id = call.arg}
      BY <1>4 DEF Relevant
    <2>2. PICK r \in c.receipts : /\ r.id = call.arg /\ r.mine /\ c.time >= r.readyAt
                                  /\ deployment # "ethereumV2" => ~c.claimPaused
                                  /\ Ethereum => c.payout >= r.amount
      BY <1>4 DEF Succeeds
    <2>3. r \in d.receipts
      BY <2>1, <2>2
    <2>4. d.time >= r.readyAt
      BY <2>2 DEF Chains, Receipts
    <2> QED BY <1>4, <2>1, <2>2, <2>3, <2>4 DEF Succeeds
  <1>5. CASE call.op = "commit"
    BY <1>5 DEF Relevant, Succeeds
  <1>6. CASE call.op = "approve"
    BY <1>6 DEF Succeeds
  <1> QED BY <1>0, <1>1, <1>2, <1>3, <1>4, <1>5, <1>6 DEF OpNames

\* The chain goes on; the calls it concerns are marked.
LEMMA RightLater ==
    ASSUME NEW call \in CallRecords, NEW c \in Chains, NEW d \in Chains, c.time <= d.time,
           CallRight(call, c),
           \/ ~InProgress(call)
           \/ call.changed
           \/ Relevant(call, d) = Relevant(call, c)
           \/ call.op = "commit" /\ d = [c EXCEPT !.approved = TRUE]
    PROVE  CallRight(call, d)
  <1> DEFINE Same == Relevant(call, d) = Relevant(call, c)
             Approved == call.op = "commit" /\ d = [c EXCEPT !.approved = TRUE]
  <1>0. /\ call.step \in {"reading", "building", "signing", "waiting", "done"} /\ call.changed \in BOOLEAN
        /\ call.op \in OpNames /\ call.block \in Chains /\ c.time \in Int /\ d.time \in Int /\ call.block.time \in Int
    BY DEF CallRecords, Chains
  <1>1. ASSUME InProgress(call), ~call.changed
        PROVE  Same \/ Approved
    BY <1>1
  <1>2. ASSUME SlotsLeft(call, c), InProgress(call) PROVE SlotsLeft(call, d)
    <2> SUFFICES ASSUME ~call.changed, call.op = "commit" PROVE d.slots > 0
      BY DEF SlotsLeft
    <2>1. c.slots > 0
      BY <1>2 DEF SlotsLeft
    <2>2. CASE Same
      BY <2>1, <2>2 DEF Relevant
    <2>3. CASE Approved
      BY <2>1, <2>3 DEF Chains
    <2> QED BY <2>2, <2>3, <1>1, <1>2
  <1>3. ASSUME SameAsBlock(call, c), InProgress(call) PROVE SameAsBlock(call, d)
    <2>1. call.block.time <= d.time
      BY <1>0, <1>3 DEF SameAsBlock
    <2>2. ASSUME ~call.changed, call.op # "commit" PROVE Relevant(call, d) = Relevant(call, call.block)
      BY <2>2, <1>1, <1>3 DEF SameAsBlock
    <2> QED BY <2>1, <2>2 DEF SameAsBlock
  <1>4. ASSUME SeenRight(call, c), InProgress(call), DOMAIN call.seen \subseteq Reads(call.op) PROVE SeenRight(call, d)
    <2>1. ASSUME "time" \in DOMAIN call.seen PROVE call.seen.time \in call.block.time..d.time
      BY <2>1, <1>0, <1>4 DEF SeenRight
    <2>2. ASSUME "approved" \in DOMAIN call.seen, ~call.changed, call.op = "commit", call.seen.approved
          PROVE  d.approved
      <3>1. c.approved
        BY <2>2, <1>4 DEF SeenRight
      <3>2. CASE Same
        BY <2>2, <3>1, <3>2 DEF Relevant
      <3>3. CASE Approved
        BY <3>3 DEF Chains
      <3> QED BY <3>2, <3>3, <1>1, <1>4, <2>2
    <2> QED BY <2>1, <2>2, <1>4 DEF SeenRight
  <1>5. ASSUME call.step = "reading"
        PROVE  /\ DOMAIN call.seen \subseteq Reads(call.op) /\ SeenRight(call, d)
               /\ SameAsBlock(call, d) /\ SlotsLeft(call, d)
    <2>1. InProgress(call)
      BY <1>5 DEF InProgress
    <2>2. /\ DOMAIN call.seen \subseteq Reads(call.op) /\ SeenRight(call, c)
          /\ SameAsBlock(call, c) /\ SlotsLeft(call, c)
      BY <1>5 DEF CallRight
    <2> QED BY <2>1, <2>2, <1>2, <1>3, <1>4
  <1>6. ASSUME call.step = "building"
        PROVE  /\ call.op = "request" /\ SameAsBlock(call, d)
               /\ ~call.changed => Requests(call.arg, d)
    <2>1. InProgress(call)
      BY <1>6 DEF InProgress
    <2>2. /\ call.op = "request" /\ SameAsBlock(call, c)
          /\ ~call.changed => Requests(call.arg, c)
      BY <1>6 DEF CallRight
    <2>3. ASSUME ~call.changed PROVE Requests(call.arg, d)
      <3>1. Same
        BY <2>1, <2>2, <2>3, <1>1
      <3>2. d.tokenPaused = c.tokenPaused /\ d.liquid = c.liquid
        BY <3>1, <2>2 DEF Relevant
      <3> QED BY <3>2, <2>2, <2>3 DEF Requests
    <2> QED BY <2>1, <2>2, <2>3, <1>3
  <1>7. ASSUME call.step \in {"signing", "waiting"}
        PROVE  SlotsLeft(call, d) /\ (~call.changed => Succeeds(FirstTransaction(call), d))
    <2>1. InProgress(call)
      BY <1>7 DEF InProgress
    <2>2. SlotsLeft(call, c) /\ (~call.changed => Succeeds(FirstTransaction(call), c))
      BY <1>7 DEF CallRight
    <2>3. ASSUME ~call.changed PROVE Succeeds(FirstTransaction(call), d)
      <3> DEFINE tx == FirstTransaction(call)
      <3>1. /\ tx.arg = call.arg /\ tx.receipt = call.receipt
            /\ tx.op = IF call.op = "commit" /\ ~call.seen.approved THEN "approval" ELSE call.op
        BY DEF FirstTransaction
      <3> HIDE DEF tx
      <3>2. CASE tx.op = "approval"
        BY <3>2, ApprovalSucceeds DEF tx
      <3>3. CASE tx.op = call.op /\ Same
        BY <3>1, <3>3, <2>2, <2>3, SuccessKept DEF tx
      <3>4. CASE tx.op = "commit" /\ Approved
        <4>1. c.slots > 0
          BY <2>2, <2>3, <3>4 DEF SlotsLeft
        <4>2. d.approved /\ d.slots = c.slots
          BY <3>4 DEF Chains
        <4> QED BY <4>1, <4>2, <3>4 DEF Succeeds, tx
      <3> QED BY <3>1, <3>2, <3>3, <3>4, <2>1, <2>3, <1>1 DEF tx
    <2> QED BY <2>1, <2>2, <2>3, <1>2
  <1> QED BY <1>0, <1>5, <1>6, <1>7 DEF CallRight

\* A call that is marked has little to answer for.
LEMMA MarkedIsRight ==
    ASSUME NEW call \in CallRecords, NEW c \in Chains, NEW d \in Chains, c.time <= d.time, CallRight(call, c)
    PROVE  CallRight([call EXCEPT !.changed = TRUE], d)
  <1> DEFINE m == [call EXCEPT !.changed = TRUE]
  <1>1. /\ m \in CallRecords /\ m.changed = TRUE /\ m.step = call.step /\ m.op = call.op /\ m.arg = call.arg
        /\ m.seen = call.seen /\ m.block = call.block /\ m.receipt = call.receipt /\ m.result = call.result
    BY DEF CallRecords
  <1>2. c.time \in Int /\ d.time \in Int /\ call.block.time \in Int
    BY DEF CallRecords, Chains
  <1> HIDE DEF m
  <1>3. ASSUME SeenRight(call, c) PROVE SeenRight(m, d)
    BY <1>1, <1>2, <1>3 DEF SeenRight
  <1>4. ASSUME SameAsBlock(call, c) PROVE SameAsBlock(m, d)
    BY <1>1, <1>2, <1>4 DEF SameAsBlock
  <1>5. SlotsLeft(m, d)
    BY <1>1 DEF SlotsLeft
  <1>6. CallRight(m, d)
    BY <1>1, <1>3, <1>4, <1>5 DEF CallRight, ArgumentRight
  <1> QED BY <1>6 DEF m

\* What the chain becomes leaves every call right.
LEMMA BecomesRight ==
    ASSUME chain \in Chains, NEW c \in Chains, chain.time <= c.time,
           NEW others \in [WalletCalls -> CallRecords \cup {NotCalled}],
           \A i \in WalletCalls : others[i].step # "idle" =>
               \/ CallRight(others[i], chain)
               \/ CallRight(others[i], c) /\ others[i].op = "commit" /\ c = [chain EXCEPT !.approved = TRUE],
           Becomes(c, others)
    PROVE  /\ chain' = c
           /\ calls' \in [WalletCalls -> CallRecords \cup {NotCalled}]
           /\ \A i \in WalletCalls : calls'[i].step # "idle" => CallRight(calls'[i], c)
           /\ \A i \in WalletCalls :
                  /\ calls'[i].step = others[i].step
                  /\ others[i].step # "idle" => FirstTransaction(calls'[i]) = FirstTransaction(others[i])
  <1> DEFINE Marked(i) ==
                 /\ InProgress(others[i]) /\ Relevant(others[i], c) # Relevant(others[i], chain)
                 /\ ~(others[i].op = "commit" /\ c = [chain EXCEPT !.approved = TRUE])
  <1>1. /\ chain' = c
        /\ calls' = [i \in WalletCalls |->
                        IF Marked(i) THEN [others[i] EXCEPT !.changed = TRUE] ELSE others[i]]
    BY DEF Becomes
  <1>2. ASSUME NEW i \in WalletCalls
        PROVE  /\ calls'[i] \in CallRecords \cup {NotCalled}
               /\ calls'[i].step = others[i].step
               /\ others[i].step # "idle" => FirstTransaction(calls'[i]) = FirstTransaction(others[i])
               /\ calls'[i].step # "idle" => CallRight(calls'[i], c)
    <2>1. CASE others[i] = NotCalled
      <3>1. ~InProgress(others[i]) /\ others[i].step = "idle"
        BY <2>1 DEF InProgress, NotCalled
      <3>2. calls'[i] = others[i]
        BY <3>1, <1>1
      <3> QED BY <3>1, <3>2, <2>1
    <2>2. CASE others[i] \in CallRecords
      <3>1. others[i].step # "idle"
        BY <2>2 DEF CallRecords
      <3>2. CASE Marked(i)
        <4>1. calls'[i] = [others[i] EXCEPT !.changed = TRUE]
          BY <3>2, <1>1
        <4>2. /\ calls'[i] \in CallRecords /\ calls'[i].step = others[i].step /\ calls'[i].op = others[i].op
              /\ calls'[i].arg = others[i].arg /\ calls'[i].receipt = others[i].receipt
              /\ calls'[i].seen = others[i].seen
          BY <4>1, <2>2 DEF CallRecords
        <4>3. CallRight(others[i], chain)
          BY <3>1, <3>2
        <4>4. CallRight(calls'[i], c)
          BY <4>1, <4>3, <2>2, MarkedIsRight
        <4> QED BY <4>2, <4>4 DEF FirstTransaction
      <3>3. CASE ~Marked(i)
        <4>1. calls'[i] = others[i]
          BY <3>3, <1>1
        <4>2. others[i].changed \in BOOLEAN
          BY <2>2 DEF CallRecords
        <4>3. CallRight(others[i], c)
          <5>1. CASE CallRight(others[i], chain)
            <6>1. \/ ~InProgress(others[i])
                  \/ Relevant(others[i], c) = Relevant(others[i], chain)
                  \/ others[i].op = "commit" /\ c = [chain EXCEPT !.approved = TRUE]
              BY <3>3
            <6> QED BY <6>1, <5>1, <2>2, RightLater
          <5> QED BY <5>1, <3>1
        <4> QED BY <4>1, <4>3, <2>2
      <3> QED BY <3>2, <3>3
    <2> QED BY <2>1, <2>2
  <1>3. calls' \in [WalletCalls -> CallRecords \cup {NotCalled}]
    BY <1>1, <1>2
  <1> QED BY <1>1, <1>2, <1>3

---------------------------------------------------------------------------
(* The steps of a call.                                                    *)

CallsTypes == [WalletCalls -> CallRecords \cup {NotCalled}]

LEMMA BegunIsRecord ==
    ASSUME OutpostTypeOK, NEW i \in WalletCalls, calls[i].step # "idle"
    PROVE  calls[i] \in CallRecords
  BY DEF OutpostTypeOK, NotCalled

\* A call's own step: the chain and the other calls stay as they are.
LEMMA OwnStep ==
    ASSUME OutpostInv, NEW i \in WalletCalls, NEW call \in CallRecords,
           calls' = [calls EXCEPT ![i] = call], CallRight(call, chain),
           chain' = chain, deployment' = deployment
    PROVE  /\ calls' \in CallsTypes
           /\ \A j \in WalletCalls : calls'[j].step # "idle" => CallRight(calls'[j], chain')
           /\ calls'[i] = call /\ \A j \in WalletCalls \ {i} : calls'[j] = calls[j]
  <1>1. calls \in CallsTypes /\ \A j \in WalletCalls : calls[j].step # "idle" => CallRight(calls[j], chain)
    BY DEF OutpostInv, OutpostTypeOK, CallsRight, CallsTypes
  <1>2. calls' \in CallsTypes /\ calls'[i] = call /\ \A j \in WalletCalls \ {i} : calls'[j] = calls[j]
    BY <1>1 DEF CallsTypes
  <1>3. ASSUME NEW j \in WalletCalls, calls'[j].step # "idle" PROVE CallRight(calls'[j], chain')
    <2>1. CASE j = i
      BY <2>1, <1>2
    <2>2. CASE j # i
      BY <2>2, <1>1, <1>2, <1>3
    <2> QED BY <2>1, <2>2
  <1> QED BY <1>2, <1>3

\* What is right does not depend on the deployment's next value: it has none.
LEMMA DeploymentKept ==
    ASSUME deployment' = deployment
    PROVE  \A call, c : CallRight(call, c)' <=> CallRight(call, c)
  <1>1. Ethereum' = Ethereum /\ Solana' = Solana
    BY DEF Ethereum, Solana
  <1>2. \A tx, c : Succeeds(tx, c)' <=> Succeeds(tx, c)
    BY <1>1 DEF Succeeds
  <1>3. \A call, c : Relevant(call, c)' = Relevant(call, c)
    BY DEF Relevant
  <1>4. \A op : Pinned(op)' <=> Pinned(op)
    BY <1>1 DEF Pinned
  <1>5. \A a, seen : Requests(a, seen)' <=> Requests(a, seen)
    BY <1>1 DEF Requests
  <1>6. \A call, c : /\ SeenRight(call, c)' <=> SeenRight(call, c)
                     /\ SameAsBlock(call, c)' <=> SameAsBlock(call, c)
    BY <1>3, <1>4 DEF SeenRight, SameAsBlock
  <1> QED BY <1>2, <1>4, <1>5, <1>6 DEF CallRight

\* Nothing enters or leaves the queue, and no call in it changes.
LEMMA QueueStays ==
    ASSUME OutpostInv, mempool' = mempool, NEW i \in WalletCalls, calls[i].step # "waiting",
           \A j \in WalletCalls \ {i} : calls'[j] = calls[j]
    PROVE  OneTransactionEach'
  <1>1. OneTransactionEach /\ mempool \in Seq(Entries)
    BY DEF OutpostInv, OutpostTypeOK
  <1>2. ASSUME NEW k \in DOMAIN mempool
        PROVE  calls'[mempool[k].call] = calls[mempool[k].call]
    <2>1. mempool[k] \in Entries
      BY <1>1, <1>2
    <2>2. mempool[k].call \in WalletCalls
      BY <2>1 DEF Entries
    <2>3. calls[mempool[k].call].step = "waiting"
      BY <1>1, <1>2 DEF OneTransactionEach
    <2> QED BY <2>2, <2>3
  <1> QED BY <1>1, <1>2 DEF OneTransactionEach, FirstTransaction

\* Reading: each field is the block's or the chain's.
LEMMA ReadFields ==
    ASSUME NEW call \in CallRecords, NEW fields \in SUBSET Fields, chain \in Chains
    PROVE  /\ DOMAIN Read(call, fields) = DOMAIN call.seen \cup fields
           /\ \A f \in DOMAIN Read(call, fields) :
                  Read(call, fields)[f] = IF f \in DOMAIN call.seen THEN call.seen[f]
                                          ELSE IF Pinned(call.op) THEN call.block[f] ELSE chain[f]
           /\ Read(call, fields) \in Seens
  <1>1. PICK D \in SUBSET Fields : call.seen \in [D -> Seen]
    BY DEF CallRecords, Seens
  <1>2. \A c \in Chains : \A f \in Fields : c[f] \in Seen
    <2> SUFFICES ASSUME NEW c \in Chains, NEW f \in Fields PROVE c[f] \in Seen
      OBVIOUS
    <2>1. /\ c.time \in Int /\ c.native \in Int /\ c.liquid \in Int /\ c.allowance \in Int
          /\ c.payout \in Int /\ c.nextReceiptId \in Int /\ c.slots \in Int
      BY DEF Chains
    <2>2. c.tokenPaused \in BOOLEAN /\ c.poolPaused \in BOOLEAN /\ c.claimPaused \in BOOLEAN /\ c.approved \in BOOLEAN
      BY DEF Chains
    <2>3. c.receipts \in SUBSET Receipts
      BY DEF Chains
    <2>4. c[f] \in Int \/ c[f] \in BOOLEAN \/ c[f] \in SUBSET Receipts
      BY <2>1, <2>2, <2>3 DEF Fields
    <2> QED BY <2>4 DEF Seen
  <1>3. call.block \in Chains
    BY DEF CallRecords
  <1> DEFINE Value(f) == IF f \in DOMAIN call.seen THEN call.seen[f]
                         ELSE IF Pinned(call.op) THEN call.block[f] ELSE chain[f]
             E == DOMAIN call.seen \cup fields
  <1>4. Read(call, fields) = [f \in E |-> Value(f)]
    BY DEF Read, Observed
  <1>5. E \in SUBSET Fields
    BY <1>1
  <1>6. \A f \in E : Value(f) \in Seen
    BY <1>1, <1>2, <1>3, <1>5
  <1> HIDE DEF Value, E
  <1>7. [f \in E |-> Value(f)] \in [E -> Seen]
    BY <1>6
  <1>8. Read(call, fields) \in Seens
    BY <1>4, <1>5, <1>7 DEF Seens
  <1> QED BY <1>4, <1>8 DEF E, Value

LEMMA ReadsAreFields == \A op : Reads(op) \in SUBSET Fields
  BY DEF Reads, Fields

LEMMA StartInv ==
    ASSUME OutpostInv, NEW i \in WalletCalls, NEW o \in Operations, NEW fields \in SUBSET Reads(o[1]),
           Start(i, o[1], o[2], fields)
    PROVE  OutpostInv'
  <1> DEFINE op == o[1]
             arg == o[2]
             new == [op |-> op, arg |-> arg, step |-> "reading", block |-> chain, seen |-> << >>,
                     receipt |-> 0, changed |-> FALSE, result |-> "none"]
             call == [new EXCEPT !.seen = Read(new, fields)]
  <1>0. OutpostTypeOK /\ chain \in Chains
    BY DEF OutpostInv, OutpostTypeOK
  <1>1. /\ calls[i].step = "idle" /\ (op = "commit" => chain.slots > 0)
        /\ calls' = [calls EXCEPT ![i] = call]
        /\ UNCHANGED <<deployment, chain, mempool, moves>>
    BY DEF Start, At
  <1>2. op \in OpNames /\ arg \in Int /\ (op \in {"deposit", "syndicate", "request", "approve"} => arg \in Nat \ {0})
    <2>1. CASE o \in {"deposit", "syndicate", "request"} \X Amounts
      <3>1. op \in {"deposit", "syndicate", "request"} /\ arg \in Amounts
        BY <2>1
      <3> HIDE DEF op, arg
      <3>2. arg \in Nat \ {0} /\ arg \in Int
        BY <3>1, OutpostWalletAssumption
      <3> QED BY <3>1, <3>2 DEF OpNames
    <2>2. CASE o \in {<<"claim", r.id>> : r \in chain.receipts}
      <3>1. PICK r \in chain.receipts : o = <<"claim", r.id>>
        BY <2>2
      <3>2. r \in Receipts
        BY <1>0 DEF Chains
      <3>3. r.id \in Int
        BY <3>2 DEF Receipts
      <3> QED BY <3>1, <3>3 DEF OpNames
    <2>3. CASE o \in {"approve"} \X Amounts
      <3>1. op = "approve" /\ arg \in Amounts
        BY <2>3
      <3> HIDE DEF op, arg
      <3>2. arg \in Nat \ {0} /\ arg \in Int
        BY <3>1, OutpostWalletAssumption
      <3> QED BY <3>1, <3>2 DEF OpNames
    <2>4. CASE o = <<"commit", 0>>
      BY <2>4 DEF OpNames
    <2> QED BY <2>1, <2>2, <2>3, <2>4 DEF Operations
  <1>3. new \in CallRecords
    <2>1. << >> \in [{} -> Seen]
      OBVIOUS
    <2>2. {} \in SUBSET Fields
      OBVIOUS
    <2>3. << >> \in Seens
      BY <2>1, <2>2 DEF Seens
    <2> HIDE DEF op, arg
    <2> QED BY <1>0, <1>2, <2>3 DEF CallRecords
  <1>4. fields \in SUBSET Fields /\ fields \subseteq Reads(op)
    BY ReadsAreFields
  <1> HIDE DEF op, arg
  <1>5. /\ DOMAIN Read(new, fields) = fields
        /\ \A f \in fields : Read(new, fields)[f] = chain[f]
        /\ Read(new, fields) \in Seens
    <2>1. DOMAIN new.seen = {} /\ new.block = chain
      OBVIOUS
    <2> HIDE DEF new
    <2>2. /\ DOMAIN Read(new, fields) = DOMAIN new.seen \cup fields
          /\ \A f \in DOMAIN Read(new, fields) :
                 Read(new, fields)[f] = IF f \in DOMAIN new.seen THEN new.seen[f]
                                        ELSE IF Pinned(new.op) THEN new.block[f] ELSE chain[f]
          /\ Read(new, fields) \in Seens
      BY <1>0, <1>3, <1>4, ReadFields
    <2> QED BY <2>1, <2>2
  <1>6. /\ call \in CallRecords /\ call.op = op /\ call.arg = arg /\ call.step = "reading" /\ call.block = chain
        /\ call.changed = FALSE /\ DOMAIN call.seen = fields /\ \A f \in fields : call.seen[f] = chain[f]
    <2>1. /\ new.op = op /\ new.arg = arg /\ new.step = "reading" /\ new.block = chain /\ new.changed = FALSE
          /\ new \in CallRecords /\ Read(new, fields) \in Seens
      BY <1>3, <1>5
    <2> HIDE DEF new
    <2>2. call \in CallRecords /\ call.seen = Read(new, fields)
      BY <2>1 DEF CallRecords
    <2>3. /\ call.op = op /\ call.arg = arg /\ call.step = "reading" /\ call.block = chain /\ call.changed = FALSE
      BY <2>1 DEF CallRecords
    <2> QED BY <2>2, <2>3, <1>5
  <1> HIDE DEF call, new
  <1>7. CallRight(call, chain)
    <2>1. SeenRight(call, chain)
      <3>1. chain.time \in Int
        BY <1>0 DEF Chains
      <3> QED BY <3>1, <1>6 DEF SeenRight
    <2>2. SameAsBlock(call, chain) /\ SlotsLeft(call, chain)
      <3>1. chain.time \in Int
        BY <1>0 DEF Chains
      <3> QED BY <3>1, <1>1, <1>6 DEF SameAsBlock, SlotsLeft
    <2>3. ArgumentRight(call)
      BY <1>2, <1>6 DEF ArgumentRight
    <2> QED BY <2>1, <2>2, <2>3, <1>4, <1>6 DEF CallRight
  <1>8. /\ calls' \in CallsTypes
        /\ \A j \in WalletCalls : calls'[j].step # "idle" => CallRight(calls'[j], chain')
        /\ calls'[i] = call /\ \A j \in WalletCalls \ {i} : calls'[j] = calls[j]
    BY <1>1, <1>6, <1>7, OwnStep
  <1>9. OutpostTypeOK'
    BY <1>0, <1>1, <1>8 DEF OutpostTypeOK, CallsTypes, NotCalled
  <1>10. OneTransactionEach'
    BY <1>1, <1>8, QueueStays
  <1>11. CallsRight'
    BY <1>1, <1>8, DeploymentKept DEF CallsRight
  <1> QED BY <1>9, <1>10, <1>11 DEF OutpostInv

\* What is known once all is read.
FullyRead(call, c) ==
    /\ call.op = "claim" => call.seen.time \in call.block.time..c.time
    /\ ~call.changed =>
        /\ \A f \in Reads(call.op) \ {"time", "receipts", "approved"} :
               call.seen[f] = call.block[f] /\ c[f] = call.block[f]
        /\ call.op = "claim" =>
               /\ Receipt(call, call.seen.receipts) = Receipt(call, call.block.receipts)
               /\ Receipt(call, c.receipts) = Receipt(call, call.block.receipts)
        /\ call.op = "commit" => c.slots > 0 /\ (call.seen.approved => c.approved)

LEMMA RelevantFields ==
    ASSUME NEW call \in CallRecords, NEW c, NEW d, Relevant(call, c) = Relevant(call, d),
           NEW f \in Reads(call.op) \ {"time", "receipts", "approved"}
    PROVE  c[f] = d[f]
  <1>1. CASE call.op = "deposit"
    <2>1. c.tokenPaused = d.tokenPaused /\ c.native = d.native
      BY <1>1 DEF Relevant
    <2> QED BY <1>1, <2>1 DEF Reads
  <1>2. CASE call.op = "syndicate"
    <2>1. /\ c.tokenPaused = d.tokenPaused /\ c.poolPaused = d.poolPaused
          /\ c.liquid = d.liquid /\ c.allowance = d.allowance
      BY <1>2 DEF Relevant
    <2> QED BY <1>2, <2>1 DEF Reads
  <1>3. CASE call.op = "request"
    <2>1. c.tokenPaused = d.tokenPaused /\ c.liquid = d.liquid
      BY <1>3 DEF Relevant
    <2> QED BY <1>3, <2>1 DEF Reads
  <1>4. CASE call.op = "claim"
    <2>1. c.claimPaused = d.claimPaused /\ c.payout = d.payout
      BY <1>4 DEF Relevant
    <2> QED BY <1>4, <2>1 DEF Reads
  <1>5. CASE call.op \in {"commit", "approve"}
    BY <1>5 DEF Reads
  <1> QED BY <1>1, <1>2, <1>3, <1>4, <1>5 DEF CallRecords, OpNames

LEMMA AllIsRead ==
    ASSUME chain \in Chains, NEW old \in CallRecords, old.step = "reading", CallRight(old, chain),
           NEW call, call = [old EXCEPT !.seen = Read(old, Reads(old.op))]
    PROVE  /\ call \in CallRecords /\ call.op = old.op /\ call.arg = old.arg /\ call.step = "reading"
           /\ call.block = old.block /\ call.changed = old.changed /\ call.receipt = old.receipt
           /\ Pinned(call.op) => \A f \in Reads(call.op) : call.seen[f] = call.block[f]
           /\ FullyRead(call, chain)
  <1> DEFINE op == old.op
             fields == Reads(op)
             seen == Read(old, fields)
  <1>1. fields \in SUBSET Fields
    BY ReadsAreFields
  <1>2. /\ DOMAIN old.seen \subseteq fields /\ SeenRight(old, chain) /\ SameAsBlock(old, chain) /\ SlotsLeft(old, chain)
    BY DEF CallRight
  <1>3. /\ DOMAIN seen = fields /\ seen \in Seens
        /\ \A f \in fields : seen[f] = IF f \in DOMAIN old.seen THEN old.seen[f]
                                       ELSE IF Pinned(op) THEN old.block[f] ELSE chain[f]
    <2>1. /\ DOMAIN seen = DOMAIN old.seen \cup fields /\ seen \in Seens
          /\ \A f \in DOMAIN seen : seen[f] = IF f \in DOMAIN old.seen THEN old.seen[f]
                                       ELSE IF Pinned(op) THEN old.block[f] ELSE chain[f]
      BY <1>1, ReadFields
    <2> HIDE DEF seen
    <2> QED BY <2>1, <1>2
  <1> HIDE DEF seen
  <1>4. /\ call \in CallRecords /\ call.op = op /\ call.arg = old.arg /\ call.step = "reading"
        /\ call.block = old.block /\ call.changed = old.changed /\ call.receipt = old.receipt /\ call.seen = seen
    <2>1. call = [old EXCEPT !.seen = seen]
      BY DEF seen
    <2> QED BY <2>1, <1>3 DEF CallRecords
  <1>5. op \in OpNames /\ old.block \in Chains /\ old.changed \in BOOLEAN
    BY DEF CallRecords
  <1>6. chain.time \in Int /\ old.block.time \in Int /\ old.block.time <= chain.time
    BY <1>2, <1>5 DEF Chains, SameAsBlock
  <1> HIDE DEF fields, op
  <1>7. Pinned(op) => \A f \in fields : seen[f] = old.block[f]
    BY <1>2, <1>3 DEF SeenRight, op
  <1>8. op = "claim" => seen.time \in old.block.time..chain.time
    <2> SUFFICES ASSUME op = "claim" PROVE seen.time \in old.block.time..chain.time
      OBVIOUS
    <2>1. "time" \in fields
      BY DEF Reads, fields
    <2>2. CASE "time" \in DOMAIN old.seen
      BY <2>1, <2>2, <1>2, <1>3 DEF SeenRight
    <2>3. CASE "time" \notin DOMAIN old.seen
      <3>1. seen["time"] = old.block.time \/ seen["time"] = chain.time
        BY <2>1, <2>3, <1>3
      <3> QED BY <3>1, <1>6
    <2> QED BY <2>2, <2>3
  <1>9. ASSUME ~old.changed
        PROVE  /\ \A f \in fields \ {"time", "receipts", "approved"} : seen[f] = old.block[f] /\ chain[f] = old.block[f]
               /\ op = "claim" =>
                      /\ Receipt(old, seen.receipts) = Receipt(old, old.block.receipts)
                      /\ Receipt(old, chain.receipts) = Receipt(old, old.block.receipts)
               /\ op = "commit" => chain.slots > 0 /\ (seen.approved => chain.approved)
    <2>1. op # "commit" => Relevant(old, chain) = Relevant(old, old.block)
      BY <1>2, <1>9 DEF SameAsBlock, op
    <2>2. ASSUME NEW f \in fields \ {"time", "receipts", "approved"}
          PROVE  seen[f] = old.block[f] /\ chain[f] = old.block[f]
      <3>1. op # "commit"
        BY <2>2 DEF Reads, fields
      <3>2. chain[f] = old.block[f]
        BY <2>1, <2>2, <3>1, RelevantFields DEF fields, op
      <3>3. f \in DOMAIN old.seen => old.seen[f] = old.block[f]
        BY <1>2, <1>9, <2>2 DEF SeenRight
      <3> QED BY <3>2, <3>3, <1>3, <2>2
    <2>3. ASSUME op = "claim"
          PROVE  /\ Receipt(old, seen.receipts) = Receipt(old, old.block.receipts)
                 /\ Receipt(old, chain.receipts) = Receipt(old, old.block.receipts)
      <3>1. "receipts" \in fields
        BY <2>3 DEF Reads, fields
      <3>2. Receipt(old, chain.receipts) = Receipt(old, old.block.receipts)
        <4>1. {r \in chain.receipts : r.id = old.arg} = {r \in old.block.receipts : r.id = old.arg}
          BY <2>1, <2>3 DEF Relevant, op
        <4> QED BY <4>1 DEF Receipt
      <3>3. "receipts" \in DOMAIN old.seen => Receipt(old, old.seen.receipts) = Receipt(old, old.block.receipts)
        BY <1>2, <1>9 DEF SeenRight
      <3> QED BY <3>1, <3>2, <3>3, <1>3
    <2>4. ASSUME op = "commit" PROVE chain.slots > 0 /\ (seen.approved => chain.approved)
      <3>1. "approved" \in fields /\ ~Pinned(op)
        BY <2>4 DEF Reads, fields, Pinned
      <3>2. chain.slots > 0
        BY <1>2, <1>9, <2>4 DEF SlotsLeft, op
      <3>3. "approved" \in DOMAIN old.seen /\ old.seen.approved => chain.approved
        BY <1>2, <1>9, <2>4 DEF SeenRight, op
      <3> QED BY <3>1, <3>2, <3>3, <1>3
    <2> QED BY <2>2, <2>3, <2>4
  <1>10. \A receipts : Receipt(call, receipts) = Receipt(old, receipts)
    BY <1>4 DEF Receipt
  <1>11. FullyRead(call, chain)
    BY <1>4, <1>8, <1>9, <1>10 DEF FullyRead, fields
  <1> QED BY <1>4, <1>7, <1>11 DEF fields, op

\* What is let through succeeds, ...
LEMMA AdmittedSucceeds ==
    ASSUME NEW call \in CallRecords, NEW c \in Chains, FullyRead(call, c), ArgumentRight(call),
           ~call.changed, Admitted(call), call.op # "request"
    PROVE  Succeeds(FirstTransaction(call), c)
  <1> DEFINE tx == FirstTransaction(call)
             seen == call.seen
  <1>1. /\ tx.arg = call.arg /\ tx.receipt = call.receipt
        /\ tx.op = IF call.op = "commit" /\ ~call.seen.approved THEN "approval" ELSE call.op
    BY DEF FirstTransaction
  <1> HIDE DEF tx
  <1>2. \A f \in Reads(call.op) \ {"time", "receipts", "approved"} : c[f] = seen[f]
    BY DEF FullyRead
  <1>3. CASE call.op = "deposit"
    <2>1. c["tokenPaused"] = seen["tokenPaused"] /\ c["native"] = seen["native"]
      BY <1>2, <1>3 DEF Reads
    <2>2. Deposits(call.arg, seen)
      BY <1>3 DEF Admitted
    <2>3. call.arg \in Nat
      BY <1>3 DEF ArgumentRight
    <2>4. tx.op = "deposit"
      BY <1>1, <1>3
    <2>5. call.arg + (IF Solana THEN DepositFee ELSE 0) = IF Solana THEN call.arg + DepositFee ELSE call.arg
      BY <2>3
    <2> QED BY <2>1, <2>2, <2>4, <2>5, <1>1 DEF Deposits, Succeeds, tx
  <1>4. CASE call.op = "syndicate"
    <2>1. /\ c["tokenPaused"] = seen["tokenPaused"] /\ c["poolPaused"] = seen["poolPaused"]
          /\ c["liquid"] = seen["liquid"] /\ c["allowance"] = seen["allowance"]
      BY <1>2, <1>4 DEF Reads
    <2>2. Syndicates(call.arg, seen)
      BY <1>4 DEF Admitted
    <2>3. call.arg \in Nat \ {0}
      BY <1>4 DEF ArgumentRight
    <2>4. Ethereum => call.arg \div CreditScale > 0 /\ call.arg \div CreditScale >= MinCredited
      BY <2>2, <2>3, LeastSyndication DEF Syndicates
    <2>5. Ethereum => call.arg <= c.allowance
      <3>1. c.allowance \in Int
        BY DEF Chains
      <3> QED BY <3>1, <2>1, <2>2, <2>3 DEF Syndicates
    <2>6. tx.op = "syndicate"
      BY <1>1, <1>4
    <2> QED BY <2>1, <2>2, <2>4, <2>5, <2>6, <1>1 DEF Syndicates, Succeeds, tx
  <1>5. CASE call.op = "claim"
    <2>1. c["claimPaused"] = seen["claimPaused"] /\ c["payout"] = seen["payout"]
      BY <1>2, <1>5 DEF Reads
    <2>2. PICK r \in seen.receipts :
              /\ r.id = call.arg /\ r.mine /\ seen.time >= r.readyAt
              /\ deployment # "ethereumV2" => ~seen.claimPaused
              /\ Ethereum => seen.payout >= r.amount
      BY <1>5 DEF Admitted, Claims
    <2>3. Receipt(call, seen.receipts) = Receipt(call, c.receipts) /\ seen.time \in call.block.time..c.time
      BY <1>5 DEF FullyRead
    <2>4. r \in c.receipts
      <3>1. r \in Receipt(call, seen.receipts)
        BY <2>2 DEF Receipt
      <3>2. r \in Receipt(call, c.receipts)
        BY <3>1, <2>3
      <3> QED BY <3>2 DEF Receipt
    <2>5. c.time >= r.readyAt
      <3>1. r.readyAt \in Int /\ c.time \in Int /\ call.block.time \in Int
        BY <2>4 DEF Chains, Receipts, CallRecords
      <3> QED BY <3>1, <2>2, <2>3
    <2>6. tx.op = "claim"
      BY <1>1, <1>5
    <2> QED BY <2>1, <2>2, <2>4, <2>5, <2>6, <1>1 DEF Succeeds, tx
  <1>6. CASE call.op = "commit"
    <2>1. c.slots > 0 /\ (seen.approved => c.approved)
      BY <1>6 DEF FullyRead
    <2>2. CASE tx.op = "approval"
      BY <2>2, ApprovalSucceeds DEF tx
    <2>3. CASE tx.op = "commit" /\ seen.approved
      BY <2>1, <2>3 DEF Succeeds, tx
    <2> QED BY <2>2, <2>3, <1>1, <1>6
  <1>7. CASE call.op = "approve"
    <2>1. tx.op = "approve"
      BY <1>1, <1>7
    <2> QED BY <2>1 DEF Succeeds, tx
  <1> QED BY <1>3, <1>4, <1>5, <1>6, <1>7 DEF CallRecords, OpNames

\* ... and what is refused would have failed.
LEMMA RefusedFails ==
    ASSUME NEW call \in CallRecords, NEW c \in Chains, FullyRead(call, c), ArgumentRight(call),
           ~call.changed, ~Admitted(call)
    PROVE  ~Succeeds(AnyTransaction(call), call.block)
  <1> DEFINE tx == AnyTransaction(call)
             seen == call.seen
             b == call.block
  <1> SUFFICES ASSUME Succeeds(tx, b) PROVE Admitted(call)
    OBVIOUS
  <1>1. tx.arg = call.arg /\ tx.op = call.op /\ b \in Chains
    BY DEF AnyTransaction, CallRecords
  <1> HIDE DEF tx
  <1>2. \A f \in Reads(call.op) \ {"time", "receipts", "approved"} : b[f] = seen[f]
    BY DEF FullyRead
  <1>3. CASE call.op = "deposit"
    <2>1. b["tokenPaused"] = seen["tokenPaused"] /\ b["native"] = seen["native"]
      BY <1>2, <1>3 DEF Reads
    <2>2. call.arg \in Nat
      BY <1>3 DEF ArgumentRight
    <2>3. call.arg + (IF Solana THEN DepositFee ELSE 0) = IF Solana THEN call.arg + DepositFee ELSE call.arg
      BY <2>2
    <2>4. Deposits(call.arg, seen)
      BY <2>1, <2>3, <1>1, <1>3 DEF Deposits, Succeeds
    <2> QED BY <2>4, <1>3 DEF Admitted
  <1>4. CASE call.op = "syndicate"
    <2>1. /\ b["tokenPaused"] = seen["tokenPaused"] /\ b["poolPaused"] = seen["poolPaused"]
          /\ b["liquid"] = seen["liquid"] /\ b["allowance"] = seen["allowance"]
      BY <1>2, <1>4 DEF Reads
    <2>2. call.arg \in Nat \ {0}
      BY <1>4 DEF ArgumentRight
    <2>3. /\ ~b.tokenPaused /\ ~b.poolPaused /\ call.arg <= b.liquid /\ call.arg <= MaxSyndication
          /\ Ethereum => /\ call.arg <= b.allowance
                         /\ call.arg \div CreditScale > 0 /\ call.arg \div CreditScale >= MinCredited
      BY <1>1, <1>4 DEF Succeeds
    <2>4. MinimumSyndication <= call.arg
      BY <2>2, <2>3, LeastSyndication
    <2>5. Ethereum => seen.allowance >= call.arg
      <3>1. b.allowance \in Int
        BY <1>1 DEF Chains
      <3> QED BY <3>1, <2>1, <2>2, <2>3
    <2>6. Syndicates(call.arg, seen)
      BY <2>1, <2>3, <2>4, <2>5 DEF Syndicates
    <2> QED BY <2>6, <1>4 DEF Admitted
  <1>5. CASE call.op = "request"
    <2>1. b["tokenPaused"] = seen["tokenPaused"] /\ b["liquid"] = seen["liquid"]
      BY <1>2, <1>5 DEF Reads
    <2>2. Requests(call.arg, seen)
      BY <2>1, <1>1, <1>5 DEF Requests, Succeeds
    <2> QED BY <2>2, <1>5 DEF Admitted
  <1>6. CASE call.op = "claim"
    <2>1. b["claimPaused"] = seen["claimPaused"] /\ b["payout"] = seen["payout"]
      BY <1>2, <1>6 DEF Reads
    <2>2. PICK r \in b.receipts :
              /\ r.id = call.arg /\ r.mine /\ b.time >= r.readyAt
              /\ deployment # "ethereumV2" => ~b.claimPaused
              /\ Ethereum => b.payout >= r.amount
      BY <1>1, <1>6 DEF Succeeds
    <2>3. Receipt(call, seen.receipts) = Receipt(call, b.receipts) /\ seen.time \in b.time..c.time
      BY <1>6 DEF FullyRead
    <2>4. r \in seen.receipts
      <3>1. r \in Receipt(call, b.receipts)
        BY <2>2 DEF Receipt
      <3>2. r \in Receipt(call, seen.receipts)
        BY <3>1, <2>3
      <3> QED BY <3>2 DEF Receipt
    <2>5. seen.time >= r.readyAt
      <3>1. r.readyAt \in Int /\ b.time \in Int /\ c.time \in Int
        BY <1>1, <2>2 DEF Chains, Receipts
      <3> QED BY <3>1, <2>2, <2>3
    <2>6. Claims(call.arg, seen)
      BY <2>1, <2>2, <2>4, <2>5 DEF Claims
    <2> QED BY <2>6, <1>6 DEF Admitted
  <1>7. CASE call.op \in {"commit", "approve"}
    BY <1>7 DEF Admitted
  <1> QED BY <1>3, <1>4, <1>5, <1>6, <1>7 DEF CallRecords, OpNames

\* A call's own step that leaves the queue alone.
LEMMA QuietStepInv ==
    ASSUME OutpostInv, NEW i \in WalletCalls, calls[i].step # "waiting", NEW call \in CallRecords,
           calls' = [calls EXCEPT ![i] = call], CallRight(call, chain),
           UNCHANGED <<deployment, chain, mempool>>
    PROVE  OutpostInv'
  <1>1. /\ calls' \in CallsTypes
        /\ \A j \in WalletCalls : calls'[j].step # "idle" => CallRight(calls'[j], chain')
        /\ calls'[i] = call /\ \A j \in WalletCalls \ {i} : calls'[j] = calls[j]
    BY OwnStep
  <1>2. OutpostTypeOK'
    BY <1>1 DEF OutpostInv, OutpostTypeOK, CallsTypes, NotCalled
  <1>3. OneTransactionEach'
    BY <1>1, QueueStays
  <1>4. CallsRight'
    BY <1>1, DeploymentKept DEF CallsRight
  <1> QED BY <1>2, <1>3, <1>4 DEF OutpostInv

LEMMA ReadRestInv ==
    ASSUME OutpostInv, NEW i \in WalletCalls, ReadRest(i)
    PROVE  OutpostInv'
  <1> DEFINE old == calls[i]
             call == [old EXCEPT !.seen = Read(old, Reads(old.op))]
             new == IF ~Admitted(call) THEN [call EXCEPT !.step = "done", !.result = "thrown"]
                    ELSE [call EXCEPT !.step = IF call.op = "request" THEN "building" ELSE "signing"]
  <1>1. /\ old.step = "reading" /\ calls' = [calls EXCEPT ![i] = new]
        /\ UNCHANGED <<deployment, chain, mempool>>
    BY DEF ReadRest, At
  <1>2. chain \in Chains /\ old \in CallRecords /\ CallRight(old, chain)
    BY <1>1, BegunIsRecord DEF OutpostInv, OutpostTypeOK, CallsRight
  <1>3. /\ call \in CallRecords /\ call.op = old.op /\ call.arg = old.arg /\ call.step = "reading"
        /\ call.block = old.block /\ call.changed = old.changed /\ call.receipt = old.receipt
        /\ Pinned(call.op) => \A f \in Reads(call.op) : call.seen[f] = call.block[f]
        /\ FullyRead(call, chain)
    BY <1>1, <1>2, AllIsRead
  <1>4. /\ ArgumentRight(old) /\ SameAsBlock(old, chain) /\ SlotsLeft(old, chain)
    BY <1>1, <1>2 DEF CallRight
  <1>5. SameAsBlock(call, chain) /\ SlotsLeft(call, chain) /\ ArgumentRight(call)
    BY <1>3, <1>4 DEF SameAsBlock, SlotsLeft, ArgumentRight, Relevant
  <1>6. ~call.changed /\ ~Admitted(call) => ~Succeeds(AnyTransaction(call), call.block)
    BY <1>2, <1>3, <1>5, RefusedFails
  <1>7. ~call.changed /\ Admitted(call) /\ call.op # "request" => Succeeds(FirstTransaction(call), chain)
    BY <1>2, <1>3, <1>5, AdmittedSucceeds
  <1>8. ~call.changed /\ Admitted(call) /\ call.op = "request" => Requests(call.arg, chain)
    <2> SUFFICES ASSUME ~call.changed, Admitted(call), call.op = "request" PROVE Requests(call.arg, chain)
      OBVIOUS
    <2> HIDE DEF call
    <2>1. Requests(call.arg, call.seen)
      BY DEF Admitted
    <2>2. chain["tokenPaused"] = call.seen["tokenPaused"] /\ chain["liquid"] = call.seen["liquid"]
      BY <1>3 DEF FullyRead, Reads
    <2> QED BY <2>1, <2>2 DEF Requests
  <1> HIDE DEF call
  <1>9. new \in CallRecords /\ CallRight(new, chain)
    <2>1. CASE ~Admitted(call)
      <3> DEFINE t == [call EXCEPT !.step = "done", !.result = "thrown"]
      <3>1. /\ t \in CallRecords /\ t.step = "done" /\ t.op = call.op /\ t.arg = call.arg /\ t.block = call.block
            /\ t.changed = call.changed /\ t.seen = call.seen /\ t.result = "thrown"
        BY <1>3 DEF CallRecords
      <3> HIDE DEF t
      <3>2. AnyTransaction(t) = AnyTransaction(call) /\ ArgumentRight(t)
        BY <1>5, <3>1 DEF AnyTransaction, ArgumentRight
      <3>3. CallRight(t, chain)
        BY <2>1, <3>1, <3>2, <1>3, <1>6 DEF CallRight
      <3> QED BY <2>1, <3>1, <3>3 DEF t
    <2>2. CASE Admitted(call)
      <3> DEFINE t == [call EXCEPT !.step = IF call.op = "request" THEN "building" ELSE "signing"]
      <3>1. /\ t \in CallRecords /\ t.step = (IF call.op = "request" THEN "building" ELSE "signing")
            /\ t.op = call.op /\ t.arg = call.arg /\ t.block = call.block
            /\ t.changed = call.changed /\ t.seen = call.seen /\ t.receipt = call.receipt
        BY <1>3 DEF CallRecords
      <3> HIDE DEF t
      <3>2. FirstTransaction(t) = FirstTransaction(call) /\ ArgumentRight(t) /\ SameAsBlock(t, chain) /\ SlotsLeft(t, chain)
        BY <1>5, <3>1 DEF FirstTransaction, ArgumentRight, SameAsBlock, SlotsLeft, Relevant
      <3>3. CallRight(t, chain)
        BY <2>2, <3>1, <3>2, <1>3, <1>7, <1>8 DEF CallRight
      <3> QED BY <2>2, <3>1, <3>3 DEF t
    <2> QED BY <2>1, <2>2
  <1> HIDE DEF new
  <1> QED BY <1>1, <1>9, QuietStepInv

LEMMA BuildInv ==
    ASSUME OutpostInv, NEW i \in WalletCalls, Build(i)
    PROVE  OutpostInv'
  <1> DEFINE old == calls[i]
             tx == [op |-> "request", arg |-> old.arg]
             number == IF deployment = "solanaLegacy" THEN chain.nextReceiptId ELSE 0
             failed == [old EXCEPT !.step = "done", !.result = "thrown"]
             built == [old EXCEPT !.step = "signing", !.receipt = number]
             new == IF Ethereum /\ ~Succeeds(tx, chain) THEN failed ELSE built
  <1>1. old.step = "building" /\ UNCHANGED <<deployment, chain, mempool>>
    BY DEF Build, At
  <1>2. chain \in Chains /\ old \in CallRecords /\ CallRight(old, chain) /\ calls \in CallsTypes
    BY <1>1, BegunIsRecord DEF OutpostInv, OutpostTypeOK, CallsRight, CallsTypes
  <1>3. calls' = [calls EXCEPT ![i] = new]
    BY <1>2 DEF Build, Finish, CallsTypes
  <1>4. /\ ArgumentRight(old) /\ old.op = "request" /\ SameAsBlock(old, chain)
        /\ ~old.changed => Requests(old.arg, chain)
        /\ Pinned(old.op) => \A f \in Reads(old.op) : old.seen[f] = old.block[f]
    BY <1>1, <1>2 DEF CallRight
  <1>5. number \in Int
    BY <1>2 DEF Chains
  <1>6. ASSUME Ethereum, ~Succeeds(tx, chain)
        PROVE  failed \in CallRecords /\ CallRight(failed, chain)
    <2>1. /\ failed \in CallRecords /\ failed.step = "done" /\ failed.op = "request" /\ failed.arg = old.arg
          /\ failed.block = old.block /\ failed.changed = old.changed /\ failed.seen = old.seen /\ failed.result = "thrown"
      BY <1>2, <1>4 DEF CallRecords
    <2>2. ~old.changed => ~Succeeds(AnyTransaction(old), old.block)
      <3> SUFFICES ASSUME ~old.changed, Succeeds(AnyTransaction(old), old.block) PROVE FALSE
        OBVIOUS
      <3>1. AnyTransaction(old).op = "request" /\ AnyTransaction(old).arg = old.arg
        BY <1>4 DEF AnyTransaction
      <3>2. chain.tokenPaused = old.block.tokenPaused /\ chain.liquid = old.block.liquid
        BY <1>4 DEF SameAsBlock, Relevant
      <3>3. deployment # "solanaLegacy" /\ ~Solana
        BY <1>6 DEF Ethereum, Solana
      <3> DEFINE any == AnyTransaction(old)
      <3> HIDE DEF any
      <3>4. ~old.block.tokenPaused /\ old.arg <= old.block.liquid /\ old.arg \div ShareSize > 0
        <4>1. any.op = "request" /\ any.arg = old.arg /\ Succeeds(any, old.block)
          BY <3>1 DEF any
        <4> QED BY <4>1, <1>6 DEF Succeeds
      <3>5. tx.op = "request" /\ tx.arg = old.arg
        OBVIOUS
      <3> HIDE DEF tx
      <3>6. Succeeds(tx, chain)
        BY <3>2, <3>3, <3>4, <3>5 DEF Succeeds
      <3> QED BY <3>6, <1>6
    <2> HIDE DEF failed
    <2>3. AnyTransaction(failed) = AnyTransaction(old) /\ ArgumentRight(failed)
      BY <1>4, <2>1 DEF AnyTransaction, ArgumentRight
    <2> QED BY <2>1, <2>2, <2>3, <1>4 DEF CallRight
  <1>7. ASSUME Ethereum => Succeeds(tx, chain)
        PROVE  built \in CallRecords /\ CallRight(built, chain)
    <2>1. /\ built \in CallRecords /\ built.step = "signing" /\ built.op = "request" /\ built.arg = old.arg
          /\ built.block = old.block /\ built.changed = old.changed /\ built.seen = old.seen /\ built.receipt = number
      BY <1>2, <1>4, <1>5 DEF CallRecords
    <2> HIDE DEF built
    <2>2. ~old.changed => Succeeds(FirstTransaction(built), chain)
      <3> SUFFICES ASSUME ~old.changed PROVE Succeeds(FirstTransaction(built), chain)
        OBVIOUS
      <3> DEFINE first == FirstTransaction(built)
      <3>1. first.op = "request" /\ first.arg = old.arg /\ first.receipt = number
        BY <2>1 DEF FirstTransaction
      <3>2. Requests(old.arg, chain)
        BY <1>4
      <3>3. Ethereum => old.arg \div ShareSize > 0
        <4> SUFFICES ASSUME Ethereum PROVE old.arg \div ShareSize > 0
          OBVIOUS
        <4>1. tx.op = "request" /\ tx.arg = old.arg /\ Succeeds(tx, chain)
          BY <1>7
        <4> HIDE DEF tx
        <4> QED BY <4>1 DEF Succeeds
      <3> HIDE DEF first
      <3>4. Succeeds(first, chain)
        BY <3>1, <3>2, <3>3 DEF Succeeds, Requests
      <3> QED BY <3>4 DEF first
    <2>3. ArgumentRight(built) /\ SlotsLeft(built, chain)
      BY <1>4, <2>1 DEF ArgumentRight, SlotsLeft
    <2> QED BY <2>1, <2>2, <2>3, <1>4 DEF CallRight
  <1>8. new \in CallRecords /\ CallRight(new, chain)
    BY <1>6, <1>7
  <1> HIDE DEF new
  <1> QED BY <1>1, <1>3, <1>8, QuietStepInv

\* What is done without failing is right.
LEMMA DoneRight ==
    ASSUME NEW old \in CallRecords, NEW c, CallRight(old, c), old.step # "reading",
           NEW result \in {"none", "refused", "succeeded", "reverted", "expired"},
           result = "reverted" => old.changed
    PROVE  /\ [old EXCEPT !.step = "done", !.result = result] \in CallRecords
           /\ CallRight([old EXCEPT !.step = "done", !.result = result], c)
  <1> DEFINE t == [old EXCEPT !.step = "done", !.result = result]
  <1>1. /\ t \in CallRecords /\ t.step = "done" /\ t.op = old.op /\ t.arg = old.arg /\ t.block = old.block
        /\ t.changed = old.changed /\ t.seen = old.seen /\ t.result = result
    BY DEF CallRecords
  <1> HIDE DEF t
  <1>2. CallRight(t, c)
    BY <1>1 DEF CallRight, ArgumentRight
  <1> QED BY <1>1, <1>2 DEF t

LEMMA RefusalInv ==
    ASSUME OutpostInv, NEW i \in WalletCalls, RefuseToSign(i)
    PROVE  OutpostInv'
  <1> DEFINE old == calls[i]
             new == [old EXCEPT !.step = "done", !.result = "refused"]
  <1>1. old.step = "signing" /\ UNCHANGED <<deployment, chain, mempool>>
    BY DEF RefuseToSign, At
  <1>2. old \in CallRecords /\ CallRight(old, chain) /\ calls \in CallsTypes
    BY <1>1, BegunIsRecord DEF OutpostInv, OutpostTypeOK, CallsRight, CallsTypes
  <1>3. calls' = [calls EXCEPT ![i] = new]
    BY <1>2 DEF RefuseToSign, Finish, CallsTypes
  <1>4. new \in CallRecords /\ CallRight(new, chain)
    BY <1>1, <1>2, DoneRight
  <1> HIDE DEF new
  <1> QED BY <1>1, <1>3, <1>4, QuietStepInv

LEMMA SignInv ==
    ASSUME OutpostInv, NEW i \in WalletCalls, Sign(i)
    PROVE  OutpostInv'
  <1> DEFINE old == calls[i]
             new == [old EXCEPT !.step = "waiting"]
             entry == [call |-> i, tx |-> FirstTransaction(old)]
  <1>1. /\ old.step = "signing" /\ mempool' = Append(mempool, entry) /\ calls' = [calls EXCEPT ![i] = new]
        /\ UNCHANGED <<deployment, chain, moves>>
    BY DEF Sign, At
  <1>2. old \in CallRecords /\ CallRight(old, chain) /\ calls \in CallsTypes /\ mempool \in Seq(Entries)
    BY <1>1, BegunIsRecord DEF OutpostInv, OutpostTypeOK, CallsRight, CallsTypes
  <1>3. /\ new \in CallRecords /\ new.step = "waiting" /\ new.op = old.op /\ new.arg = old.arg /\ new.block = old.block
        /\ new.changed = old.changed /\ new.seen = old.seen /\ new.receipt = old.receipt
    BY <1>2 DEF CallRecords
  <1> HIDE DEF new
  <1>4. FirstTransaction(new) = FirstTransaction(old)
    BY <1>3 DEF FirstTransaction
  <1>5. CallRight(new, chain)
    BY <1>1, <1>2, <1>3, <1>4 DEF CallRight, ArgumentRight, SlotsLeft
  <1>6. /\ calls' \in CallsTypes
        /\ \A j \in WalletCalls : calls'[j].step # "idle" => CallRight(calls'[j], chain')
        /\ calls'[i] = new /\ \A j \in WalletCalls \ {i} : calls'[j] = calls[j]
    BY <1>1, <1>3, <1>5, OwnStep
  <1>7. entry \in Entries
    <2>1. old.op \in OpNames /\ old.arg \in Int /\ old.receipt \in Int
      BY <1>2 DEF CallRecords
    <2>2. FirstTransaction(old) \in [op : OpNames \cup {"approval"}, arg : Int, receipt : Int]
      BY <2>1 DEF FirstTransaction
    <2> QED BY <2>2 DEF Entries
  <1>8. entry.call = i /\ entry.tx = FirstTransaction(old)
    OBVIOUS
  <1> HIDE DEF entry
  <1>9. OutpostTypeOK'
    <2>1. mempool' \in Seq(Entries)
      BY <1>1, <1>2, <1>7
    <2> QED BY <2>1, <1>1, <1>6 DEF OutpostInv, OutpostTypeOK, CallsTypes, NotCalled
  <1>10. OneTransactionEach'
    <2> DEFINE n == Len(mempool)
    <2>1. /\ n \in Nat /\ DOMAIN mempool = 1..n /\ DOMAIN mempool' = 1..n + 1
          /\ mempool'[n + 1] = entry /\ \A k \in 1..n : mempool'[k] = mempool[k] /\ mempool[k] \in Entries
      BY <1>1, <1>2, <1>7
    <2> HIDE DEF n
    <2>2. /\ \A k \in 1..n : /\ calls[mempool[k].call].step = "waiting"
                             /\ mempool[k].tx = FirstTransaction(calls[mempool[k].call])
          /\ \A j, k \in 1..n : mempool[j].call = mempool[k].call => j = k
      BY <2>1 DEF OutpostInv, OneTransactionEach
    <2>3. \A k \in 1..n : mempool[k].call \in WalletCalls \ {i}
      BY <1>1, <2>1, <2>2 DEF Entries
    <2>4. \A k \in 1..n + 1 : k \in 1..n \/ k = n + 1
      BY <2>1
    <2>5. \A k \in 1..n + 1 : /\ calls'[mempool'[k].call].step = "waiting"
                              /\ mempool'[k].tx = FirstTransaction(calls'[mempool'[k].call])
      <3> SUFFICES ASSUME NEW k \in 1..n + 1
                   PROVE  /\ calls'[mempool'[k].call].step = "waiting"
                          /\ mempool'[k].tx = FirstTransaction(calls'[mempool'[k].call])
        OBVIOUS
      <3>1. CASE k \in 1..n
        BY <3>1, <2>1, <2>2, <2>3, <1>6
      <3>2. CASE k = n + 1
        BY <3>2, <2>1, <1>3, <1>4, <1>6, <1>8
      <3> QED BY <3>1, <3>2, <2>4
    <2>6. \A j, k \in 1..n + 1 : mempool'[j].call = mempool'[k].call => j = k
      BY <2>1, <2>2, <2>3, <2>4, <1>8
    <2> QED BY <2>1, <2>5, <2>6 DEF OneTransactionEach, FirstTransaction
  <1>11. CallsRight'
    BY <1>1, <1>6, DeploymentKept DEF CallsRight
  <1> QED BY <1>9, <1>10, <1>11 DEF OutpostInv

---------------------------------------------------------------------------
(* The chain's steps.                                                      *)

OutpostTransactions == [op : OpNames \cup {"approval"}, arg : Int, receipt : Int]

LEMMA EffectOnChain ==
    ASSUME NEW c \in Chains, NEW tx \in OutpostTransactions, Succeeds(tx, c)
    PROVE  Effect(tx, c) \in Chains /\ Effect(tx, c).time = c.time
  <1>0. /\ tx.op \in OpNames \cup {"approval"} /\ tx.arg \in Int
        /\ c.native \in Int /\ c.liquid \in Int /\ c.allowance \in Int /\ c.payout \in Int /\ c.time \in Int
        /\ c.nextReceiptId \in Int /\ c.slots \in Int /\ c.receipts \in SUBSET Receipts
    BY DEF OutpostTransactions, Chains
  <1>00. DepositFee \in Nat /\ WithdrawDelay \in Nat
    BY OutpostWalletAssumption
  <1>1. CASE tx.op = "deposit"
    <2> DEFINE fee == IF Solana THEN DepositFee ELSE 0
    <2>1. fee \in Int
      BY <1>00
    <2> HIDE DEF fee
    <2>2. c.native - tx.arg - fee \in Int /\ c.liquid + tx.arg \in Int
      BY <1>0, <2>1
    <2>3. Effect(tx, c) = [c EXCEPT !.native = @ - tx.arg - fee, !.liquid = @ + tx.arg]
      BY <1>1 DEF Effect, fee
    <2> QED BY <2>2, <2>3 DEF Chains
  <1>2. CASE tx.op = "approve"
    <2>1. Effect(tx, c) = [c EXCEPT !.allowance = tx.arg]
      BY <1>2 DEF Effect
    <2> QED BY <1>0, <2>1 DEF Chains
  <1>3. CASE tx.op = "syndicate"
    <2> DEFINE left == IF Ethereum THEN c.allowance - tx.arg ELSE c.allowance
    <2>1. left \in Int /\ c.liquid - tx.arg \in Int
      BY <1>0
    <2>2. Effect(tx, c) = [c EXCEPT !.liquid = @ - tx.arg, !.allowance = left]
      BY <1>3 DEF Effect, Chains
    <2> HIDE DEF left
    <2> QED BY <2>1, <2>2 DEF Chains
  <1>4. CASE tx.op = "request"
    <2> DEFINE new == [id |-> c.nextReceiptId, amount |-> tx.arg, readyAt |-> c.time + WithdrawDelay, mine |-> TRUE]
    <2>1. c.time + WithdrawDelay \in Int
      BY <1>0, <1>00
    <2>2. new \in Receipts
      BY <1>0, <2>1 DEF Receipts
    <2>3. Effect(tx, c) = [c EXCEPT !.liquid = @ - tx.arg, !.nextReceiptId = @ + 1, !.receipts = @ \cup {new}]
      BY <1>4 DEF Effect
    <2> HIDE DEF new
    <2>4. /\ c.liquid - tx.arg \in Int /\ c.nextReceiptId + 1 \in Int /\ c.receipts \cup {new} \in SUBSET Receipts
      BY <1>0, <2>2
    <2> QED BY <2>3, <2>4 DEF Chains
  <1>5. CASE tx.op = "claim"
    <2> DEFINE s == CHOOSE r \in c.receipts : r.id = tx.arg
               left == IF Ethereum THEN c.payout - s.amount ELSE c.payout
    <2>1. \E r \in c.receipts : r.id = tx.arg
      BY <1>5 DEF Succeeds
    <2>2. s \in Receipts
      BY <1>0, <2>1
    <2>3. Effect(tx, c) = [c EXCEPT !.receipts = @ \ {s}, !.native = @ + s.amount, !.payout = left]
      BY <1>5 DEF Effect, Chains
    <2> HIDE DEF s
    <2>4. s.amount \in Int
      BY <2>2 DEF Receipts
    <2>5. c.native + s.amount \in Int /\ left \in Int /\ c.receipts \ {s} \in SUBSET Receipts
      BY <1>0, <2>4
    <2> HIDE DEF left
    <2> QED BY <2>3, <2>5 DEF Chains
  <1>6. CASE tx.op = "approval"
    <2>1. Effect(tx, c) = [c EXCEPT !.approved = TRUE]
      BY <1>6 DEF Effect
    <2> QED BY <2>1 DEF Chains
  <1>7. CASE tx.op = "commit"
    <2>1. Effect(tx, c) = [c EXCEPT !.slots = @ - 1]
      BY <1>7 DEF Effect
    <2>2. c.slots - 1 \in Int
      BY <1>0
    <2> QED BY <2>1, <2>2 DEF Chains
  <1> QED BY <1>0, <1>1, <1>2, <1>3, <1>4, <1>5, <1>6, <1>7 DEF OpNames

LEMMA FirstInQueue ==
    ASSUME OutpostInv, mempool # <<>>
    PROVE  LET i == Head(mempool).call
           IN  /\ i \in WalletCalls /\ calls[i] \in CallRecords /\ calls[i].step = "waiting"
               /\ Head(mempool).tx = FirstTransaction(calls[i]) /\ FirstTransaction(calls[i]) \in OutpostTransactions
               /\ CallRight(calls[i], chain)
  <1> DEFINE i == Head(mempool).call
  <1>1. mempool \in Seq(Entries)
    BY DEF OutpostInv, OutpostTypeOK
  <1>2. Head(mempool) = mempool[1] /\ 1 \in DOMAIN mempool /\ mempool[1] \in Entries
    BY <1>1
  <1>3. i \in WalletCalls /\ calls[i].step = "waiting" /\ Head(mempool).tx = FirstTransaction(calls[i])
    BY <1>2 DEF OutpostInv, OneTransactionEach, Entries
  <1>4. calls[i] \in CallRecords
    BY <1>3, BegunIsRecord DEF OutpostInv
  <1>5. CallRight(calls[i], chain)
    BY <1>3 DEF OutpostInv, CallsRight
  <1>6. FirstTransaction(calls[i]) \in OutpostTransactions
    BY <1>2, <1>3 DEF Entries, OutpostTransactions
  <1> QED BY <1>3, <1>4, <1>5, <1>6

\* The first leaves the queue, the others go on waiting.
LEMMA QueueMovesOn ==
    ASSUME OutpostInv, mempool # <<>>, mempool' = Tail(mempool),
           \A j \in WalletCalls \ {Head(mempool).call} : calls[j].step = "waiting" =>
               calls'[j].step = "waiting" /\ FirstTransaction(calls'[j]) = FirstTransaction(calls[j])
    PROVE  mempool' \in Seq(Entries) /\ OneTransactionEach'
  <1> DEFINE n == Len(mempool)
  <1>1. /\ mempool \in Seq(Entries) /\ n \in Nat /\ n >= 1 /\ DOMAIN mempool = 1..n /\ Head(mempool) = mempool[1]
        /\ mempool' \in Seq(Entries) /\ DOMAIN mempool' = 1..n - 1
        /\ \A k \in 1..n - 1 : mempool'[k] = mempool[k + 1]
        /\ \A k \in 1..n : mempool[k] \in Entries
    <2>1. mempool \in Seq(Entries)
      BY DEF OutpostInv, OutpostTypeOK
    <2> QED BY <2>1
  <1>2. /\ \A k \in 1..n : calls[mempool[k].call].step = "waiting" /\ mempool[k].tx = FirstTransaction(calls[mempool[k].call])
        /\ \A j, k \in 1..n : mempool[j].call = mempool[k].call => j = k
    BY <1>1 DEF OutpostInv, OneTransactionEach
  <1> HIDE DEF n
  <1>3. ASSUME NEW k \in 1..n - 1
        PROVE  /\ calls'[mempool'[k].call].step = "waiting"
               /\ mempool'[k].tx = FirstTransaction(calls'[mempool'[k].call])
    <2>1. k + 1 \in 1..n /\ 1 \in 1..n /\ k + 1 # 1
      BY <1>1
    <2>2. mempool[k + 1].call \in WalletCalls \ {mempool[1].call}
      BY <1>1, <1>2, <2>1 DEF Entries
    <2> QED BY <1>1, <1>2, <2>1, <2>2
  <1>4. ASSUME NEW j \in 1..n - 1, NEW k \in 1..n - 1, mempool'[j].call = mempool'[k].call
        PROVE  j = k
    <2>1. j + 1 \in 1..n /\ k + 1 \in 1..n
      BY <1>1
    <2>2. j + 1 = k + 1
      BY <1>1, <1>2, <1>4, <2>1
    <2> QED BY <1>1, <2>2
  <1> QED BY <1>1, <1>3, <1>4 DEF OneTransactionEach, FirstTransaction

LEMMA MineInv == OutpostInv /\ Mine => OutpostInv'
  <1> SUFFICES ASSUME OutpostInv, Mine PROVE OutpostInv'
    OBVIOUS
  <1> DEFINE i == Head(mempool).call
             tx == Head(mempool).tx
             ok == Succeeds(tx, chain)
             c == IF ok THEN Effect(tx, chain) ELSE chain
             old == calls[i]
             result == IF ok THEN "succeeded" ELSE "reverted"
             granted == [old EXCEPT !.step = "signing", !.seen = [approved |-> TRUE]]
             done == [old EXCEPT !.step = "done", !.result = result]
             new == IF tx.op = "approval" THEN granted ELSE done
             others == [calls EXCEPT ![i] = new]
  <1>1. mempool # <<>> /\ mempool' = Tail(mempool) /\ deployment' = deployment
    BY DEF Mine
  <1>2. /\ i \in WalletCalls /\ old \in CallRecords /\ old.step = "waiting" /\ tx = FirstTransaction(old)
        /\ tx \in OutpostTransactions /\ CallRight(old, chain)
    BY <1>1, FirstInQueue
  <1>3. calls \in CallsTypes /\ chain \in Chains
    BY DEF OutpostInv, OutpostTypeOK, CallsTypes
  <1>4. Becomes(c, others)
    <2>1. CASE tx.op = "approval"
      <3>1. others = [calls EXCEPT ![i].step = "signing", ![i].seen = [approved |-> TRUE]]
        BY <2>1, <1>2, <1>3 DEF CallsTypes
      <3> QED BY <2>1, <3>1 DEF Mine
    <2>2. CASE tx.op # "approval"
      <3>1. others = Finish(i, result)
        BY <2>2, <1>2, <1>3 DEF CallsTypes, Finish
      <3> QED BY <2>2, <3>1 DEF Mine
    <2> QED BY <2>1, <2>2
  <1>5. c \in Chains /\ c.time = chain.time /\ chain.time \in Int
    BY <1>2, <1>3, EffectOnChain DEF Chains
  <1>6. SlotsLeft(old, chain) /\ (~old.changed => Succeeds(tx, chain))
    BY <1>2 DEF CallRight
  <1> HIDE DEF i, tx, c, result
  <1>7. ASSUME tx.op = "approval"
        PROVE  granted \in CallRecords /\ CallRight(granted, c) /\ granted.op = "commit"
               /\ c = [chain EXCEPT !.approved = TRUE]
    <2>1. old.op = "commit"
      <3>1. tx.op = IF old.op = "commit" /\ ~old.seen.approved THEN "approval" ELSE old.op
        BY <1>2 DEF FirstTransaction
      <3>2. old.op # "approval"
        BY <1>2 DEF CallRecords, OpNames
      <3> QED BY <3>1, <3>2, <1>7
    <2>2. /\ granted.step = "signing" /\ granted.op = "commit" /\ granted.arg = old.arg
          /\ granted.changed = old.changed /\ granted.seen = [approved |-> TRUE] /\ granted \in CallRecords
      <3>1. [approved |-> TRUE] \in Seens
        <4>1. [approved |-> TRUE] \in [{"approved"} -> Seen]
          <5> DEFINE g == [approved |-> TRUE]
          <5>1. DOMAIN g = {"approved"} /\ g["approved"] = TRUE /\ g = [f \in {"approved"} |-> g[f]]
            OBVIOUS
          <5> HIDE DEF g
          <5>2. g["approved"] \in Seen
            BY <5>1 DEF Seen
          <5>3. g \in [{"approved"} -> Seen]
            BY <5>1, <5>2
          <5> QED BY <5>3 DEF g
        <4>2. {"approved"} \in SUBSET Fields
          BY DEF Fields
        <4> QED BY <4>1, <4>2 DEF Seens
      <3> QED BY <3>1, <1>2, <2>1 DEF CallRecords
    <2> HIDE DEF granted
    <2>3. c = [chain EXCEPT !.approved = TRUE]
      <3>1. Succeeds(tx, chain)
        BY <1>7, ApprovalSucceeds
      <3> QED BY <3>1, <1>7 DEF Effect, c
    <2>4. c.approved /\ c.slots = chain.slots
      BY <2>3, <1>3 DEF Chains
    <2>5. FirstTransaction(granted).op = "commit"
      BY <2>2 DEF FirstTransaction
    <2>6. ~granted.changed => Succeeds(FirstTransaction(granted), c)
      <3> DEFINE first == FirstTransaction(granted)
      <3>1. ~granted.changed => c.slots > 0
        BY <1>6, <2>1, <2>2, <2>4 DEF SlotsLeft
      <3>2. first.op = "commit"
        BY <2>5
      <3> HIDE DEF first
      <3>3. ~granted.changed => Succeeds(first, c)
        BY <3>1, <3>2, <2>4 DEF Succeeds
      <3> QED BY <3>3 DEF first
    <2>7. CallRight(granted, c)
      <3>1. SlotsLeft(granted, c) /\ ArgumentRight(granted) /\ ~Pinned(granted.op)
        BY <1>6, <2>1, <2>2, <2>4 DEF SlotsLeft, ArgumentRight, Pinned
      <3> QED BY <3>1, <2>2, <2>6 DEF CallRight
    <2> QED BY <2>2, <2>3, <2>7 DEF granted
  <1>8. done \in CallRecords /\ CallRight(done, chain)
    <2>1. result = "reverted" => old.changed
      BY <1>6 DEF result
    <2>2. result \in {"none", "refused", "succeeded", "reverted", "expired"}
      BY DEF result
    <2> QED BY <1>2, <2>1, <2>2, DoneRight
  <1> HIDE DEF granted, done
  <1>9. /\ new \in CallRecords
        /\ \/ CallRight(new, chain)
           \/ CallRight(new, c) /\ new.op = "commit" /\ c = [chain EXCEPT !.approved = TRUE]
    BY <1>7, <1>8
  <1> HIDE DEF new
  <1>10. others \in [WalletCalls -> CallRecords \cup {NotCalled}]
    BY <1>2, <1>3, <1>9 DEF CallsTypes
  <1>11. others[i] = new /\ \A j \in WalletCalls \ {i} : others[j] = calls[j]
    BY <1>2, <1>3 DEF CallsTypes
  <1> HIDE DEF others
  <1>12. \A j \in WalletCalls : others[j].step # "idle" =>
             \/ CallRight(others[j], chain)
             \/ CallRight(others[j], c) /\ others[j].op = "commit" /\ c = [chain EXCEPT !.approved = TRUE]
    <2> SUFFICES ASSUME NEW j \in WalletCalls, others[j].step # "idle"
                 PROVE  \/ CallRight(others[j], chain)
                        \/ CallRight(others[j], c) /\ others[j].op = "commit" /\ c = [chain EXCEPT !.approved = TRUE]
      OBVIOUS
    <2>1. CASE j = i
      BY <2>1, <1>9, <1>11
    <2>2. CASE j # i
      <3>1. others[j] = calls[j]
        BY <2>2, <1>11
      <3> QED BY <3>1 DEF OutpostInv, CallsRight
    <2> QED BY <2>1, <2>2
  <1>13. /\ chain' = c
         /\ calls' \in [WalletCalls -> CallRecords \cup {NotCalled}]
         /\ \A j \in WalletCalls : calls'[j].step # "idle" => CallRight(calls'[j], c)
         /\ \A j \in WalletCalls :
                /\ calls'[j].step = others[j].step
                /\ others[j].step # "idle" => FirstTransaction(calls'[j]) = FirstTransaction(others[j])
    <2>1. chain.time <= c.time
      BY <1>5
    <2> QED BY <2>1, <1>3, <1>4, <1>5, <1>10, <1>12, BecomesRight
  <1>14. mempool' \in Seq(Entries) /\ OneTransactionEach'
    <2>1. \A j \in WalletCalls \ {i} : calls[j].step = "waiting" =>
              calls'[j].step = "waiting" /\ FirstTransaction(calls'[j]) = FirstTransaction(calls[j])
      BY <1>11, <1>13
    <2> QED BY <2>1, <1>1, QueueMovesOn DEF i
  <1>15. OutpostTypeOK'
    BY <1>1, <1>5, <1>13, <1>14 DEF OutpostInv, OutpostTypeOK, NotCalled
  <1>16. CallsRight'
    BY <1>1, <1>13, DeploymentKept DEF CallsRight
  <1> QED BY <1>14, <1>15, <1>16 DEF OutpostInv

LEMMA ExpireInv == OutpostInv /\ Expire => OutpostInv'
  <1> SUFFICES ASSUME OutpostInv, Expire PROVE OutpostInv'
    OBVIOUS
  <1> DEFINE i == Head(mempool).call
             old == calls[i]
             new == [old EXCEPT !.step = "done", !.result = "expired"]
  <1>1. mempool # <<>> /\ mempool' = Tail(mempool) /\ UNCHANGED <<deployment, chain>>
    BY DEF Expire
  <1>2. i \in WalletCalls /\ old \in CallRecords /\ old.step = "waiting" /\ CallRight(old, chain)
    BY <1>1, FirstInQueue
  <1>3. calls \in CallsTypes
    BY DEF OutpostInv, OutpostTypeOK, CallsTypes
  <1>4. calls' = [calls EXCEPT ![i] = new]
    BY <1>2, <1>3 DEF Expire, Finish, CallsTypes
  <1>5. new \in CallRecords /\ CallRight(new, chain)
    BY <1>2, DoneRight
  <1> HIDE DEF new, i
  <1>6. /\ calls' \in CallsTypes
        /\ \A j \in WalletCalls : calls'[j].step # "idle" => CallRight(calls'[j], chain')
        /\ \A j \in WalletCalls \ {i} : calls'[j] = calls[j]
    BY <1>1, <1>2, <1>4, <1>5, OwnStep
  <1>7. mempool' \in Seq(Entries) /\ OneTransactionEach'
    BY <1>1, <1>6, QueueMovesOn DEF i
  <1>8. OutpostTypeOK'
    BY <1>1, <1>6, <1>7 DEF OutpostInv, OutpostTypeOK, CallsTypes, NotCalled
  <1>9. CallsRight'
    BY <1>1, <1>6, DeploymentKept DEF CallsRight
  <1> QED BY <1>7, <1>8, <1>9 DEF OutpostInv

LEMMA ElsewhereOnChain ==
    ASSUME chain \in Chains, NEW c \in Elsewhere
    PROVE  c \in Chains /\ chain.time <= c.time
  <1>1. /\ chain.time \in Int /\ chain.liquid \in Int /\ chain.nextReceiptId \in Int
        /\ chain.receipts \in SUBSET Receipts
    BY DEF Chains
  <1>2. CASE c = [chain EXCEPT !.time = @ + 1]
    BY <1>1, <1>2 DEF Chains
  <1>3. CASE c \in {[chain EXCEPT !.tokenPaused = ~@], [chain EXCEPT !.poolPaused = ~@],
                    [chain EXCEPT !.claimPaused = ~@], [chain EXCEPT !.approved = FALSE]}
    <2>1. CASE c = [chain EXCEPT !.tokenPaused = ~@]
      <3>1. PICK p \in BOOLEAN : c = [chain EXCEPT !.tokenPaused = p]
        BY <2>1
      <3>2. c \in Chains /\ c.time = chain.time
        BY <3>1 DEF Chains
      <3> QED BY <1>1, <3>2
    <2>2. CASE c = [chain EXCEPT !.poolPaused = ~@]
      <3>1. PICK p \in BOOLEAN : c = [chain EXCEPT !.poolPaused = p]
        BY <2>2
      <3>2. c \in Chains /\ c.time = chain.time
        BY <3>1 DEF Chains
      <3> QED BY <1>1, <3>2
    <2>3. CASE c = [chain EXCEPT !.claimPaused = ~@]
      <3>1. PICK p \in BOOLEAN : c = [chain EXCEPT !.claimPaused = p]
        BY <2>3
      <3>2. c \in Chains /\ c.time = chain.time
        BY <3>1 DEF Chains
      <3> QED BY <1>1, <3>2
    <2>4. CASE c = [chain EXCEPT !.approved = FALSE]
      <3>1. PICK p \in BOOLEAN : c = [chain EXCEPT !.approved = p]
        BY <2>4
      <3>2. c \in Chains /\ c.time = chain.time
        BY <3>1 DEF Chains
      <3> QED BY <1>1, <3>2
    <2> QED BY <2>1, <2>2, <2>3, <2>4, <1>3
  <1>4. CASE c = [chain EXCEPT !.nextReceiptId = @ + 1]
    BY <1>1, <1>4 DEF Chains
  <1>5. CASE c = [chain EXCEPT !.liquid = IF @ = 0 THEN 0 ELSE @ - 1]
    BY <1>1, <1>5 DEF Chains
  <1>6. ASSUME NEW r \in chain.receipts,
               c = [chain EXCEPT !.receipts = (@ \ {r}) \cup {[r EXCEPT !.mine = FALSE]}]
        PROVE  c \in Chains /\ chain.time <= c.time
    <2> DEFINE given == [r EXCEPT !.mine = FALSE]
    <2>1. given \in Receipts
      BY <1>1 DEF Receipts
    <2> HIDE DEF given
    <2>2. (chain.receipts \ {r}) \cup {given} \in SUBSET Receipts
      BY <1>1, <2>1
    <2>3. c = [chain EXCEPT !.receipts = (chain.receipts \ {r}) \cup {given}]
      BY <1>6 DEF given
    <2> QED BY <1>1, <2>2, <2>3 DEF Chains
  <1>7. ASSUME NEW n \in Amounts \cup {0}, c = [chain EXCEPT !.payout = n]
        PROVE  c \in Chains /\ chain.time <= c.time
    <2>1. n \in Int
      BY OutpostWalletAssumption
    <2> QED BY <1>1, <1>7, <2>1 DEF Chains
  <1> QED BY <1>2, <1>3, <1>4, <1>5, <1>6, <1>7 DEF Elsewhere

LEMMA MoveInv ==
    ASSUME OutpostInv, NEW c \in Elsewhere, Move(c)
    PROVE  OutpostInv'
  <1>1. Becomes(c, calls) /\ mempool' = mempool /\ deployment' = deployment
    BY DEF Move
  <1>2. chain \in Chains /\ calls \in [WalletCalls -> CallRecords \cup {NotCalled}] /\ mempool \in Seq(Entries)
    BY DEF OutpostInv, OutpostTypeOK
  <1>3. c \in Chains /\ chain.time <= c.time
    BY <1>2, ElsewhereOnChain
  <1>4. \A j \in WalletCalls : calls[j].step # "idle" => CallRight(calls[j], chain)
    BY DEF OutpostInv, CallsRight
  <1>5. /\ chain' = c
        /\ calls' \in [WalletCalls -> CallRecords \cup {NotCalled}]
        /\ \A j \in WalletCalls : calls'[j].step # "idle" => CallRight(calls'[j], c)
        /\ \A j \in WalletCalls :
               /\ calls'[j].step = calls[j].step
               /\ calls[j].step # "idle" => FirstTransaction(calls'[j]) = FirstTransaction(calls[j])
    BY <1>1, <1>2, <1>3, <1>4, BecomesRight
  <1>6. OutpostTypeOK'
    BY <1>1, <1>2, <1>3, <1>5 DEF OutpostInv, OutpostTypeOK, NotCalled
  <1>7. OneTransactionEach'
    <2>1. \A k \in DOMAIN mempool : /\ mempool[k].call \in WalletCalls
                                    /\ calls[mempool[k].call].step = "waiting"
                                    /\ mempool[k].tx = FirstTransaction(calls[mempool[k].call])
      <3>1. \A k \in DOMAIN mempool : mempool[k] \in Entries
        BY <1>2
      <3> QED BY <3>1 DEF OutpostInv, OneTransactionEach, Entries
    <2>2. \A j, k \in DOMAIN mempool : mempool[j].call = mempool[k].call => j = k
      BY DEF OutpostInv, OneTransactionEach
    <2>3. \A k \in DOMAIN mempool : /\ calls'[mempool[k].call].step = "waiting"
                                    /\ mempool[k].tx = FirstTransaction(calls'[mempool[k].call])
      BY <2>1, <1>5
    <2> QED BY <1>1, <2>2, <2>3 DEF OneTransactionEach, FirstTransaction
  <1>8. CallsRight'
    BY <1>1, <1>5, DeploymentKept DEF CallsRight
  <1> QED BY <1>6, <1>7, <1>8 DEF OutpostInv

LEMMA OutpostStep == OutpostInv /\ [WNext]_wallet => OutpostInv'
  <1> SUFFICES ASSUME OutpostInv, [WNext]_wallet PROVE OutpostInv'
    OBVIOUS
  <1>1. ASSUME NEW i \in WalletCalls, NEW o \in Operations, NEW fields \in SUBSET Reads(o[1]),
               Start(i, o[1], o[2], fields)
        PROVE  OutpostInv'
    BY <1>1, StartInv
  <1>2. ASSUME NEW i \in WalletCalls, ReadRest(i) \/ Build(i) \/ Sign(i) \/ RefuseToSign(i)
        PROVE  OutpostInv'
    BY <1>2, ReadRestInv, BuildInv, SignInv, RefusalInv
  <1>3. ASSUME NEW c \in Elsewhere, Move(c) PROVE OutpostInv'
    BY <1>3, MoveInv
  <1>4. CASE UNCHANGED wallet
    <2>1. deployment' = deployment /\ chain' = chain /\ calls' = calls /\ mempool' = mempool
      BY <1>4 DEF wallet
    <2>2. OutpostTypeOK' /\ OneTransactionEach'
      BY <2>1 DEF OutpostInv, OutpostTypeOK, OneTransactionEach, FirstTransaction, NotCalled
    <2>3. CallsRight'
      BY <2>1, DeploymentKept DEF OutpostInv, CallsRight
    <2> QED BY <2>2, <2>3 DEF OutpostInv
  <1> QED BY <1>1, <1>2, <1>3, <1>4, MineInv, ExpireInv DEF WNext

LEMMA OutpostInit == WInit => OutpostInv
  <1> SUFFICES ASSUME WInit PROVE OutpostInv
    OBVIOUS
  <1>1. MaxOf(Amounts) \in Int /\ WithdrawDelay \in Int
    <2>1. \E n \in Amounts : \A m \in Amounts : m <= n
      BY OutpostWalletAssumption
    <2>2. MaxOf(Amounts) \in Amounts
      BY <2>1 DEF MaxOf
    <2>3. Amounts \subseteq Int /\ WithdrawDelay \in Int
      BY OutpostWalletAssumption
    <2> QED BY <2>2, <2>3
  <1>2. chain \in Chains
    <2> DEFINE first == [id |-> 1, amount |-> 1, readyAt |-> WithdrawDelay, mine |-> TRUE]
    <2>1. {first} \in SUBSET Receipts
      BY <1>1 DEF Receipts
    <2>2. chain = [time |-> 0, native |-> MaxOf(Amounts), liquid |-> MaxOf(Amounts), allowance |-> 0,
                   tokenPaused |-> FALSE, poolPaused |-> FALSE, claimPaused |-> FALSE,
                   payout |-> MaxOf(Amounts), receipts |-> {first}, nextReceiptId |-> 2, approved |-> FALSE, slots |-> 1]
      BY DEF WInit
    <2> HIDE DEF first
    <2> QED BY <1>1, <2>1, <2>2 DEF Chains
  <1>3. calls = [i \in WalletCalls |-> NotCalled] /\ mempool = <<>> /\ deployment \in Deployments
    BY DEF WInit
  <1>4. NotCalled.step = "idle"
    BY DEF NotCalled
  <1>5. OutpostTypeOK
    <2>1. mempool \in Seq(Entries) /\ calls \in [WalletCalls -> CallRecords \cup {NotCalled}]
      BY <1>3
    <2> QED BY <2>1, <1>2, <1>3 DEF OutpostTypeOK
  <1> QED BY <1>3, <1>4, <1>5 DEF OutpostInv, OneTransactionEach, CallsRight

LEMMA OutpostShown == OutpostInv => CallsAgree
  <1> SUFFICES ASSUME OutpostInv PROVE CallsAgree
    OBVIOUS
  <1>1. QuietCallsAgree
    <2> SUFFICES ASSUME NEW i \in WalletCalls, calls[i].step = "done", ~calls[i].changed
                 PROVE  /\ calls[i].result # "reverted"
                        /\ calls[i].result = "thrown" => ~Succeeds(AnyTransaction(calls[i]), calls[i].block)
      BY DEF QuietCallsAgree, AnyTransaction
    <2> QED BY DEF OutpostInv, CallsRight, CallRight
  <1>2. ReadAtOneBlock
    <2> SUFFICES ASSUME NEW i \in WalletCalls, calls[i].step \in {"building", "signing", "waiting", "done"},
                        Pinned(calls[i].op), NEW f \in Reads(calls[i].op)
                 PROVE  calls[i].seen[f] = calls[i].block[f]
      BY DEF ReadAtOneBlock
    <2> QED BY DEF OutpostInv, CallsRight, CallRight
  <1> QED BY <1>1, <1>2 DEF CallsAgree

(***************************************************************************)
(* OutpostWallet: for any number of calls, whatever amounts, minima, fees  *)
(* and delays there are and however the chain moves between a call's       *)
(* requests, its signature and its execution, what the client lets the     *)
(* user sign fails only if something it depends on changed meanwhile, the  *)
(* client refuses only what the contracts would have refused, and a        *)
(* withdrawal on Ethereum is decided on one block.                         *)
(***************************************************************************)
THEOREM CallsAlwaysAgree == WSpec => []CallsAgree
  <1> QED BY OutpostInit, OutpostStep, OutpostShown, PTL DEF WSpec

---------------------------------------------------------------------------
(* The verification of a deployment.                                       *)

Cand == Candidates(profile)

\* Suites that have been given up.
Tried == Len(Cand) - Len(candidates)

VerificationTypeOK ==
    /\ profile \in Profiles
    /\ live \in [Contracts -> Implementations \cup {Nothing}]
    /\ candidates \in Seq(Range(Suites))
    /\ reader \in [Contracts -> {"proxy", "slot", "code", "done"}]
    /\ verdict \in {"none", "verified", "refused"}
    /\ upgrades \in Nat /\ failures \in Nat

\* The candidates that are left are the last ones, and one is tried to the end.
CandidatesLeft ==
    /\ Len(candidates) <= Len(Cand)
    /\ \A i \in 1..Len(candidates) : candidates[i] = Cand[Tried + i]
    /\ candidates = <<>> => Cand = <<>>

\* What a contract's reader has passed is so, or was before an upgrade.
ReadersRight ==
    \A c \in Contracts :
        /\ reader[c] = "done" =>
               candidates # <<>> /\ Template[profile.implementation[c]] = Suite.templates[c]
        /\ upgrades = 0 /\ profile.family # "solana" /\ reader[c] \in {"code", "done"} =>
               live[c] = profile.implementation[c]
        /\ upgrades = 0 /\ reader[c] = "done" => live[c] = profile.implementation[c]

VerdictRight ==
    /\ verdict = "verified" => candidates # <<>> /\ \A c \in Contracts : reader[c] = "done"
    /\ upgrades = 0 /\ failures = 0 =>
           \A i \in 1..Len(Cand) : i <= Tried \/ verdict = "refused" => ~LiveFor(Cand[i])

VerificationInv == VerificationTypeOK /\ CandidatesLeft /\ ReadersRight /\ VerdictRight

LEMMA CandidatesFit ==
    ASSUME VerificationTypeOK
    PROVE  /\ Cand \in Seq(Range(Suites))
           /\ \A i \in 1..Len(Cand) : Cand[i].interfaces = profile.interfaces
  <1> DEFINE T == {s \in Range(Suites) : s.interfaces = profile.interfaces}
  <1>1. Suites \in Seq(Range(Suites))
    BY OutpostVerificationAssumption
  <1>2. Cand = Selected(Suites, T)
    BY DEF Cand, Candidates
  <1>3. Cand \in Seq(Range(Suites) \cap T)
    BY <1>1, <1>2, SelectedRange
  <1> DEFINE R == Range(Suites) \cap T
             q == Cand
  <1>4. \A s \in R : s \in Range(Suites) /\ s.interfaces = profile.interfaces
    OBVIOUS
  <1>5. q \in Seq(R)
    BY <1>3
  <1> HIDE DEF R, q
  <1>6. q \in Seq(Range(Suites)) /\ \A i \in 1..Len(q) : q[i].interfaces = profile.interfaces
    BY <1>4, <1>5
  <1> QED BY <1>6 DEF q

\* A contract that does not match is not the one of a live suite.
LEMMA MismatchIsNotLive ==
    ASSUME VerificationTypeOK, NEW c \in Contracts, reader[c] # "done", ~Matches(c, reader[c])
    PROVE  ~LiveFor(Suite)
  <1> SUFFICES ASSUME LiveFor(Suite) PROVE FALSE
    OBVIOUS
  <1>1. live[c] = profile.implementation[c] /\ Template[live[c]] = Suite.templates[c]
    BY DEF LiveFor
  <1>2. profile.implementation[c] \in Implementations /\ Nothing \notin Implementations
    BY OutpostVerificationAssumption DEF VerificationTypeOK
  <1>3. reader[c] \in {"proxy", "slot", "code"}
    BY DEF VerificationTypeOK
  <1> QED BY <1>1, <1>2, <1>3 DEF Matches

\* The next suite is tried, or none is left.
LEMMA MismatchInv ==
    ASSUME VerificationInv, verdict = "none", candidates # <<>>, Mismatch,
           profile' = profile, live' = live, upgrades' = upgrades, failures' \in Nat, failures' >= failures,
           failures' = 0 => ~LiveFor(Suite)
    PROVE  VerificationInv'
  <1> USE DEF Cand
  <1>0. VerificationTypeOK /\ CandidatesLeft /\ ReadersRight /\ VerdictRight
    BY DEF VerificationInv
  <1> DEFINE n == Len(candidates)
             m == Len(Cand)
  <1>1. /\ candidates \in Seq(Range(Suites)) /\ Cand \in Seq(Range(Suites)) /\ n \in Nat \ {0} /\ m \in Nat
        /\ n <= m /\ Tried = m - n /\ candidates[1] = Cand[m - n + 1] /\ Suite = candidates[1]
    <2>1. candidates \in Seq(Range(Suites)) /\ Cand \in Seq(Range(Suites)) /\ n \in Nat \ {0} /\ m \in Nat
      BY <1>0, CandidatesFit DEF VerificationTypeOK
    <2>2. n <= m /\ \A i \in 1..n : candidates[i] = Cand[Tried + i]
      BY <1>0 DEF CandidatesLeft
    <2>3. 1 \in 1..n
      BY <2>1
    <2> QED BY <2>1, <2>2, <2>3 DEF Tried, Suite
  <1>2. Cand' = Cand
    BY DEF Candidates
  <1>3. failures' = 0 => failures = 0
    BY <1>0 DEF VerificationTypeOK
  <1>4. upgrades = 0 /\ failures' = 0 => \A i \in 1..m : i <= m - n + 1 => ~LiveFor(Cand[i])
    <2> SUFFICES ASSUME upgrades = 0, failures' = 0, NEW i \in 1..m, i <= m - n + 1
                 PROVE  ~LiveFor(Cand[i])
      OBVIOUS
    <2>1. CASE i <= m - n
      BY <2>1, <1>0, <1>1, <1>3 DEF VerdictRight
    <2>2. CASE i = m - n + 1
      BY <2>2, <1>1
    <2> HIDE DEF m, n
    <2> QED BY <2>1, <2>2, <1>1
  <1>5. \A s : LiveFor(s)' <=> LiveFor(s)
    BY DEF LiveFor
  <1>6. CASE n > 1
    <2>1. candidates' = Tail(candidates) /\ reader' = Unread /\ verdict' = "none"
      BY <1>6 DEF Mismatch
    <2>2. /\ candidates' \in Seq(Range(Suites)) /\ Len(candidates') = n - 1
          /\ \A i \in 1..n - 1 : candidates'[i] = candidates[i + 1]
      BY <1>1, <2>1
    <2>3. VerificationTypeOK'
      BY <1>0, <2>1, <2>2 DEF VerificationTypeOK, Unread
    <2>4. Tried' = m - n + 1
      <3>1. Tried' = m - (n - 1)
        BY <2>2, <1>2 DEF Tried
      <3> HIDE DEF m, n
      <3> QED BY <3>1, <1>1
    <2>5. CandidatesLeft'
      <3>1. \A i \in 1..n - 1 : candidates'[i] = Cand[Tried' + i]
        <4> SUFFICES ASSUME NEW i \in 1..n - 1 PROVE candidates'[i] = Cand[Tried' + i]
          OBVIOUS
        <4>1. \A k \in 1..n : candidates[k] = Cand[Tried + k]
          BY <1>0 DEF CandidatesLeft
        <4>2. candidates'[i] = candidates[i + 1]
          BY <2>2
        <4> HIDE DEF m, n
        <4>3. i + 1 \in 1..n /\ Tried' + i = Tried + (i + 1)
          BY <1>1, <2>4
        <4> QED BY <4>1, <4>2, <4>3
      <3>2. n - 1 <= m /\ n - 1 > 0
        <4> HIDE DEF m, n
        <4> QED BY <1>1, <1>6
      <3>3. candidates' # <<>>
        BY <3>2, <2>2
      <3> QED BY <3>1, <3>2, <3>3, <2>2, <1>2 DEF CandidatesLeft
    <2>6. ReadersRight'
      BY <2>1 DEF ReadersRight, Unread
    <2>7. VerdictRight'
      <3>1. upgrades' = 0 /\ failures' = 0 => \A i \in 1..m : i <= Tried' => ~LiveFor(Cand[i])
        BY <1>4, <2>4
      <3> QED BY <3>1, <1>2, <1>5, <2>1 DEF VerdictRight
    <2> QED BY <2>3, <2>5, <2>6, <2>7 DEF VerificationInv
  <1>7. CASE ~(n > 1)
    <2>1. candidates' = candidates /\ reader' = reader /\ verdict' = "refused"
      BY <1>7 DEF Mismatch
    <2>2. VerificationTypeOK'
      BY <1>0, <2>1 DEF VerificationTypeOK
    <2>3. CandidatesLeft' /\ ReadersRight'
      BY <1>0, <1>2, <2>1 DEF CandidatesLeft, ReadersRight, Tried, Suite
    <2>4. VerdictRight'
      <3>1. m - n + 1 = m
        <4> HIDE DEF m, n
        <4> QED BY <1>1, <1>7
      <3>2. upgrades' = 0 /\ failures' = 0 => \A i \in 1..m : ~LiveFor(Cand[i])
        BY <1>1, <1>4, <3>1
      <3> QED BY <3>2, <1>2, <1>5, <2>1 DEF VerdictRight
    <2> QED BY <2>2, <2>3, <2>4 DEF VerificationInv
  <1> QED BY <1>6, <1>7

LEMMA AnswerInv ==
    ASSUME VerificationInv, NEW c \in Contracts, Answer(c)
    PROVE  VerificationInv'
  <1>0. VerificationTypeOK /\ CandidatesLeft /\ ReadersRight /\ VerdictRight
    BY DEF VerificationInv
  <1>1. /\ verdict = "none" /\ candidates # <<>> /\ reader[c] # "done"
        /\ profile' = profile /\ live' = live /\ upgrades' = upgrades /\ failures' = failures
    BY DEF Answer
  <1>2. CASE ~Matches(c, reader[c])
    <2>1. Mismatch
      BY <1>2 DEF Answer
    <2>2. ~LiveFor(Suite)
      BY <1>0, <1>1, <1>2, MismatchIsNotLive
    <2>3. failures' \in Nat /\ failures' >= failures
      BY <1>0, <1>1 DEF VerificationTypeOK
    <2> QED BY <1>1, <2>1, <2>2, <2>3, MismatchInv
  <1>3. CASE Matches(c, reader[c])
    <2>1. /\ reader' = [reader EXCEPT ![c] = NextStep(reader[c])] /\ candidates' = candidates
          /\ verdict' = IF \A d \in Contracts : reader'[d] = "done" THEN "verified" ELSE "none"
      BY <1>3 DEF Answer, Answered
    <2>2. reader[c] \in {"proxy", "slot", "code"} /\ reader \in [Contracts -> {"proxy", "slot", "code", "done"}]
      BY <1>0, <1>1 DEF VerificationTypeOK
    <2>3. reader'[c] = NextStep(reader[c]) /\ \A d \in Contracts : d # c => reader'[d] = reader[d]
      BY <2>1, <2>2
    <2>4. VerificationTypeOK'
      <3>1. NextStep(reader[c]) \in {"slot", "code", "done"}
        BY <2>2 DEF NextStep
      <3> QED BY <3>1, <2>1, <2>2, <1>0, <1>1 DEF VerificationTypeOK
    <2>5. CandidatesLeft'
      BY <1>0, <1>1, <2>1 DEF CandidatesLeft, Tried, Cand
    <2>6. ReadersRight'
      <3> SUFFICES ASSUME NEW d \in Contracts
                   PROVE  /\ reader'[d] = "done" =>
                                 candidates # <<>> /\ Template[profile.implementation[d]] = Suite.templates[d]
                          /\ upgrades = 0 /\ profile.family # "solana" /\ reader'[d] \in {"code", "done"} =>
                                 live[d] = profile.implementation[d]
                          /\ upgrades = 0 /\ reader'[d] = "done" => live[d] = profile.implementation[d]
        BY <1>1, <2>1 DEF ReadersRight, Suite
      <3>1. CASE d # c
        BY <3>1, <2>3, <1>0 DEF ReadersRight
      <3>2. CASE d = c
        <4>1. CASE reader[c] = "proxy"
          BY <4>1, <3>2, <2>3 DEF NextStep
        <4>2. CASE reader[c] = "slot"
          BY <4>2, <3>2, <2>3, <1>3 DEF NextStep, Matches
        <4>3. CASE reader[c] = "code"
          BY <4>3, <3>2, <2>3, <1>0, <1>1, <1>3 DEF NextStep, Matches, ReadersRight
        <4> QED BY <2>2, <4>1, <4>2, <4>3
      <3> QED BY <3>1, <3>2
    <2>7. VerdictRight'
      BY <1>0, <1>1, <2>1 DEF VerdictRight, Tried, Cand, LiveFor
    <2> QED BY <2>4, <2>5, <2>6, <2>7 DEF VerificationInv
  <1> QED BY <1>2, <1>3

LEMMA VerificationStep == VerificationInv /\ [VNext]_verification => VerificationInv'
  <1> SUFFICES ASSUME VerificationInv, [VNext]_verification PROVE VerificationInv'
    OBVIOUS
  <1>0. VerificationTypeOK /\ CandidatesLeft /\ ReadersRight /\ VerdictRight
    BY DEF VerificationInv
  <1>1. ASSUME NEW c \in Contracts, Answer(c) PROVE VerificationInv'
    BY <1>1, AnswerInv
  <1>2. ASSUME NEW c \in Contracts, NEW i \in Implementations, Upgrade(c, i) PROVE VerificationInv'
    <2>1. /\ verdict = "none" /\ live' = [live EXCEPT ![c] = i] /\ upgrades' = upgrades + 1
          /\ UNCHANGED <<profile, candidates, reader, verdict, failures>>
      BY <1>2 DEF Upgrade
    <2>2. VerificationTypeOK' /\ upgrades' # 0
      BY <1>0, <2>1 DEF VerificationTypeOK
    <2>3. CandidatesLeft' /\ VerdictRight'
      BY <1>0, <2>1, <2>2 DEF CandidatesLeft, VerdictRight, Tried, Cand
    <2>4. ReadersRight'
      BY <1>0, <2>1, <2>2 DEF ReadersRight, Suite
    <2> QED BY <2>2, <2>3, <2>4 DEF VerificationInv
  <1>3. CASE FailRequest
    <2>1. failures' \in Nat /\ failures' >= failures /\ failures' # 0
      BY <1>0, <1>3 DEF FailRequest, VerificationTypeOK
    <2>2. /\ verdict = "none" /\ candidates # <<>> /\ Mismatch
          /\ profile' = profile /\ live' = live /\ upgrades' = upgrades
      BY <1>3 DEF FailRequest
    <2> QED BY <2>1, <2>2, MismatchInv
  <1>4. CASE NoSuite
    <2>1. /\ candidates = <<>> /\ verdict' = "refused" /\ verdict = "none"
          /\ UNCHANGED <<profile, live, candidates, reader, upgrades, failures>>
      BY <1>4 DEF NoSuite
    <2>2. VerificationTypeOK' /\ CandidatesLeft' /\ ReadersRight'
      BY <1>0, <2>1 DEF VerificationTypeOK, CandidatesLeft, ReadersRight, Tried, Cand, Suite
    <2>3. Cand = <<>>
      BY <1>0, <2>1 DEF CandidatesLeft
    <2>4. VerdictRight'
      BY <2>1, <2>3 DEF VerdictRight, Cand
    <2> QED BY <2>2, <2>4 DEF VerificationInv
  <1>5. CASE UNCHANGED verification
    BY <1>0, <1>5
       DEF verification, VerificationInv, VerificationTypeOK, CandidatesLeft, ReadersRight, VerdictRight,
           Tried, Cand, Suite, LiveFor
  <1> QED BY <1>1, <1>2, <1>3, <1>4, <1>5 DEF VNext

LEMMA VerificationInit == VInit => VerificationInv
  <1> SUFFICES ASSUME VInit PROVE VerificationInv
    OBVIOUS
  <1>1. /\ profile \in Profiles /\ candidates = Cand /\ reader = [c \in Contracts |-> "proxy"]
        /\ verdict = "none" /\ upgrades = 0 /\ failures = 0
        /\ live \in [Contracts -> Implementations \cup {Nothing}]
    BY DEF VInit, Cand, Unread
  <1>2. Suites \in Seq(Range(Suites))
    BY OutpostVerificationAssumption
  <1>3. Cand \in Seq(Range(Suites))
    <2> DEFINE T == {s \in Range(Suites) : s.interfaces = profile.interfaces}
    <2>1. Cand \in Seq(Range(Suites) \cap T)
      BY <1>2, SelectedRange DEF Cand, Candidates
    <2> HIDE DEF T
    <2> QED BY <2>1
  <1>4. VerificationTypeOK
    BY <1>1, <1>3 DEF VerificationTypeOK
  <1>5. Len(Cand) \in Nat /\ Tried = 0
    BY <1>1, <1>3 DEF Tried
  <1>6. CandidatesLeft
    BY <1>1, <1>5 DEF CandidatesLeft
  <1>7. ReadersRight
    BY <1>1 DEF ReadersRight
  <1>8. VerdictRight
    BY <1>1, <1>5 DEF VerdictRight
  <1> QED BY <1>4, <1>6, <1>7, <1>8 DEF VerificationInv

LEMMA VerificationShown == VerificationInv => VerifiedSuiteIsLive
  <1> SUFFICES ASSUME VerificationInv PROVE VerifiedSuiteIsLive
    OBVIOUS
  <1>0. VerificationTypeOK /\ CandidatesLeft /\ ReadersRight /\ VerdictRight
    BY DEF VerificationInv
  <1>1. Cand \in Seq(Range(Suites)) /\ \A i \in 1..Len(Cand) : Cand[i].interfaces = profile.interfaces
    BY <1>0, CandidatesFit
  <1>2. ASSUME verdict = "verified"
        PROVE  /\ Suite.interfaces = profile.interfaces
               /\ \A c \in Contracts : Template[profile.implementation[c]] = Suite.templates[c]
               /\ upgrades = 0 => LiveFor(Suite)
    <2>1. candidates # <<>> /\ \A c \in Contracts : reader[c] = "done"
      BY <1>0, <1>2 DEF VerdictRight
    <2>2. Suite.interfaces = profile.interfaces
      <3> DEFINE n == Len(candidates)
                 m == Len(Cand)
      <3>1. /\ n \in Nat \ {0} /\ m \in Nat /\ n <= m /\ Tried = m - n /\ Suite = candidates[1]
            /\ \A i \in 1..n : candidates[i] = Cand[Tried + i]
        BY <2>1, <1>0, <1>1 DEF CandidatesLeft, VerificationTypeOK, Tried, Suite
      <3> HIDE DEF n, m
      <3>2. Tried + 1 \in 1..m /\ 1 \in 1..n
        BY <3>1
      <3> QED BY <3>1, <3>2, <1>1 DEF m
    <2> QED BY <2>1, <2>2, <1>0 DEF ReadersRight, LiveFor
  <1>3. ASSUME verdict = "refused", upgrades = 0, failures = 0
        PROVE  \A i \in DOMAIN Candidates(profile) : ~LiveFor(Candidates(profile)[i])
    BY <1>0, <1>1, <1>3 DEF VerdictRight, Cand
  <1> QED BY <1>2, <1>3 DEF VerifiedSuiteIsLive

(***************************************************************************)
(* OutpostVerification: whatever suites are registered and whatever        *)
(* contracts there are, a client is bound to a suite that is live, and a   *)
(* deployment is refused only if none is.                                  *)
(***************************************************************************)
THEOREM VerifiedSuiteIsAlwaysLive == VSpec => []VerifiedSuiteIsLive
  <1> QED BY VerificationInit, VerificationStep, VerificationShown, PTL DEF VSpec
=============================================================================
