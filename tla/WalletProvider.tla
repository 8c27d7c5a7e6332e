-------------------------- MODULE WalletProvider --------------------------
(***************************************************************************)
(* A web page that uses the wallet: WireWalletClient waits for the         *)
(* provider, the injected provider keeps its requests, the content script  *)
(* relays them to the background worker and the answers back.              *)
(*                                                                         *)
(* window.postMessage delivers in order; the worker answers the messages   *)
(* it has received in any order, or is stopped, upon which Chrome calls    *)
(* back without a response.  Request ids are unique.                       *)
(***************************************************************************)
EXTENDS Naturals, Sequences, FiniteSets

CONSTANTS
    Requests,       \* the requests the page makes
    None

ASSUME NoneAssumption == None \notin Requests

VARIABLES
    injected,       \* window.__WIRE_WALLET__ is there
    wait,           \* the promise of waitForProvider
    waitTimer,      \* its timeout is still set
    checkTimer,     \* its next check is scheduled
    pendingRequests,\* the provider's map of requests
    requestTimers,  \* requests whose 30 s timeout has not gone off
    settles,        \* how often resolve or reject was called
    value,          \* whose answer the promise resolved with
    toContent,      \* posted by the page, not seen by the content script
    atBackground,   \* sent to the worker, not answered
    toPage          \* answers posted to the page, not seen by it

client  == <<injected, wait, waitTimer, checkTimer>>
promises == <<settles, value>>
provider == <<pendingRequests, requestTimers, promises>>
bridge  == <<toContent, atBackground, toPage>>
providerVars == <<client, provider, bridge>>

\* An answer: the data of a success is named by the request it is for.
Response == [id : Requests, success : BOOLEAN, data : Requests \cup {None}]
Failure(r) == [id |-> r, success |-> FALSE, data |-> None]
Success(r) == [id |-> r, success |-> TRUE, data |-> r]

ProviderTypeOK ==
    /\ injected \in BOOLEAN
    /\ wait \in {"none", "open", "resolved", "rejected"}
    /\ waitTimer \in BOOLEAN
    /\ checkTimer \in BOOLEAN
    /\ pendingRequests \in SUBSET Requests
    /\ requestTimers \in SUBSET Requests
    /\ settles \in [Requests -> Nat]
    /\ value \in [Requests -> Requests \cup {None}]
    /\ toContent \in Seq(Requests)
    /\ atBackground \in SUBSET Requests
    /\ toPage \in Seq(Response)

ProviderInit ==
    /\ injected = FALSE
    /\ wait = "none"
    /\ waitTimer = FALSE
    /\ checkTimer = FALSE
    /\ pendingRequests = {}
    /\ requestTimers = {}
    /\ settles = [r \in Requests |-> 0]
    /\ value = [r \in Requests |-> None]
    /\ toContent = <<>>
    /\ atBackground = {}
    /\ toPage = <<>>

---------------------------------------------------------------------------
(* Waiting for the provider (WireWalletClient).                            *)

\* The script of the content script has loaded; without the extension, never.
Inject ==
    /\ ~injected
    /\ injected' = TRUE
    /\ UNCHANGED <<wait, waitTimer, checkTimer, provider, bridge>>

\* The first check is made by the call itself.
WaitForProvider ==
    /\ wait = "none"
    /\ IF injected
       THEN wait' = "resolved" /\ UNCHANGED <<waitTimer, checkTimer>>
       ELSE wait' = "open" /\ waitTimer' = TRUE /\ checkTimer' = TRUE
    /\ UNCHANGED <<injected, provider, bridge>>

\* A promise that is settled stays as it is.
Check ==
    /\ checkTimer
    /\ checkTimer' = ~injected
    /\ waitTimer' = (waitTimer /\ ~injected)
    /\ wait' = IF injected /\ wait = "open" THEN "resolved" ELSE wait
    /\ UNCHANGED <<injected, provider, bridge>>

WaitTimesOut ==
    /\ waitTimer
    /\ waitTimer' = FALSE
    /\ wait' = "rejected"
    /\ UNCHANGED <<injected, checkTimer, provider, bridge>>

---------------------------------------------------------------------------
(* The injected provider.                                                  *)

\* Mutant: no timeout is set.
RequestUntimed(r) ==
    /\ injected
    /\ settles[r] = 0
    /\ r \notin pendingRequests
    /\ pendingRequests' = pendingRequests \cup {r}
    /\ toContent' = Append(toContent, r)
    /\ UNCHANGED <<client, requestTimers, promises, atBackground, toPage>>

Request(r) ==
    /\ injected
    /\ settles[r] = 0
    /\ r \notin pendingRequests
    /\ pendingRequests' = pendingRequests \cup {r}
    /\ requestTimers' = requestTimers \cup {r}
    /\ toContent' = Append(toContent, r)
    /\ UNCHANGED <<client, promises, atBackground, toPage>>

Settle(r, data) ==
    /\ settles' = [settles EXCEPT ![r] = @ + 1]
    /\ value' = [value EXCEPT ![r] = IF settles[r] = 0 THEN data ELSE @]

\* Mutant: the timeout does not ask whether the request is pending.
TimeOutUnchecked(r) ==
    /\ r \in requestTimers
    /\ requestTimers' = requestTimers \ {r}
    /\ pendingRequests' = pendingRequests \ {r}
    /\ Settle(r, None)
    /\ UNCHANGED <<client, bridge>>

TimeOut(r) ==
    /\ r \in requestTimers
    /\ requestTimers' = requestTimers \ {r}
    /\ pendingRequests' = pendingRequests \ {r}
    /\ IF r \in pendingRequests THEN Settle(r, None) ELSE UNCHANGED promises
    /\ UNCHANGED <<client, bridge>>

\* Mutant: an answer settles whichever request is pending.
ReceiveResponseByTurn ==
    /\ toPage # <<>>
    /\ toPage' = Tail(toPage)
    /\ \E r \in pendingRequests :
           pendingRequests' = pendingRequests \ {r} /\ Settle(r, Head(toPage).data)
    /\ UNCHANGED <<client, requestTimers, toContent, atBackground>>

\* An answer to a request that is no longer pending is ignored.
ReceiveResponse ==
    /\ toPage # <<>>
    /\ toPage' = Tail(toPage)
    /\ LET response == Head(toPage) IN
       /\ pendingRequests' = pendingRequests \ {response.id}
       /\ IF response.id \in pendingRequests
          THEN Settle(response.id, response.data)
          ELSE UNCHANGED promises
    /\ UNCHANGED <<client, requestTimers, toContent, atBackground>>

---------------------------------------------------------------------------
(* The content script and the worker at its other end.                     *)

RelayToBackground ==
    /\ toContent # <<>>
    /\ toContent' = Tail(toContent)
    /\ atBackground' = atBackground \cup {Head(toContent)}
    /\ UNCHANGED <<client, provider, toPage>>

\* The callback of chrome.runtime.sendMessage posts what it is given.
RelayToPage(r, response) ==
    /\ r \in atBackground
    /\ atBackground' = atBackground \ {r}
    /\ toPage' = Append(toPage, response)
    /\ UNCHANGED <<client, provider, toContent>>

\* The worker answers, refuses, or is stopped and the callback gets undefined.
AnswerRequest(r) == RelayToPage(r, Success(r)) \/ RelayToPage(r, Failure(r))

---------------------------------------------------------------------------
ProviderNext ==
    \/ Inject
    \/ WaitForProvider
    \/ Check
    \/ WaitTimesOut
    \/ \E r \in Requests : Request(r) \/ TimeOut(r) \/ AnswerRequest(r)
    \/ ReceiveResponse
    \/ RelayToBackground

ProviderSpec == ProviderInit /\ [][ProviderNext]_providerVars

\* Timers go off.  Nothing is assumed of the content script or of the worker.
ProviderFairness ==
    /\ WF_providerVars(Check)
    /\ WF_providerVars(WaitTimesOut)
    /\ \A r \in Requests : WF_providerVars(TimeOut(r))

FairProviderSpec == ProviderSpec /\ ProviderFairness

---------------------------------------------------------------------------
(* Properties.                                                             *)

(***************************************************************************)
(* A request is settled once, by its answer or by its timeout, whichever   *)
(* comes first, and is forgotten at that moment: a late answer finds       *)
(* nothing to settle and a late timeout does not reject an answered one.   *)
(***************************************************************************)
SettledOnce ==
    \A r \in Requests :
        /\ settles[r] <= 1
        /\ r \in pendingRequests => settles[r] = 0 /\ r \in requestTimers

\* A request that succeeds gets the answer to itself, in whatever order they come.
OwnAnswer == \A r \in Requests : value[r] # None => value[r] = r

\* The worker has each request at most once, and answers what it has received.
RelayedOnce ==
    \A r \in Requests :
        Cardinality({i \in DOMAIN toContent : toContent[i] = r})
          + (IF r \in atBackground THEN 1 ELSE 0)
          + Cardinality({i \in DOMAIN toPage : toPage[i].id = r}) <= 1

(***************************************************************************)
(* Every request of the page is settled, even when the content script is   *)
(* gone and the worker never answers, and so is waitForProvider, whether   *)
(* or not the wallet is there.                                             *)
(***************************************************************************)
PromisesSettle ==
    /\ \A r \in Requests : r \in pendingRequests ~> settles[r] = 1
    /\ wait = "open" ~> wait \in {"resolved", "rejected"}
===========================================================================
