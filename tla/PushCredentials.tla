-------------------------- MODULE PushCredentials --------------------------
(***************************************************************************)
(* PushLogRecordsCredentialManager: the session cookie of the push log     *)
(* appender.  Its operations are operators here; PushLog composes them     *)
(* with the appender, which they call and which calls them.                *)
(*                                                                         *)
(* A POST under way is one of the Fetches.  It has a deferred of its own,  *)
(* and other flushes wait on that deferred while this.credentialDeferred   *)
(* refers to it.                                                           *)
(***************************************************************************)
EXTENDS Integers

CONSTANTS
    Fetches,        \* slots for POSTs in flight
    NoFetch         \* null

ASSUME NoFetchAssumption == NoFetch \notin Fetches

VARIABLES
    cookie,             \* cookieExpirationTime: null, ahead, or passed unnoticed
    refreshTimer,       \* whether the refresh timer will fire
    credentialDeferred, \* the fetch it belongs to while unsettled, or NoFetch
    fetches,            \* the POSTs in flight
    unhandled           \* a deferred was rejected that nobody awaited

credentials == <<cookie, refreshTimer, credentialDeferred, fetches, unhandled>>

NotFetching == [live |-> FALSE, forFlush |-> FALSE, waiters |-> 0, settled |-> FALSE]

Fetch == [live : BOOLEAN,       \* the POST is under way
          forFlush : BOOLEAN,   \* a flush awaits fetchCredentials() itself
          waiters : Nat,        \* flushes that await its deferred
          settled : BOOLEAN]    \* its deferred was rejected meanwhile

CredentialsTypeOK ==
    /\ cookie \in {"none", "valid", "expired"}
    /\ refreshTimer \in BOOLEAN
    /\ credentialDeferred \in Fetches \cup {NoFetch}
    /\ fetches \in [Fetches -> Fetch]
    /\ unhandled \in BOOLEAN

CredentialsInit ==
    /\ cookie = "none"
    /\ refreshTimer = FALSE
    /\ credentialDeferred = NoFetch
    /\ fetches = [f \in Fetches |-> NotFetching]
    /\ unhandled = FALSE

---------------------------------------------------------------------------
HasCredentials == cookie = "valid"

\* An expired cookie is forgotten by the first look at it.
NoticeExpiry == cookie' = IF cookie = "expired" THEN "none" ELSE cookie

PendingFetch == [NotFetching EXCEPT !.live = TRUE]

\* fetchCredentials() up to its await, called by a flush or by a timer.
StartFetch(f, forFlush) ==
    /\ ~fetches[f].live
    /\ fetches' = [fetches EXCEPT ![f] = [PendingFetch EXCEPT !.forFlush = forFlush]]
    /\ credentialDeferred' = f

\* ensureCredentials() without a valid cookie: join the fetch in progress, or fetch.
AwaitCredentials ==
    /\ ~HasCredentials
    /\ NoticeExpiry
    /\ IF credentialDeferred # NoFetch
       THEN /\ fetches' = [fetches EXCEPT ![credentialDeferred].waiters = @ + 1]
            /\ UNCHANGED credentialDeferred
       ELSE \E f \in Fetches : StartFetch(f, TRUE)
    /\ UNCHANGED <<refreshTimer, unhandled>>

\* The flushes that end when the current deferred is rejected.
Waiting == IF credentialDeferred = NoFetch THEN 0 ELSE fetches[credentialDeferred].waiters

\* The POSTs once the current deferred is rejected: they go on, nobody waits.
Rejected ==
    [f \in Fetches |-> IF f = credentialDeferred
                       THEN [fetches[f] EXCEPT !.waiters = 0, !.settled = TRUE]
                       ELSE fetches[f]]

RejectedUnawaited == credentialDeferred # NoFetch /\ Waiting = 0

ForceRefreshCredentials ==
    /\ refreshTimer' = FALSE
    /\ cookie' = "none"
    /\ unhandled' = (unhandled \/ RejectedUnawaited)
    /\ \E f \in Fetches : /\ ~fetches[f].live
                          /\ fetches' = [Rejected EXCEPT ![f] = PendingFetch]
                          /\ credentialDeferred' = f

DestroyCredentials ==
    /\ refreshTimer' = FALSE
    /\ cookie' = "none"
    /\ unhandled' = (unhandled \/ RejectedUnawaited)
    /\ fetches' = Rejected
    /\ credentialDeferred' = NoFetch

\* The POST succeeded: whatever became of its deferred, the cookie is there.
ReceiveCredentials(f) ==
    /\ fetches[f].live
    /\ cookie' = "valid"
    /\ refreshTimer' = TRUE
    /\ credentialDeferred' = IF credentialDeferred = f THEN NoFetch ELSE credentialDeferred
    /\ fetches' = [fetches EXCEPT ![f] = NotFetching]
    /\ UNCHANGED unhandled

\* The POST failed: also a newer deferred is forgotten.
LoseCredentials(f) ==
    /\ fetches[f].live
    /\ credentialDeferred' = NoFetch
    /\ fetches' = [fetches EXCEPT ![f] = NotFetching]
    /\ unhandled' = (unhandled \/ (~fetches[f].settled /\ fetches[f].waiters = 0))
    /\ UNCHANGED <<cookie, refreshTimer>>

\* The flushes that go on, or give up, when f ends.
Continuing(f) == fetches[f].waiters + (IF fetches[f].forFlush THEN 1 ELSE 0)

RefreshCredentials ==
    /\ refreshTimer
    /\ refreshTimer' = FALSE
    /\ \E f \in Fetches : StartFetch(f, FALSE)
    /\ UNCHANGED <<cookie, unhandled>>

ExpireCookie ==
    /\ cookie = "valid"
    /\ cookie' = "expired"
    /\ UNCHANGED <<refreshTimer, credentialDeferred, fetches, unhandled>>
===========================================================================
