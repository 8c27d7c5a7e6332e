---------------------------- MODULE FirehoseLog ----------------------------
(***************************************************************************)
(* AWSFirehoseAppender and its AWSFirehoseCredentialManager: records are   *)
(* queued and put into a Firehose stream in batches, with credentials that *)
(* are loaded from an endpoint and refreshed by a timer.                   *)
(*                                                                         *)
(* Each load has a deferred of its own; loadDeferred is the latest one, or *)
(* null.  Nothing waits for a load: the event "received" starts a flush.   *)
(***************************************************************************)
EXTENDS Naturals, Sequences, FiniteSets, Functions

CONSTANTS
    Loads,              \* slots for loads in flight
    Null,
    LogQueueMaxRecords,
    BatchSize,          \* 10
    MaxLogged,          \* how many records are appended
    MaxForced,          \* how often forceUpdateCredentials and destroy are called
    MaxMishaps          \* how many loads and puts fail, and credentials expire

ASSUME FirehoseAssumption ==
    /\ Null \notin Loads
    /\ {LogQueueMaxRecords, BatchSize} \subseteq Nat \ {0}
    /\ {MaxLogged, MaxForced, MaxMishaps} \subseteq Nat

VARIABLES
    waiting,        \* pendingRecords
    phase,          \* of the flush under way: "none", "preparing", "sending"
    batch,          \* what is being put
    loadDeferred,   \* Null, a load that is not settled, or "held" or "expired" credentials
    loading,        \* the loads in flight
    timer,          \* refreshTimer has not fired
    fast,           \* the endpoint answers before the shortest timer, of 100 ms, fires
    logged, stored, \* history: records appended, and taken by Firehose
    gone,           \* history: records given up: [cap, put, expired]
    stalled,        \* history: a load or a put failed since the last append
    forced, mishaps \* counters of the bounds

firehose == <<waiting, phase, batch, loadDeferred, loading, timer, fast, logged, stored, gone,
              stalled, forced, mishaps>>

FirehoseInit ==
    /\ waiting = <<>> /\ phase = "none" /\ batch = <<>>
    /\ loadDeferred = Null /\ loading = {} /\ timer = FALSE
    /\ fast \in BOOLEAN
    /\ logged = 0 /\ stored = {}
    /\ gone = [cap |-> {}, put |-> {}, expired |-> {}]
    /\ stalled = FALSE /\ forced = 0 /\ mishaps = 0

---------------------------------------------------------------------------
\* getCredentials, given loadDeferred: whether there are any, or the timer is set.
FlushWith(records, deferred, armed) ==
    IF phase # "none" \/ records = <<>>
    THEN loadDeferred' = deferred /\ timer' = armed /\ UNCHANGED phase
    ELSE IF deferred = "held"
    THEN loadDeferred' = deferred /\ timer' = armed /\ phase' = "preparing"
    ELSE /\ loadDeferred' = IF deferred = "expired" THEN Null ELSE deferred
         /\ timer' = TRUE
         /\ UNCHANGED phase

\* The oldest records make room.
Capped(q) == IF Len(q) > LogQueueMaxRecords THEN Tail(q) ELSE q

LogRecord ==
    /\ logged < MaxLogged
    /\ logged' = logged + 1
    /\ LET q == Append(waiting, logged + 1)
       IN  /\ waiting' = Capped(q)
           /\ gone' = [gone EXCEPT !.cap = @ \cup (Range(q) \ Range(Capped(q)))]
           /\ FlushWith(Capped(q), loadDeferred, timer)
    /\ stalled' = FALSE
    /\ UNCHANGED <<batch, loading, fast, stored, forced, mishaps>>

Mishap == mishaps < MaxMishaps /\ mishaps' = mishaps + 1

\* The loop of flush, from its head: the next batch, or the end.
NextBatch ==
    LET n == IF Len(waiting) < BatchSize THEN Len(waiting) ELSE BatchSize
    IN  /\ batch' = SubSeq(waiting, 1, n)
        /\ waiting' = SubSeq(waiting, n + 1, Len(waiting))
        /\ phase' = IF n = 0 THEN "none" ELSE "sending"

\* The client has been made.
ClientReady ==
    /\ phase = "preparing"
    /\ NextBatch
    /\ UNCHANGED <<loadDeferred, loading, timer, fast, logged, stored, gone, stalled, forced, mishaps>>

\* The module or the region is missing.
ClientFails ==
    /\ phase = "preparing" /\ Mishap
    /\ phase' = "none" /\ stalled' = TRUE
    /\ UNCHANGED <<waiting, batch, loadDeferred, loading, timer, fast, logged, stored, gone, forced>>

\* The records that failed are logged as requeued, and given up.
BatchPut ==
    /\ phase = "sending"
    /\ \E failed \in SUBSET Range(batch) :
        /\ IF failed = {} THEN UNCHANGED mishaps ELSE Mishap
        /\ stored' = stored \cup (Range(batch) \ failed)
        /\ gone' = [gone EXCEPT !.put = @ \cup failed]
    /\ NextBatch
    /\ UNCHANGED <<loadDeferred, loading, timer, fast, logged, stalled, forced>>

\* Mutant: the batch comes back behind what has been logged since.
PutFailsRequeued ==
    /\ phase = "sending" /\ Mishap
    /\ waiting' = waiting \o batch
    /\ phase' = "none" /\ batch' = <<>>
    /\ stalled' = TRUE
    /\ UNCHANGED <<loadDeferred, loading, timer, fast, logged, stored, gone, forced>>

\* send throws: the batch is given up, what is behind it stays.
PutFails ==
    /\ phase = "sending" /\ Mishap
    /\ gone' = [gone EXCEPT !.put = @ \cup Range(batch)]
    /\ phase' = "none" /\ batch' = <<>>
    /\ stalled' = TRUE
    /\ UNCHANGED <<waiting, loadDeferred, loading, timer, fast, logged, stored, forced>>

\* ExpiredTokenException: also the batch that was refused for that is given up.
TokenExpired ==
    /\ phase = "sending" /\ Mishap
    /\ gone' = [gone EXCEPT !.expired = @ \cup Range(batch)]
    /\ phase' = "none" /\ batch' = <<>>
    /\ loadDeferred' = Null /\ timer' = TRUE
    /\ UNCHANGED <<waiting, loading, fast, logged, stored, stalled, forced>>

---------------------------------------------------------------------------
(* The credential manager.                                                 *)

\* The timer fires: whatever credentials there are, or are coming, are forgotten.
Refresh ==
    /\ timer /\ timer' = FALSE
    /\ fast => loading = {}
    /\ \E l \in Loads \ loading :
        /\ loading' = loading \cup {l}
        /\ loadDeferred' = l
    /\ UNCHANGED <<waiting, phase, batch, fast, logged, stored, gone, stalled, forced, mishaps>>

\* The timer of the refresh is set, the deferred resolved, "received" emitted:
\* the flush finds the credentials only if this load is still the latest one.
CredentialsLoaded(l) ==
    /\ l \in loading
    /\ loading' = loading \ {l}
    /\ FlushWith(waiting, IF loadDeferred = l THEN "held" ELSE loadDeferred, TRUE)
    /\ UNCHANGED <<waiting, batch, fast, logged, stored, gone, stalled, forced, mishaps>>

\* The latest load is forgotten with this one, be it another.
LoadFails(l) ==
    /\ l \in loading /\ Mishap
    /\ loading' = loading \ {l}
    /\ loadDeferred' = Null
    /\ stalled' = TRUE
    /\ UNCHANGED <<waiting, phase, batch, timer, fast, logged, stored, gone, forced>>

Expire ==
    /\ loadDeferred = "held" /\ Mishap
    /\ loadDeferred' = "expired"
    /\ UNCHANGED <<waiting, phase, batch, loading, timer, fast, logged, stored, gone, stalled, forced>>

ForceUpdateCredentials ==
    /\ forced < MaxForced /\ forced' = forced + 1
    /\ loadDeferred' = Null /\ timer' = TRUE
    /\ UNCHANGED <<waiting, phase, batch, loading, fast, logged, stored, gone, stalled, mishaps>>

\* Without a load it throws, when the timer is cleared already.
DestroyManager ==
    /\ forced < MaxForced /\ forced' = forced + 1
    /\ loadDeferred' = Null /\ timer' = FALSE
    /\ stalled' = TRUE
    /\ UNCHANGED <<waiting, phase, batch, loading, fast, logged, stored, gone, mishaps>>

FirehoseNext ==
    \/ LogRecord \/ ClientReady \/ ClientFails \/ BatchPut \/ PutFails \/ TokenExpired
    \/ Refresh \/ Expire \/ ForceUpdateCredentials \/ DestroyManager
    \/ \E l \in Loads : CredentialsLoaded(l) \/ LoadFails(l)

\* Requests are answered and timers fire.
FirehoseFairness ==
    /\ WF_firehose(ClientReady) /\ WF_firehose(BatchPut) /\ WF_firehose(Refresh)
    /\ \A l \in Loads : WF_firehose(CredentialsLoaded(l))

FirehoseSpec == FirehoseInit /\ [][FirehoseNext]_firehose /\ FirehoseFairness

---------------------------------------------------------------------------
(* Properties.                                                             *)

Underway == batch \o waiting
Settled == stored \cup gone.cap \cup gone.put \cup gone.expired

(***************************************************************************)
(* However loads, flushes and failures overlap, a record is put at most    *)
(* once and in the order in which it was logged, and no more than the cap  *)
(* are kept; what is not put was given up at the cap or with a batch that  *)
(* was refused, which is all that happens to such a batch, whatever the    *)
(* README and the log say (ExpiredIsRetried).  Those that wait are         *)
(* attended to: by a flush, a load whose end starts one, or the timer;     *)
(* only after a load, a client or a put has failed, or the manager was     *)
(* destroyed, do they wait for the next record.                            *)
(***************************************************************************)
PutOnceInOrder ==
    /\ \A i, j \in DOMAIN Underway : i < j => Underway[i] < Underway[j]
    /\ Range(Underway) \cap Settled = {} /\ Range(Underway) \cup Settled = 1..logged
    /\ Cardinality(stored) + Cardinality(gone.cap) + Cardinality(gone.put) + Cardinality(gone.expired)
           = Cardinality(Settled)
    /\ Underway # <<>> => \A r \in stored \cup gone.put \cup gone.expired : r < Underway[1]
    /\ Len(waiting) <= LogQueueMaxRecords
    /\ waiting # <<>> => phase # "none" \/ loading # {} \/ timer \/ stalled

(***************************************************************************)
(* With an endpoint that answers before the timer fires again, what waits  *)
(* is put in the end.  A slower one can be asked for ever: each load is    *)
(* forgotten for the next one before it ends.                              *)
(***************************************************************************)
PutInTheEnd == fast /\ waiting # <<>> ~> waiting = <<>> \/ stalled

(***************************************************************************)
(* "Automatic retry on expired token errors": a record that was refused    *)
(* because the token had expired waits to be put again, or has been.       *)
(***************************************************************************)
ExpiredIsRetried == gone.expired \subseteq Range(Underway) \cup stored
===========================================================================
