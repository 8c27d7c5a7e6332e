------------------------------ MODULE PushLog ------------------------------
(***************************************************************************)
(* PushLogRecordsAppender: queues log records and PUTs them in batches to  *)
(* an endpoint, under the cookie of PushCredentials.                       *)
(*                                                                         *)
(* A flush that has got past its guards is `ready': its continuation is in *)
(* the microtask queue and runs before the next timer or network event,    *)
(* but after the rest of the turn that started it.  What the promise of a  *)
(* flush settles to is left out: every caller but that of forceFlush       *)
(* ignores it.                                                             *)
(***************************************************************************)
EXTENDS PushCredentials, Sequences, FiniteSets

CONSTANTS
    Puts,           \* slots for PUTs in flight
    QueueDepth,     \* FLUSH_QUEUE_DEPTH
    QueueCap,       \* LOG_QUEUE_MAX_RECORDS
    MaxRecords,     \* how many records are appended
    MaxCalls,       \* how often forceFlush and forceRefresh are called
    MaxFailures     \* how many requests fail, and cookies expire unrefreshed

ASSUME QueueAssumption ==
    /\ QueueDepth \in Nat \ {0}
    /\ QueueCap \in Nat \ {0}
    /\ {MaxRecords, MaxCalls, MaxFailures} \subseteq Nat

VARIABLES
    pendingRecords, \* the queue; a record is its number
    flushing,       \* flushDeferred is not null
    flushTimer,     \* whether the flush timer is set
    ready,          \* flushes past their guards that have not sent yet
    puts,           \* the batch of each PUT in flight
    appended,       \* how many records were appended
    accepted,       \* records of the batches the endpoint answered ok
    dropped,        \* records given up: by the cap, a network error or destroy
    gaveUp,         \* a flush ended without credentials since the last append
    destroyed,
    calls, failures \* counters of the bounds

queue == <<pendingRecords, flushing, flushTimer, ready, puts>>
history == <<appended, accepted, dropped, gaveUp>>
bounds == <<destroyed, calls, failures>>
vars == <<credentials, queue, history, bounds>>

Records == 1..MaxRecords
NoPut == [live |-> FALSE, records |-> <<>>]
Put == [live : BOOLEAN, records : Seq(Records)]

TypeOK ==
    /\ CredentialsTypeOK
    /\ pendingRecords \in Seq(Records)
    /\ flushing \in BOOLEAN
    /\ flushTimer \in BOOLEAN
    /\ ready \in Nat
    /\ puts \in [Puts -> Put]
    /\ appended \in 0..MaxRecords
    /\ accepted \in SUBSET Records
    /\ dropped \in SUBSET Records
    /\ gaveUp \in BOOLEAN
    /\ destroyed \in BOOLEAN
    /\ calls \in 0..MaxCalls
    /\ failures \in 0..MaxFailures

Init ==
    /\ CredentialsInit
    /\ pendingRecords = <<>>
    /\ flushing = FALSE
    /\ flushTimer = FALSE
    /\ ready = 0
    /\ puts = [i \in Puts |-> NoPut]
    /\ appended = 0
    /\ accepted = {}
    /\ dropped = {}
    /\ gaveUp = FALSE
    /\ destroyed = FALSE
    /\ calls = 0
    /\ failures = 0

---------------------------------------------------------------------------
Elements(q) == {q[i] : i \in DOMAIN q}

\* trimPendingRecordsToQueueCap: the oldest records go.
Trim(q) == IF Len(q) > QueueCap THEN SubSeq(q, Len(q) - QueueCap + 1, Len(q)) ELSE q

Trimmed(q) == Elements(q) \ Elements(Trim(q))

\* flush() up to its await, with the queue it finds.
Flush(q) ==
    IF flushing \/ q = <<>>
    THEN UNCHANGED <<credentials, ready>>
    ELSE \/ /\ HasCredentials
            /\ ready' = ready + 1
            /\ UNCHANGED credentials
         \/ /\ AwaitCredentials
            /\ UNCHANGED ready

Append_ ==
    /\ ~destroyed
    /\ appended < MaxRecords
    /\ LET q == Append(pendingRecords, appended + 1) IN
       /\ pendingRecords' = Trim(q)
       /\ dropped' = dropped \cup Trimmed(q)
       /\ IF Len(Trim(q)) >= QueueDepth
          THEN Flush(Trim(q)) /\ UNCHANGED flushTimer
          ELSE flushTimer' = TRUE /\ UNCHANGED <<credentials, ready>>
    /\ appended' = appended + 1
    /\ gaveUp' = FALSE
    /\ UNCHANGED <<flushing, puts, accepted, bounds>>

ForceFlush ==
    /\ ~destroyed
    /\ calls < MaxCalls
    /\ calls' = calls + 1
    /\ flushTimer' = FALSE
    /\ Flush(pendingRecords)
    /\ UNCHANGED <<pendingRecords, flushing, puts, history, destroyed, failures>>

\* Mutant: the batch is copied, not taken.
SendCopy(i) ==
    /\ ready > 0
    /\ ~puts[i].live
    /\ ready' = ready - 1
    /\ flushing' = TRUE
    /\ puts' = [puts EXCEPT ![i] = [live |-> TRUE, records |-> pendingRecords]]
    /\ UNCHANGED <<credentials, pendingRecords, flushTimer, history, bounds>>

\* A flush that goes on takes all there is and sends it, be it nothing.
Send(i) ==
    /\ ready > 0
    /\ ~puts[i].live
    /\ ready' = ready - 1
    /\ flushing' = TRUE
    /\ puts' = [puts EXCEPT ![i] = [live |-> TRUE, records |-> pendingRecords]]
    /\ pendingRecords' = <<>>
    /\ UNCHANGED <<credentials, flushTimer, history, bounds>>

---------------------------------------------------------------------------
(* Timers and answers: no microtask is left when one is handled, except    *)
(* for want of a slot.                                                     *)

Macrotask == ready = 0 \/ \A i \in Puts : puts[i].live

FlushTimerFires ==
    /\ Macrotask
    /\ flushTimer
    /\ flushTimer' = FALSE
    /\ Flush(pendingRecords)
    /\ UNCHANGED <<pendingRecords, flushing, puts, history, bounds>>

\* Mutant: nothing is scheduled for the records that came meanwhile.
EndFlushUnscheduled(i, q) ==
    /\ Macrotask
    /\ puts' = [puts EXCEPT ![i] = NoPut]
    /\ pendingRecords' = q
    /\ flushing' = FALSE
    /\ UNCHANGED <<credentials, ready, flushTimer, appended, gaveUp, destroyed, calls>>

\* The end of a PUT, with the queue it leaves: the finally block.
EndFlush(i, q) ==
    /\ Macrotask
    /\ puts' = [puts EXCEPT ![i] = NoPut]
    /\ pendingRecords' = q
    /\ flushing' = FALSE
    /\ flushTimer' = (flushTimer \/ q # <<>>)
    /\ UNCHANGED <<credentials, ready, appended, gaveUp, destroyed, calls>>

PutAccepted(i) ==
    /\ puts[i].live
    /\ EndFlush(i, pendingRecords)
    /\ accepted' = accepted \cup Elements(puts[i].records)
    /\ UNCHANGED <<dropped, failures>>

Fail == failures < MaxFailures /\ failures' = failures + 1

\* An HTTP error: the batch goes back to the front of the queue.
PutRefused(i) ==
    /\ puts[i].live
    /\ Fail
    /\ LET q == puts[i].records \o pendingRecords IN
       /\ EndFlush(i, Trim(q))
       /\ dropped' = dropped \cup Trimmed(q)
    /\ UNCHANGED accepted

\* fetch rejects: nobody knows whether the batch arrived, and it is forgotten.
PutLost(i) ==
    /\ puts[i].live
    /\ Fail
    /\ EndFlush(i, pendingRecords)
    /\ dropped' = dropped \cup Elements(puts[i].records)
    /\ UNCHANGED accepted

\* Mutant: the deferred is not resolved and nothing is emitted.
CredentialsReceivedSilently(f) ==
    /\ Macrotask
    /\ ReceiveCredentials(f)
    /\ UNCHANGED <<queue, history, bounds>>

\* The waiting flushes go on, and `received' starts one of its own.
CredentialsReceived(f) ==
    /\ Macrotask
    /\ ReceiveCredentials(f)
    /\ ready' = ready + Continuing(f) + (IF pendingRecords # <<>> /\ ~flushing THEN 1 ELSE 0)
    /\ UNCHANGED <<pendingRecords, flushing, flushTimer, puts, history, bounds>>

CredentialsLost(f) ==
    /\ Macrotask
    /\ Fail
    /\ LoseCredentials(f)
    /\ gaveUp' = (gaveUp \/ Continuing(f) > 0)
    /\ UNCHANGED <<queue, appended, accepted, dropped, destroyed, calls>>

RefreshTimerFires ==
    /\ Macrotask
    /\ RefreshCredentials
    /\ UNCHANGED <<queue, history, bounds>>

\* The cookie is refreshed ahead of time unless the refresh fails or is late.
CookieExpires ==
    /\ Fail
    /\ ExpireCookie
    /\ UNCHANGED <<queue, history, destroyed, calls>>

ForceRefresh ==
    /\ ~destroyed
    /\ calls < MaxCalls
    /\ calls' = calls + 1
    /\ ForceRefreshCredentials
    /\ gaveUp' = (gaveUp \/ Waiting > 0)
    /\ UNCHANGED <<queue, appended, accepted, dropped, destroyed, failures>>

Destroy ==
    /\ ~destroyed
    /\ destroyed' = TRUE
    /\ flushTimer' = FALSE
    /\ DestroyCredentials
    /\ flushing' = FALSE
    /\ pendingRecords' = <<>>
    /\ dropped' = dropped \cup Elements(pendingRecords)
    /\ UNCHANGED <<ready, puts, appended, accepted, gaveUp, calls, failures>>

---------------------------------------------------------------------------
Application == Append_ \/ ForceFlush \/ ForceRefresh \/ Destroy

Answers ==
    \/ \E i \in Puts : PutAccepted(i) \/ PutRefused(i) \/ PutLost(i)
    \/ \E f \in Fetches : CredentialsReceived(f) \/ CredentialsLost(f)

Next ==
    \/ Application
    \/ \E i \in Puts : Send(i)
    \/ FlushTimerFires
    \/ RefreshTimerFires
    \/ Answers
    \/ CookieExpires

Spec == Init /\ [][Next]_vars

\* Microtasks run, timers fire and every request is answered in the end.
Fairness ==
    /\ WF_vars(\E i \in Puts : Send(i))
    /\ WF_vars(FlushTimerFires)
    /\ \A i \in Puts : WF_vars(PutAccepted(i))
    /\ \A f \in Fetches : WF_vars(CredentialsReceived(f))

FairSpec == Spec /\ Fairness

---------------------------------------------------------------------------
(* Properties.                                                             *)

InFlight == UNION {Elements(puts[i].records) : i \in Puts}

(***************************************************************************)
(* However flushes, refusals and refreshes overlap, each record that was   *)
(* appended is in exactly one place: queued once, in one PUT, accepted, or *)
(* given up.  So none vanishes and none is sent again after it arrived.    *)
(***************************************************************************)
EachRecordOnce ==
    /\ Elements(pendingRecords) \cup InFlight \cup accepted \cup dropped = 1..appended
    /\ Elements(pendingRecords) \cap (InFlight \cup accepted \cup dropped) = {}
    /\ InFlight \cap (accepted \cup dropped) = {}
    /\ accepted \cap dropped = {}
    /\ Cardinality(Elements(pendingRecords)) = Len(pendingRecords)
    /\ \A i, j \in Puts :
          i # j => Elements(puts[i].records) \cap Elements(puts[j].records) = {}

\* A refused batch that comes back to a full queue does not outgrow the cap.
QueueCapped == Len(pendingRecords) <= QueueCap

(***************************************************************************)
(* Queued records have somebody to send them: the timer, a PUT whose end   *)
(* schedules one, a flush that will send, or a flush that waits for        *)
(* credentials.  The exception the code makes: after a flush ended for     *)
(* want of credentials they wait for the next append.                      *)
(***************************************************************************)
NobodyForgotten ==
    pendingRecords # <<>> =>
        \/ flushTimer
        \/ ready > 0
        \/ \E i \in Puts : puts[i].live
        \/ \E f \in Fetches : fetches[f].live /\ Continuing(f) > 0
        \/ gaveUp

(***************************************************************************)
(* When requests stop failing, queued records leave the queue.             *)
(***************************************************************************)
QueueDrains == pendingRecords # <<>> ~> (pendingRecords = <<>> \/ gaveUp)

\* "Prevent concurrent flushes": no two PUTs carry records at once.
OneBatchInFlight ==
    \A i, j \in Puts : i # j => puts[i].records = <<>> \/ puts[j].records = <<>>

\* "Errors handled in flush": no rejection is left to the process.  Does not
\* hold, nor does the next one: see the README.
RejectionsHandled == destroyed \/ ~unhandled

\* "Clean up resources": nothing is scheduled once the appender is destroyed.
QuietAfterDestroy == destroyed => ~flushTimer /\ ~refreshTimer
===========================================================================
