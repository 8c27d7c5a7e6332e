--------------------------- MODULE FetchProvider ---------------------------
(***************************************************************************)
(* FetchProvider.call: fetch and a bounded read of the body, raced against *)
(* a timeout.  The server declares a length or does not, and sends a body  *)
(* of any length in chunks of any size, or stops sending.                  *)
(*                                                                         *)
(* The loser of the race goes on by itself: where there is no              *)
(* AbortController, a body is read to its end after the timeout.           *)
(***************************************************************************)
EXTENDS Naturals

CONSTANTS
    Calls,          \* the calls made
    Unknown,        \* no Content-Length, or none that can be read
    MaxBytes,       \* maxResponseBytes
    InitialBytes,   \* ResponseBodyBufferInitialBytes
    HasAbort,       \* the platform has AbortController
    Bodies          \* the lengths of the bodies a server sends

ASSUME FetchAssumption ==
    /\ {MaxBytes, InitialBytes} \subseteq Nat \ {0}
    /\ Bodies \subseteq Nat
    /\ HasAbort \in BOOLEAN
    /\ Unknown \notin Nat

VARIABLES
    operation,      \* what the operation of the race is at
    outcome,        \* how the race was settled
    timer,          \* the timeout is set
    aborted,        \* abort() was called
    body,           \* bytes of the body
    length,         \* bytes of the body that were read
    capacity        \* bytes the buffer has room for

fetch == <<operation, outcome, timer, aborted, body, length, capacity>>

Stages == {"idle", "fetching", "streaming", "buffering", "settled"}
Outcomes == {"none", "text", "error", "timeout"}

FetchTypeOK ==
    /\ operation \in [Calls -> Stages]
    /\ outcome \in [Calls -> Outcomes]
    /\ timer \in [Calls -> BOOLEAN]
    /\ aborted \in [Calls -> BOOLEAN]
    /\ body \in [Calls -> Bodies \cup {0}]
    /\ length \in [Calls -> Nat]
    /\ capacity \in [Calls -> Nat]

FetchInit ==
    /\ operation = [c \in Calls |-> "idle"]
    /\ outcome = [c \in Calls |-> "none"]
    /\ timer = [c \in Calls |-> FALSE]
    /\ aborted = [c \in Calls |-> FALSE]
    /\ body = [c \in Calls |-> 0]
    /\ length = [c \in Calls |-> 0]
    /\ capacity = [c \in Calls |-> 0]

---------------------------------------------------------------------------
Lesser(a, b) == IF a < b THEN a ELSE b
Greater(a, b) == IF a > b THEN a ELSE b

\* Mutant: no timeout is set.
StartCallUntimed(c) ==
    /\ operation[c] = "idle"
    /\ operation' = [operation EXCEPT ![c] = "fetching"]
    /\ UNCHANGED <<timer, outcome, aborted, body, length, capacity>>

StartCall(c) ==
    /\ operation[c] = "idle"
    /\ operation' = [operation EXCEPT ![c] = "fetching"]
    /\ timer' = [timer EXCEPT ![c] = TRUE]
    /\ UNCHANGED <<outcome, aborted, body, length, capacity>>

\* The operation settles; if it is the first to do so, the timeout is cleared.
SettleOperation(c, result) ==
    /\ operation' = [operation EXCEPT ![c] = "settled"]
    /\ outcome' = [outcome EXCEPT ![c] = IF @ = "none" THEN result ELSE @]
    /\ timer' = [timer EXCEPT ![c] = FALSE]
    /\ UNCHANGED <<aborted, body>>

Declarations == Bodies \cup {Unknown}

\* What the headers alone rule out.  A length that is not a number is none.
DeclaredTooLong(declared) == declared # Unknown /\ declared > MaxBytes

\* Encoded bytes may be more when they are decoded.
FallbackRuledOut(declared, encoded) == encoded \/ declared = Unknown \/ DeclaredTooLong(declared)

\* A body that can be read piece by piece, by a reader or an iterator.
RespondWithStream(c, declared) ==
    /\ operation[c] = "fetching"
    /\ IF DeclaredTooLong(declared)
       THEN SettleOperation(c, "error") /\ UNCHANGED capacity
       ELSE /\ operation' = [operation EXCEPT ![c] = "streaming"]
            /\ capacity' = [capacity EXCEPT ![c] = Lesser(InitialBytes, MaxBytes)]
            /\ \E n \in Bodies : body' = [body EXCEPT ![c] = n]
            /\ UNCHANGED <<outcome, timer, aborted>>
    /\ UNCHANGED length

\* Only arrayBuffer(): the length must be declared and hold for the decoded bytes.
RespondWithBuffer(c, declared, encoded) ==
    /\ operation[c] = "fetching"
    /\ IF FallbackRuledOut(declared, encoded)
       THEN SettleOperation(c, "error") /\ UNCHANGED capacity
       ELSE /\ operation' = [operation EXCEPT ![c] = "buffering"]
            /\ body' = [body EXCEPT ![c] = declared]
            /\ capacity' = [capacity EXCEPT ![c] = declared]
            /\ UNCHANGED <<outcome, timer, aborted>>
    /\ UNCHANGED length

FinishBuffer(c) ==
    /\ operation[c] = "buffering"
    /\ length' = [length EXCEPT ![c] = body[c]]
    /\ SettleOperation(c, IF body[c] > MaxBytes THEN "error" ELSE "text")
    /\ UNCHANGED capacity

RoomFor(c, bytes) ==
    IF bytes <= capacity[c] THEN capacity[c]
    ELSE Lesser(MaxBytes, Greater(bytes, 2 * capacity[c]))

\* Mutant: a chunk that does not fit ends the text.
ReadChunkCut(c, n) ==
    /\ operation[c] = "streaming"
    /\ LET bytes == length[c] + n IN
       IF bytes > MaxBytes
       THEN SettleOperation(c, "text") /\ UNCHANGED <<length, capacity>>
       ELSE /\ length' = [length EXCEPT ![c] = bytes]
            /\ capacity' = [capacity EXCEPT ![c] = RoomFor(c, bytes)]
            /\ UNCHANGED <<operation, outcome, timer, aborted, body>>

\* A chunk that does not fit is not stored, and the reader is cancelled.
ReadChunk(c, n) ==
    /\ operation[c] = "streaming"
    /\ LET bytes == length[c] + n IN
       IF bytes > MaxBytes
       THEN SettleOperation(c, "error") /\ UNCHANGED <<length, capacity>>
       ELSE /\ length' = [length EXCEPT ![c] = bytes]
            /\ capacity' = [capacity EXCEPT ![c] = RoomFor(c, bytes)]
            /\ UNCHANGED <<operation, outcome, timer, aborted, body>>

FinishStream(c) ==
    /\ operation[c] = "streaming"
    /\ length[c] = body[c]
    /\ SettleOperation(c, "text")
    /\ UNCHANGED <<length, capacity>>

\* The connection breaks, or was aborted; a chunk or body of an unknown kind.
FailOperation(c) ==
    /\ operation[c] \in {"fetching", "streaming", "buffering"}
    /\ SettleOperation(c, "error")
    /\ UNCHANGED <<length, capacity>>

TimeOutCall(c) ==
    /\ timer[c]
    /\ timer' = [timer EXCEPT ![c] = FALSE]
    /\ aborted' = [aborted EXCEPT ![c] = HasAbort]
    /\ outcome' = [outcome EXCEPT ![c] = "timeout"]
    /\ UNCHANGED <<operation, body, length, capacity>>

ServerStep(c) ==
    \/ \E declared \in Declarations : RespondWithStream(c, declared)
    \/ \E declared \in Declarations, encoded \in BOOLEAN :
           RespondWithBuffer(c, declared, encoded)
    \/ FinishBuffer(c)
    \/ \E n \in 1..(body[c] - length[c]) : ReadChunk(c, n)
    \/ FinishStream(c)
    \/ FailOperation(c)

---------------------------------------------------------------------------
(***************************************************************************)
(* maxResponseBytes bounds what is ever stored of a body, whatever its     *)
(* declared and its real length, also when the call has timed out, and     *)
(* the buffer always has room for what was stored.                         *)
(***************************************************************************)
BodyBounded ==
    \A c \in Calls : length[c] <= capacity[c] /\ capacity[c] <= MaxBytes

(***************************************************************************)
(* A call that succeeds has the whole body, and one that has settled has   *)
(* no timeout left that could abort or reject anything.                    *)
(***************************************************************************)
TextIsBody ==
    \A c \in Calls :
        /\ outcome[c] = "text" => length[c] = body[c] /\ ~aborted[c]
        /\ timer[c] => operation[c] # "idle" /\ outcome[c] = "none"
===========================================================================
