-------------------------- MODULE DeferredPromise --------------------------
(***************************************************************************)
(* Deferred: a promise settled from outside or by another promise that it  *)
(* wraps, and the flags that say how.                                      *)
(***************************************************************************)
EXTENDS Naturals

CONSTANTS Deferreds, Results

VARIABLES
    made,           \* how a deferred was made: not yet, plain or wrapping
    isSettled, isCancelled, isFulfilled, isRejected,
    result, err,
    promise,        \* what those who wait see
    wrapped         \* the promise it wraps

flags == <<isSettled, isCancelled, isFulfilled, isRejected, result, err>>
deferred == <<made, flags, promise, wrapped>>

Pending == <<"pending">>
Outcomes == {<<"fulfilled", r>> : r \in Results} \cup {<<"rejected", r>> : r \in Results}
Nothing == "null"

DeferredInit ==
    /\ made = [d \in Deferreds |-> "no"]
    /\ isSettled = [d \in Deferreds |-> FALSE]
    /\ isCancelled = isSettled /\ isFulfilled = isSettled /\ isRejected = isSettled
    /\ result = [d \in Deferreds |-> Nothing]
    /\ err = result
    /\ promise = [d \in Deferreds |-> Pending]
    /\ wrapped = promise

---------------------------------------------------------------------------
NewDeferred(d, kind) ==
    /\ made[d] = "no"
    /\ made' = [made EXCEPT ![d] = kind]
    /\ UNCHANGED <<flags, promise, wrapped>>

\* A promise is settled once.
Settle(d, how) == promise' = [promise EXCEPT ![d] = IF @ = Pending THEN how ELSE @]

\* Mutant: settles what is settled already.
ResolveAgain(d, r) ==
    /\ made[d] # "no"
    /\ result' = [result EXCEPT ![d] = r]
    /\ isSettled' = [isSettled EXCEPT ![d] = TRUE]
    /\ isFulfilled' = [isFulfilled EXCEPT ![d] = TRUE]
    /\ Settle(d, <<"fulfilled", r>>)
    /\ UNCHANGED <<made, isCancelled, isRejected, err, wrapped>>

Resolve(d, r) ==
    /\ made[d] # "no" /\ ~isSettled[d] /\ ~isCancelled[d]
    /\ result' = [result EXCEPT ![d] = r]
    /\ isSettled' = [isSettled EXCEPT ![d] = TRUE]
    /\ isFulfilled' = [isFulfilled EXCEPT ![d] = TRUE]
    /\ Settle(d, <<"fulfilled", r>>)
    /\ UNCHANGED <<made, isCancelled, isRejected, err, wrapped>>

Reject(d, e) ==
    /\ made[d] # "no" /\ ~isSettled[d] /\ ~isCancelled[d]
    /\ err' = [err EXCEPT ![d] = e]
    /\ isSettled' = [isSettled EXCEPT ![d] = TRUE]
    /\ isRejected' = [isRejected EXCEPT ![d] = TRUE]
    /\ Settle(d, <<"rejected", e>>)
    /\ UNCHANGED <<made, isCancelled, isFulfilled, result, wrapped>>

\* The promise is left as it is: who waits for it waits for ever.
Cancel(d) ==
    /\ made[d] # "no"
    /\ isSettled' = [isSettled EXCEPT ![d] = TRUE]
    /\ isCancelled' = [isCancelled EXCEPT ![d] = TRUE]
    /\ UNCHANGED <<made, isFulfilled, isRejected, result, err, promise, wrapped>>

\* The wrapped promise settles, and the promise with it: no flag says so.
WrappedSettles(d, how) ==
    /\ made[d] = "wrapping" /\ wrapped[d] = Pending
    /\ wrapped' = [wrapped EXCEPT ![d] = how]
    /\ UNCHANGED <<made, flags, promise>>

Adopt(d) ==
    /\ wrapped[d] # Pending /\ promise[d] = Pending
    /\ Settle(d, wrapped[d])
    /\ UNCHANGED <<made, flags, wrapped>>

DeferredNext ==
    \/ \E d \in Deferreds, kind \in {"plain", "wrapping"} : NewDeferred(d, kind)
    \/ \E d \in Deferreds, r \in Results : Resolve(d, r)
    \/ \E d \in Deferreds, e \in Results : Reject(d, e)
    \/ \E d \in Deferreds : Cancel(d)
    \/ \E d \in Deferreds, how \in Outcomes : WrappedSettles(d, how)
    \/ \E d \in Deferreds : Adopt(d)

DeferredSpec == DeferredInit /\ [][DeferredNext]_deferred

---------------------------------------------------------------------------
Status(d) ==
    IF isCancelled[d] THEN "CANCELED"
    ELSE IF ~isSettled[d] THEN "PENDING"
    ELSE IF isFulfilled[d] THEN "FULFILLED" ELSE "REJECTED"

GetResult(d) == IF isSettled[d] THEN result[d] ELSE "throws"
GetError(d) == IF isSettled[d] THEN err[d] ELSE "throws"

(***************************************************************************)
(* A deferred that wraps no promise tells what its promise is, in whatever *)
(* order it is resolved, rejected and cancelled; one that wraps one never  *)
(* says it is settled when its promise is not, unless it was cancelled.    *)
(***************************************************************************)
StatusIsThePromise ==
    \A d \in Deferreds :
        /\ made[d] = "plain" /\ ~isCancelled[d] =>
               /\ Status(d) = "PENDING" <=> promise[d] = Pending
               /\ Status(d) = "FULFILLED" => promise[d] = <<"fulfilled", GetResult(d)>>
               /\ Status(d) = "REJECTED" => promise[d] = <<"rejected", GetError(d)>>
        /\ isCancelled[d] /\ made[d] = "plain" =>
               promise[d] \in {Pending, <<"fulfilled", GetResult(d)>>, <<"rejected", GetError(d)>>}
        /\ isSettled[d] /\ ~isCancelled[d] => promise[d] # Pending
=============================================================================
