------------------------------ MODULE AbiCache ------------------------------
(***************************************************************************)
(* ABICache: lookups of the same account share one request to the node,    *)
(* made through a FetchProvider, and the answer is kept.                   *)
(*                                                                         *)
(* An ABI is represented by where its definitions come from: the chain, or *)
(* those a caller has set; merging adds up the sources.                    *)
(***************************************************************************)
EXTENDS FetchProvider, FiniteSets

CONSTANTS
    Accounts,
    Lookups,        \* the invocations of getAbi
    Sources,        \* the ABIs given to setAbi
    Chain,          \* the ABI the node has
    None,
    MaxSets         \* how often setAbi is called

ASSUME AbiAssumption ==
    /\ Chain \notin Sources
    /\ None \notin Calls \cup Accounts
    /\ MaxSets \in Nat

VARIABLES
    cache,          \* the ABI of an account, empty if there is none
    pending,        \* the request of an account
    account,        \* whose ABI a lookup wants
    awaits,         \* the request a lookup waits for
    answer,         \* how a lookup ended
    sets

abi == <<cache, pending, account, awaits, answer>>
vars == <<fetch, abi, sets>>

Abi == SUBSET (Sources \cup {Chain})

TypeOK ==
    /\ FetchTypeOK
    /\ cache \in [Accounts -> Abi]
    /\ pending \in [Accounts -> Calls \cup {None}]
    /\ account \in [Lookups -> Accounts \cup {None}]
    /\ awaits \in [Lookups -> Calls \cup {None}]
    /\ answer \in [Lookups -> {"none", "abi", "error"}]
    /\ sets \in 0..MaxSets

Init ==
    /\ FetchInit
    /\ cache = [k \in Accounts |-> {}]
    /\ pending = [k \in Accounts |-> None]
    /\ account = [l \in Lookups |-> None]
    /\ awaits = [l \in Lookups |-> None]
    /\ answer = [l \in Lookups |-> "none"]
    /\ sets = 0

---------------------------------------------------------------------------
AnswerFromCache(l, k) ==
    /\ cache[k] # {}
    /\ answer' = [answer EXCEPT ![l] = "abi"]
    /\ UNCHANGED <<fetch, pending, awaits>>

JoinPending(l, k) ==
    /\ cache[k] = {}
    /\ pending[k] # None
    /\ awaits' = [awaits EXCEPT ![l] = pending[k]]
    /\ UNCHANGED <<fetch, pending, answer>>

RequestAbi(l, k) ==
    /\ cache[k] = {}
    /\ pending[k] = None
    /\ \E c \in Calls :
           /\ StartCall(c)
           /\ pending' = [pending EXCEPT ![k] = c]
           /\ awaits' = [awaits EXCEPT ![l] = c]
    /\ UNCHANGED answer

GetAbi(l, k) ==
    /\ account[l] = None
    /\ account' = [account EXCEPT ![l] = k]
    /\ AnswerFromCache(l, k) \/ JoinPending(l, k) \/ RequestAbi(l, k)
    /\ UNCHANGED <<cache, sets>>

Waiters(c) == {l \in Lookups : awaits[l] = c}

Continue(c, result) ==
    /\ answer' = [l \in Lookups |-> IF l \in Waiters(c) THEN result ELSE answer[l]]
    /\ awaits' = [l \in Lookups |-> IF l \in Waiters(c) THEN None ELSE awaits[l]]
    /\ UNCHANGED <<fetch, account, sets>>

\* The lookups that wait for a request continue one after the other.
ReceiveAbi(c) ==
    /\ outcome[c] = "text"
    /\ \E l \in Waiters(c) :
           /\ pending' = [pending EXCEPT ![account[l]] = None]
           /\ \/ /\ cache' = [cache EXCEPT ![account[l]] = {Chain}]
                 /\ Continue(c, "abi")
              \/ UNCHANGED cache /\ Continue(c, "error")    \* the account has no ABI

\* The request failed, or the node answered with an error: await throws.
LoseAbi(c) ==
    /\ outcome[c] # "none"
    /\ Waiters(c) # {}
    /\ Continue(c, "error")
    /\ UNCHANGED <<cache, pending>>

SetAbi(k, s, merge) ==
    /\ sets < MaxSets
    /\ sets' = sets + 1
    /\ cache' = [cache EXCEPT ![k] = IF merge THEN @ \cup {s} ELSE {s}]
    /\ UNCHANGED <<fetch, pending, account, awaits, answer>>

FetchStep(c) == (ServerStep(c) \/ TimeOutCall(c)) /\ UNCHANGED <<abi, sets>>

Next ==
    \/ \E l \in Lookups, k \in Accounts : GetAbi(l, k)
    \/ \E c \in Calls : ReceiveAbi(c)
    \/ \E c \in Calls : LoseAbi(c)
    \/ \E k \in Accounts, s \in Sources, merge \in BOOLEAN : SetAbi(k, s, merge)
    \/ \E c \in Calls : FetchStep(c)

Spec == Init /\ [][Next]_vars

\* Timers go off and promises are delivered.  The server need not answer.
Fairness ==
    \A c \in Calls :
        /\ WF_vars(TimeOutCall(c) /\ UNCHANGED <<abi, sets>>)
        /\ WF_vars(ReceiveAbi(c) \/ LoseAbi(c))

FairSpec == Spec /\ Fairness

---------------------------------------------------------------------------
(* Properties.                                                             *)

(***************************************************************************)
(* However lookups, answers and setAbi interleave, an account has one      *)
(* request under way at a time, and a lookup waits for that of its own     *)
(* account.                                                                *)
(***************************************************************************)
OneRequest ==
    \A l, m \in Lookups :
        awaits[l] # None /\ awaits[m] # None =>
            (account[l] = account[m] <=> awaits[l] = awaits[m])

\* Every lookup ends, whether the node answers or not.
LookupsSettle == \A l \in Lookups : account[l] # None ~> answer[l] # "none"

(***************************************************************************)
(* "Retrieving and caching ABIs": when a request has failed and nobody     *)
(* waits for it any more, the next lookup makes another.  This does not    *)
(* hold: see the README.                                                   *)
(***************************************************************************)
FailureForgotten ==
    \A k \in Accounts :
        pending[k] # None => outcome[pending[k]] = "none" \/ Waiters(pending[k]) # {}
===========================================================================
