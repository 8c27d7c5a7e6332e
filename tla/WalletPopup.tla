---------------------------- MODULE WalletPopup ----------------------------
(***************************************************************************)
(* The popup of the wallet over its background worker: a store of its own  *)
(* that is loaded when the popup opens or the wallet is unlocked, edited   *)
(* in the views, and sent whole with every edit.  Nobody awaits that       *)
(* SAVE_STATE.  The popup can be closed at any moment, and with it go its  *)
(* store and the answers it waits for.                                     *)
(*                                                                         *)
(* Every view is a click away while the wallet is shown, so the one that   *)
(* is open is left out.  Renaming changes nothing that is kept here.       *)
(***************************************************************************)
EXTENDS WalletBackground, FiniteSets, Functions, Lists

CONSTANTS MaxEdits, MaxLost

ASSUME PopupAssumption == None \notin Calls /\ {MaxEdits, MaxLost} \subseteq Nat

VARIABLES
    open,
    store,          \* keys, endpoints, accounts and activeAccount
    locked, hasVault,
    init,           \* what initializeWallet awaits
    form,           \* what unlockWallet, setupWallet or lockWallet awaits
    edits, lost,
    mishaps         \* history: what can spoil a session

popup == <<open, store, locked, hasVault, init, form, edits, lost, mishaps>>

Awaiting(kind, call) == [kind |-> kind, call |-> call, outcome |-> "none", data |-> None]
Answered(kind, outcome, data) == [kind |-> kind, call |-> None, outcome |-> outcome, data |-> data]
Nobody == Answered("nobody", "none", None)

\* initialState, when the popup is loaded.
Fresh ==
    /\ store' = EmptyState
    /\ locked' = TRUE /\ hasVault' = FALSE
    /\ form' = Nobody

\* The popup before it is opened.
PopupClosed ==
    /\ open = FALSE /\ store = EmptyState
    /\ locked = TRUE /\ hasVault = FALSE
    /\ init = Nobody /\ form = Nobody
    /\ edits = 0 /\ lost = 0 /\ mishaps = {}

PopupInit == Init /\ PopupClosed

---------------------------------------------------------------------------
(* What an operation of the views makes of the state.                      *)

Picks(S) == {l \in UNION {[1..n -> S] : n \in 1..Cardinality(S)} : IsInjective(l)}

Select(s, a) ==
    [s EXCEPT !.active = [account |-> a, key |-> FirstOrNone(s.accounts[a].keys),
                          endpoint |-> FirstOrNone(s.accounts[a].endpoints)]]

\* Mutant: the accounts keep the key.
RemoveKeyOnly(s, k) ==
    [s EXCEPT !.keys = @ \ {k}, !.active = IF @ # None /\ @.key = k THEN None ELSE @]

\* Accounts that list, of the keys or of the endpoints, those in T only.
KeysIn(accounts, T) ==
    [a \in DOMAIN accounts |-> [accounts[a] EXCEPT !.keys = Selected(accounts[a].keys, T)]]

EndpointsIn(accounts, T) ==
    [a \in DOMAIN accounts |-> [accounts[a] EXCEPT !.endpoints = Selected(accounts[a].endpoints, T)]]

RemoveKey(s, k) ==
    [s EXCEPT !.keys = @ \ {k},
              !.accounts = KeysIn(@, KeyIds \ {k}),
              !.active = IF @ # None /\ @.key = k THEN None ELSE @]

RemoveEndpoint(s, e) ==
    [s EXCEPT !.endpoints = @ \ {e},
              !.accounts = EndpointsIn(@, EndpointIds \ {e}),
              !.active = IF @ # None /\ @.endpoint = e THEN None ELSE @]

RemoveAccount(s, a) ==
    [s EXCEPT !.accounts = [b \in DOMAIN @ \ {a} |-> @[b]],
              !.active = IF @ # None /\ @.account = a THEN None ELSE @]

\* handleSave: the first account there is becomes the active one; the active
\* one's key stays selected although its account may no longer list it.
SaveAccount(s, a, account) ==
    LET saved == [s EXCEPT !.accounts = [b \in DOMAIN @ \cup {a} |-> IF b = a THEN account ELSE @[b]]]
    IN  IF DOMAIN s.accounts = {} THEN Select(saved, a) ELSE saved

Accounts(s) ==
    {[name |-> n, keys |-> k, endpoints |-> e] : n \in Names, k \in Picks(s.keys), e \in Picks(s.endpoints)}

NamedOtherwise(s, a, account) == \A b \in DOMAIN s.accounts \ {a} : s.accounts[b].name # account.name

\* What the dashboard offers: of the active account only, or another account.
Reselections(s) ==
    {Select(s, a) : a \in DOMAIN s.accounts}
        \cup (IF s.active = None THEN {}
              ELSE LET of == s.accounts[s.active.account]
                   IN  {[s EXCEPT !.active.key = k] : k \in s.keys \cap Range(of.keys)}
                         \cup {[s EXCEPT !.active.endpoint = e] : e \in s.endpoints \cap Range(of.endpoints)})

KeyEdits(s) == {[s EXCEPT !.keys = @ \cup {k}] : k \in KeyIds \ s.keys} \cup {RemoveKey(s, k) : k \in s.keys}

EndpointEdits(s) ==
    {[s EXCEPT !.endpoints = @ \cup {e}] : e \in EndpointIds \ s.endpoints}
        \cup {RemoveEndpoint(s, e) : e \in s.endpoints}

AccountEdits(s) ==
    {RemoveAccount(s, a) : a \in DOMAIN s.accounts}
        \cup UNION {{SaveAccount(s, a, x) : x \in {y \in Accounts(s) : NamedOtherwise(s, a, y)}} : a \in AccountIds}

\* A renaming, or the new kind or URL of an endpoint, is the state as it was.
EditsOf(s) == {s} \cup KeyEdits(s) \cup EndpointEdits(s) \cup AccountEdits(s) \cup Reselections(s)

---------------------------------------------------------------------------
(* The thunks.                                                             *)

Alone == \A c \in Calls : calls[c] = Idle

\* An asynchronous message that finds another one in flight.
Overlaps == IF Alone THEN {} ELSE {"overlap"}

OpenPopup ==
    /\ ~open
    /\ ReadOnlyMessage /\ answer'.kind = "HAS_VAULT"
    /\ open' = TRUE /\ Fresh
    /\ init' = Answered("HAS_VAULT", "success", vault # NoVault)
    /\ UNCHANGED <<edits, lost, mishaps>>

Close ==
    /\ open
    /\ open' = FALSE /\ Fresh
    /\ init' = Nobody
    /\ mishaps' = mishaps \cup (IF form.call = None THEN {} ELSE {"abandoned"})
    /\ UNCHANGED <<vars, edits, lost>>

\* initializeWallet goes on: it throws when an answer was lost.
NextAnswer(kind, outcome, data) ==
    /\ answer'.kind = kind
    /\ init' = Answered(kind, outcome, data)
    /\ UNCHANGED <<store, locked, hasVault>>

Initialized(found) ==
    /\ init' = Nobody
    /\ hasVault' = found
    /\ UNCHANGED <<vars, store, locked>>

Loaded(s) ==
    /\ store' = s
    /\ locked' = FALSE

InitializeWallet ==
    /\ init.outcome # "none"
    /\ \/ init.outcome = "lost" /\ Initialized(hasVault)
       \/ /\ init.kind = "HAS_VAULT" /\ init.outcome = "success"
          /\ IF init.data THEN ReadOnlyMessage /\ NextAnswer("IS_UNLOCKED", "success", Unlocked)
             ELSE Initialized(FALSE)
       \/ /\ init.kind = "IS_UNLOCKED" /\ init.outcome = "success"
          /\ IF init.data
             THEN GetState /\ NextAnswer("GET_STATE", IF Unlocked THEN "success" ELSE "refused", currentState)
             ELSE Initialized(TRUE)
       \/ /\ init.kind = "GET_STATE" /\ init.outcome = "refused"
          /\ Initialized(TRUE)
       \/ /\ init.kind = "GET_STATE" /\ init.outcome = "success"
          /\ Loaded(init.data)
          /\ init' = Nobody /\ hasVault' = TRUE
          /\ UNCHANGED vars
    /\ UNCHANGED <<open, form, edits, lost, mishaps>>

\* The forms are disabled while their thunk runs.
SubmitUnlock(c, password) ==
    /\ open /\ locked /\ hasVault /\ form = Nobody
    /\ Unlock(c, password)
    /\ form' = Awaiting("UNLOCK", c)
    /\ mishaps' = mishaps \cup Overlaps
    /\ UNCHANGED <<open, store, locked, hasVault, init, edits, lost>>

\* Offered until a vault has been found, also before it has been looked for.
SubmitSetup(c, password) ==
    /\ open /\ ~hasVault /\ form = Nobody
    /\ Setup(c, password)
    /\ form' = Awaiting("SETUP", c)
    /\ mishaps' = mishaps \cup Overlaps \cup (IF init = Nobody THEN {} ELSE {"early"})
    /\ UNCHANGED <<open, store, locked, hasVault, init, edits, lost>>

Shown == open /\ ~locked /\ hasVault

ClickLock ==
    /\ Shown /\ form = Nobody
    /\ LockMessage
    /\ form' = Answered("LOCK", "success", None)
    /\ UNCHANGED <<open, store, locked, hasVault, init, edits, lost, mishaps>>

\* lockWallet looks at no answer; the store keeps what it holds.
FormAnswered ==
    /\ form.outcome # "none"
    /\ form' = Nobody
    /\ \/ form.kind = "LOCK" /\ locked' = TRUE /\ UNCHANGED <<store, hasVault>>
       \/ form.kind = "UNLOCK" /\ form.outcome = "success" /\ Loaded(form.data) /\ UNCHANGED hasVault
       \/ form.kind = "SETUP" /\ form.outcome = "success" /\ Loaded(EmptyState) /\ hasVault' = TRUE
       \/ form.kind # "LOCK" /\ form.outcome # "success" /\ UNCHANGED <<store, locked, hasVault>>
    /\ UNCHANGED <<vars, open, init, edits, lost, mishaps>>

\* Mutant: the popup sends what it held before the edit.
EditSendingOld(c, s) ==
    /\ Shown /\ edits < MaxEdits
    /\ store' = s
    /\ edits' = edits + 1
    /\ mishaps' = mishaps \cup (IF s.active # None /\ s.active = store.active
                                   /\ s.active.key \notin Range(s.accounts[s.active.account].keys)
                                THEN {"reedited"} ELSE {}) \cup Overlaps
    /\ SaveState(c, store) \/ RefuseSave
    /\ UNCHANGED <<open, locked, hasVault, init, form, lost>>

\* An operation of a view, and persistState.
Edit(c, s) ==
    /\ Shown /\ edits < MaxEdits
    /\ store' = s
    /\ edits' = edits + 1
    /\ mishaps' = mishaps \cup (IF s.active # None /\ s.active = store.active
                                   /\ s.active.key \notin Range(s.accounts[s.active.account].keys)
                                THEN {"reedited"} ELSE {}) \cup Overlaps
    /\ SaveState(c, s) \/ RefuseSave
    /\ UNCHANGED <<open, locked, hasVault, init, form, lost>>

---------------------------------------------------------------------------
(* The worker goes on.                                                     *)

\* The answer of call c reaches the form that awaits it, if any does.
Answers(c, outcome, data) ==
    /\ form' = IF form.call = c THEN Answered(form.kind, outcome, data) ELSE form
    /\ UNCHANGED <<open, store, locked, hasVault, init, edits, lost>>

WorkerFinishes(c) ==
    \/ StoreVault(c) /\ UNCHANGED popup
    \/ FinishSetup(c) /\ Answers(c, "success", None) /\ UNCHANGED mishaps
    \/ FinishUnlock(c) /\ Answers(c, "success", calls[c].state) /\ UNCHANGED mishaps
    \/ FinishSave(c) /\ UNCHANGED popup
    \/ FailCall(c) /\ Answers(c, "refused", None) /\ mishaps' = mishaps \cup {"failed"}

\* The port closes before the answer: sendBackground resolves to undefined.
Undefined(request) == IF request = Nobody THEN request ELSE Answered(request.kind, "lost", request.data)

WorkerStops ==
    /\ lost < MaxLost
    /\ Restart
    /\ lost' = lost + 1
    /\ init' \in {init, Undefined(init)}
    /\ form' \in IF form.outcome = "none" THEN {Undefined(form)} ELSE {form, Undefined(form)}
    /\ UNCHANGED <<open, store, locked, hasVault, edits, mishaps>>

PopupNext ==
    \/ OpenPopup \/ Close \/ InitializeWallet \/ ClickLock \/ FormAnswered
    \/ \E c \in Calls :
        \/ \E p \in Passwords : SubmitUnlock(c, p) \/ SubmitSetup(c, p)
        \/ \E s \in EditsOf(store) : Edit(c, s)
        \/ WorkerFinishes(c)
    \/ WorkerStops
    \/ (FireAlarm \/ HandleLockAlarm \/ Tick) /\ UNCHANGED popup

PopupSpec == PopupInit /\ [][PopupNext]_<<vars, popup>>

---------------------------------------------------------------------------
(* Properties.                                                             *)

(***************************************************************************)
(* Whatever is edited, in whatever order, nothing refers to a key, an      *)
(* endpoint or an account that was removed, in the popup, in the worker    *)
(* and in storage; and SIGN_REQUEST signs with a key its account lists     *)
(* unless the active account was edited afterwards.                        *)
(***************************************************************************)
Consistent(s) ==
    /\ \A a \in DOMAIN s.accounts :
           Range(s.accounts[a].keys) \subseteq s.keys /\ Range(s.accounts[a].endpoints) \subseteq s.endpoints
    /\ s.active # None =>
           /\ HasAccount(s, s.active.account)
           /\ s.active.key \in s.keys \cup {None} /\ s.active.endpoint \in s.endpoints \cup {None}
           /\ "reedited" \in mishaps \/ s.active.key \in Range(s.accounts[s.active.account].keys) \cup {None}

NothingDangles == \A s \in {store, currentState, vault.state} \ {None} : Consistent(s)

(***************************************************************************)
(* What an open popup shows is what the worker serves, however it was      *)
(* closed and opened, messages overlapped and the worker stopped and       *)
(* locked, unless the popup was closed before UNLOCK or SETUP was answered *)
(* or sent SETUP before it had its first answers; and it is what storage   *)
(* holds unless messages overlapped or a write failed.                     *)
(***************************************************************************)
ShownIsStored ==
    Shown /\ currentState # None /\ mishaps \cap {"early", "abandoned"} = {} =>
        /\ store = currentState
        /\ Alone /\ mishaps \cap {"overlap", "failed"} = {} =>
               vault = [state |-> store, password |-> currentPassword]

(***************************************************************************)
(* What is shown and what was acknowledged is what storage has: the        *)
(* statement above, and of a save that was answered SavedStateIsDurable of *)
(* the worker, unless messages overlapped.                                 *)
(***************************************************************************)
ShownIsDurable == ShownIsStored /\ ("overlap" \notin mishaps => SavedStateIsDurable)

(***************************************************************************)
(* SETUP initializes a new vault, as the extension's README says of it:    *)
(* where a vault is stored none is set up over its keys.  The form is      *)
(* offered until the popup has heard of a vault, and the worker writes     *)
(* without looking.                                                        *)
(***************************************************************************)
SetupMakesANewVault ==
    [][ \A c \in Calls :
            calls[c].kind = "SETUP" /\ ~calls[c].stored /\ calls'[c].stored =>
                vault = NoVault ]_<<vars, popup>>
===========================================================================
