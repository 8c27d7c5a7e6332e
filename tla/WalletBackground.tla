------------------------- MODULE WalletBackground -------------------------
(***************************************************************************)
(* The background service worker of the Wire Wallet extension              *)
(* (background/Background.ts over Storage.ts and Crypto.ts): it holds the  *)
(* decrypted wallet while unlocked, keeps the encrypted vault in           *)
(* chrome.storage.local and locks the wallet when it has been idle for     *)
(* LockDuration.                                                           *)
(*                                                                         *)
(* JavaScript runs one turn at a time, so an action is the code of one     *)
(* handler between two awaits.  SETUP, SAVE_STATE and UNLOCK await the     *)
(* key derivation and the cipher, which run on other threads and finish in *)
(* any order; until they do the message is in flight in one of the Calls.  *)
(* chrome.storage executes the worker's reads and writes in the order they *)
(* are issued: a write is one step with the end of its encryption, and     *)
(* UNLOCK reads the vault in the turn that receives the message.           *)
(*                                                                         *)
(* Chrome may stop the worker at any moment (Restart); the vault and the   *)
(* alarm survive, the module's variables do not.                           *)
(***************************************************************************)
EXTENDS Integers, Sequences

CONSTANTS
    KeyIds,         \* ids of key pairs
    EndpointIds,    \* ids of chain endpoints
    AccountIds,     \* ids of accounts
    Names,          \* account names that pass isValidAccountName
    None            \* null / undefined

CONSTANTS
    Calls,          \* slots for messages in flight: at most |Calls| at once
    States,         \* the ExtensionStates the popup saves
    Passwords,
    LockDuration,   \* AUTO_LOCK_DURATION_MS
    Horizon,        \* no message arrives from this time on
    MaxSetBacks     \* how often the wall clock is set back

ASSUME NoneAssumption == None \notin States /\ None \notin Passwords
ASSUME TimeAssumption ==
    /\ LockDuration \in Nat \ {0}
    /\ Horizon \in Nat
    /\ MaxSetBacks \in Nat

VARIABLES
    currentState,       \* decrypted state, None while locked
    currentPassword,    \* its password, None while locked
    lockDeadlineMs,     \* end of the inactivity window, or NoTime
    alarm,              \* time of the alarm Chrome holds for us, or NoTime
    alarmEvent,         \* an alarm that went off and was not handled yet
    vault,              \* what storage decrypts to, and with which password
    calls,              \* the messages in flight
    rivals,             \* history: a SETUP met a message with another password
    now,                \* Date.now()
    setBacks,           \* how often the clock was set back
    lastActive,         \* history: when the last use of the session completed
    answer              \* the response sent in the last step, or NoAnswer

secrets == <<currentState, currentPassword>>
session == <<secrets, lockDeadlineMs, alarm>>
clock   == <<now, setBacks>>
flight  == <<calls, rivals>>
vars == <<session, alarmEvent, vault, flight, clock, lastActive, answer>>

---------------------------------------------------------------------------
(* What the wallet keeps: key pairs, chain endpoints, accounts and the     *)
(* account that is selected.  Ids stand for the UUIDs of the source, and a *)
(* key pair, an endpoint or a name is its id: nothing depends on what it   *)
(* contains.                                                               *)

Account == [name : Names, keys : Seq(KeyIds), endpoints : Seq(EndpointIds)]

\* activeAccount; a missing first key or endpoint is the source's "" (here None).
Active == [account : AccountIds, key : KeyIds \cup {None},
           endpoint : EndpointIds \cup {None}]

ExtensionState ==
    [keys : SUBSET KeyIds, endpoints : SUBSET EndpointIds,
     accounts : UNION {[ids -> Account] : ids \in SUBSET AccountIds},
     active : Active \cup {None}]

\* The state setupWallet creates.
EmptyState == [keys |-> {}, endpoints |-> {}, accounts |-> <<>>, active |-> None]

ASSUME StatesAssumption == EmptyState \in States

\* list[0] ?? "" of the source.
FirstOrNone(list) == IF list = <<>> THEN None ELSE Head(list)

HasAccount(s, a) == a \in DOMAIN s.accounts

(***************************************************************************)
(* The key SIGN_REQUEST signs with: the selected key when the account is   *)
(* the selected one, otherwise the account's first key; None when that id  *)
(* names no stored key pair.                                               *)
(***************************************************************************)
SigningKey(s, a) ==
    LET chosen == IF s.active # None /\ s.active.account = a
                  THEN s.active.key
                  ELSE FirstOrNone(s.accounts[a].keys)
    IN  IF chosen \in s.keys THEN chosen ELSE None

---------------------------------------------------------------------------
NoTime   == -1
NoVault  == [state |-> None, password |-> None]
NoAnswer == [kind |-> "NONE", ok |-> FALSE]
Idle     == [kind |-> "IDLE", stored |-> FALSE, state |-> None, password |-> None]

AsyncKinds == {"SETUP", "SAVE_STATE", "UNLOCK"}
\* Messages whose success shows or uses the decrypted state.
PrivilegedKinds == {"GET_STATE", "GET_ACCOUNTS", "SIGN_REQUEST"}
Kinds == AsyncKinds \cup PrivilegedKinds
            \cup {"LOCK", "IS_UNLOCKED", "HAS_VAULT", "UNKNOWN", "NONE"}

Vault == [state : States \cup {None}, password : Passwords \cup {None}]
Call  == [kind : AsyncKinds \cup {"IDLE"}, stored : BOOLEAN,
          state : States \cup {None}, password : Passwords \cup {None}]

TypeOK ==
    /\ currentState \in States \cup {None}
    /\ currentPassword \in Passwords \cup {None}
    /\ lockDeadlineMs \in Nat \cup {NoTime}
    /\ alarm \in Nat \cup {NoTime}
    /\ alarmEvent \in BOOLEAN
    /\ vault \in Vault
    /\ calls \in [Calls -> Call]
    /\ rivals \in BOOLEAN
    /\ now \in Nat
    /\ setBacks \in Nat
    /\ lastActive \in Nat
    /\ answer \in [kind : Kinds, ok : BOOLEAN]

Init ==
    /\ currentState = None
    /\ currentPassword = None
    /\ lockDeadlineMs = NoTime
    /\ alarm = NoTime
    /\ alarmEvent = FALSE
    /\ vault = NoVault
    /\ calls = [c \in Calls |-> Idle]
    /\ rivals = FALSE
    /\ now = 0
    /\ setBacks = 0
    /\ lastActive = 0
    /\ answer = NoAnswer

---------------------------------------------------------------------------
(* The helpers of Background.ts.                                           *)

\* Mutant: a pending alarm is kept instead of replaced.
ResetLockTimerKeepingAlarm ==
    /\ lockDeadlineMs' = now + LockDuration
    /\ alarm' = IF alarm = NoTime THEN now + LockDuration ELSE alarm

ResetLockTimer ==
    /\ lockDeadlineMs' = now + LockDuration
    /\ alarm' = now + LockDuration

Lock ==
    /\ currentState' = None
    /\ currentPassword' = None
    /\ lockDeadlineMs' = NoTime
    /\ alarm' = NoTime

Expired == lockDeadlineMs # NoTime /\ now >= lockDeadlineMs

LockIfExpired == IF Expired THEN Lock ELSE UNCHANGED session

\* What the handler finds after the lockIfExpired() it starts with.
Unlocked == currentState # None /\ ~Expired

Answer(kind, ok) == answer' = [kind |-> kind, ok |-> ok]

\* A message in flight that will write the vault or open the session, unless
\* it fails.
Live(call) == call.kind \in {"SETUP", "SAVE_STATE"} \/ (call.kind = "UNLOCK" /\ call.state # None)

\* Two such messages of different passwords, one of them a SETUP.
Rival(a, b) ==
    Live(a) /\ Live(b) /\ a.password # b.password /\ "SETUP" \in {a.kind, b.kind}

Begin(c, kind, state, password) ==
    LET call == [kind |-> kind, stored |-> FALSE, state |-> state, password |-> password]
    IN  /\ calls[c] = Idle
        /\ calls' = [calls EXCEPT ![c] = call]
        /\ rivals' = (rivals \/ \E d \in Calls : Rival(calls[d], call))
        /\ answer' = NoAnswer

End(c, ok) ==
    /\ calls' = [calls EXCEPT ![c] = Idle]
    /\ UNCHANGED rivals
    /\ Answer(calls[c].kind, ok)

---------------------------------------------------------------------------
(* Messages answered in the turn that receives them.                       *)

Receiving == now < Horizon

\* The privileged message is served: the session stays, refreshed or not.
Serve(kind) ==
    /\ Unlocked
    /\ UNCHANGED secrets
    /\ Answer(kind, TRUE)

\* The message is refused, or needs no session.
Reply(kind, ok) ==
    /\ LockIfExpired
    /\ UNCHANGED lastActive
    /\ Answer(kind, ok)

Refresh == ResetLockTimer /\ lastActive' = now

ReadOnlyMessage ==
    /\ Receiving
    /\ \/ \E kind \in {"HAS_VAULT", "IS_UNLOCKED"} : Reply(kind, TRUE)
       \/ Reply("UNKNOWN", FALSE)
    /\ UNCHANGED <<alarmEvent, vault, flight, clock>>

GetState ==
    /\ Receiving
    /\ \/ Serve("GET_STATE") /\ Refresh
       \/ ~Unlocked /\ Reply("GET_STATE", FALSE)
    /\ UNCHANGED <<alarmEvent, vault, flight, clock>>

\* Mutant: listing the accounts counts as use of the session.
GetAccountsAsUse ==
    /\ Receiving
    /\ \/ Serve("GET_ACCOUNTS") /\ ResetLockTimer /\ UNCHANGED lastActive
       \/ ~Unlocked /\ Reply("GET_ACCOUNTS", FALSE)
    /\ UNCHANGED <<alarmEvent, vault, flight, clock>>

\* A passive read: it does not count as use of the session.
GetAccounts ==
    /\ Receiving
    /\ \/ Serve("GET_ACCOUNTS") /\ UNCHANGED <<lockDeadlineMs, alarm, lastActive>>
       \/ ~Unlocked /\ Reply("GET_ACCOUNTS", FALSE)
    /\ UNCHANGED <<alarmEvent, vault, flight, clock>>

CanSign(a) == HasAccount(currentState, a) /\ SigningKey(currentState, a) # None

\* Even with a key the signature may throw: the digest comes from the page.
SignRequest(a) ==
    /\ Receiving
    /\ \/ Serve("SIGN_REQUEST") /\ CanSign(a) /\ Refresh
       \/ Reply("SIGN_REQUEST", FALSE)
    /\ UNCHANGED <<alarmEvent, vault, flight, clock>>

LockMessage ==
    /\ Receiving
    /\ Lock
    /\ Answer("LOCK", TRUE)
    /\ UNCHANGED <<alarmEvent, vault, flight, clock, lastActive>>

---------------------------------------------------------------------------
(* Messages that await encryption or storage.                              *)

\* The form that sends it is that of a popup that has not heard of a vault
\* (WalletPopup), which says nothing of the vault and of what is in flight.
Setup(c, password) ==
    /\ Receiving
    /\ LockIfExpired
    /\ Begin(c, "SETUP", EmptyState, password)
    /\ UNCHANGED <<alarmEvent, vault, clock, lastActive>>

\* What decrypting the stored vault with this password gives; None if it fails.
Decrypted(password) == IF vault.password = password THEN vault.state ELSE None

Unlock(c, password) ==
    /\ Receiving
    /\ LockIfExpired
    /\ Begin(c, "UNLOCK", Decrypted(password), password)
    /\ UNCHANGED <<alarmEvent, vault, clock, lastActive>>

SaveState(c, state) ==
    /\ Receiving
    /\ currentPassword # None
    /\ ~Expired
    /\ currentState' = state
    /\ Begin(c, "SAVE_STATE", state, currentPassword)
    /\ UNCHANGED <<currentPassword, lockDeadlineMs, alarm, alarmEvent, vault,
                   clock, lastActive>>

RefuseSave ==
    /\ Receiving
    /\ currentPassword = None \/ Expired
    /\ Reply("SAVE_STATE", FALSE)
    /\ UNCHANGED <<alarmEvent, vault, flight, clock>>

\* saveEncryptedState: the encryption ends and the vault is written.
StoreVault(c) ==
    /\ calls[c].kind \in {"SETUP", "SAVE_STATE"}
    /\ ~calls[c].stored
    /\ vault' = [state |-> calls[c].state, password |-> calls[c].password]
    /\ calls' = [calls EXCEPT ![c].stored = TRUE]
    /\ answer' = NoAnswer
    /\ UNCHANGED <<session, alarmEvent, rivals, clock, lastActive>>

\* The cipher or chrome.storage rejects; the handler sets nothing back.
FailCall(c) ==
    /\ calls[c].kind \in AsyncKinds
    /\ ~calls[c].stored
    /\ End(c, FALSE)
    /\ UNCHANGED <<session, alarmEvent, vault, clock, lastActive>>

\* Mutant: an open session keeps its password.
FinishSetupKeepingPassword(c) ==
    /\ calls[c].kind = "SETUP"
    /\ calls[c].stored
    /\ currentState' = calls[c].state
    /\ currentPassword' = IF currentPassword = None THEN calls[c].password ELSE currentPassword
    /\ Refresh
    /\ End(c, TRUE)
    /\ UNCHANGED <<alarmEvent, vault, clock>>

FinishSetup(c) ==
    /\ calls[c].kind = "SETUP"
    /\ calls[c].stored
    /\ currentState' = calls[c].state
    /\ currentPassword' = calls[c].password
    /\ Refresh
    /\ End(c, TRUE)
    /\ UNCHANGED <<alarmEvent, vault, clock>>

FinishUnlock(c) ==
    /\ calls[c].kind = "UNLOCK"
    /\ calls[c].state # None
    /\ currentState' = calls[c].state
    /\ currentPassword' = calls[c].password
    /\ Refresh
    /\ End(c, TRUE)
    /\ UNCHANGED <<alarmEvent, vault, clock>>

\* Mutant: the state is assigned after the await, as in SETUP.
FinishSaveAssigning(c) ==
    /\ calls[c].kind = "SAVE_STATE"
    /\ calls[c].stored
    /\ currentState' = calls[c].state
    /\ currentPassword' = calls[c].password
    /\ Refresh
    /\ End(c, TRUE)
    /\ UNCHANGED <<alarmEvent, vault, clock>>

\* The timer is reset even when the wallet was locked in the meantime.
FinishSave(c) ==
    /\ calls[c].kind = "SAVE_STATE"
    /\ calls[c].stored
    /\ Refresh
    /\ End(c, TRUE)
    /\ UNCHANGED <<secrets, alarmEvent, vault, clock>>

---------------------------------------------------------------------------
(* Chrome and the clock.                                                   *)

\* chrome.alarms: a one-shot alarm goes off at its time or later.
FireAlarm ==
    /\ alarm # NoTime
    /\ now >= alarm
    /\ alarm' = NoTime
    /\ alarmEvent' = TRUE
    /\ answer' = NoAnswer
    /\ UNCHANGED <<secrets, lockDeadlineMs, vault, flight, clock, lastActive>>

\* Mutant: an early alarm is not scheduled again.
HandleLockAlarmOnce ==
    /\ alarmEvent
    /\ alarmEvent' = FALSE
    /\ LockIfExpired
    /\ answer' = NoAnswer
    /\ UNCHANGED <<vault, flight, clock, lastActive>>

HandleLockAlarm ==
    /\ alarmEvent
    /\ alarmEvent' = FALSE
    /\ IF lockDeadlineMs # NoTime /\ ~Expired
       THEN alarm' = lockDeadlineMs /\ UNCHANGED <<secrets, lockDeadlineMs>>
       ELSE LockIfExpired
    /\ answer' = NoAnswer
    /\ UNCHANGED <<vault, flight, clock, lastActive>>

\* Chrome stops the worker; the next event loads the module anew.
Restart ==
    /\ currentState' = None
    /\ currentPassword' = None
    /\ lockDeadlineMs' = NoTime
    /\ calls' = [c \in Calls |-> Idle]
    /\ rivals' = FALSE
    /\ answer' = NoAnswer
    /\ UNCHANGED <<alarm, alarmEvent, vault, clock, lastActive>>

\* Beyond Horizon time passes only until the last alarm is due.
Tick ==
    /\ now < Horizon \/ now < alarm
    /\ now' = now + 1
    /\ answer' = NoAnswer
    /\ UNCHANGED <<session, alarmEvent, vault, flight, setBacks, lastActive>>

SetClockBack ==
    /\ setBacks < MaxSetBacks
    /\ now > 0
    /\ now' = now - 1
    /\ setBacks' = setBacks + 1
    /\ answer' = NoAnswer
    /\ UNCHANGED <<session, alarmEvent, vault, flight, lastActive>>

---------------------------------------------------------------------------
Start == \E c \in Calls :
    \/ \E p \in Passwords : Unlock(c, p) \/ Setup(c, p)
    \/ \E s \in States : SaveState(c, s)

Finish == \E c \in Calls :
    StoreVault(c) \/ FailCall(c) \/ FinishSetup(c) \/ FinishUnlock(c) \/ FinishSave(c)

Next ==
    \/ ReadOnlyMessage
    \/ GetState
    \/ GetAccounts
    \/ \E a \in AccountIds : SignRequest(a)
    \/ LockMessage
    \/ Start
    \/ RefuseSave
    \/ Finish
    \/ FireAlarm
    \/ HandleLockAlarm
    \/ Restart
    \/ Tick
    \/ SetClockBack

Spec == Init /\ [][Next]_vars

\* Chrome fires a due alarm and delivers its event; time passes.
Fairness == WF_vars(Tick) /\ WF_vars(FireAlarm) /\ WF_vars(HandleLockAlarm)

FairSpec == Spec /\ Fairness

---------------------------------------------------------------------------
(* Properties.                                                             *)

(***************************************************************************)
(* The three session variables of Background.ts agree, whichever awaits    *)
(* they are assigned between: state and password are held together, and    *)
(* only under a deadline that Chrome will wake the worker for, so a wallet *)
(* is never open with nothing left to close it.                            *)
(***************************************************************************)
SessionGuarded ==
    /\ currentState # None <=> currentPassword # None
    /\ currentState # None => lockDeadlineMs # NoTime
    /\ lockDeadlineMs # NoTime => alarmEvent \/ alarm = lockDeadlineMs

(***************************************************************************)
(* The password that opens the stored vault is the session's password, so  *)
(* nobody is shut out of the state they are editing, across restarts,      *)
(* failed writes, messages that overlap and wallets set up anew over the   *)
(* vault, except between the write of a SETUP and its end.  Since the      *)
(* worker was loaded no SETUP may have met a message in flight that has    *)
(* another password: of those two, one may write last and the other open   *)
(* the session last.                                                       *)
(***************************************************************************)
PasswordOpensVault ==
    currentPassword # None =>
        \/ currentPassword = vault.password
        \/ \E c \in Calls : calls[c].kind = "SETUP" /\ calls[c].stored
        \/ rivals

(***************************************************************************)
(* When SAVE_STATE has been answered with success and nothing else is in   *)
(* flight, what storage holds is the state the background serves.          *)
(***************************************************************************)
SavedStateIsDurable ==
    answer = [kind |-> "SAVE_STATE", ok |-> TRUE] =>
        \/ currentState = None
        \/ \E c \in Calls : calls[c] # Idle
        \/ vault = [state |-> currentState, password |-> currentPassword]

(***************************************************************************)
(* No state is shown and nothing is signed once LockDuration has passed    *)
(* since the last use, however late Chrome's alarm is; reading the account *)
(* list is not a use.                                                      *)
(***************************************************************************)
NoServiceWhenIdle ==
    [][ \A kind \in PrivilegedKinds :
            answer' = [kind |-> kind, ok |-> TRUE] => now - lastActive < LockDuration ]_vars

(***************************************************************************)
(* A locked wallet opens only by an UNLOCK or SETUP that succeeds, with    *)
(* its own password: the rest of a SAVE_STATE the lock overtook does not   *)
(* bring the state back.                                                   *)
(***************************************************************************)
OpensOnlyByPassword ==
    [][ currentState = None /\ currentState' # None =>
            \E c \in Calls : /\ calls[c].kind \in {"SETUP", "UNLOCK"}
                             /\ calls'[c] = Idle
                             /\ currentPassword' = calls[c].password ]_vars

(***************************************************************************)
(* Once nobody uses the wallet (the messages stop at Horizon) it locks.    *)
(***************************************************************************)
LocksWhenIdle == currentState # None ~> currentState = None
===========================================================================
