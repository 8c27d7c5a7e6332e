---------------------- MODULE WalletBackgroundProofs ----------------------
(***************************************************************************)
(* Theorems about the background worker, for any number of messages in     *)
(* flight, any set of states and passwords, and any LockDuration; and      *)
(* about the popup over it, for any wallets, edits and stops as well.      *)
(***************************************************************************)
EXTENDS WalletPopup, TLAPS

USE DEF NoTime, NoVault, NoAnswer, Idle, AsyncKinds, PrivilegedKinds, Kinds,
        Vault, Call, secrets, session, clock, flight, vars

(***************************************************************************)
(* What a message in flight carries: a SETUP or SAVE_STATE has a state and *)
(* a password, an UNLOCK has a password, an idle slot nothing stored.      *)
(***************************************************************************)
CallsCarry ==
    \A c \in Calls :
        /\ calls[c].kind \in {"SETUP", "SAVE_STATE"} =>
              calls[c].state \in States /\ calls[c].password \in Passwords
        /\ calls[c].kind = "UNLOCK" => calls[c].password \in Passwords

TypeInv == TypeOK /\ CallsCarry

\* Every value assigned to a variable of the worker is of the variable's type.
LEMMA InitTypeInv == Init => TypeInv
<1> SUFFICES ASSUME Init PROVE TypeInv
    OBVIOUS
<1>1. calls \in [Calls -> Call]
    BY DEF Init
<1>2. CallsCarry
    BY DEF Init, CallsCarry
<1> QED
    BY <1>1, <1>2 DEF Init, TypeInv, TypeOK

\* The variables handlers change together.
SessionTypes ==
    /\ currentState \in States \cup {None}
    /\ currentPassword \in Passwords \cup {None}
    /\ lockDeadlineMs \in Nat \cup {NoTime}
    /\ alarm \in Nat \cup {NoTime}

LEMMA LockIfExpiredTypes ==
    ASSUME SessionTypes, LockIfExpired
    PROVE  SessionTypes'
BY DEF SessionTypes, LockIfExpired, Lock

LEMMA RefreshTypes ==
    ASSUME SessionTypes, now \in Nat, UNCHANGED secrets, Refresh
    PROVE  SessionTypes' /\ lastActive' \in Nat
BY TimeAssumption DEF SessionTypes, Refresh, ResetLockTimer

\* A message answered at once that sends answers of its own kind only.
LEMMA AnsweredTypes ==
    ASSUME TypeInv, SessionTypes', lastActive' \in Nat,
           NEW kind \in Kinds, NEW ok \in BOOLEAN, Answer(kind, ok),
           UNCHANGED <<alarmEvent, vault, flight, clock>>
    PROVE  TypeInv'
BY DEF TypeInv, TypeOK, CallsCarry, SessionTypes, Answer

LEMMA ReplyTypes ==
    ASSUME TypeInv, NEW kind \in Kinds, NEW ok \in BOOLEAN, Reply(kind, ok),
           UNCHANGED <<alarmEvent, vault, flight, clock>>
    PROVE  TypeInv'
<1>1. SessionTypes' /\ lastActive' \in Nat
    BY LockIfExpiredTypes DEF Reply, TypeInv, TypeOK, SessionTypes
<1> QED
    BY <1>1, AnsweredTypes DEF Reply

LEMMA ServeTypes ==
    ASSUME TypeInv, NEW kind \in Kinds, Serve(kind),
           Refresh \/ UNCHANGED <<lockDeadlineMs, alarm, lastActive>>,
           UNCHANGED <<alarmEvent, vault, flight, clock>>
    PROVE  TypeInv'
<1>1. SessionTypes' /\ lastActive' \in Nat
    BY RefreshTypes DEF Serve, TypeInv, TypeOK, SessionTypes
<1> QED
    BY <1>1, AnsweredTypes DEF Serve

\* Writing the vault marks a message as stored and changes nothing else of it.
LEMMA StoredCall ==
    ASSUME TypeOK, NEW c \in Calls, StoreVault(c)
    PROVE  /\ calls' \in [Calls -> Call]
           /\ \A d \in Calls :
                /\ calls'[d].kind = calls[d].kind
                /\ calls'[d].state = calls[d].state
                /\ calls'[d].password = calls[d].password
                /\ calls'[d].stored <=> d = c \/ calls[d].stored
<1> DEFINE marked == [calls[c] EXCEPT !.stored = TRUE]
<1>1. calls \in [Calls -> Call] /\ calls[c] \in Call
    BY DEF TypeOK
<1>2. /\ marked \in Call
      /\ marked.stored
      /\ marked.kind = calls[c].kind
      /\ marked.state = calls[c].state
      /\ marked.password = calls[c].password
    BY <1>1
<1>3. calls' = [calls EXCEPT ![c] = marked]
    BY DEF StoreVault
<1> HIDE DEF marked
<1>4. calls' \in [Calls -> Call]
    BY <1>1, <1>2, <1>3
<1>5. \A d \in Calls : calls'[d] = IF d = c THEN marked ELSE calls[d]
    BY <1>1, <1>3
<1> QED
    BY <1>2, <1>4, <1>5

LEMMA NextTypeInv == TypeInv /\ [Next]_vars => TypeInv'
<1> SUFFICES ASSUME TypeInv, [Next]_vars
             PROVE  TypeInv'
    OBVIOUS
<1>1. CASE ReadOnlyMessage
    BY <1>1, ReplyTypes DEF ReadOnlyMessage
<1>2. CASE GetState
    BY <1>2, ReplyTypes, ServeTypes DEF GetState
<1>3. CASE GetAccounts
    BY <1>3, ReplyTypes, ServeTypes DEF GetAccounts
<1>4. ASSUME NEW a \in AccountIds, SignRequest(a)
      PROVE  TypeInv'
    BY <1>4, ReplyTypes, ServeTypes DEF SignRequest
<1> USE TimeAssumption, NoneAssumption DEF TypeInv, TypeOK, CallsCarry
<1>5. CASE LockMessage
    BY <1>5 DEF LockMessage, Lock, Answer
<1>6. ASSUME NEW c \in Calls, NEW p \in Passwords, Setup(c, p)
      PROVE  TypeInv'
    BY <1>6, StatesAssumption DEF Setup, Begin, LockIfExpired, Lock
<1>7. ASSUME NEW c \in Calls, NEW p \in Passwords, Unlock(c, p)
      PROVE  TypeInv'
    BY <1>7 DEF Unlock, Decrypted, Begin, LockIfExpired, Lock
<1>8. ASSUME NEW c \in Calls, NEW s \in States, SaveState(c, s)
      PROVE  TypeInv'
    BY <1>8 DEF SaveState, Begin
<1>9. CASE RefuseSave
    BY <1>9 DEF RefuseSave, Reply, LockIfExpired, Lock, Answer
<1>10. ASSUME NEW c \in Calls, StoreVault(c)
       PROVE  TypeInv'
    <2>1. calls[c] \in Call /\ vault' = [state |-> calls[c].state, password |-> calls[c].password]
      BY <1>10 DEF StoreVault
    <2>2. vault' \in Vault
      BY <2>1 DEF Call, Vault
    <2>3. answer' \in [kind : Kinds, ok : BOOLEAN]
      BY <1>10 DEF StoreVault, NoAnswer, Kinds
    <2>4. CallsCarry' /\ calls' \in [Calls -> Call]
      BY <1>10, StoredCall
    <2>5. UNCHANGED <<session, alarmEvent, rivals, clock, lastActive>>
      BY <1>10 DEF StoreVault
    <2> QED BY <2>2, <2>3, <2>4, <2>5 DEF session, secrets, clock
<1>11. ASSUME NEW c \in Calls, FailCall(c)
       PROVE  TypeInv'
    BY <1>11 DEF FailCall, End, Answer
<1>12. ASSUME NEW c \in Calls, FinishSetup(c)
       PROVE  TypeInv'
    BY <1>12 DEF FinishSetup, Refresh, ResetLockTimer, End, Answer
<1>13. ASSUME NEW c \in Calls, FinishUnlock(c)
       PROVE  TypeInv'
    BY <1>13 DEF FinishUnlock, Refresh, ResetLockTimer, End, Answer
<1>14. ASSUME NEW c \in Calls, FinishSave(c)
       PROVE  TypeInv'
    BY <1>14 DEF FinishSave, Refresh, ResetLockTimer, End, Answer
<1>15. CASE FireAlarm
    BY <1>15 DEF FireAlarm
<1>16. CASE HandleLockAlarm
    BY <1>16 DEF HandleLockAlarm, LockIfExpired, Lock
<1>17. CASE Restart
    BY <1>17 DEF Restart
<1>18. CASE Tick
    BY <1>18 DEF Tick
<1>19. CASE SetClockBack
    BY <1>19 DEF SetClockBack
<1>20. CASE UNCHANGED vars
    BY <1>20
<1> QED
    BY <1>1, <1>2, <1>3, <1>4, <1>5, <1>6, <1>7, <1>8, <1>9, <1>10, <1>11, <1>12,
       <1>13, <1>14, <1>15, <1>16, <1>17, <1>18, <1>19, <1>20
       DEF Next, Start, Finish

\* The variables of the worker, Chrome and the vault always have their types.
THEOREM TypeCorrect == Spec => []TypeInv
<1>1. Init => TypeInv
    BY InitTypeInv
<1>2. TypeInv /\ [Next]_vars => TypeInv'
    BY NextTypeInv
<1> QED
    BY <1>1, <1>2, PTL DEF Spec

---------------------------------------------------------------------------
(***************************************************************************)
(* The session: SessionGuarded is not inductive, because the deadline must *)
(* be known to be LockDuration after the last use for NoServiceWhenIdle.   *)
(***************************************************************************)
WindowSinceUse == lockDeadlineMs # NoTime => lockDeadlineMs = lastActive + LockDuration

SessionInv == SessionGuarded /\ WindowSinceUse

LEMMA LockIfExpiredSession ==
    ASSUME SessionInv, LockIfExpired, UNCHANGED <<alarmEvent, lastActive>>
    PROVE  SessionInv'
BY DEF SessionInv, SessionGuarded, WindowSinceUse, LockIfExpired, Lock

\* A refresh is sound whether the session is open, closed or being opened.
LEMMA RefreshSession ==
    ASSUME TypeInv, Refresh, (currentState # None <=> currentPassword # None)'
    PROVE  SessionInv'
BY TimeAssumption DEF TypeInv, TypeOK, SessionInv, SessionGuarded, WindowSinceUse,
   Refresh, ResetLockTimer

LEMMA InitSession == Init => SessionInv
BY DEF Init, SessionInv, SessionGuarded, WindowSinceUse

LEMMA NextSession == TypeInv /\ SessionInv /\ [Next]_vars => SessionInv'
<1> SUFFICES ASSUME TypeInv, SessionInv, [Next]_vars
             PROVE  SessionInv'
    OBVIOUS
<1>0. currentState # None <=> currentPassword # None
    BY DEF SessionInv, SessionGuarded
<1>1. CASE ReadOnlyMessage
    BY <1>1, LockIfExpiredSession DEF ReadOnlyMessage, Reply
<1>2. CASE GetState
    BY <1>0, <1>2, LockIfExpiredSession, RefreshSession DEF GetState, Reply, Serve
<1>3. CASE GetAccounts
    <2>1. CASE Serve("GET_ACCOUNTS") /\ UNCHANGED <<lockDeadlineMs, alarm, lastActive>>
        BY <1>3, <2>1
           DEF GetAccounts, Serve, SessionInv, SessionGuarded, WindowSinceUse
    <2>2. CASE Reply("GET_ACCOUNTS", FALSE)
        BY <1>3, <2>2, LockIfExpiredSession DEF GetAccounts, Reply
    <2> QED
        BY <1>3, <2>1, <2>2 DEF GetAccounts
<1>4. ASSUME NEW a \in AccountIds, SignRequest(a)
      PROVE  SessionInv'
    BY <1>0, <1>4, LockIfExpiredSession, RefreshSession DEF SignRequest, Reply, Serve
<1>5. CASE LockMessage
    BY <1>5 DEF LockMessage, Lock, SessionInv, SessionGuarded, WindowSinceUse
<1>6. ASSUME NEW c \in Calls, NEW p \in Passwords, Setup(c, p)
      PROVE  SessionInv'
    BY <1>6, LockIfExpiredSession DEF Setup
<1>7. ASSUME NEW c \in Calls, NEW p \in Passwords, Unlock(c, p)
      PROVE  SessionInv'
    BY <1>7, LockIfExpiredSession DEF Unlock
<1>8. ASSUME NEW c \in Calls, NEW s \in States, SaveState(c, s)
      PROVE  SessionInv'
    BY <1>8, NoneAssumption
       DEF SaveState, SessionInv, SessionGuarded, WindowSinceUse
<1>9. CASE RefuseSave
    BY <1>9, LockIfExpiredSession DEF RefuseSave, Reply
<1>10. ASSUME NEW c \in Calls, StoreVault(c)
       PROVE  SessionInv'
    BY <1>10 DEF StoreVault, SessionInv, SessionGuarded, WindowSinceUse
<1>11. ASSUME NEW c \in Calls, FailCall(c)
       PROVE  SessionInv'
    BY <1>11 DEF FailCall, SessionInv, SessionGuarded, WindowSinceUse
<1>12. ASSUME NEW c \in Calls, FinishSetup(c)
       PROVE  SessionInv'
    <2>1. currentState' # None /\ currentPassword' # None
        BY <1>12, NoneAssumption DEF FinishSetup, TypeInv, CallsCarry
    <2> QED
        BY <1>12, <2>1, RefreshSession DEF FinishSetup
<1>13. ASSUME NEW c \in Calls, FinishUnlock(c)
       PROVE  SessionInv'
    <2>1. currentState' # None /\ currentPassword' # None
        BY <1>13, NoneAssumption DEF FinishUnlock, TypeInv, CallsCarry
    <2> QED
        BY <1>13, <2>1, RefreshSession DEF FinishUnlock
<1>14. ASSUME NEW c \in Calls, FinishSave(c)
       PROVE  SessionInv'
    BY <1>0, <1>14, RefreshSession DEF FinishSave
<1>15. CASE FireAlarm
    BY <1>15 DEF FireAlarm, SessionInv, SessionGuarded, WindowSinceUse
<1>16. CASE HandleLockAlarm
    BY <1>16 DEF HandleLockAlarm, LockIfExpired, Lock, Expired, SessionInv,
       SessionGuarded, WindowSinceUse
<1>17. CASE Restart
    BY <1>17 DEF Restart, SessionInv, SessionGuarded, WindowSinceUse
<1>18. CASE Tick
    BY <1>18 DEF Tick, SessionInv, SessionGuarded, WindowSinceUse
<1>19. CASE SetClockBack
    BY <1>19 DEF SetClockBack, SessionInv, SessionGuarded, WindowSinceUse
<1>20. CASE UNCHANGED vars
    BY <1>20 DEF SessionInv, SessionGuarded, WindowSinceUse
<1> QED
    BY <1>1, <1>2, <1>3, <1>4, <1>5, <1>6, <1>7, <1>8, <1>9, <1>10, <1>11, <1>12,
       <1>13, <1>14, <1>15, <1>16, <1>17, <1>18, <1>19, <1>20
       DEF Next, Start, Finish

\* State and password are held together and never without an alarm to end them.
THEOREM SessionIsGuarded == Spec => []SessionGuarded
<1>1. Init => SessionInv
    BY InitSession
<1>2. TypeInv /\ SessionInv /\ [Next]_vars => SessionInv'
    BY NextSession
<1>3. SessionInv => SessionGuarded
    BY DEF SessionInv
<1> QED
    BY <1>1, <1>2, <1>3, TypeCorrect, PTL DEF Spec

---------------------------------------------------------------------------
(***************************************************************************)
(* A privileged answer is given only by Serve: every other step answers a  *)
(* message of another kind, refuses, or answers nothing.                   *)
(***************************************************************************)
LEMMA PrivilegedAnswerServes ==
    ASSUME TypeInv, Next, NEW kind \in PrivilegedKinds,
           answer' = [kind |-> kind, ok |-> TRUE]
    PROVE  Unlocked
<1>1. answer' # NoAnswer
    OBVIOUS
<1>2. \A k \in Kinds : Answer(k, FALSE) => FALSE
    BY DEF Answer
<1>3. \A k \in Kinds \ PrivilegedKinds, ok \in BOOLEAN : Answer(k, ok) => FALSE
    BY DEF Answer
<1>4. \A c \in Calls, ok \in BOOLEAN : calls[c].kind \in AsyncKinds => ~End(c, ok)
    BY <1>3 DEF End
<1>5. ReadOnlyMessage => Unlocked
    BY <1>2, <1>3 DEF ReadOnlyMessage, Reply
<1>6. GetState => Unlocked
    BY <1>2 DEF GetState, Reply, Serve
<1>7. GetAccounts => Unlocked
    BY <1>2 DEF GetAccounts, Reply, Serve
<1>8. (\E a \in AccountIds : SignRequest(a)) => Unlocked
    BY <1>2 DEF SignRequest, Reply, Serve
<1>9. LockMessage => Unlocked
    BY <1>3 DEF LockMessage
<1>10. Start => Unlocked
    BY <1>1 DEF Start, Setup, Unlock, SaveState, Begin
<1>11. RefuseSave => Unlocked
    BY <1>2 DEF RefuseSave, Reply
<1>12. Finish => Unlocked
    BY <1>1, <1>4 DEF Finish, StoreVault, FailCall, FinishSetup, FinishUnlock, FinishSave
<1>13. FireAlarm \/ HandleLockAlarm \/ Restart \/ Tick \/ SetClockBack => Unlocked
    BY <1>1 DEF FireAlarm, HandleLockAlarm, Restart, Tick, SetClockBack
<1> QED
    BY <1>5, <1>6, <1>7, <1>8, <1>9, <1>10, <1>11, <1>12, <1>13 DEF Next

LEMMA UnlockedIsRecent ==
    ASSUME TypeInv, SessionInv, Unlocked
    PROVE  now - lastActive < LockDuration
BY TimeAssumption DEF TypeInv, TypeOK, SessionInv, SessionGuarded, WindowSinceUse,
   Unlocked, Expired

\* Nothing is served once LockDuration has passed since the last use.
THEOREM NothingServedWhenIdle == Spec => NoServiceWhenIdle
<1>1. TypeInv /\ SessionInv /\ [Next]_vars =>
        [\A kind \in PrivilegedKinds : answer' = [kind |-> kind, ok |-> TRUE]
            => now - lastActive < LockDuration]_vars
    BY PrivilegedAnswerServes, UnlockedIsRecent
<1>2. Spec => []SessionInv
    BY InitSession, NextSession, TypeCorrect, PTL DEF Spec
<1> QED
    BY <1>1, <1>2, TypeCorrect, PTL DEF Spec, NoServiceWhenIdle

---------------------------------------------------------------------------
\* A locked wallet opens only by the password of the message that opens it.
THEOREM OpenedByPassword == Spec => OpensOnlyByPassword
<1>1. ASSUME TypeInv, Next, currentState = None, currentState' # None,
             currentPassword = None
      PROVE  \E c \in Calls : /\ calls[c].kind \in {"SETUP", "UNLOCK"}
                              /\ calls'[c] = Idle
                              /\ currentPassword' = calls[c].password
    <2>1. \/ \E c \in Calls : FinishSetup(c) \/ FinishUnlock(c)
        BY <1>1 DEF Next, ReadOnlyMessage, GetState, GetAccounts, SignRequest,
           LockMessage, Start, Setup, Unlock, SaveState, RefuseSave, Finish,
           StoreVault, FailCall, FinishSave, FireAlarm, HandleLockAlarm, Restart,
           Tick, SetClockBack, Serve, Reply, LockIfExpired, Lock
    <2> QED
        BY <1>1, <2>1 DEF FinishSetup, FinishUnlock, End, TypeInv, TypeOK
<1>2. TypeInv /\ SessionGuarded /\ [Next]_vars =>
        [currentState = None /\ currentState' # None =>
            \E c \in Calls : /\ calls[c].kind \in {"SETUP", "UNLOCK"}
                             /\ calls'[c] = Idle
                             /\ currentPassword' = calls[c].password]_vars
    BY <1>1 DEF SessionGuarded
<1> QED
    BY <1>2, TypeCorrect, SessionIsGuarded, PTL DEF Spec, OpensOnlyByPassword

---------------------------------------------------------------------------
(***************************************************************************)
(* Why the password of the session opens the vault while no SETUP has met  *)
(* a rival: what is in flight carries the vault's password, but for a      *)
(* SETUP that has not written yet, and all of it the password of a SETUP.  *)
(***************************************************************************)
CallsMatchVault ==
    \A c \in Calls :
        /\ calls[c].kind = "SAVE_STATE" => calls[c].password = vault.password
        /\ calls[c].kind = "UNLOCK" /\ calls[c].state # None =>
               calls[c].password = vault.password
        /\ calls[c].kind = "SETUP" /\ calls[c].stored => calls[c].password = vault.password

NoRivals == \A c, d \in Calls : ~Rival(calls[c], calls[d])

VaultInv == PasswordOpensVault /\ (~rivals => CallsMatchVault /\ NoRivals)

\* A step that leaves the vault and the messages alone, and opens nothing.
LEMMA CalmKeepsVault ==
    ASSUME VaultInv, UNCHANGED <<vault, calls, rivals>>,
           UNCHANGED currentPassword \/ currentPassword' = None
    PROVE  VaultInv'
BY DEF VaultInv, PasswordOpensVault, CallsMatchVault, NoRivals

\* A message begins that fits the vault, or is a SETUP.
LEMMA BeginKeepsVault ==
    ASSUME TypeInv, VaultInv, NEW c \in Calls, NEW kind \in AsyncKinds, NEW state,
           NEW password \in Passwords, Begin(c, kind, state, password), UNCHANGED vault,
           UNCHANGED currentPassword \/ currentPassword' = None,
           ~rivals' /\ kind \in {"SAVE_STATE", "UNLOCK"} /\ (kind = "UNLOCK" => state # None) =>
               password = vault.password
    PROVE  VaultInv'
<1> DEFINE call == [kind |-> kind, stored |-> FALSE, state |-> state, password |-> password]
<1>1. /\ calls[c] = Idle /\ calls' = [calls EXCEPT ![c] = call]
      /\ rivals' <=> rivals \/ \E d \in Calls : Rival(calls[d], call)
    BY DEF Begin, TypeInv, TypeOK
<1>2. call.kind = kind /\ call.stored = FALSE /\ call.state = state /\ call.password = password
    OBVIOUS
<1> HIDE DEF call
<1>3. calls'[c] = call /\ \A d \in Calls \ {c} : calls'[d] = calls[d]
    BY <1>1 DEF TypeInv, TypeOK
<1>4. PasswordOpensVault'
    <2>1. ASSUME NEW d \in Calls, calls[d].kind = "SETUP" /\ calls[d].stored
          PROVE  calls'[d].kind = "SETUP" /\ calls'[d].stored
        BY <1>1, <1>3, <2>1
    <2> QED BY <1>1, <2>1 DEF VaultInv, PasswordOpensVault
<1>5. ASSUME ~rivals' PROVE CallsMatchVault'
    BY <1>1, <1>2, <1>3, <1>5 DEF VaultInv, CallsMatchVault
<1>6. ASSUME ~rivals' PROVE NoRivals'
    <2>1. NoRivals /\ \A d \in Calls : ~Rival(calls[d], call)
        BY <1>1, <1>6 DEF VaultInv
    <2>2. \A a, b : Rival(a, b) => Rival(b, a) /\ a.password # b.password
        BY DEF Rival
    <2> QED BY <1>3, <2>1, <2>2 DEF NoRivals
<1> QED BY <1>4, <1>5, <1>6 DEF VaultInv

LEMMA NextVault == TypeInv /\ VaultInv /\ [Next]_vars => VaultInv'
<1> SUFFICES ASSUME TypeInv, VaultInv, [Next]_vars
             PROVE  VaultInv'
    OBVIOUS
<1>2. LockIfExpired => UNCHANGED currentPassword \/ currentPassword' = None
    BY DEF LockIfExpired, Lock
<1>3. ReadOnlyMessage \/ GetState \/ GetAccounts \/ LockMessage \/ RefuseSave
        \/ (\E a \in AccountIds : SignRequest(a)) => VaultInv'
    BY <1>2, CalmKeepsVault DEF ReadOnlyMessage, GetState, GetAccounts, LockMessage, RefuseSave,
       SignRequest, Reply, Serve, Lock
<1>4. ASSUME NEW c \in Calls, NEW p \in Passwords, Setup(c, p)
      PROVE  VaultInv'
    BY <1>2, <1>4, BeginKeepsVault DEF Setup
<1>5. ASSUME NEW c \in Calls, NEW p \in Passwords, Unlock(c, p)
      PROVE  VaultInv'
    <2>1. Decrypted(p) # None => p = vault.password
        BY DEF Decrypted
    <2> QED
        BY <1>2, <1>5, <2>1, BeginKeepsVault DEF Unlock
<1>6. ASSUME NEW c \in Calls, NEW s \in States, SaveState(c, s)
      PROVE  VaultInv'
    <2>1. /\ Begin(c, "SAVE_STATE", s, currentPassword) /\ UNCHANGED <<vault, currentPassword>>
          /\ currentPassword \in Passwords
        BY <1>6 DEF SaveState, TypeInv, TypeOK
    <2>2. ASSUME ~rivals' PROVE currentPassword = vault.password
        <3> DEFINE call == [kind |-> "SAVE_STATE", stored |-> FALSE, state |-> s, password |-> currentPassword]
        <3>1. ~rivals /\ \A d \in Calls : ~Rival(calls[d], call)
            BY <2>1, <2>2 DEF Begin, TypeInv, TypeOK
        <3>2. ASSUME NEW d \in Calls, calls[d].kind = "SETUP", calls[d].stored
              PROVE  currentPassword = vault.password
            <4>1. calls[d].password = vault.password
                BY <3>1, <3>2 DEF VaultInv, CallsMatchVault
            <4>2. calls[d].password = call.password
                BY <3>1, <3>2 DEF Rival, Live
            <4> QED BY <4>1, <4>2
        <3>3. currentPassword # None
            BY <1>6 DEF SaveState
        <3> QED BY <3>1, <3>2, <3>3 DEF VaultInv, PasswordOpensVault
    <2> QED
        BY <2>1, <2>2, BeginKeepsVault
<1>7. ASSUME NEW c \in Calls, StoreVault(c)
      PROVE  VaultInv'
    <2>1. \A d \in Calls : /\ calls'[d].kind = calls[d].kind
                           /\ calls'[d].state = calls[d].state
                           /\ calls'[d].password = calls[d].password
                           /\ calls'[d].stored <=> d = c \/ calls[d].stored
        BY <1>7, StoredCall DEF TypeInv
    <2>2. /\ vault'.password = calls[c].password
          /\ UNCHANGED <<currentPassword, rivals>>
          /\ calls[c].kind \in {"SETUP", "SAVE_STATE"}
        BY <1>7 DEF StoreVault
    <2>3. ~rivals => NoRivals'
        BY <2>1 DEF VaultInv, NoRivals, Rival, Live
    <2>4. CASE calls[c].kind = "SAVE_STATE"
        <3>1. ~rivals => vault'.password = vault.password
            BY <2>2, <2>4 DEF VaultInv, CallsMatchVault
        <3>2. PasswordOpensVault'
            BY <2>1, <2>2, <3>1 DEF VaultInv, PasswordOpensVault
        <3>3. ~rivals => CallsMatchVault'
            BY <2>1, <2>4, <3>1 DEF VaultInv, CallsMatchVault
        <3> QED
            BY <2>2, <2>3, <3>2, <3>3 DEF VaultInv
    <2>5. CASE calls[c].kind = "SETUP"
        <3>1. ASSUME ~rivals, NEW d \in Calls, Live(calls[d])
              PROVE  calls[d].password = vault'.password
            BY <2>2, <2>5, <3>1 DEF VaultInv, NoRivals, Rival, Live
        <3>2. PasswordOpensVault'
            BY <2>1, <2>5 DEF PasswordOpensVault
        <3>3. ~rivals => CallsMatchVault'
            BY <2>1, <3>1 DEF CallsMatchVault, Live
        <3> QED
            BY <2>2, <2>3, <3>2, <3>3 DEF VaultInv
    <2> QED
        BY <2>2, <2>4, <2>5
<1>8. ASSUME NEW c \in Calls, End(c, TRUE) \/ End(c, FALSE), UNCHANGED vault,
             \/ UNCHANGED currentPassword /\ ~(calls[c].kind = "SETUP" /\ calls[c].stored)
             \/ /\ currentPassword' = calls[c].password
                /\ ~rivals => calls[c].password = vault.password
      PROVE  VaultInv'
    <2>1. calls' = [calls EXCEPT ![c] = Idle] /\ UNCHANGED rivals
        BY <1>8 DEF End
    <2>2. calls'[c] = Idle /\ \A d \in Calls \ {c} : calls'[d] = calls[d]
        BY <2>1 DEF TypeInv, TypeOK
    <2>3. ASSUME ~rivals PROVE CallsMatchVault' /\ NoRivals'
        <3>1. CallsMatchVault /\ NoRivals
            BY <2>3 DEF VaultInv
        <3>2. CallsMatchVault'
            BY <1>8, <2>2, <3>1 DEF CallsMatchVault
        <3>3. \A a : ~Rival(Idle, a) /\ ~Rival(a, Idle)
            BY DEF Rival, Live
        <3>4. NoRivals'
            BY <2>2, <3>1, <3>3 DEF NoRivals
        <3> QED BY <3>2, <3>4
    <2>4. PasswordOpensVault'
        <3>1. CASE UNCHANGED currentPassword /\ ~(calls[c].kind = "SETUP" /\ calls[c].stored)
            BY <1>8, <2>1, <2>2, <3>1 DEF VaultInv, PasswordOpensVault
        <3>2. CASE currentPassword' = calls[c].password /\ (~rivals => calls[c].password = vault.password)
            BY <1>8, <2>1, <3>2 DEF PasswordOpensVault
        <3> QED BY <1>8, <3>1, <3>2
    <2> QED BY <2>1, <2>3, <2>4 DEF VaultInv
<1>9. ASSUME NEW c \in Calls, FailCall(c) \/ FinishSetup(c) \/ FinishUnlock(c) \/ FinishSave(c)
      PROVE  VaultInv'
    <2>1. CASE FailCall(c)
        BY <1>8, <2>1 DEF FailCall
    <2>2. CASE FinishSetup(c)
        <3>1. ~rivals => calls[c].password = vault.password
            BY <2>2 DEF FinishSetup, VaultInv, CallsMatchVault
        <3> QED BY <1>8, <2>2, <3>1 DEF FinishSetup
    <2>3. CASE FinishUnlock(c)
        <3>1. ~rivals => calls[c].password = vault.password
            BY <2>3 DEF FinishUnlock, VaultInv, CallsMatchVault
        <3> QED BY <1>8, <2>3, <3>1 DEF FinishUnlock
    <2>4. CASE FinishSave(c)
        BY <1>8, <2>4 DEF FinishSave
    <2> QED BY <1>9, <2>1, <2>2, <2>3, <2>4
<1>10. Restart => VaultInv'
    BY DEF Restart, TypeInv, TypeOK, VaultInv, PasswordOpensVault, CallsMatchVault, NoRivals, Rival, Live
<1>11. FireAlarm \/ HandleLockAlarm \/ Tick \/ SetClockBack \/ UNCHANGED vars => VaultInv'
    BY <1>2, CalmKeepsVault DEF FireAlarm, HandleLockAlarm, Tick, SetClockBack
<1> QED
    BY <1>3, <1>4, <1>5, <1>6, <1>7, <1>9, <1>10, <1>11 DEF Next, Start, Finish

\* Wallets may be set up over each other at any time: the session's password
\* opens the vault unless a SETUP has met a message with another password.
THEOREM PasswordFitsVault == Spec => []PasswordOpensVault
<1>1. Init => VaultInv
    BY DEF Init, VaultInv, PasswordOpensVault, CallsMatchVault, NoRivals, Rival, Live
<1>2. VaultInv => PasswordOpensVault
    BY DEF VaultInv
<1>3. TypeInv /\ VaultInv /\ [Next]_vars => VaultInv'
    BY NextVault
<1> QED
    BY <1>1, <1>2, <1>3, TypeCorrect, PTL DEF Spec

HIDE DEF NoTime, NoVault, NoAnswer, Idle, AsyncKinds, PrivilegedKinds, Kinds,
         Vault, Call, secrets, session, clock, vars

---------------------------------------------------------------------------
(* The popup: what an edit makes of a state.                               *)

\* Consistent, of what has spoilt a session.
Fits(s, m) ==
    /\ \A a \in DOMAIN s.accounts :
           Range(s.accounts[a].keys) \subseteq s.keys /\ Range(s.accounts[a].endpoints) \subseteq s.endpoints
    /\ s.active # None =>
           /\ HasAccount(s, s.active.account)
           /\ s.active.key \in s.keys \cup {None} /\ s.active.endpoint \in s.endpoints \cup {None}
           /\ "reedited" \in m \/ s.active.key \in Range(s.accounts[s.active.account].keys) \cup {None}

Unspoilt(s, m) == s \in ExtensionState /\ Fits(s, m)

LEMMA FitsLonger ==
    ASSUME NEW s, NEW m, NEW n, Unspoilt(s, m), m \subseteq n
    PROVE  Unspoilt(s, n)
  BY DEF Unspoilt, Fits

AccountMaps == UNION {[ids -> Account] : ids \in SUBSET AccountIds}

LEMMA AccountMap ==
    ASSUME NEW f \in AccountMaps
    PROVE  /\ DOMAIN f \subseteq AccountIds /\ f = [a \in DOMAIN f |-> f[a]]
           /\ \A a \in DOMAIN f : f[a] \in Account
  <1>1. PICK ids \in SUBSET AccountIds : f \in [ids -> Account]
    BY DEF AccountMaps
  <1> QED BY <1>1

LEMMA MapOfAccounts ==
    ASSUME NEW ids \in SUBSET AccountIds, NEW f, f \in [ids -> Account]
    PROVE  f \in AccountMaps
  BY DEF AccountMaps

State(K, E, A, V) == [keys |-> K, endpoints |-> E, accounts |-> A, active |-> V]

LEMMA FitsByParts ==
    ASSUME NEW m, NEW K \in SUBSET KeyIds, NEW E \in SUBSET EndpointIds, NEW A \in AccountMaps,
           NEW V \in Active \cup {None},
           \A a \in DOMAIN A : Range(A[a].keys) \subseteq K /\ Range(A[a].endpoints) \subseteq E,
           V # None => /\ V.account \in DOMAIN A /\ V.key \in K \cup {None} /\ V.endpoint \in E \cup {None}
                       /\ "reedited" \in m \/ V.key \in Range(A[V.account].keys) \cup {None}
    PROVE  Unspoilt(State(K, E, A, V), m)
  <1>1. State(K, E, A, V) \in ExtensionState
    BY DEF State, ExtensionState, AccountMaps
  <1>2. Fits(State(K, E, A, V), m)
    BY DEF State, Fits, HasAccount
  <1> QED BY <1>1, <1>2 DEF Unspoilt

LEMMA PartsOfState ==
    ASSUME NEW s, NEW m, Unspoilt(s, m)
    PROVE  /\ s = State(s.keys, s.endpoints, s.accounts, s.active)
           /\ s.keys \in SUBSET KeyIds /\ s.endpoints \in SUBSET EndpointIds /\ s.accounts \in AccountMaps
           /\ s.active \in Active \cup {None}
           /\ \A a \in DOMAIN s.accounts :
                  Range(s.accounts[a].keys) \subseteq s.keys /\ Range(s.accounts[a].endpoints) \subseteq s.endpoints
           /\ s.active # None => 
                  /\ s.active.account \in DOMAIN s.accounts
                  /\ s.active.key \in s.keys \cup {None} /\ s.active.endpoint \in s.endpoints \cup {None}
                  /\ "reedited" \in m \/ s.active.key \in Range(s.accounts[s.active.account].keys) \cup {None}
  <1>1. s \in ExtensionState /\ Fits(s, m)
    BY DEF Unspoilt
  <1>2. /\ s = State(s.keys, s.endpoints, s.accounts, s.active)
        /\ s.keys \in SUBSET KeyIds /\ s.endpoints \in SUBSET EndpointIds /\ s.accounts \in AccountMaps
        /\ s.active \in Active \cup {None}
    BY <1>1 DEF ExtensionState, State, AccountMaps
  <1> QED BY <1>1, <1>2 DEF Fits, HasAccount

\* What changes a part.
LEMMA ChangedPart ==
    ASSUME NEW K, NEW E, NEW A, NEW V, NEW x
    PROVE  /\ [State(K, E, A, V) EXCEPT !.keys = x] = State(x, E, A, V)
           /\ [State(K, E, A, V) EXCEPT !.endpoints = x] = State(K, x, A, V)
           /\ [State(K, E, A, V) EXCEPT !.accounts = x] = State(K, E, x, V)
           /\ [State(K, E, A, V) EXCEPT !.active = x] = State(K, E, A, x)
           /\ State(K, E, A, V).keys = K /\ State(K, E, A, V).endpoints = E
           /\ State(K, E, A, V).accounts = A /\ State(K, E, A, V).active = V
  BY DEF State

LEMMA FirstListed ==
    ASSUME NEW S, NEW l \in Seq(S)
    PROVE  FirstOrNone(l) \in Range(l) \cup {None} /\ FirstOrNone(l) \in S \cup {None}
  <1>1. CASE l = <<>>
    BY <1>1 DEF FirstOrNone
  <1>2. CASE l # <<>>
    <2>1. 1 \in DOMAIN l /\ Head(l) = l[1] /\ l[1] \in S
      BY <1>2
    <2> QED BY <1>2, <2>1 DEF FirstOrNone, Range
  <1> QED BY <1>1, <1>2

\* Mishaps of an edit that leaves another state.
Reedited(s, e) ==
    IF e.active # None /\ e.active = s.active /\ e.active.key \notin Range(e.accounts[e.active.account].keys)
    THEN {"reedited"} ELSE {}

LEMMA SelectFits ==
    ASSUME NEW m, NEW s, Unspoilt([s EXCEPT !.active = None], m), s \in ExtensionState, NEW a \in DOMAIN s.accounts
    PROVE  Unspoilt(Select(s, a), m)
  <1> DEFINE K == s.keys
             E == s.endpoints
             A == s.accounts
             account == A[a]
             V == [account |-> a, key |-> FirstOrNone(account.keys), endpoint |-> FirstOrNone(account.endpoints)]
             bare == [s EXCEPT !.active = None]
  <1>1. s = State(K, E, A, s.active)
    BY DEF ExtensionState, State
  <1>2. bare = State(K, E, A, None)
    <2> HIDE DEF K, E, A
    <2> QED BY <1>1, ChangedPart
  <1>3. Select(s, a) = State(K, E, A, V)
    <2>1. Select(s, a) = [s EXCEPT !.active = V]
      BY DEF Select
    <2> HIDE DEF K, E, A, V
    <2> QED BY <1>1, <2>1, ChangedPart
  <1>4. bare.keys = K /\ bare.endpoints = E /\ bare.accounts = A
    <2> HIDE DEF K, E, A, bare
    <2> QED BY <1>2, ChangedPart
  <1>5. /\ K \in SUBSET KeyIds /\ E \in SUBSET EndpointIds /\ A \in AccountMaps
        /\ \A b \in DOMAIN A : Range(A[b].keys) \subseteq K /\ Range(A[b].endpoints) \subseteq E
    <2> HIDE DEF K, E, A, bare
    <2> QED BY <1>4, PartsOfState DEF bare
  <1>6. account.keys \in Seq(KeyIds) /\ account.endpoints \in Seq(EndpointIds) /\ a \in AccountIds /\ a \in DOMAIN A
    BY <1>5, AccountMap DEF Account
  <1>7. /\ V \in Active /\ V.account = a /\ V.key \in Range(account.keys) \cup {None}
        /\ V.endpoint \in Range(account.endpoints) \cup {None}
    <2>1. /\ FirstOrNone(account.keys) \in Range(account.keys) \cup {None}
          /\ FirstOrNone(account.keys) \in KeyIds \cup {None}
          /\ FirstOrNone(account.endpoints) \in Range(account.endpoints) \cup {None}
          /\ FirstOrNone(account.endpoints) \in EndpointIds \cup {None}
      BY <1>6, FirstListed
    <2> QED BY <1>6, <2>1 DEF Active
  <1> HIDE DEF K, E, A, V
  <1>8. Unspoilt(State(K, E, A, V), m)
    BY <1>5, <1>6, <1>7, FitsByParts
  <1> QED BY <1>3, <1>8

\* Accounts that list what is in T only.
LEMMA FewerKeys ==
    ASSUME NEW A \in AccountMaps, NEW T
    PROVE  LET B == KeysIn(A, T)
           IN  /\ B \in AccountMaps /\ DOMAIN B = DOMAIN A
               /\ \A a \in DOMAIN A : /\ Range(B[a].keys) = Range(A[a].keys) \cap T
                                      /\ B[a].endpoints = A[a].endpoints
  <1> DEFINE B == [a \in DOMAIN A |-> [A[a] EXCEPT !.keys = Selected(A[a].keys, T)]]
  <1>1. DOMAIN A \subseteq AccountIds /\ \A a \in DOMAIN A : A[a] \in Account
    BY AccountMap
  <1>2. ASSUME NEW a \in DOMAIN A
        PROVE  /\ B[a] \in Account
               /\ Range(B[a].keys) = Range(A[a].keys) \cap T /\ B[a].endpoints = A[a].endpoints
    <2> DEFINE l == A[a].keys
               r == Selected(l, T)
    <2>1. A[a] \in Account /\ B[a] = [A[a] EXCEPT !.keys = r]
      BY <1>1
    <2>2. l \in Seq(KeyIds)
      BY <2>1 DEF Account
    <2> HIDE DEF l, B
    <2>3. r \in Seq(KeyIds \cap T) /\ ValuesOf(r) = ValuesOf(l) \cap T
      BY <2>2, SelectedRange
    <2>4. r \in Seq(KeyIds)
      BY <2>3
    <2> HIDE DEF r
    <2>5. B[a] \in Account /\ B[a].keys = r /\ B[a].endpoints = A[a].endpoints
      BY <2>1, <2>4 DEF Account
    <2> QED BY <2>3, <2>5 DEF ValuesOf, Range, l
  <1>3. B \in [DOMAIN A -> Account] /\ DOMAIN B = DOMAIN A
    <2>1. B = [a \in DOMAIN A |-> B[a]]
      OBVIOUS
    <2> HIDE DEF B
    <2> QED BY <1>2, <2>1
  <1> HIDE DEF B
  <1>4. B \in AccountMaps
    BY <1>1, <1>3, MapOfAccounts
  <1> QED BY <1>2, <1>3, <1>4 DEF B, KeysIn

LEMMA FewerEndpoints ==
    ASSUME NEW A \in AccountMaps, NEW T
    PROVE  LET B == EndpointsIn(A, T)
           IN  /\ B \in AccountMaps /\ DOMAIN B = DOMAIN A
               /\ \A a \in DOMAIN A : /\ Range(B[a].endpoints) = Range(A[a].endpoints) \cap T
                                      /\ B[a].keys = A[a].keys
  <1> DEFINE B == [a \in DOMAIN A |-> [A[a] EXCEPT !.endpoints = Selected(A[a].endpoints, T)]]
  <1>1. DOMAIN A \subseteq AccountIds /\ \A a \in DOMAIN A : A[a] \in Account
    BY AccountMap
  <1>2. ASSUME NEW a \in DOMAIN A
        PROVE  /\ B[a] \in Account
               /\ Range(B[a].endpoints) = Range(A[a].endpoints) \cap T /\ B[a].keys = A[a].keys
    <2> DEFINE l == A[a].endpoints
               r == Selected(l, T)
    <2>1. A[a] \in Account /\ B[a] = [A[a] EXCEPT !.endpoints = r]
      BY <1>1
    <2>2. l \in Seq(EndpointIds)
      BY <2>1 DEF Account
    <2> HIDE DEF l, B
    <2>3. r \in Seq(EndpointIds \cap T) /\ ValuesOf(r) = ValuesOf(l) \cap T
      BY <2>2, SelectedRange
    <2>4. r \in Seq(EndpointIds)
      BY <2>3
    <2> HIDE DEF r
    <2>5. B[a] \in Account /\ B[a].endpoints = r /\ B[a].keys = A[a].keys
      BY <2>1, <2>4 DEF Account
    <2> QED BY <2>3, <2>5 DEF ValuesOf, Range, l
  <1>3. B \in [DOMAIN A -> Account] /\ DOMAIN B = DOMAIN A
    <2>1. B = [a \in DOMAIN A |-> B[a]]
      OBVIOUS
    <2> HIDE DEF B
    <2> QED BY <1>2, <2>1
  <1> HIDE DEF B
  <1>4. B \in AccountMaps
    BY <1>1, <1>3, MapOfAccounts
  <1> QED BY <1>2, <1>3, <1>4 DEF B, EndpointsIn

---------------------------------------------------------------------------
(* Each edit.                                                              *)

LEMMA KeyEditsFit ==
    ASSUME NEW m, NEW s, Unspoilt(s, m), NEW e \in KeyEdits(s)
    PROVE  Unspoilt(e, m \cup Reedited(s, e))
  <1> DEFINE K == s.keys
             E == s.endpoints
             A == s.accounts
             V == s.active
             n == m \cup Reedited(s, e)
  <1>0. s.keys = K /\ s.endpoints = E /\ s.accounts = A /\ s.active = V
    OBVIOUS
  <1>1. /\ s = State(K, E, A, V)
        /\ K \in SUBSET KeyIds /\ E \in SUBSET EndpointIds /\ A \in AccountMaps /\ V \in Active \cup {None}
        /\ \A a \in DOMAIN A : Range(A[a].keys) \subseteq K /\ Range(A[a].endpoints) \subseteq E
        /\ V # None => /\ V.account \in DOMAIN A /\ V.key \in K \cup {None} /\ V.endpoint \in E \cup {None}
                       /\ "reedited" \in m \/ V.key \in Range(A[V.account].keys) \cup {None}
    BY PartsOfState
  <1>2. (\E k \in KeyIds \ K : e = [s EXCEPT !.keys = @ \cup {k}]) \/ (\E k \in K : e = RemoveKey(s, k))
    BY DEF KeyEdits
  <1> HIDE DEF K, E, A, V
  <1>3. ASSUME NEW k \in KeyIds, e = [s EXCEPT !.keys = @ \cup {k}]
        PROVE  Unspoilt(e, n)
    <2>1. e = State(K \cup {k}, E, A, V)
      BY <1>0, <1>1, <1>3 DEF State
    <2> HIDE DEF n
    <2>2. m \subseteq n
      BY DEF n
    <2>3. K \cup {k} \in SUBSET KeyIds
      BY <1>1
    <2> QED BY <1>1, <2>1, <2>2, <2>3, FitsByParts
  <1>4. ASSUME NEW k \in K, e = RemoveKey(s, k)
        PROVE  Unspoilt(e, n)
    <2> DEFINE T == KeyIds \ {k}
               B == KeysIn(A, T)
               W == IF V # None /\ V.key = k THEN None ELSE V
               f == State(K \ {k}, E, B, W)
    <2>1. e = f
      <3>1. e = [s EXCEPT !.keys = K \ {k}, !.accounts = B, !.active = W]
        BY <1>4 DEF RemoveKey, K, A, V
      <3> HIDE DEF B, W
      <3> QED BY <1>1, <3>1 DEF State
    <2>2. /\ B \in AccountMaps /\ DOMAIN B = DOMAIN A
          /\ \A a \in DOMAIN A : Range(B[a].keys) = Range(A[a].keys) \cap T /\ B[a].endpoints = A[a].endpoints
      BY <1>1, FewerKeys
    <2> HIDE DEF B
    <2>3. /\ f.active = W /\ f.accounts = B
      BY ChangedPart
    <2>4. \A a \in DOMAIN B : Range(B[a].keys) \subseteq K \ {k} /\ Range(B[a].endpoints) \subseteq E
      BY <1>1, <2>2
    <2>5. W # None => W = V /\ V # None /\ V.key # k
      OBVIOUS
    <2>6. W # None /\ "reedited" \notin n => W.key \in Range(B[W.account].keys)
      BY <2>1, <2>3, <2>5 DEF Reedited, n, V
    <2> HIDE DEF n, W, f
    <2>7. Unspoilt(State(K \ {k}, E, B, W), n)
      <3>1. K \ {k} \in SUBSET KeyIds /\ W \in Active \cup {None}
        BY <1>1, <2>5
      <3>2. W # None => /\ W.account \in DOMAIN B /\ W.key \in (K \ {k}) \cup {None}
                        /\ W.endpoint \in E \cup {None}
                        /\ "reedited" \in n \/ W.key \in Range(B[W.account].keys) \cup {None}
        BY <1>1, <2>2, <2>5, <2>6
      <3> QED BY <1>1, <2>2, <2>4, <3>1, <3>2, FitsByParts
    <2> QED BY <2>1, <2>7 DEF f
  <1> QED BY <1>1, <1>2, <1>3, <1>4

LEMMA EndpointEditsFit ==
    ASSUME NEW m, NEW s, Unspoilt(s, m), NEW e \in EndpointEdits(s)
    PROVE  Unspoilt(e, m \cup Reedited(s, e))
  <1> DEFINE K == s.keys
             E == s.endpoints
             A == s.accounts
             V == s.active
             n == m \cup Reedited(s, e)
  <1>0. s.keys = K /\ s.endpoints = E /\ s.accounts = A /\ s.active = V
    OBVIOUS
  <1>1. /\ s = State(K, E, A, V)
        /\ K \in SUBSET KeyIds /\ E \in SUBSET EndpointIds /\ A \in AccountMaps /\ V \in Active \cup {None}
        /\ \A a \in DOMAIN A : Range(A[a].keys) \subseteq K /\ Range(A[a].endpoints) \subseteq E
        /\ V # None => /\ V.account \in DOMAIN A /\ V.key \in K \cup {None} /\ V.endpoint \in E \cup {None}
                       /\ "reedited" \in m \/ V.key \in Range(A[V.account].keys) \cup {None}
    BY PartsOfState
  <1>2. \/ \E x \in EndpointIds \ E : e = [s EXCEPT !.endpoints = @ \cup {x}]
        \/ \E x \in E : e = RemoveEndpoint(s, x)
    BY DEF EndpointEdits
  <1> HIDE DEF K, E, A, V
  <1>3. ASSUME NEW x \in EndpointIds, e = [s EXCEPT !.endpoints = @ \cup {x}]
        PROVE  Unspoilt(e, n)
    <2>1. e = State(K, E \cup {x}, A, V)
      BY <1>0, <1>1, <1>3 DEF State
    <2> HIDE DEF n
    <2>2. m \subseteq n
      BY DEF n
    <2>3. E \cup {x} \in SUBSET EndpointIds
      BY <1>1
    <2> QED BY <1>1, <2>1, <2>2, <2>3, FitsByParts
  <1>4. ASSUME NEW x \in E, e = RemoveEndpoint(s, x)
        PROVE  Unspoilt(e, n)
    <2> DEFINE T == EndpointIds \ {x}
               B == EndpointsIn(A, T)
               W == IF V # None /\ V.endpoint = x THEN None ELSE V
               f == State(K, E \ {x}, B, W)
    <2>1. e = f
      <3>1. e = [s EXCEPT !.endpoints = E \ {x}, !.accounts = B, !.active = W]
        BY <1>4 DEF RemoveEndpoint, E, A, V
      <3> HIDE DEF B, W
      <3> QED BY <1>1, <3>1 DEF State
    <2>2. /\ B \in AccountMaps /\ DOMAIN B = DOMAIN A
          /\ \A a \in DOMAIN A : Range(B[a].endpoints) = Range(A[a].endpoints) \cap T /\ B[a].keys = A[a].keys
      BY <1>1, FewerEndpoints
    <2> HIDE DEF B
    <2>3. \A a \in DOMAIN B : Range(B[a].keys) \subseteq K /\ Range(B[a].endpoints) \subseteq E \ {x}
      BY <1>1, <2>2
    <2>4. W # None => W = V /\ V # None /\ V.endpoint # x
      OBVIOUS
    <2>5. m \subseteq n
      OBVIOUS
    <2> HIDE DEF n, W, f
    <2>6. Unspoilt(State(K, E \ {x}, B, W), n)
      <3>1. E \ {x} \in SUBSET EndpointIds /\ W \in Active \cup {None}
        BY <1>1, <2>4
      <3>2. W # None => /\ W.account \in DOMAIN B /\ W.key \in K \cup {None}
                        /\ W.endpoint \in (E \ {x}) \cup {None}
                        /\ "reedited" \in n \/ W.key \in Range(B[W.account].keys) \cup {None}
        BY <1>1, <2>2, <2>4, <2>5
      <3> QED BY <1>1, <2>2, <2>3, <3>1, <3>2, FitsByParts
    <2> QED BY <2>1, <2>6 DEF f
  <1> QED BY <1>1, <1>2, <1>3, <1>4

LEMMA Listed ==
    ASSUME NEW S, NEW l \in Picks(S)
    PROVE  l \in Seq(S) /\ Range(l) \subseteq S
  <1>1. PICK n \in 1..Cardinality(S) : l \in [1..n -> S]
    BY DEF Picks
  <1>2. n \in Nat
    OBVIOUS
  <1> QED BY <1>1, <1>2 DEF Range

LEMMA AccountEditsFit ==
    ASSUME NEW m, NEW s, Unspoilt(s, m), NEW e \in AccountEdits(s)
    PROVE  Unspoilt(e, m \cup Reedited(s, e))
  <1> DEFINE K == s.keys
             E == s.endpoints
             A == s.accounts
             V == s.active
             n == m \cup Reedited(s, e)
  <1>0. s.keys = K /\ s.endpoints = E /\ s.accounts = A /\ s.active = V
    OBVIOUS
  <1>1. /\ s = State(K, E, A, V) /\ s \in ExtensionState
        /\ K \in SUBSET KeyIds /\ E \in SUBSET EndpointIds /\ A \in AccountMaps /\ V \in Active \cup {None}
        /\ \A a \in DOMAIN A : Range(A[a].keys) \subseteq K /\ Range(A[a].endpoints) \subseteq E
        /\ V # None => /\ V.account \in DOMAIN A /\ V.key \in K \cup {None} /\ V.endpoint \in E \cup {None}
                       /\ "reedited" \in m \/ V.key \in Range(A[V.account].keys) \cup {None}
    BY PartsOfState DEF Unspoilt
  <1>2. \/ \E a \in DOMAIN A : e = RemoveAccount(s, a)
        \/ \E a \in AccountIds, x \in Accounts(s) : e = SaveAccount(s, a, x)
    BY DEF AccountEdits
  <1> HIDE DEF K, E, A, V
  <1>3. ASSUME NEW a \in DOMAIN A, e = RemoveAccount(s, a)
        PROVE  Unspoilt(e, n)
    <2> DEFINE B == [b \in DOMAIN A \ {a} |-> A[b]]
               W == IF V # None /\ V.account = a THEN None ELSE V
    <2>1. e = State(K, E, B, W)
      <3>1. e = [s EXCEPT !.accounts = B, !.active = W]
        BY <1>3 DEF RemoveAccount, A, V
      <3> HIDE DEF B, W
      <3> QED BY <1>1, <3>1 DEF State
    <2>2. B \in AccountMaps /\ DOMAIN B = DOMAIN A \ {a} /\ \A b \in DOMAIN B : B[b] = A[b]
      <3>1. DOMAIN A \subseteq AccountIds /\ \A b \in DOMAIN A : A[b] \in Account
        BY <1>1, AccountMap
      <3>2. B \in [DOMAIN A \ {a} -> Account]
        BY <3>1
      <3> HIDE DEF B
      <3>3. B \in AccountMaps
        BY <3>1, <3>2, MapOfAccounts
      <3> QED BY <3>3 DEF B
    <2> HIDE DEF B
    <2>3. W # None => W = V /\ V # None /\ V.account # a
      OBVIOUS
    <2>4. m \subseteq n
      OBVIOUS
    <2> HIDE DEF n, W
    <2>5. W \in Active \cup {None}
      BY <1>1, <2>3
    <2>6. W # None => /\ W.account \in DOMAIN B /\ W.key \in K \cup {None} /\ W.endpoint \in E \cup {None}
                      /\ "reedited" \in n \/ W.key \in Range(B[W.account].keys) \cup {None}
      BY <1>1, <2>2, <2>3, <2>4
    <2>7. \A b \in DOMAIN B : Range(B[b].keys) \subseteq K /\ Range(B[b].endpoints) \subseteq E
      BY <1>1, <2>2
    <2> QED BY <1>1, <2>1, <2>2, <2>5, <2>6, <2>7, FitsByParts
  <1>4. ASSUME NEW a \in AccountIds, NEW x \in Accounts(s), e = SaveAccount(s, a, x)
        PROVE  Unspoilt(e, n)
    <2> DEFINE B == [b \in DOMAIN A \cup {a} |-> IF b = a THEN x ELSE A[b]]
               saved == [s EXCEPT !.accounts = B]
    <2>1. e = IF DOMAIN A = {} THEN Select(saved, a) ELSE saved
      BY <1>4 DEF SaveAccount, A
    <2>2. x \in Account /\ Range(x.keys) \subseteq K /\ Range(x.endpoints) \subseteq E
      <3>1. PICK name \in Names, k \in Picks(K), l \in Picks(E) :
                x = [name |-> name, keys |-> k, endpoints |-> l]
        BY DEF Accounts, K, E
      <3>2. k \in Seq(K) /\ Range(k) \subseteq K /\ l \in Seq(E) /\ Range(l) \subseteq E
        BY Listed
      <3>3. k \in Seq(KeyIds) /\ l \in Seq(EndpointIds)
        BY <1>1, <3>2
      <3> QED BY <3>1, <3>2, <3>3 DEF Account
    <2>3. /\ B \in AccountMaps /\ DOMAIN B = DOMAIN A \cup {a}
          /\ B[a] = x /\ \A b \in DOMAIN A \ {a} : B[b] = A[b]
      <3>1. DOMAIN A \subseteq AccountIds /\ \A b \in DOMAIN A : A[b] \in Account
        BY <1>1, AccountMap
      <3>2. B \in [DOMAIN A \cup {a} -> Account]
        BY <2>2, <3>1
      <3>3. B \in AccountMaps
        <4> HIDE DEF B
        <4> QED BY <3>1, <3>2, MapOfAccounts
      <3> QED BY <3>3
    <2> HIDE DEF B
    <2>4. \A b \in DOMAIN B : Range(B[b].keys) \subseteq K /\ Range(B[b].endpoints) \subseteq E
      BY <1>1, <2>2, <2>3
    <2>5. saved = State(K, E, B, V)
      BY <1>1 DEF State
    <2>6. CASE DOMAIN A = {}
      <3>1. [saved EXCEPT !.active = None] = State(K, E, B, None)
        <4> HIDE DEF saved
        <4> QED BY <2>5 DEF State
      <3>2. Unspoilt(State(K, E, B, None), n)
        <4> HIDE DEF n
        <4> QED BY <1>1, <2>3, <2>4, FitsByParts
      <3>3. saved \in ExtensionState /\ a \in DOMAIN saved.accounts
        BY <1>1, <2>3, <2>5 DEF State, ExtensionState, AccountMaps
      <3>4. Unspoilt([saved EXCEPT !.active = None], n)
        BY <3>1, <3>2
      <3> HIDE DEF n, saved
      <3>5. Unspoilt(Select(saved, a), n)
        BY <3>3, <3>4, SelectFits
      <3> QED BY <2>1, <2>6, <3>5
    <2>7. CASE DOMAIN A # {}
      <3>1. e = State(K, E, B, V)
        BY <2>1, <2>5, <2>7
      <3>2. e.active = V /\ e.accounts = B
        BY <3>1 DEF State
      <3>3. V # None /\ "reedited" \notin n => V.key \in Range(B[V.account].keys)
        BY <1>0, <3>2 DEF Reedited
      <3> HIDE DEF n
      <3>4. V # None => /\ V.account \in DOMAIN B /\ V.key \in K \cup {None} /\ V.endpoint \in E \cup {None}
                        /\ "reedited" \in n \/ V.key \in Range(B[V.account].keys) \cup {None}
        BY <1>1, <2>3, <3>3
      <3> QED BY <1>1, <2>3, <2>4, <3>1, <3>4, FitsByParts
    <2> QED BY <2>6, <2>7
  <1> QED BY <1>2, <1>3, <1>4

LEMMA ReselectionsFit ==
    ASSUME NEW m, NEW s, Unspoilt(s, m), NEW e \in Reselections(s)
    PROVE  Unspoilt(e, m \cup Reedited(s, e))
  <1> DEFINE K == s.keys
             E == s.endpoints
             A == s.accounts
             V == s.active
             n == m \cup Reedited(s, e)
  <1>0. s.keys = K /\ s.endpoints = E /\ s.accounts = A /\ s.active = V
    OBVIOUS
  <1>1. /\ s = State(K, E, A, V) /\ s \in ExtensionState
        /\ K \in SUBSET KeyIds /\ E \in SUBSET EndpointIds /\ A \in AccountMaps /\ V \in Active \cup {None}
        /\ \A a \in DOMAIN A : Range(A[a].keys) \subseteq K /\ Range(A[a].endpoints) \subseteq E
        /\ V # None => /\ V.account \in DOMAIN A /\ V.key \in K \cup {None} /\ V.endpoint \in E \cup {None}
                       /\ "reedited" \in m \/ V.key \in Range(A[V.account].keys) \cup {None}
    BY PartsOfState DEF Unspoilt
  <1>2. \/ \E a \in DOMAIN A : e = Select(s, a)
        \/ /\ V # None
           /\ \/ \E k \in K \cap Range(A[V.account].keys) : e = [s EXCEPT !.active.key = k]
              \/ \E x \in E \cap Range(A[V.account].endpoints) : e = [s EXCEPT !.active.endpoint = x]
    BY DEF Reselections
  <1>3. m \subseteq n
    OBVIOUS
  <1> HIDE DEF K, E, A, V, n
  <1>4. ASSUME NEW a \in DOMAIN A, e = Select(s, a)
        PROVE  Unspoilt(e, n)
    <2>1. [s EXCEPT !.active = None] = State(K, E, A, None)
      BY <1>1 DEF State
    <2>2. Unspoilt(State(K, E, A, None), n)
      BY <1>1, FitsByParts
    <2>3. a \in DOMAIN s.accounts /\ Unspoilt([s EXCEPT !.active = None], n)
      BY <1>0, <2>1, <2>2
    <2> QED BY <1>1, <1>4, <2>3, SelectFits
  <1>5. ASSUME V # None, NEW k \in K \cap Range(A[V.account].keys), e = [s EXCEPT !.active.key = k]
        PROVE  Unspoilt(e, n)
    <2> DEFINE W == [V EXCEPT !.key = k]
    <2>1. e = State(K, E, A, W)
      BY <1>0, <1>1, <1>5 DEF State
    <2>2. W \in Active /\ W.account = V.account /\ W.key = k /\ W.endpoint = V.endpoint
      BY <1>1, <1>5 DEF Active
    <2> HIDE DEF W
    <2>3. /\ W \in Active \cup {None} /\ W.account \in DOMAIN A /\ W.key \in K \cup {None}
          /\ W.endpoint \in E \cup {None} /\ W.key \in Range(A[W.account].keys) \cup {None}
      BY <1>1, <1>5, <2>2
    <2> QED BY <1>1, <2>1, <2>3, FitsByParts
  <1>6. ASSUME V # None, NEW x \in E \cap Range(A[V.account].endpoints), e = [s EXCEPT !.active.endpoint = x]
        PROVE  Unspoilt(e, n)
    <2> DEFINE W == [V EXCEPT !.endpoint = x]
    <2>1. e = State(K, E, A, W)
      BY <1>0, <1>1, <1>6 DEF State
    <2>2. W \in Active /\ W.account = V.account /\ W.key = V.key /\ W.endpoint = x
      BY <1>1, <1>6 DEF Active
    <2> HIDE DEF W
    <2>3. /\ W \in Active \cup {None} /\ W.account \in DOMAIN A /\ W.key \in K \cup {None}
          /\ W.endpoint \in E \cup {None}
          /\ "reedited" \in n \/ W.key \in Range(A[W.account].keys) \cup {None}
      BY <1>1, <1>3, <1>6, <2>2
    <2> QED BY <1>1, <2>1, <2>3, FitsByParts
  <1> QED BY <1>2, <1>4, <1>5, <1>6 DEF n

\* Whatever is edited, what is left fits.
LEMMA EditsFit ==
    ASSUME NEW m, NEW s, Unspoilt(s, m), NEW e \in EditsOf(s)
    PROVE  Unspoilt(e, m \cup Reedited(s, e))
  <1>1. \/ e = s \/ e \in KeyEdits(s) \/ e \in EndpointEdits(s) \/ e \in AccountEdits(s) \/ e \in Reselections(s)
    BY DEF EditsOf
  <1>2. Unspoilt(s, m \cup Reedited(s, e))
    BY FitsLonger
  <1> QED BY <1>1, <1>2, KeyEditsFit, EndpointEditsFit, AccountEditsFit, ReselectionsFit

LEMMA EmptyFits == \A m : Unspoilt(EmptyState, m)
  <1> TAKE m
  <1>1. <<>> \in [{} -> Account]
    OBVIOUS
  <1>2. EmptyState \in ExtensionState
    BY <1>1 DEF EmptyState, ExtensionState
  <1>3. Fits(EmptyState, m)
    BY DEF EmptyState, Fits
  <1> QED BY <1>2, <1>3 DEF Unspoilt

---------------------------------------------------------------------------
(* The worker under the popup.                                             *)

Messages ==
    [kind : AsyncKinds \cup {"IDLE"}, stored : BOOLEAN,
     state : ExtensionState \cup {None}, password : Passwords \cup {None}]

WorkerTypeOK ==
    /\ calls \in [Calls -> Messages]
    /\ vault \in [state : ExtensionState \cup {None}, password : Passwords \cup {None}]
    /\ currentPassword \in Passwords \cup {None}

\* Every state the worker has can be shown and served.
WorkerFits ==
    /\ currentState # None => Unspoilt(currentState, mishaps)
    /\ vault.state # None => Unspoilt(vault.state, mishaps)
    /\ \A c \in Calls : calls[c].state # None => Unspoilt(calls[c].state, mishaps)

\* What messages carry; what has no session has no state.
MessagesCarry ==
    /\ currentPassword = None => currentState = None
    /\ \A c \in Calls :
           /\ calls[c].kind = "SETUP" => calls[c].state = EmptyState
           /\ calls[c].kind # "IDLE" => calls[c].password # None
           /\ calls[c].kind \in {"IDLE", "UNLOCK"} => ~calls[c].stored

\* A session, and a message that has read or written the vault, has one.
VaultThere ==
    /\ currentPassword # None => vault # NoVault
    /\ \A c \in Calls :
           calls[c].stored \/ calls[c].kind = "SAVE_STATE" \/ (calls[c].kind = "UNLOCK" /\ calls[c].state # None) =>
               vault # NoVault

\* One message at a time.
Single == \A c, d \in Calls : calls[c] # Idle /\ calls[d] # Idle => c = d

\* What a message in flight goes by: a save by what is served, and what has
\* written or read the vault by what is in it.
MessagesMatch ==
    \A c \in Calls :
        /\ calls[c].kind = "SAVE_STATE" /\ currentState # None =>
               calls[c].state = currentState /\ calls[c].password = currentPassword
        /\ calls[c].stored \/ (calls[c].kind = "UNLOCK" /\ calls[c].state # None) =>
               vault = [state |-> calls[c].state, password |-> calls[c].password]

SavesUnder(c) == calls[c].kind = "SAVE_STATE" /\ ~calls[c].stored
SetsUp(c) == calls[c].kind = "SETUP" /\ calls[c].stored

\* What is served is what is stored, but for a message that has changed one of them.
ServedIsStored ==
    currentState # None /\ (\A c \in Calls : ~SavesUnder(c) /\ ~SetsUp(c)) =>
        vault = [state |-> currentState, password |-> currentPassword]

WorkerInv ==
    /\ WorkerTypeOK /\ WorkerFits /\ MessagesCarry /\ VaultThere
    /\ "overlap" \notin mishaps => Single /\ MessagesMatch /\ SavedStateIsDurable
    /\ mishaps \cap {"overlap", "failed"} = {} => ServedIsStored

SavedAnswer == [kind |-> "SAVE_STATE", ok |-> TRUE]

SecretsKeptOrGone ==
    \/ currentState' = currentState /\ currentPassword' = currentPassword
    \/ currentState' = None /\ currentPassword' = None

\* A step that leaves the vault and the messages alone.
Calm == /\ vault' = vault /\ calls' = calls /\ SecretsKeptOrGone
        /\ answer' # SavedAnswer \/ (answer' = answer /\ currentState' = currentState /\ currentPassword' = currentPassword)

LEMMA LockIfExpiredKeepsOrGone == LockIfExpired => SecretsKeptOrGone
  BY DEF LockIfExpired, Lock, SecretsKeptOrGone, session, secrets

LEMMA CalmSteps ==
    ASSUME \/ ReadOnlyMessage \/ GetState \/ LockMessage \/ RefuseSave
           \/ FireAlarm \/ HandleLockAlarm \/ Tick \/ UNCHANGED vars
    PROVE  Calm
  <1>0. \A kind, ok : [kind |-> kind, ok |-> ok] = SavedAnswer => kind = "SAVE_STATE" /\ ok = TRUE
    BY DEF SavedAnswer
  <1>1. ASSUME NEW kind, kind # "SAVE_STATE", NEW ok, Reply(kind, ok), vault' = vault, calls' = calls
        PROVE  Calm
    BY <1>0, <1>1, LockIfExpiredKeepsOrGone DEF Calm, Reply, Answer
  <1>2. CASE ReadOnlyMessage
    BY <1>1, <1>2 DEF ReadOnlyMessage
  <1>3. CASE GetState
    <2>1. vault' = vault /\ calls' = calls
      BY <1>3 DEF GetState
    <2>2. CASE Serve("GET_STATE") /\ Refresh
      BY <1>0, <2>1, <2>2 DEF Calm, Serve, SecretsKeptOrGone, secrets, Answer
    <2>3. CASE Reply("GET_STATE", FALSE)
      BY <1>1, <2>1, <2>3
    <2> QED BY <1>3, <2>2, <2>3 DEF GetState
  <1>4. CASE LockMessage
    BY <1>0, <1>4 DEF LockMessage, Lock, Calm, SecretsKeptOrGone, Answer
  <1>5. CASE RefuseSave
    BY <1>0, <1>5, LockIfExpiredKeepsOrGone DEF RefuseSave, Reply, Calm, Answer
  <1>6. CASE FireAlarm
    BY <1>0, <1>6 DEF FireAlarm, Calm, SecretsKeptOrGone, secrets, NoAnswer
  <1>7. CASE HandleLockAlarm
    <2>1. SecretsKeptOrGone
      BY <1>7, LockIfExpiredKeepsOrGone DEF HandleLockAlarm, SecretsKeptOrGone, secrets
    <2> QED BY <1>0, <1>7, <2>1 DEF HandleLockAlarm, Calm, NoAnswer
  <1>8. CASE Tick
    BY <1>0, <1>8 DEF Tick, Calm, SecretsKeptOrGone, secrets, session, NoAnswer
  <1>9. CASE UNCHANGED vars
    BY <1>9 DEF vars, session, secrets, Calm, SecretsKeptOrGone
  <1> QED BY <1>2, <1>3, <1>4, <1>5, <1>6, <1>7, <1>8, <1>9

LEMMA CalmKeepsWorker ==
    ASSUME WorkerInv, Calm, mishaps \subseteq mishaps'
    PROVE  WorkerInv'
  <1>1. vault' = vault /\ calls' = calls /\ SecretsKeptOrGone
    BY DEF Calm
  <1>2. WorkerTypeOK' /\ MessagesCarry' /\ VaultThere'
    BY <1>1 DEF WorkerInv, WorkerTypeOK, MessagesCarry, VaultThere, SecretsKeptOrGone
  <1>3. WorkerFits'
    BY <1>1, FitsLonger DEF WorkerInv, WorkerFits, SecretsKeptOrGone
  <1>4. ASSUME "overlap" \notin mishaps' PROVE Single' /\ MessagesMatch' /\ SavedStateIsDurable'
    <2>1. Single /\ MessagesMatch /\ SavedStateIsDurable
      BY <1>4 DEF WorkerInv
    <2>2. Single' /\ MessagesMatch'
      BY <1>1, <2>1 DEF Single, MessagesMatch, SecretsKeptOrGone
    <2>3. SavedStateIsDurable'
      BY <1>1, <2>1 DEF Calm, SavedStateIsDurable, SavedAnswer
    <2> QED BY <2>2, <2>3
  <1>5. ASSUME mishaps' \cap {"overlap", "failed"} = {} PROVE ServedIsStored'
    <2>1. ServedIsStored
      BY <1>5 DEF WorkerInv
    <2> QED BY <1>1, <2>1 DEF ServedIsStored, SavesUnder, SetsUp, SecretsKeptOrGone
  <1> QED BY <1>2, <1>3, <1>4, <1>5 DEF WorkerInv

\* A message is received that awaits encryption or storage.
LEMMA BeginKeepsWorker ==
    ASSUME WorkerInv, NEW c \in Calls, NEW kind \in AsyncKinds, NEW state, NEW password \in Passwords,
           calls[c] = Idle,
           calls' = [calls EXCEPT ![c] = [kind |-> kind, stored |-> FALSE, state |-> state, password |-> password]],
           vault' = vault, answer' = NoAnswer,
           mishaps \subseteq mishaps', "overlap" \notin mishaps' => Alone,
           state # None => Unspoilt(state, mishaps'),
           kind = "SETUP" => state = EmptyState,
           kind = "UNLOCK" /\ state # None => vault = [state |-> state, password |-> password],
           IF kind = "SAVE_STATE"
           THEN currentState' = state /\ currentPassword = password /\ currentPassword' = password
           ELSE SecretsKeptOrGone
    PROVE  WorkerInv'
  <1> DEFINE new == [kind |-> kind, stored |-> FALSE, state |-> state, password |-> password]
  <1>1. /\ WorkerTypeOK /\ WorkerFits /\ MessagesCarry /\ VaultThere
        /\ "overlap" \notin mishaps => Single /\ MessagesMatch
        /\ mishaps \cap {"overlap", "failed"} = {} => ServedIsStored
    BY DEF WorkerInv
  <1>2. /\ calls'[c] = new /\ \A d \in Calls \ {c} : calls'[d] = calls[d]
        /\ new.kind = kind /\ new.stored = FALSE /\ new.state = state /\ new.password = password
    BY <1>1 DEF WorkerTypeOK
  <1>3. password # None /\ state \in ExtensionState \cup {None}
    BY NoneAssumption DEF Unspoilt
  <1>4. WorkerTypeOK'
    <2>1. new \in Messages
      BY <1>3 DEF Messages
    <2> HIDE DEF new
    <2>2. calls' \in [Calls -> Messages]
      <3>1. calls' = [calls EXCEPT ![c] = new]
        BY DEF new
      <3> QED BY <1>1, <2>1, <3>1 DEF WorkerTypeOK
    <2>3. currentPassword' \in Passwords \cup {None}
      BY <1>1 DEF WorkerTypeOK, SecretsKeptOrGone
    <2> QED BY <1>1, <2>2, <2>3 DEF WorkerTypeOK
  <1> HIDE DEF new
  <1>5. WorkerFits'
    <2>1. currentState' # None => Unspoilt(currentState', mishaps')
      BY <1>1, FitsLonger DEF WorkerFits, SecretsKeptOrGone
    <2>2. vault'.state # None => Unspoilt(vault'.state, mishaps')
      BY <1>1, FitsLonger DEF WorkerFits
    <2>3. ASSUME NEW d \in Calls, calls'[d].state # None PROVE Unspoilt(calls'[d].state, mishaps')
      BY <1>1, <1>2, <2>3, FitsLonger DEF WorkerFits
    <2> QED BY <2>1, <2>2, <2>3 DEF WorkerFits
  <1>6. MessagesCarry'
    <2>1. currentPassword' = None => currentState' = None
      BY <1>1, <1>3 DEF MessagesCarry, SecretsKeptOrGone
    <2>2. ASSUME NEW d \in Calls
          PROVE  /\ calls'[d].kind = "SETUP" => calls'[d].state = EmptyState
                 /\ calls'[d].kind # "IDLE" => calls'[d].password # None
                 /\ calls'[d].kind \in {"IDLE", "UNLOCK"} => ~calls'[d].stored
      BY <1>1, <1>2, <1>3 DEF MessagesCarry
    <2> QED BY <2>1, <2>2 DEF MessagesCarry
  <1>7. VaultThere'
    <2>1. kind = "SAVE_STATE" \/ (kind = "UNLOCK" /\ state # None) => vault # NoVault
      BY <1>1, <1>3 DEF VaultThere, NoVault
    <2>2. currentPassword' # None => vault # NoVault
      BY <1>1, <2>1 DEF VaultThere, SecretsKeptOrGone
    <2> QED BY <1>1, <1>2, <2>1, <2>2 DEF VaultThere
  <1>8. ASSUME "overlap" \notin mishaps' PROVE Single' /\ MessagesMatch' /\ SavedStateIsDurable'
    <2>1. \A d \in Calls : calls[d] = Idle
      BY <1>8 DEF Alone
    <2>2. Single'
      BY <1>2, <2>1 DEF Single
    <2>3. MessagesMatch'
      BY <1>1, <1>2, <2>1 DEF MessagesMatch, Idle, AsyncKinds
    <2>4. SavedStateIsDurable'
      BY DEF SavedStateIsDurable, NoAnswer
    <2> QED BY <2>2, <2>3, <2>4
  <1>9. ASSUME mishaps' \cap {"overlap", "failed"} = {} PROVE ServedIsStored'
    <2>1. ServedIsStored /\ \A d \in Calls : calls[d] = Idle
      BY <1>1, <1>9 DEF Alone
    <2>2. \A d \in Calls : ~SavesUnder(d) /\ ~SetsUp(d)
      BY <2>1 DEF SavesUnder, SetsUp, Idle
    <2>3. kind = "SAVE_STATE" => SavesUnder(c)'
      BY <1>2 DEF SavesUnder
    <2> QED BY <2>1, <2>2, <2>3 DEF ServedIsStored, SecretsKeptOrGone
  <1> QED BY <1>4, <1>5, <1>6, <1>7, <1>8, <1>9 DEF WorkerInv

LEMMA StoreKeepsWorker ==
    ASSUME WorkerInv, NEW c \in Calls, StoreVault(c), mishaps' = mishaps
    PROVE  WorkerInv'
  <1> DEFINE m == calls[c]
             new == [m EXCEPT !.stored = TRUE]
  <1>1. /\ WorkerTypeOK /\ WorkerFits /\ MessagesCarry /\ VaultThere
        /\ "overlap" \notin mishaps => Single /\ MessagesMatch
        /\ mishaps \cap {"overlap", "failed"} = {} => ServedIsStored
    BY DEF WorkerInv
  <1>2. /\ m.kind \in {"SETUP", "SAVE_STATE"} /\ ~m.stored
        /\ vault' = [state |-> m.state, password |-> m.password]
        /\ calls' = [calls EXCEPT ![c] = new]
        /\ answer' = NoAnswer /\ currentState' = currentState /\ currentPassword' = currentPassword
    BY DEF StoreVault, session, secrets
  <1>3. m \in Messages
    BY <1>1 DEF WorkerTypeOK
  <1>4. /\ new \in Messages /\ new.kind = m.kind /\ new.stored = TRUE
        /\ new.state = m.state /\ new.password = m.password
    <2> HIDE DEF m
    <2> QED BY <1>3 DEF Messages
  <1>5. m.password # None /\ m.password \in Passwords /\ m.state \in ExtensionState \cup {None}
    BY <1>1, <1>2, <1>3 DEF MessagesCarry, Messages
  <1> HIDE DEF new, m
  <1>6. calls'[c] = new /\ (\A d \in Calls \ {c} : calls'[d] = calls[d]) /\ calls[c] = m
    BY <1>1, <1>2 DEF WorkerTypeOK, m
  <1>7. vault'.state = m.state /\ vault' # NoVault
    BY <1>2, <1>5 DEF NoVault
  <1>8. WorkerTypeOK'
    BY <1>1, <1>2, <1>4, <1>5 DEF WorkerTypeOK
  <1>9. WorkerFits'
    BY <1>1, <1>2, <1>4, <1>6, <1>7 DEF WorkerFits
  <1>10. MessagesCarry' /\ VaultThere'
    BY <1>1, <1>2, <1>4, <1>6, <1>7 DEF MessagesCarry, VaultThere
  <1>11. ASSUME "overlap" \notin mishaps' PROVE Single' /\ MessagesMatch' /\ SavedStateIsDurable'
    <2>1. Single /\ MessagesMatch
      BY <1>1, <1>2, <1>11
    <2>2. m # Idle
      BY <1>2 DEF Idle
    <2>3. \A d \in Calls \ {c} : calls[d] = Idle
      BY <1>6, <2>1, <2>2 DEF Single
    <2>4. Single'
      BY <1>6, <2>3 DEF Single
    <2>5. MessagesMatch'
      BY <1>2, <1>4, <1>6, <2>1, <2>3 DEF MessagesMatch, Idle
    <2>6. SavedStateIsDurable'
      BY <1>2 DEF SavedStateIsDurable, NoAnswer
    <2> QED BY <2>4, <2>5, <2>6
  <1>12. ASSUME mishaps' \cap {"overlap", "failed"} = {} PROVE ServedIsStored'
    <2>1. MessagesMatch
      BY <1>1, <1>2, <1>12
    <2>2. m.kind = "SETUP" => SetsUp(c)'
      BY <1>4, <1>6 DEF SetsUp
    <2>3. m.kind = "SAVE_STATE" /\ currentState # None =>
              vault' = [state |-> currentState, password |-> currentPassword]
      BY <1>2, <1>6, <2>1 DEF MessagesMatch
    <2> QED BY <1>2, <2>2, <2>3 DEF ServedIsStored
  <1> QED BY <1>8, <1>9, <1>10, <1>11, <1>12, <1>2 DEF WorkerInv

\* A message ends, having opened the session or not.
LEMMA EndKeepsWorker ==
    ASSUME WorkerInv, NEW c \in Calls, calls[c].kind \in AsyncKinds,
           calls' = [calls EXCEPT ![c] = Idle], vault' = vault, mishaps \subseteq mishaps',
           \/ /\ currentState' = calls[c].state /\ currentPassword' = calls[c].password
              /\ calls[c].stored \/ (calls[c].kind = "UNLOCK" /\ calls[c].state # None)
           \/ /\ currentState' = currentState /\ currentPassword' = currentPassword
              /\ "failed" \in mishaps' \/ (calls[c].kind = "SAVE_STATE" /\ calls[c].stored)
    PROVE  /\ WorkerTypeOK' /\ WorkerFits' /\ MessagesCarry' /\ VaultThere'
           /\ "overlap" \notin mishaps' =>
                  /\ Single' /\ MessagesMatch' /\ \A d \in Calls : calls'[d] = Idle
                  /\ calls[c].kind = "SAVE_STATE" /\ calls[c].stored /\ currentState' = currentState
                         /\ currentPassword' = currentPassword /\ currentState # None =>
                         vault = [state |-> currentState, password |-> currentPassword]
           /\ mishaps' \cap {"overlap", "failed"} = {} => ServedIsStored'
  <1> DEFINE m == calls[c]
  <1>1. /\ WorkerTypeOK /\ WorkerFits /\ MessagesCarry /\ VaultThere
        /\ "overlap" \notin mishaps => Single /\ MessagesMatch
        /\ mishaps \cap {"overlap", "failed"} = {} => ServedIsStored
    BY DEF WorkerInv
  <1>2. calls'[c] = Idle /\ \A d \in Calls \ {c} : calls'[d] = calls[d]
    BY <1>1 DEF WorkerTypeOK
  <1>3. m \in Messages /\ m.password # None
    BY <1>1 DEF WorkerTypeOK, MessagesCarry, AsyncKinds
  <1>4. Idle \in Messages
    BY DEF Idle, Messages
  <1>5. WorkerTypeOK'
    <2>1. calls' \in [Calls -> Messages]
      BY <1>1, <1>4 DEF WorkerTypeOK
    <2>2. currentPassword' \in Passwords \cup {None}
      BY <1>1, <1>3 DEF WorkerTypeOK, Messages
    <2> QED BY <1>1, <2>1, <2>2 DEF WorkerTypeOK
  <1>6. WorkerFits'
    <2>1. currentState' # None => Unspoilt(currentState', mishaps')
      BY <1>1, FitsLonger DEF WorkerFits
    <2>2. vault'.state # None => Unspoilt(vault'.state, mishaps')
      BY <1>1, FitsLonger DEF WorkerFits
    <2>3. ASSUME NEW d \in Calls, calls'[d].state # None PROVE Unspoilt(calls'[d].state, mishaps')
      BY <1>1, <1>2, <2>3, FitsLonger DEF WorkerFits, Idle
    <2> QED BY <2>1, <2>2, <2>3 DEF WorkerFits
  <1>7. MessagesCarry'
    BY <1>1, <1>2, <1>3 DEF MessagesCarry, Idle
  <1>8. VaultThere'
    BY <1>1, <1>2 DEF VaultThere, Idle
  <1>9. ASSUME "overlap" \notin mishaps'
        PROVE  /\ Single' /\ MessagesMatch' /\ \A d \in Calls : calls'[d] = Idle
               /\ m.kind = "SAVE_STATE" /\ m.stored /\ currentState' = currentState
                      /\ currentPassword' = currentPassword /\ currentState # None =>
                      vault = [state |-> currentState, password |-> currentPassword]
    <2>1. Single /\ MessagesMatch
      BY <1>1, <1>9
    <2>2. m # Idle
      BY DEF Idle, AsyncKinds
    <2>3. \A d \in Calls : calls'[d] = Idle
      BY <1>2, <2>1, <2>2 DEF Single
    <2>4. Single' /\ MessagesMatch'
      <3>1. Idle.kind = "IDLE" /\ Idle.stored = FALSE
        BY DEF Idle
      <3>2. Single'
        BY <2>3 DEF Single
      <3>3. MessagesMatch'
        BY <2>3, <3>1 DEF MessagesMatch
      <3> QED BY <3>2, <3>3
    <2>5. m.kind = "SAVE_STATE" /\ m.stored /\ currentState # None =>
              vault = [state |-> currentState, password |-> currentPassword]
      BY <2>1 DEF MessagesMatch
    <2> QED BY <2>3, <2>4, <2>5
  <1>10. ASSUME mishaps' \cap {"overlap", "failed"} = {} PROVE ServedIsStored'
    <2>1. MessagesMatch
      BY <1>1, <1>10
    <2>2. m.stored \/ (m.kind = "UNLOCK" /\ m.state # None) => vault = [state |-> m.state, password |-> m.password]
      BY <2>1 DEF MessagesMatch
    <2>3. m.kind = "SAVE_STATE" /\ m.stored /\ currentState # None =>
              vault = [state |-> currentState, password |-> currentPassword]
      BY <2>1 DEF MessagesMatch
    <2> HIDE DEF m
    <2> QED BY <1>10, <2>2, <2>3 DEF ServedIsStored, m
  <1> QED BY <1>5, <1>6, <1>7, <1>8, <1>9, <1>10

LEMMA FinishKeepsWorker ==
    ASSUME WorkerInv, NEW c \in Calls,
           \/ (FinishSetup(c) \/ FinishUnlock(c) \/ FinishSave(c)) /\ mishaps' = mishaps
           \/ FailCall(c) /\ mishaps' = mishaps \cup {"failed"}
    PROVE  WorkerInv'
  <1> DEFINE m == calls[c]
             ok == ~FailCall(c)
  <1>0. "overlap" \notin mishaps' => "overlap" \notin mishaps
    OBVIOUS
  <1>1. CASE FinishSetup(c)
    <2>1. /\ m.kind = "SETUP" /\ m.stored /\ currentState' = m.state /\ currentPassword' = m.password
          /\ calls' = [calls EXCEPT ![c] = Idle] /\ vault' = vault
          /\ answer' = [kind |-> "SETUP", ok |-> TRUE]
      BY <1>1 DEF FinishSetup, End, Answer
    <2>2. m.kind \in AsyncKinds /\ mishaps \subseteq mishaps'
      BY <2>1 DEF AsyncKinds
    <2>3. SavedStateIsDurable'
      BY <2>1 DEF SavedStateIsDurable
    <2> QED BY <2>1, <2>2, <2>3, EndKeepsWorker DEF WorkerInv
  <1>2. CASE FinishUnlock(c)
    <2>1. /\ m.kind = "UNLOCK" /\ m.state # None /\ currentState' = m.state /\ currentPassword' = m.password
          /\ calls' = [calls EXCEPT ![c] = Idle] /\ vault' = vault
          /\ answer' = [kind |-> "UNLOCK", ok |-> TRUE]
      BY <1>2 DEF FinishUnlock, End, Answer
    <2>2. m.kind \in AsyncKinds /\ mishaps \subseteq mishaps'
      BY <2>1 DEF AsyncKinds
    <2>3. SavedStateIsDurable'
      BY <2>1 DEF SavedStateIsDurable
    <2> QED BY <2>1, <2>2, <2>3, EndKeepsWorker DEF WorkerInv
  <1>3. CASE FinishSave(c)
    <2>1. /\ m.kind = "SAVE_STATE" /\ m.stored /\ currentState' = currentState /\ currentPassword' = currentPassword
          /\ calls' = [calls EXCEPT ![c] = Idle] /\ vault' = vault
      BY <1>3 DEF FinishSave, End, secrets
    <2>2. m.kind \in AsyncKinds /\ mishaps \subseteq mishaps'
      BY <2>1 DEF AsyncKinds
    <2> HIDE DEF m
    <2>3. /\ WorkerTypeOK' /\ WorkerFits' /\ MessagesCarry' /\ VaultThere'
          /\ "overlap" \notin mishaps' =>
                  /\ Single' /\ MessagesMatch'
                  /\ currentState # None => vault = [state |-> currentState, password |-> currentPassword]
          /\ mishaps' \cap {"overlap", "failed"} = {} => ServedIsStored'
      BY <2>1, <2>2, EndKeepsWorker DEF m
    <2>4. "overlap" \notin mishaps' => SavedStateIsDurable'
      BY <2>1, <2>3 DEF SavedStateIsDurable
    <2> QED BY <2>3, <2>4 DEF WorkerInv
  <1>4. CASE FailCall(c) /\ mishaps' = mishaps \cup {"failed"}
    <2>1. /\ m.kind \in AsyncKinds /\ currentState' = currentState /\ currentPassword' = currentPassword
          /\ calls' = [calls EXCEPT ![c] = Idle] /\ vault' = vault
          /\ answer' = [kind |-> m.kind, ok |-> FALSE]
      BY <1>4 DEF FailCall, End, Answer, session, secrets
    <2>2. mishaps \subseteq mishaps' /\ "failed" \in mishaps'
      BY <1>4
    <2>3. SavedStateIsDurable'
      BY <2>1 DEF SavedStateIsDurable
    <2> QED BY <2>1, <2>2, <2>3, EndKeepsWorker DEF WorkerInv
  <1> QED BY <1>1, <1>2, <1>3, <1>4

LEMMA RestartKeepsWorker ==
    ASSUME WorkerInv, Restart, mishaps \subseteq mishaps'
    PROVE  WorkerInv'
  <1>1. /\ currentState' = None /\ currentPassword' = None /\ vault' = vault
        /\ calls' = [c \in Calls |-> Idle] /\ answer' = NoAnswer
    BY DEF Restart
  <1>2. WorkerTypeOK'
    BY <1>1 DEF WorkerInv, WorkerTypeOK, Idle, Messages
  <1>3. WorkerFits'
    BY <1>1, FitsLonger DEF WorkerInv, WorkerFits, Idle
  <1>4. MessagesCarry' /\ VaultThere' /\ Single' /\ MessagesMatch' /\ ServedIsStored' /\ SavedStateIsDurable'
    BY <1>1 DEF MessagesCarry, VaultThere, Single, MessagesMatch, ServedIsStored, SavedStateIsDurable, Idle, NoAnswer
  <1> QED BY <1>2, <1>3, <1>4 DEF WorkerInv

---------------------------------------------------------------------------
(* The popup over the worker.                                              *)

IsRequest(r) == r = [kind |-> r.kind, call |-> r.call, outcome |-> r.outcome, data |-> r.data]

GotState == init.kind = "GET_STATE" /\ init.outcome = "success"
GotUnlocked == form.kind = "UNLOCK" /\ form.outcome = "success"

\* Every state the popup shows or was answered fits.
PopupFits ==
    /\ Unspoilt(store, mishaps)
    /\ GotState => Unspoilt(init.data, mishaps)
    /\ GotUnlocked => Unspoilt(form.data, mishaps)

\* A form awaits its own message; a closed popup awaits nothing.
FormAwaits ==
    /\ IsRequest(init) /\ IsRequest(form) /\ form.call \in Calls \cup {None}
    /\ form.call # None =>
           form.outcome = "none" /\ form.kind \in {"SETUP", "UNLOCK"} /\ calls[form.call].kind = form.kind
    /\ ~open => form = Nobody /\ init = Nobody

\* While nobody closes the popup over its form, or sets up before it knows.
Patient == mishaps \cap {"early", "abandoned"} = {}

FormsInTurn ==
    /\ \A c \in Calls : calls[c].kind \in {"SETUP", "UNLOCK"} => form.call = c
    /\ init # Nobody => form = Nobody /\ locked /\ ~hasVault
    /\ form.kind = "UNLOCK" => locked
    /\ form.kind = "SETUP" => ~hasVault
    /\ form.kind = "LOCK" => currentState = None /\ currentPassword = None

\* What is shown, or will be with the answer that has come, is what is served.
ShownIsServed ==
    currentState # None =>
        /\ Shown => store = currentState
        /\ GotState => init.data = currentState
        /\ GotUnlocked => form.data = currentState
        /\ form.kind = "SETUP" /\ form.outcome = "success" => currentState = EmptyState

FormInv ==
    /\ PopupFits /\ FormAwaits
    /\ Patient => FormsInTurn /\ ShownIsServed

PopupInv == WorkerInv /\ FormInv

LEMMA NobodyAwaits ==
    /\ IsRequest(Nobody) /\ Nobody.call = None /\ Nobody.kind = "nobody" /\ Nobody.outcome = "none"
    /\ \A kind, outcome, data :
           LET r == Answered(kind, outcome, data)
           IN  IsRequest(r) /\ r.call = None /\ r.kind = kind /\ r.outcome = outcome /\ r.data = data
    /\ \A kind, call :
           LET r == Awaiting(kind, call)
           IN  IsRequest(r) /\ r.call = call /\ r.kind = kind /\ r.outcome = "none"
  BY DEF Nobody, Answered, Awaiting, IsRequest

LEMMA FewerMishaps ==
    ASSUME mishaps \subseteq mishaps'
    PROVE  Patient' => Patient
  BY DEF Patient

\* The steps of the worker that the popup does not see.
LEMMA CalmKeepsForm ==
    ASSUME FormInv, Calm, UNCHANGED popup
    PROVE  FormInv'
  <1>1. vault' = vault /\ calls' = calls /\ SecretsKeptOrGone
    BY DEF Calm
  <1>2. PopupFits' /\ FormAwaits'
    BY <1>1 DEF FormInv, PopupFits, FormAwaits, popup, GotState, GotUnlocked
  <1>3. ASSUME Patient' PROVE FormsInTurn' /\ ShownIsServed'
    <2>1. FormsInTurn /\ ShownIsServed
      BY <1>3 DEF FormInv, Patient, popup
    <2> QED BY <1>1, <2>1 DEF FormsInTurn, ShownIsServed, GotState, GotUnlocked, Shown, popup, SecretsKeptOrGone
  <1> QED BY <1>2, <1>3 DEF FormInv

LEMMA OpenKeepsForm ==
    ASSUME WorkerInv, FormInv, OpenPopup
    PROVE  FormInv'
  <1>1. vault' = vault /\ calls' = calls
    BY CalmSteps DEF OpenPopup, Calm
  <1>2. /\ open' = TRUE /\ ~open /\ store' = EmptyState /\ locked' = TRUE /\ hasVault' = FALSE
        /\ form' = Nobody /\ init' = Answered("HAS_VAULT", "success", vault # NoVault) /\ mishaps' = mishaps
    BY DEF OpenPopup, Fresh
  <1>3. form = Nobody
    BY <1>2 DEF FormInv, FormAwaits
  <1>4. init'.kind = "HAS_VAULT" /\ init'.outcome = "success" /\ init'.data = (vault # NoVault) /\ IsRequest(init)'
    BY <1>2, NobodyAwaits DEF IsRequest
  <1>5. PopupFits'
    BY <1>2, <1>4, NobodyAwaits, EmptyFits DEF PopupFits, GotState, GotUnlocked
  <1>6. FormAwaits'
    BY <1>2, <1>4, NobodyAwaits DEF FormAwaits, IsRequest
  <1>7. ASSUME Patient' PROVE FormsInTurn' /\ ShownIsServed'
    <2>1. FormsInTurn
      BY <1>2, <1>7 DEF FormInv, Patient
    <2>2. FormsInTurn'
      BY <1>1, <1>2, <1>3, <2>1, NobodyAwaits DEF FormsInTurn
    <2>3. ShownIsServed'
      BY <1>2, <1>4, NobodyAwaits DEF ShownIsServed, Shown, GotState, GotUnlocked
    <2> QED BY <2>2, <2>3
  <1> QED BY <1>5, <1>6, <1>7 DEF FormInv

LEMMA CloseKeepsForm ==
    ASSUME WorkerInv, FormInv, Close
    PROVE  FormInv'
  <1>1. vault' = vault /\ calls' = calls
    BY DEF Close, vars
  <1>2. /\ open' = FALSE /\ store' = EmptyState /\ locked' = TRUE /\ hasVault' = FALSE
        /\ form' = Nobody /\ init' = Nobody
        /\ mishaps' = mishaps \cup (IF form.call = None THEN {} ELSE {"abandoned"})
    BY DEF Close, Fresh
  <1>3. PopupFits'
    BY <1>2, NobodyAwaits, EmptyFits DEF PopupFits, GotState, GotUnlocked
  <1>4. FormAwaits'
    BY <1>2, NobodyAwaits DEF FormAwaits, IsRequest
  <1>5. ASSUME Patient' PROVE FormsInTurn' /\ ShownIsServed'
    <2>1. FormsInTurn
      BY <1>2, <1>5 DEF FormInv, Patient
    <2>2. form.call = None
      BY <1>2, <1>5 DEF Patient
    <2>3. FormsInTurn'
      BY <1>1, <1>2, <2>1, <2>2, NobodyAwaits DEF FormsInTurn
    <2>4. ShownIsServed'
      BY <1>2, NobodyAwaits DEF ShownIsServed, Shown, GotState, GotUnlocked
    <2> QED BY <2>3, <2>4
  <1> QED BY <1>3, <1>4, <1>5 DEF FormInv

\* initializeWallet goes on, under a worker that changes nothing but its secrets.
Goes ==
    /\ IsRequest(init)' /\ init'.outcome # "lost" /\ init'.kind # "HAS_VAULT"
    /\ init' = Nobody \/ UNCHANGED <<locked, hasVault>>
    /\ UNCHANGED <<store, locked>> \/ (GotState /\ store' = init.data)
    /\ GotState' => Unlocked /\ init'.data = currentState /\ currentState' = currentState
    /\ init' = Nobody /\ ~hasVault' =>
           init.outcome = "lost" \/ (init.kind = "HAS_VAULT" /\ init.outcome = "success" /\ ~init.data)

LEMMA AskedGoes ==
    ASSUME NEW kind \in {"IS_UNLOCKED", "GET_STATE"}, NEW outcome \in {"success", "refused"}, NEW data,
           init' = Answered(kind, outcome, data), UNCHANGED <<store, locked, hasVault>>,
           kind = "GET_STATE" /\ outcome = "success" =>
               Unlocked /\ data = currentState /\ currentState' = currentState
    PROVE  Goes
  <1> DEFINE r == Answered(kind, outcome, data)
  <1>1. IsRequest(r) /\ r.kind = kind /\ r.outcome = outcome /\ r.data = data /\ r # Nobody
    BY NobodyAwaits
  <1> HIDE DEF r
  <1>2. init' = r
    BY DEF r
  <1> QED BY <1>1, <1>2 DEF Goes, GotState, IsRequest

LEMMA DoneGoes ==
    ASSUME NEW found, init' = Nobody, hasVault' = found, UNCHANGED locked, UNCHANGED store,
           ~found => init.outcome = "lost" \/ (init.kind = "HAS_VAULT" /\ init.outcome = "success" /\ ~init.data)
    PROVE  Goes
  BY NobodyAwaits DEF Goes, GotState, IsRequest

LEMMA InitializeGoes == InitializeWallet => Goes
  <1>1. CASE init.outcome = "lost" /\ Initialized(hasVault)
    BY <1>1, DoneGoes DEF Initialized
  <1>2. CASE /\ init.kind = "HAS_VAULT" /\ init.outcome = "success"
             /\ IF init.data THEN ReadOnlyMessage /\ NextAnswer("IS_UNLOCKED", "success", Unlocked)
                ELSE Initialized(FALSE)
    <2>1. CASE init.data
      BY <1>2, <2>1, AskedGoes DEF NextAnswer
    <2>2. CASE ~init.data
      BY <1>2, <2>2, DoneGoes DEF Initialized
    <2> QED BY <2>1, <2>2
  <1>3. CASE /\ init.kind = "IS_UNLOCKED" /\ init.outcome = "success"
             /\ IF init.data
                THEN GetState /\ NextAnswer("GET_STATE", IF Unlocked THEN "success" ELSE "refused", currentState)
                ELSE Initialized(TRUE)
    <2>1. CASE init.data /\ Unlocked
      <3>1. GetState /\ NextAnswer("GET_STATE", "success", currentState)
        BY <1>3, <2>1
      <3>2. currentState' = currentState
        BY <2>1, <3>1 DEF GetState, Serve, secrets
      <3> QED BY <2>1, <3>1, <3>2, AskedGoes DEF NextAnswer
    <2>2. CASE init.data /\ ~Unlocked
      <3>1. NextAnswer("GET_STATE", "refused", currentState)
        BY <1>3, <2>2
      <3> QED BY <3>1, AskedGoes DEF NextAnswer
    <2>3. CASE ~init.data
      BY <1>3, <2>3, DoneGoes DEF Initialized
    <2> QED BY <2>1, <2>2, <2>3
  <1>4. CASE init.kind = "GET_STATE" /\ init.outcome = "refused" /\ Initialized(TRUE)
    BY <1>4, DoneGoes DEF Initialized
  <1>5. CASE /\ init.kind = "GET_STATE" /\ init.outcome = "success"
             /\ Loaded(init.data) /\ init' = Nobody /\ hasVault' = TRUE
    BY <1>5, NobodyAwaits DEF Loaded, GotState, Goes, IsRequest
  <1> QED BY <1>1, <1>2, <1>3, <1>4, <1>5 DEF InitializeWallet

LEMMA InitializeKeepsForm ==
    ASSUME WorkerInv, FormInv, InitializeWallet
    PROVE  FormInv'
  <1>1. Goes
    BY InitializeGoes
  <1>2. vault' = vault /\ calls' = calls /\ SecretsKeptOrGone
    BY CalmSteps DEF InitializeWallet, NextAnswer, Initialized, Calm
  <1>3. open' = open /\ form' = form /\ mishaps' = mishaps /\ init.outcome # "none"
    BY DEF InitializeWallet
  <1>4. init # Nobody /\ open
    BY <1>3, NobodyAwaits DEF FormInv, FormAwaits
  <1>5. PopupFits'
    <2>1. currentState # None => Unspoilt(currentState, mishaps)
      BY DEF WorkerInv, WorkerFits
    <2>2. Unspoilt(store', mishaps')
      BY <1>1, <1>3 DEF FormInv, PopupFits, Goes
    <2>3. GotState' => Unspoilt(init'.data, mishaps')
      BY <1>1, <1>3, <2>1 DEF Goes, Unlocked
    <2>4. GotUnlocked' => Unspoilt(form'.data, mishaps')
      BY <1>3 DEF FormInv, PopupFits, GotUnlocked
    <2> QED BY <2>2, <2>3, <2>4 DEF PopupFits
  <1>6. FormAwaits'
    BY <1>1, <1>2, <1>3, <1>4 DEF FormInv, FormAwaits, IsRequest, Goes
  <1>7. ASSUME Patient' PROVE FormsInTurn' /\ ShownIsServed'
    <2>1. FormsInTurn /\ ShownIsServed
      BY <1>3, <1>7 DEF FormInv, Patient
    <2>2. form = Nobody /\ locked /\ ~hasVault
      BY <1>4, <2>1 DEF FormsInTurn
    <2>3. FormsInTurn'
      <3>1. init' # Nobody => locked' /\ ~hasVault'
        BY <1>1, <2>2 DEF Goes
      <3>2. form'.kind = "nobody" /\ form' = Nobody
        BY <1>3, <2>2, NobodyAwaits
      <3>3. \A c \in Calls : calls'[c].kind \in {"SETUP", "UNLOCK"} => form'.call = c
        BY <1>2, <1>3, <2>1 DEF FormsInTurn
      <3> QED BY <3>1, <3>2, <3>3 DEF FormsInTurn
    <2>4. Shown' => store' = init.data /\ GotState
      BY <1>1, <2>2 DEF Shown, Goes
    <2>5. ~GotUnlocked' /\ form'.kind # "SETUP"
      BY <1>3, <2>2, NobodyAwaits DEF GotUnlocked
    <2>6. ShownIsServed'
      BY <1>1, <1>2, <2>1, <2>4, <2>5 DEF ShownIsServed, SecretsKeptOrGone, Goes
    <2> QED BY <2>3, <2>6
  <1> QED BY <1>5, <1>6, <1>7 DEF FormInv

\* What a form sends: a message that begins, in a slot of its own.
LEMMA BeginOne ==
    ASSUME WorkerInv, NEW c \in Calls, NEW kind, NEW state, NEW password, Begin(c, kind, state, password)
    PROVE  /\ calls[c] = Idle
           /\ calls' = [calls EXCEPT ![c] = [kind |-> kind, stored |-> FALSE, state |-> state, password |-> password]]
           /\ calls'[c].kind = kind /\ calls'[c].stored = FALSE /\ calls'[c].state = state
           /\ \A d \in Calls : d # c => calls'[d] = calls[d]
           /\ calls[c].kind = "IDLE"
  BY DEF Begin, WorkerInv, WorkerTypeOK, Idle

LEMMA SubmitUnlockKeeps ==
    ASSUME PopupInv, NEW c \in Calls, NEW p \in Passwords, SubmitUnlock(c, p)
    PROVE  PopupInv'
  <1>1. /\ open /\ locked /\ hasVault /\ form = Nobody /\ form' = Awaiting("UNLOCK", c)
        /\ open' = open /\ store' = store /\ locked' = locked /\ hasVault' = hasVault /\ init' = init
        /\ mishaps' = mishaps \cup Overlaps
    BY DEF SubmitUnlock
  <1>2. LockIfExpired /\ vault' = vault /\ Begin(c, "UNLOCK", Decrypted(p), p)
    BY DEF SubmitUnlock, Unlock
  <1>3. WorkerInv
    BY DEF PopupInv
  <1>4. FormInv
    BY DEF PopupInv
  <1>5. SecretsKeptOrGone
    BY <1>2, LockIfExpiredKeepsOrGone
  <1>6. form'.kind = "UNLOCK" /\ form'.call = c /\ form'.outcome = "none" /\ IsRequest(form)'
    BY <1>1, NobodyAwaits DEF IsRequest
  <1>7. mishaps \subseteq mishaps' /\ Patient' = Patient
    BY <1>1 DEF Overlaps, Patient
  <1>8. WorkerInv'
    <2>1. "UNLOCK" \in AsyncKinds /\ "UNLOCK" # "SETUP" /\ "UNLOCK" # "SAVE_STATE"
      BY DEF AsyncKinds
    <2>2. "overlap" \notin mishaps' => Alone
      BY <1>1 DEF Overlaps
    <2>3. Decrypted(p) # None => Unspoilt(Decrypted(p), mishaps')
      BY <1>3, <1>7, FitsLonger DEF WorkerInv, WorkerFits, Decrypted
    <2>4. Decrypted(p) # None => vault = [state |-> Decrypted(p), password |-> p]
      BY <1>3 DEF WorkerInv, WorkerTypeOK, Decrypted
    <2>5. calls[c] = Idle /\ answer' = NoAnswer
           /\ calls' = [calls EXCEPT ![c] = [kind |-> "UNLOCK", stored |-> FALSE, state |-> Decrypted(p), password |-> p]]
      BY <1>2 DEF Begin
    <2> QED BY <1>2, <1>3, <1>5, <1>7, <2>1, <2>2, <2>3, <2>4, <2>5, BeginKeepsWorker
  <1>9. PopupFits'
    BY <1>1, <1>4, <1>6, <1>7, FitsLonger DEF FormInv, PopupFits, GotState, GotUnlocked
  <1>10. FormAwaits'
    <2>1. calls'[c].kind = "UNLOCK"
      BY <1>2, <1>3, BeginOne
    <2> QED BY <1>1, <1>4, <1>6, <1>7, <2>1 DEF FormInv, FormAwaits, IsRequest
  <1>11. ASSUME Patient' PROVE FormsInTurn' /\ ShownIsServed'
    <2>1. FormsInTurn
      BY <1>4, <1>7, <1>11 DEF FormInv
    <2>2. \A d \in Calls : calls'[d].kind \in {"SETUP", "UNLOCK"} => d = c
      <3>1. \A d \in Calls : d # c => calls'[d] = calls[d]
        BY <1>2, <1>3, BeginOne
      <3>2. form.call = None
        BY <1>1, NobodyAwaits
      <3>3. \A d \in Calls : calls[d].kind \notin {"SETUP", "UNLOCK"}
        BY <2>1, <3>2, PopupAssumption DEF FormsInTurn
      <3> QED BY <3>1, <3>3
    <2>3. init = Nobody
      BY <1>1, <2>1 DEF FormsInTurn
    <2>4. FormsInTurn'
      BY <1>1, <1>6, <2>2, <2>3 DEF FormsInTurn
    <2>5. ShownIsServed'
      BY <1>1, <1>6, <2>3, NobodyAwaits DEF ShownIsServed, Shown, GotState, GotUnlocked
    <2> QED BY <2>4, <2>5
  <1> QED BY <1>8, <1>9, <1>10, <1>11 DEF PopupInv, FormInv

LEMMA SubmitSetupKeeps ==
    ASSUME PopupInv, NEW c \in Calls, NEW p \in Passwords, SubmitSetup(c, p)
    PROVE  PopupInv'
  <1>1. /\ open /\ ~hasVault /\ form = Nobody /\ form' = Awaiting("SETUP", c)
        /\ open' = open /\ store' = store /\ locked' = locked /\ hasVault' = hasVault /\ init' = init
        /\ mishaps' = mishaps \cup Overlaps \cup (IF init = Nobody THEN {} ELSE {"early"})
    BY DEF SubmitSetup
  <1>2. LockIfExpired /\ vault' = vault /\ Begin(c, "SETUP", EmptyState, p)
    BY DEF SubmitSetup, Setup
  <1>3. WorkerInv
    BY DEF PopupInv
  <1>4. FormInv
    BY DEF PopupInv
  <1>5. SecretsKeptOrGone
    BY <1>2, LockIfExpiredKeepsOrGone
  <1>6. form'.kind = "SETUP" /\ form'.call = c /\ form'.outcome = "none" /\ IsRequest(form)'
    BY <1>1, NobodyAwaits DEF IsRequest
  <1>7. /\ mishaps \subseteq mishaps'
        /\ Patient' => Patient /\ init = Nobody
    BY <1>1 DEF Overlaps, Patient
  <1>8. WorkerInv'
    <2>1. "SETUP" \in AsyncKinds /\ "SETUP" # "UNLOCK" /\ "SETUP" # "SAVE_STATE"
      BY DEF AsyncKinds
    <2>2. "overlap" \notin mishaps' => Alone
      BY <1>1 DEF Overlaps
    <2>3. Unspoilt(EmptyState, mishaps')
      BY EmptyFits
    <2>4. calls[c] = Idle /\ answer' = NoAnswer
           /\ calls' = [calls EXCEPT ![c] = [kind |-> "SETUP", stored |-> FALSE, state |-> EmptyState, password |-> p]]
      BY <1>2 DEF Begin
    <2> QED BY <1>2, <1>3, <1>5, <1>7, <2>1, <2>2, <2>3, <2>4, BeginKeepsWorker
  <1>9. PopupFits'
    BY <1>1, <1>4, <1>6, <1>7, FitsLonger DEF FormInv, PopupFits, GotState, GotUnlocked
  <1>10. FormAwaits'
    <2>1. calls'[c].kind = "SETUP"
      BY <1>2, <1>3, BeginOne
    <2> QED BY <1>1, <1>4, <1>6, <1>7, <2>1 DEF FormInv, FormAwaits, IsRequest
  <1>11. ASSUME Patient' PROVE FormsInTurn' /\ ShownIsServed'
    <2>1. FormsInTurn /\ init = Nobody
      BY <1>4, <1>7, <1>11 DEF FormInv
    <2>2. \A d \in Calls : calls'[d].kind \in {"SETUP", "UNLOCK"} => d = c
      <3>1. \A d \in Calls : d # c => calls'[d] = calls[d]
        BY <1>2, <1>3, BeginOne
      <3>2. form.call = None
        BY <1>1, NobodyAwaits
      <3>3. \A d \in Calls : calls[d].kind \notin {"SETUP", "UNLOCK"}
        BY <2>1, <3>2, PopupAssumption DEF FormsInTurn
      <3> QED BY <3>1, <3>3
    <2>3. FormsInTurn'
      BY <1>1, <1>6, <2>1, <2>2 DEF FormsInTurn
    <2>4. ShownIsServed'
      BY <1>1, <1>6, <2>1, NobodyAwaits DEF ShownIsServed, Shown, GotState, GotUnlocked
    <2> QED BY <2>3, <2>4
  <1> QED BY <1>8, <1>9, <1>10, <1>11 DEF PopupInv, FormInv

LEMMA ClickLockKeepsForm ==
    ASSUME WorkerInv, FormInv, ClickLock
    PROVE  FormInv'
  <1>1. /\ open /\ ~locked /\ hasVault /\ form = Nobody /\ form' = Answered("LOCK", "success", None)
        /\ open' = open /\ store' = store /\ locked' = locked /\ hasVault' = hasVault /\ init' = init
        /\ mishaps' = mishaps
    BY DEF ClickLock, Shown
  <1>2. vault' = vault /\ calls' = calls /\ currentState' = None /\ currentPassword' = None
    BY DEF ClickLock, LockMessage, Lock
  <1>3. form'.kind = "LOCK" /\ form'.call = None /\ IsRequest(form)'
    BY <1>1, NobodyAwaits DEF IsRequest
  <1>4. PopupFits' /\ FormAwaits'
    BY <1>1, <1>2, <1>3 DEF FormInv, PopupFits, FormAwaits, IsRequest, GotState, GotUnlocked
  <1>5. ASSUME Patient' PROVE FormsInTurn' /\ ShownIsServed'
    <2>1. FormsInTurn
      BY <1>1, <1>5 DEF FormInv, Patient
    <2>2. FormsInTurn'
      BY <1>1, <1>2, <1>3, <2>1, NobodyAwaits DEF FormsInTurn
    <2> QED BY <1>2, <2>2 DEF ShownIsServed
  <1> QED BY <1>4, <1>5 DEF FormInv

LEMMA FormAnsweredKeepsForm ==
    ASSUME WorkerInv, FormInv, FormAnswered
    PROVE  FormInv'
  <1>1. /\ form.outcome # "none" /\ form' = Nobody /\ open' = open /\ init' = init /\ mishaps' = mishaps
        /\ vault' = vault /\ calls' = calls /\ currentState' = currentState /\ currentPassword' = currentPassword
    BY DEF FormAnswered, vars, session, secrets
  <1>2. form.call = None
    BY <1>1 DEF FormInv, FormAwaits
  <1>3. \/ form.kind = "LOCK" /\ locked' = TRUE /\ store' = store /\ hasVault' = hasVault
        \/ GotUnlocked /\ store' = form.data /\ locked' = FALSE /\ hasVault' = hasVault
        \/ /\ form.kind = "SETUP" /\ form.outcome = "success"
           /\ store' = EmptyState /\ locked' = FALSE /\ hasVault' = TRUE
        \/ /\ form.kind # "LOCK" /\ form.outcome # "success"
           /\ store' = store /\ locked' = locked /\ hasVault' = hasVault
    BY DEF FormAnswered, Loaded, GotUnlocked
  <1>4. form # Nobody /\ open
    BY <1>1, NobodyAwaits DEF FormInv, FormAwaits
  <1>5. PopupFits'
    BY <1>1, <1>3, EmptyFits, NobodyAwaits DEF FormInv, PopupFits, GotState, GotUnlocked
  <1>6. FormAwaits'
    BY <1>1, <1>4, NobodyAwaits DEF FormInv, FormAwaits, IsRequest
  <1>7. ASSUME Patient' PROVE FormsInTurn' /\ ShownIsServed'
    <2>1. FormsInTurn /\ ShownIsServed
      BY <1>1, <1>7 DEF FormInv, Patient
    <2>2. init = Nobody /\ \A c \in Calls : calls[c].kind \notin {"SETUP", "UNLOCK"}
      BY <1>2, <1>4, <2>1, PopupAssumption DEF FormsInTurn
    <2>3. FormsInTurn'
      BY <1>1, <2>2, NobodyAwaits DEF FormsInTurn
    <2>4. ShownIsServed'
      BY <1>1, <1>3, <2>1, <2>2, NobodyAwaits DEF ShownIsServed, Shown, GotState, GotUnlocked
    <2> QED BY <2>3, <2>4
  <1> QED BY <1>5, <1>6, <1>7 DEF FormInv

LEMMA EditKeeps ==
    ASSUME PopupInv, NEW c \in Calls, NEW s \in EditsOf(store), Edit(c, s)
    PROVE  PopupInv'
  <1>1. /\ open /\ ~locked /\ hasVault /\ store' = s
        /\ open' = open /\ locked' = locked /\ hasVault' = hasVault /\ init' = init /\ form' = form
        /\ mishaps' = mishaps \cup Reedited(store, s) \cup Overlaps
        /\ SaveState(c, s) \/ RefuseSave
    BY DEF Edit, Shown, Reedited
  <1>2. WorkerInv
    BY DEF PopupInv
  <1>3. FormInv
    BY DEF PopupInv
  <1>4. /\ mishaps \subseteq mishaps' /\ Patient' = Patient
        /\ "overlap" \notin mishaps' => Alone
    BY <1>1 DEF Reedited, Overlaps, Patient
  <1>5. Unspoilt(s, mishaps')
    <2>1. Unspoilt(s, mishaps \cup Reedited(store, s))
      BY <1>3, EditsFit DEF FormInv, PopupFits
    <2> QED BY <1>1, <2>1, FitsLonger
  <1>6. PopupFits'
    BY <1>1, <1>3, <1>4, <1>5, FitsLonger DEF FormInv, PopupFits, GotState, GotUnlocked
  <1>7. ASSUME Patient'
        PROVE  FormsInTurn /\ ShownIsServed /\ init = Nobody /\ form.kind \notin {"UNLOCK", "SETUP"}
    BY <1>1, <1>3, <1>4, <1>7 DEF FormInv, FormsInTurn
  <1>8. CASE SaveState(c, s)
    <2>1. /\ currentState' = s /\ currentPassword' = currentPassword /\ vault' = vault
          /\ currentPassword # None /\ Begin(c, "SAVE_STATE", s, currentPassword)
      BY <1>8 DEF SaveState
    <2>2. WorkerInv'
      <3>1. "SAVE_STATE" \in AsyncKinds /\ "SAVE_STATE" # "UNLOCK" /\ "SAVE_STATE" # "SETUP"
        BY DEF AsyncKinds
      <3>2. currentPassword \in Passwords
        BY <1>2, <2>1 DEF WorkerInv, WorkerTypeOK
      <3>3. calls[c] = Idle /\ answer' = NoAnswer
            /\ calls' = [calls EXCEPT ![c] = [kind |-> "SAVE_STATE", stored |-> FALSE, state |-> s, password |-> currentPassword]]
        BY <2>1 DEF Begin
      <3> QED BY <1>2, <1>4, <1>5, <2>1, <3>1, <3>2, <3>3, BeginKeepsWorker
    <2>3. /\ calls'[c].kind = "SAVE_STATE" /\ calls[c].kind = "IDLE"
          /\ \A d \in Calls : d # c => calls'[d] = calls[d]
      BY <1>2, <2>1, BeginOne
    <2>4. FormAwaits'
      BY <1>1, <1>3, <1>4, <2>3 DEF FormInv, FormAwaits, IsRequest
    <2>5. ASSUME Patient' PROVE FormsInTurn' /\ ShownIsServed'
      <3>1. \A d \in Calls : calls'[d].kind \in {"SETUP", "UNLOCK"} => form'.call = d
        BY <1>1, <1>7, <2>3, <2>5 DEF FormsInTurn
      <3>2. FormsInTurn'
        BY <1>1, <1>7, <2>1, <2>5, <3>1 DEF FormsInTurn
      <3>3. ShownIsServed'
        BY <1>1, <1>7, <2>1, <2>5, NobodyAwaits DEF ShownIsServed, GotState, GotUnlocked
      <3> QED BY <3>2, <3>3
    <2> QED BY <1>6, <2>2, <2>4, <2>5 DEF PopupInv, FormInv
  <1>9. CASE RefuseSave
    <2>1. Calm
      BY <1>9, CalmSteps
    <2>2. WorkerInv'
      BY <1>2, <1>4, <2>1, CalmKeepsWorker
    <2>3. vault' = vault /\ calls' = calls /\ SecretsKeptOrGone
      BY <2>1 DEF Calm
    <2>4. currentState' = None
      BY <1>2, <1>9 DEF RefuseSave, Reply, LockIfExpired, Lock, session, secrets, WorkerInv, MessagesCarry
    <2>5. FormAwaits'
      BY <1>1, <1>3, <1>4, <2>3 DEF FormInv, FormAwaits, IsRequest
    <2>6. ASSUME Patient' PROVE FormsInTurn' /\ ShownIsServed'
      <3>1. FormsInTurn'
        BY <1>1, <1>7, <2>3, <2>6 DEF FormsInTurn, SecretsKeptOrGone
      <3> QED BY <2>4, <3>1 DEF ShownIsServed
    <2> QED BY <1>6, <2>2, <2>5, <2>6 DEF PopupInv, FormInv
  <1> QED BY <1>1, <1>8, <1>9

LEMMA StoreVaultKeepsForm ==
    ASSUME WorkerInv, FormInv, NEW c \in Calls, StoreVault(c), UNCHANGED popup
    PROVE  FormInv'
  <1> DEFINE m == calls[c]
             new == [m EXCEPT !.stored = TRUE]
  <1>1. /\ open' = open /\ store' = store /\ locked' = locked /\ hasVault' = hasVault /\ init' = init
        /\ form' = form /\ mishaps' = mishaps
    BY DEF popup
  <1>2. /\ m.kind \in {"SETUP", "SAVE_STATE"} /\ ~m.stored /\ calls' = [calls EXCEPT ![c] = new]
        /\ currentState' = currentState /\ currentPassword' = currentPassword
    BY DEF StoreVault, session, secrets
  <1>3. m \in Messages /\ calls \in [Calls -> Messages]
    BY DEF WorkerInv, WorkerTypeOK
  <1>4. new.kind = m.kind /\ new.stored = TRUE
    <2> HIDE DEF m
    <2> QED BY <1>3 DEF Messages
  <1>5. /\ calls'[c].kind = calls[c].kind /\ calls'[c].stored = TRUE
        /\ \A d \in Calls : d # c => calls'[d] = calls[d]
    <2> HIDE DEF new
    <2> QED BY <1>2, <1>3, <1>4
  <1>6. \A d \in Calls : calls'[d].kind = calls[d].kind
    BY <1>5
  <1>7. PopupFits' /\ FormAwaits'
    BY <1>1, <1>6 DEF FormInv, PopupFits, FormAwaits, IsRequest, GotState, GotUnlocked
  <1>8. ASSUME Patient' PROVE FormsInTurn /\ FormsInTurn' /\ ShownIsServed'
    <2>1. FormsInTurn /\ ShownIsServed
      BY <1>1, <1>8 DEF FormInv, Patient
    <2>2. FormsInTurn'
      BY <1>1, <1>2, <1>6, <2>1 DEF FormsInTurn
    <2> QED BY <1>1, <1>2, <2>1, <2>2 DEF ShownIsServed, GotState, GotUnlocked, Shown
  <1> QED BY <1>7, <1>8 DEF FormInv

\* The message c ends, answered to the form that awaits it, with the session opened or left.
LEMMA EndKeepsForm ==
    ASSUME WorkerInv, FormInv, NEW c \in Calls, calls[c].kind \in AsyncKinds,
           calls' = [calls EXCEPT ![c] = Idle], vault' = vault, mishaps \subseteq mishaps',
           Patient' => Patient,
           NEW outcome \in {"success", "refused"}, NEW data,
           form' = (IF form.call = c THEN Answered(form.kind, outcome, data) ELSE form),
           UNCHANGED <<open, store, locked, hasVault, init>>,
           outcome = "success" /\ calls[c].kind = "UNLOCK" => data = calls[c].state /\ calls[c].state # None,
           \/ /\ calls[c].kind \in {"SETUP", "UNLOCK"} /\ outcome = "success"
              /\ currentState' = calls[c].state
              /\ calls[c].kind = "SETUP" => calls[c].stored
           \/ /\ currentState' = currentState /\ currentPassword' = currentPassword
              /\ calls[c].kind = "SAVE_STATE" \/ (outcome = "refused" /\ ~calls[c].stored)
    PROVE  FormInv'
  <1> DEFINE r == Answered(form.kind, outcome, data)
  <1>1. IsRequest(r) /\ r.call = None /\ r.kind = form.kind /\ r.outcome = outcome /\ r.data = data
    BY NobodyAwaits
  <1> HIDE DEF r
  <1>2. form' = IF form.call = c THEN r ELSE form
    BY DEF r
  <1>3. /\ calls'[c] = Idle /\ calls'[c].kind = "IDLE"
        /\ \A d \in Calls : d # c => calls'[d] = calls[d]
    BY DEF WorkerInv, WorkerTypeOK, Idle
  <1>4. form.call = c => form.outcome = "none" /\ form.kind \in {"SETUP", "UNLOCK"} /\ calls[c].kind = form.kind
    BY PopupAssumption DEF FormInv, FormAwaits
  <1>5. form'.kind = form.kind /\ form'.call # c /\ (form = Nobody => form' = Nobody)
    BY <1>1, <1>2, NobodyAwaits, PopupAssumption
  <1>6. PopupFits'
    <2>1. GotUnlocked' => Unspoilt(form'.data, mishaps)
      <3>1. CASE form.call = c
        <4>1. calls[c].state # None => Unspoilt(calls[c].state, mishaps)
          BY DEF WorkerInv, WorkerFits
        <4> QED BY <1>1, <1>2, <1>4, <3>1, <4>1 DEF GotUnlocked
      <3>2. CASE form.call # c
        BY <1>2, <3>2 DEF FormInv, PopupFits, GotUnlocked
      <3> QED BY <3>1, <3>2
    <2>2. /\ Unspoilt(store', mishaps')
          /\ GotState' => Unspoilt(init'.data, mishaps')
      BY FitsLonger DEF FormInv, PopupFits, GotState
    <2>3. GotUnlocked' => Unspoilt(form'.data, mishaps')
      BY <2>1, FitsLonger
    <2> QED BY <2>2, <2>3 DEF PopupFits
  <1>7. FormAwaits'
    <2>1. IsRequest(init)' /\ IsRequest(form)' /\ form'.call \in Calls \cup {None}
      BY <1>1, <1>2 DEF FormInv, FormAwaits, IsRequest
    <2>2. form'.call # None =>
             form'.outcome = "none" /\ form'.kind \in {"SETUP", "UNLOCK"} /\ calls'[form'.call].kind = form'.kind
      BY <1>1, <1>2, <1>3, <2>1 DEF FormInv, FormAwaits
    <2>3. (~open' => form' = Nobody /\ init' = Nobody)
      BY <1>5 DEF FormInv, FormAwaits
    <2> QED BY <2>1, <2>2, <2>3 DEF FormAwaits
  <1>8. ASSUME Patient' PROVE FormsInTurn /\ FormsInTurn' /\ ShownIsServed'
    <2>1. FormsInTurn /\ ShownIsServed
      BY <1>8 DEF FormInv
    <2>0. (Shown' <=> Shown) /\ (GotState' <=> GotState) /\ init' = init /\ store' = store
      BY DEF Shown, GotState
    <2>2. calls[c].kind \in {"SETUP", "UNLOCK"} => form.call = c
      BY <2>1 DEF FormsInTurn
    <2>3. \A d \in Calls : calls'[d].kind \in {"SETUP", "UNLOCK"} => form'.call = d
      BY <1>2, <1>3, <2>1 DEF FormsInTurn
    <2>4. form.kind = "LOCK" => currentState' = None /\ currentPassword' = None
      BY <1>4, <2>1, <2>2 DEF FormsInTurn
    <2>5. FormsInTurn'
      BY <1>5, <2>1, <2>3, <2>4 DEF FormsInTurn
    <2>6. CASE calls[c].kind \in {"SETUP", "UNLOCK"} /\ outcome = "success" /\ currentState' = calls[c].state
      <3>1. form.call = c /\ form.kind = calls[c].kind /\ form' = r /\ form # Nobody
        BY <1>2, <1>4, <2>2, <2>6, NobodyAwaits, PopupAssumption
      <3>2. init = Nobody
        BY <2>1, <3>1 DEF FormsInTurn
      <3>4. ~Shown
        BY <2>1, <2>6, <3>1 DEF FormsInTurn, Shown
      <3>5. ~GotState
        BY <3>2, NobodyAwaits DEF GotState
      <3>3. calls[c].kind = "SETUP" => calls[c].state = EmptyState
        BY DEF WorkerInv, MessagesCarry
      <3>6. GotUnlocked' => form'.data = currentState'
        BY <1>1, <2>6, <3>1 DEF GotUnlocked
      <3>7. form'.kind = "SETUP" => currentState' = EmptyState
        BY <1>1, <2>6, <3>1, <3>3
      <3>8. ShownIsServed'
        BY <2>0, <3>4, <3>5, <3>6, <3>7 DEF ShownIsServed
      <3> QED BY <2>1, <2>5, <3>8
    <2>7. CASE /\ currentState' = currentState
               /\ calls[c].kind = "SAVE_STATE" \/ (outcome = "refused" /\ ~calls[c].stored)
      <3>1. form' = form \/ form'.outcome = "refused"
        BY <1>1, <1>2, <1>4, <2>7
      <3>2. (GotUnlocked' => GotUnlocked /\ form' = form) /\ (form'.outcome = "success" => form' = form)
        BY <3>1 DEF GotUnlocked
      <3>3. ShownIsServed'
        BY <2>0, <2>1, <2>7, <3>2 DEF ShownIsServed
      <3> QED BY <2>1, <2>5, <3>3
    <2> QED BY <2>1, <2>5, <2>6, <2>7
  <1> QED BY <1>6, <1>7, <1>8 DEF FormInv

LEMMA WorkerFinishesKeeps ==
    ASSUME PopupInv, NEW c \in Calls, WorkerFinishes(c)
    PROVE  PopupInv'
  <1>0. WorkerInv /\ FormInv
    BY DEF PopupInv
  <1>1. CASE StoreVault(c) /\ UNCHANGED popup
    <2>1. mishaps' = mishaps
      BY <1>1 DEF popup
    <2> QED BY <1>0, <1>1, <2>1, StoreKeepsWorker, StoreVaultKeepsForm DEF PopupInv
  <1>2. CASE FinishSetup(c) /\ Answers(c, "success", None) /\ UNCHANGED mishaps
    <2>1. WorkerInv'
      BY <1>0, <1>2, FinishKeepsWorker
    <2>2. /\ calls[c].kind = "SETUP" /\ calls[c].stored /\ currentState' = calls[c].state
          /\ calls' = [calls EXCEPT ![c] = Idle] /\ vault' = vault
      BY <1>2 DEF FinishSetup, End
    <2>3. /\ form' = (IF form.call = c THEN Answered(form.kind, "success", None) ELSE form)
          /\ UNCHANGED <<open, store, locked, hasVault, init>>
      BY <1>2 DEF Answers
    <2>4. FormInv'
      <3>1. calls[c].kind \in AsyncKinds /\ mishaps \subseteq mishaps' /\ (Patient' => Patient)
        BY <1>2, <2>2 DEF AsyncKinds, Patient
      <3> QED BY <1>0, <1>2, <2>2, <2>3, <3>1, EndKeepsForm
    <2> QED BY <2>1, <2>4 DEF PopupInv
  <1>3. CASE FinishUnlock(c) /\ Answers(c, "success", calls[c].state) /\ UNCHANGED mishaps
    <2>1. WorkerInv'
      BY <1>0, <1>3, FinishKeepsWorker
    <2>2. /\ calls[c].kind = "UNLOCK" /\ calls[c].state # None /\ currentState' = calls[c].state
          /\ calls' = [calls EXCEPT ![c] = Idle] /\ vault' = vault
      BY <1>3 DEF FinishUnlock, End
    <2>3. /\ form' = (IF form.call = c THEN Answered(form.kind, "success", calls[c].state) ELSE form)
          /\ UNCHANGED <<open, store, locked, hasVault, init>>
      BY <1>3 DEF Answers
    <2>4. FormInv'
      <3>1. calls[c].kind \in AsyncKinds /\ mishaps \subseteq mishaps' /\ (Patient' => Patient)
        BY <1>3, <2>2 DEF AsyncKinds, Patient
      <3> QED BY <1>0, <1>3, <2>2, <2>3, <3>1, EndKeepsForm
    <2> QED BY <2>1, <2>4 DEF PopupInv
  <1>4. CASE FinishSave(c) /\ UNCHANGED popup
    <2>1. /\ open' = open /\ store' = store /\ locked' = locked /\ hasVault' = hasVault /\ init' = init
          /\ form' = form /\ mishaps' = mishaps
      BY <1>4 DEF popup
    <2>2. WorkerInv'
      BY <1>0, <1>4, <2>1, FinishKeepsWorker
    <2>3. /\ calls[c].kind = "SAVE_STATE" /\ currentState' = currentState /\ currentPassword' = currentPassword
          /\ calls' = [calls EXCEPT ![c] = Idle] /\ vault' = vault
      BY <1>4 DEF FinishSave, End, secrets
    <2>4. form.call # c
      BY <1>0, <2>3, PopupAssumption DEF FormInv, FormAwaits
    <2>5. FormInv'
      <3>1. calls[c].kind \in AsyncKinds /\ mishaps \subseteq mishaps' /\ (Patient' => Patient)
        BY <2>1, <2>3 DEF AsyncKinds, Patient
      <3>2. form' = (IF form.call = c THEN Answered(form.kind, "refused", None) ELSE form)
        BY <2>1, <2>4
      <3> QED BY <1>0, <2>1, <2>3, <3>1, <3>2, EndKeepsForm
    <2> QED BY <2>2, <2>5 DEF PopupInv
  <1>5. CASE FailCall(c) /\ Answers(c, "refused", None) /\ mishaps' = mishaps \cup {"failed"}
    <2>1. WorkerInv'
      BY <1>0, <1>5, FinishKeepsWorker
    <2>2. /\ calls[c].kind \in AsyncKinds /\ ~calls[c].stored
          /\ currentState' = currentState /\ currentPassword' = currentPassword
          /\ calls' = [calls EXCEPT ![c] = Idle] /\ vault' = vault
      BY <1>5 DEF FailCall, End, session, secrets
    <2>3. /\ form' = (IF form.call = c THEN Answered(form.kind, "refused", None) ELSE form)
          /\ UNCHANGED <<open, store, locked, hasVault, init>>
      BY <1>5 DEF Answers
    <2>4. FormInv'
      <3>1. mishaps \subseteq mishaps' /\ (Patient' => Patient)
        BY <1>5 DEF Patient
      <3> QED BY <1>0, <2>2, <2>3, <3>1, EndKeepsForm
    <2> QED BY <2>1, <2>4 DEF PopupInv
  <1> QED BY <1>1, <1>2, <1>3, <1>4, <1>5 DEF WorkerFinishes

LEMMA LostAnswer ==
    ASSUME NEW r, IsRequest(r)
    PROVE  LET u == Undefined(r)
           IN  /\ IsRequest(u) /\ u.kind = r.kind /\ u.call = (IF r = Nobody THEN r.call ELSE None)
               /\ r = Nobody => u = Nobody
               /\ r # Nobody => u.outcome = "lost"
  <1>1. CASE r = Nobody
    BY <1>1 DEF Undefined
  <1>2. CASE r # Nobody
    BY <1>2, NobodyAwaits DEF Undefined
  <1> QED BY <1>1, <1>2

LEMMA WorkerStopsKeeps ==
    ASSUME PopupInv, WorkerStops
    PROVE  PopupInv'
  <1>1. /\ Restart /\ mishaps' = mishaps /\ init' \in {init, Undefined(init)}
        /\ form' \in IF form.outcome = "none" THEN {Undefined(form)} ELSE {form, Undefined(form)}
        /\ open' = open /\ store' = store /\ locked' = locked /\ hasVault' = hasVault
    BY DEF WorkerStops
  <1>2. WorkerInv /\ FormInv
    BY DEF PopupInv
  <1>3. WorkerInv'
    BY <1>1, <1>2, RestartKeepsWorker
  <1>4. currentState' = None /\ currentPassword' = None /\ \A c \in Calls : calls'[c] = Idle
    BY <1>1 DEF Restart
  <1>5. IsRequest(init) /\ IsRequest(form)
    BY <1>2 DEF FormInv, FormAwaits
  <1>6. /\ IsRequest(init)' /\ init'.kind = init.kind /\ (init = Nobody <=> init' = Nobody)
        /\ init' = init \/ init'.outcome = "lost"
    BY <1>1, <1>5, LostAnswer, NobodyAwaits DEF IsRequest
  <1>7. /\ IsRequest(form)' /\ form'.kind = form.kind /\ (form = Nobody => form' = Nobody)
        /\ form' = form \/ form'.outcome = "lost"
    BY <1>1, <1>5, LostAnswer, NobodyAwaits DEF IsRequest
  <1>8. form'.call = None
    <2>1. Undefined(form).call = None
      BY <1>5, LostAnswer, NobodyAwaits
    <2>2. form.outcome # "none" => form.call = None
      BY <1>2 DEF FormInv, FormAwaits
    <2> QED BY <1>1, <2>1, <2>2
  <1>9. PopupFits'
    <2>1. mishaps \subseteq mishaps'
      BY <1>1
    <2>2. (GotState' => GotState /\ init' = init) /\ (GotUnlocked' => GotUnlocked /\ form' = form)
      BY <1>6, <1>7 DEF GotState, GotUnlocked
    <2>3. Unspoilt(store', mishaps')
      BY <1>1, <1>2, <2>1, FitsLonger DEF FormInv, PopupFits
    <2> QED BY <1>2, <2>1, <2>2, <2>3, FitsLonger DEF FormInv, PopupFits
  <1>10. FormAwaits'
    BY <1>1, <1>2, <1>6, <1>7, <1>8 DEF FormInv, FormAwaits
  <1>11. ASSUME Patient' PROVE FormsInTurn' /\ ShownIsServed'
    <2>1. FormsInTurn
      BY <1>1, <1>2, <1>11 DEF FormInv, Patient
    <2>2. FormsInTurn'
      BY <1>1, <1>4, <1>6, <1>7, <2>1 DEF FormsInTurn, Idle
    <2>3. ShownIsServed'
      BY <1>4 DEF ShownIsServed
    <2> QED BY <2>2, <2>3
  <1> QED BY <1>3, <1>9, <1>10, <1>11 DEF PopupInv, FormInv

LEMMA PopupStays == PopupInv /\ [PopupNext]_<<vars, popup>> => PopupInv'
  <1> SUFFICES ASSUME PopupInv, [PopupNext]_<<vars, popup>> PROVE PopupInv'
    OBVIOUS
  <1>1. WorkerInv /\ FormInv
    BY DEF PopupInv
  <1>2. CASE OpenPopup
    <2>1. Calm /\ mishaps \subseteq mishaps'
      BY <1>2, CalmSteps DEF OpenPopup
    <2> QED BY <1>1, <1>2, <2>1, CalmKeepsWorker, OpenKeepsForm DEF PopupInv
  <1>3. CASE Close
    <2>1. Calm /\ mishaps \subseteq mishaps'
      BY <1>3, CalmSteps DEF Close
    <2> QED BY <1>1, <1>3, <2>1, CalmKeepsWorker, CloseKeepsForm DEF PopupInv
  <1>4. CASE InitializeWallet
    <2>1. Calm /\ mishaps \subseteq mishaps'
      BY <1>4, CalmSteps DEF InitializeWallet, NextAnswer, Initialized
    <2> QED BY <1>1, <1>4, <2>1, CalmKeepsWorker, InitializeKeepsForm DEF PopupInv
  <1>5. CASE ClickLock
    <2>1. Calm /\ mishaps \subseteq mishaps'
      BY <1>5, CalmSteps DEF ClickLock
    <2> QED BY <1>1, <1>5, <2>1, CalmKeepsWorker, ClickLockKeepsForm DEF PopupInv
  <1>6. CASE FormAnswered
    <2>1. Calm /\ mishaps \subseteq mishaps'
      BY <1>6, CalmSteps DEF FormAnswered
    <2> QED BY <1>1, <1>6, <2>1, CalmKeepsWorker, FormAnsweredKeepsForm DEF PopupInv
  <1>7. ASSUME NEW c \in Calls, NEW p \in Passwords, SubmitUnlock(c, p) \/ SubmitSetup(c, p) PROVE PopupInv'
    BY <1>7, SubmitUnlockKeeps, SubmitSetupKeeps
  <1>8. ASSUME NEW c \in Calls, NEW s \in EditsOf(store), Edit(c, s) PROVE PopupInv'
    BY <1>8, EditKeeps
  <1>9. ASSUME NEW c \in Calls, WorkerFinishes(c) PROVE PopupInv'
    BY <1>9, WorkerFinishesKeeps
  <1>10. CASE WorkerStops
    BY <1>10, WorkerStopsKeeps
  <1>11. CASE (FireAlarm \/ HandleLockAlarm \/ Tick \/ UNCHANGED vars) /\ UNCHANGED popup
    <2>1. Calm /\ mishaps \subseteq mishaps'
      BY <1>11, CalmSteps DEF popup
    <2> QED BY <1>1, <1>11, <2>1, CalmKeepsWorker, CalmKeepsForm DEF PopupInv
  <1> QED BY <1>2, <1>3, <1>4, <1>5, <1>6, <1>7, <1>8, <1>9, <1>10, <1>11 DEF PopupNext

LEMMA PopupStarts == PopupInit => PopupInv
  <1> SUFFICES ASSUME PopupInit PROVE PopupInv
    OBVIOUS
  <1>1. /\ currentState = None /\ currentPassword = None /\ vault = NoVault /\ answer = NoAnswer
        /\ calls = [c \in Calls |-> Idle]
        /\ open = FALSE /\ store = EmptyState /\ init = Nobody /\ form = Nobody
    BY DEF PopupInit, Init, PopupClosed
  <1>2. WorkerTypeOK
    BY <1>1 DEF WorkerTypeOK, Idle, NoVault, Messages
  <1>3. WorkerFits /\ MessagesCarry /\ VaultThere
    BY <1>1 DEF WorkerFits, MessagesCarry, VaultThere, Idle, NoVault
  <1>4. Single /\ MessagesMatch /\ SavedStateIsDurable /\ ServedIsStored
    BY <1>1 DEF Single, MessagesMatch, SavedStateIsDurable, ServedIsStored, Idle, NoAnswer
  <1>5. PopupFits /\ FormAwaits
    BY <1>1, EmptyFits, NobodyAwaits DEF PopupFits, FormAwaits, GotState, GotUnlocked
  <1>6. FormsInTurn /\ ShownIsServed
    BY <1>1, NobodyAwaits DEF FormsInTurn, ShownIsServed, Idle
  <1> QED BY <1>2, <1>3, <1>4, <1>5, <1>6 DEF PopupInv, WorkerInv, FormInv

LEMMA PopupIsInv == PopupSpec => []PopupInv
  BY PopupStarts, PopupStays, PTL DEF PopupSpec

(***************************************************************************)
(* Whatever is edited in the views, in whatever order, and wherever it was *)
(* sent, stored and loaded from, nothing in the popup, in the worker and   *)
(* in storage refers to a key, an endpoint or an account that was removed. *)
(***************************************************************************)
THEOREM NothingEverDangles == PopupSpec => []NothingDangles
  <1>1. PopupInv => NothingDangles
    BY DEF PopupInv, WorkerInv, WorkerFits, FormInv, PopupFits, Unspoilt, Fits, NothingDangles, Consistent
  <1> QED BY <1>1, PopupIsInv, PTL

(***************************************************************************)
(* What an open popup shows is what the worker serves, and what storage    *)
(* holds once nothing is in flight, and a save that was answered is        *)
(* stored: but for the mishaps ShownIsDurable names.                       *)
(***************************************************************************)
THEOREM ShownIsAlwaysDurable == PopupSpec => []ShownIsDurable
  <1>1. PopupInv => ShownIsDurable
    <2> SUFFICES ASSUME PopupInv PROVE ShownIsDurable
      OBVIOUS
    <2>1. "overlap" \notin mishaps => SavedStateIsDurable
      BY DEF PopupInv, WorkerInv
    <2>2. ASSUME Shown, currentState # None, mishaps \cap {"early", "abandoned"} = {}
          PROVE  /\ store = currentState
                 /\ Alone /\ mishaps \cap {"overlap", "failed"} = {} =>
                        vault = [state |-> store, password |-> currentPassword]
      <3>1. store = currentState
        BY <2>2 DEF PopupInv, FormInv, Patient, ShownIsServed
      <3>2. ASSUME Alone, mishaps \cap {"overlap", "failed"} = {}
            PROVE  vault = [state |-> currentState, password |-> currentPassword]
        <4>1. ServedIsStored
          BY <3>2 DEF PopupInv, WorkerInv
        <4>2. \A c \in Calls : ~SavesUnder(c) /\ ~SetsUp(c)
          BY <3>2 DEF Alone, SavesUnder, SetsUp, Idle
        <4> QED BY <2>2, <4>1, <4>2 DEF ServedIsStored
      <3> QED BY <3>1, <3>2
    <2> QED BY <2>1, <2>2 DEF ShownIsDurable, ShownIsStored
  <1> QED BY <1>1, PopupIsInv, PTL
===========================================================================
