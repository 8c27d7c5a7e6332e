--------------------------- MODULE MCWalletPopup ---------------------------
(* TLC instances of WalletPopup: a new wallet, and one with an account.       *)
EXTENDS WalletPopup, TLC

CONSTANT MaxEvents

MCStates == {EmptyState}

Account1(keys) == [name |-> CHOOSE n \in Names : TRUE, keys |-> keys, endpoints |-> <<CHOOSE e \in EndpointIds : TRUE>>]

\* Its account, a1, lists both keys or one.
Prepared ==
    {[state |-> Select([keys |-> KeyIds, endpoints |-> EndpointIds, accounts |-> [a \in AccountIds |-> Account1(l)],
                        active |-> None], CHOOSE a \in AccountIds : TRUE),
      password |-> CHOOSE p \in Passwords : TRUE] : l \in Picks(KeyIds)}

MCPopupInit ==
    /\ vault \in {NoVault} \cup Prepared
    /\ currentState = None /\ currentPassword = None
    /\ lockDeadlineMs = NoTime /\ alarm = NoTime /\ alarmEvent = FALSE
    /\ calls = [c \in Calls |-> Idle] /\ rivals = FALSE
    /\ now = 0 /\ setBacks = 0 /\ lastActive = 0
    /\ answer = NoAnswer
    /\ PopupClosed

\* Of edits, stops of the worker and hours, MaxEvents in all.
MCPopupNext == PopupNext /\ edits' + lost' + now' <= MaxEvents

MCPopupSpec == MCPopupInit /\ [][MCPopupNext]_<<vars, popup>>
===========================================================================
