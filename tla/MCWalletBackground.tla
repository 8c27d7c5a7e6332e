------------------------ MODULE MCWalletBackground ------------------------
(***************************************************************************)
(* TLC instances of WalletBackground.                                      *)
(***************************************************************************)
EXTENDS WalletBackground

\* One account whose first key is stored.
WithKey == [keys |-> KeyIds, endpoints |-> {},
            accounts |-> [a \in AccountIds |->
                [name |-> CHOOSE n \in Names : TRUE,
                 keys |-> <<CHOOSE k \in KeyIds : TRUE>>, endpoints |-> <<>>]],
            active |-> None]

MCStates == {EmptyState, WithKey}

\* Wallets are set up, also over each other, in the first hour; what is saved
\* has an account; the clock is set back while no message is in flight.
MCNext ==
    /\ Next
    /\ \A c \in Calls : calls'[c].kind # calls[c].kind =>
           /\ calls'[c].kind = "SETUP" => now = 0
           /\ calls'[c].kind = "SAVE_STATE" => calls'[c].state = WithKey
    /\ now' < now => \A c \in Calls : calls[c] = Idle

MCSpec == Init /\ [][MCNext]_vars /\ Fairness
===========================================================================
