----------------------- MODULE MCOutpostsAndPeers -----------------------
(***************************************************************************)
(* The outposts' clients: the verification that makes one, or, once it is  *)
(* made, two of its operations; or the listeners of a peer's client.  They *)
(* share nothing: one run checks one beside the others at rest.            *)
(* Operations are interchangeable, and so are handlers.                    *)
(***************************************************************************)
EXTENDS OutpostWallet, OutpostVerification, P2PClient, TLC

VARIABLE phase

Interchangeable == Permutations(WalletCalls) \cup Permutations(Handlers)

\* Two of the implementations have the same code.
MCTemplate == [old |-> "t1", new |-> "t2", newest |-> "t2"]

\* Two suites of the same interfaces, and one of others.
MCSuites ==
    << [interfaces |-> "v2", templates |-> [queue |-> "t2", token |-> "t2"]],
       [interfaces |-> "v1", templates |-> [queue |-> "t1", token |-> "t2"]],
       [interfaces |-> "v1", templates |-> [queue |-> "t1", token |-> "t1"]] >>

MCProfiles ==
    [family : {"ethereum", "solana"}, interfaces : {"v1", "v2", "v3"}, implementation : [Contracts -> Implementations]]

MCProfile == [family |-> "ethereum", interfaces |-> "v1", implementation |-> [queue |-> "old", token |-> "old"]]

\* The other module's state while one of them moves.
Verified == VInit /\ profile = MCProfile /\ live = profile.implementation
Idling == WInit /\ deployment = "ethereum"

MCInit ==
    /\ ClientInit
    /\ \/ phase = "verifying" /\ VInit /\ Idling
       \/ phase = "operating" /\ WInit /\ Verified
       \/ phase = "emitting" /\ Idling /\ Verified

MCNext ==
    /\ UNCHANGED phase
    /\ \/ phase = "verifying" /\ VNext /\ UNCHANGED <<wallet, listeners>>
       \/ phase = "operating" /\ WNext /\ UNCHANGED <<verification, listeners>>
       \/ phase = "emitting" /\ ClientNext /\ UNCHANGED <<wallet, verification>>

MCSpec == MCInit /\ [][MCNext]_<<wallet, verification, listeners, phase>>
=============================================================================
