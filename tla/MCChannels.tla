----------------------------- MODULE MCChannels -----------------------------
(***************************************************************************)
(* TLC instances of three things that queue what others wait for: requests *)
(* of a page, messages of a peer, records of a log file.  They share       *)
(* nothing: one run checks one beside the others at rest.                  *)
(***************************************************************************)
EXTENDS WalletProvider, P2PEnvelope, FileLog

VARIABLE part   \* what is checked

\* The empty message, two that look like prefixes, and one that is too long:
\* bytes of two values, and prefixes of two bytes that say up to three.
MCPayloads == {<<>>, <<1>>, <<0, 1>>, <<1, 0, 1>>}

MCInit == part \in {"provider", "p2p", "file"} /\ ProviderInit /\ EnvelopeInit /\ FileInit

MCNext ==
    /\ UNCHANGED part
    /\ \/ part = "provider" /\ ProviderNext /\ UNCHANGED <<envelopeVars, fileVars>>
       \/ part = "p2p" /\ EnvelopeNext /\ UNCHANGED <<providerVars, fileVars>>
       \/ part = "file" /\ FileNext /\ UNCHANGED <<providerVars, envelopeVars>>

MCSpec ==
    /\ MCInit /\ [][MCNext]_<<providerVars, envelopeVars, fileVars, part>>
    /\ ProviderFairness /\ EnvelopeFairness /\ FileFairness
=============================================================================
