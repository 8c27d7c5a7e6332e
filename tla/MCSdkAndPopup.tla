--------------------------- MODULE MCSdkAndPopup ---------------------------
(* The popup of the extension, or one of the SDK's parts.  They share nothing: *)
(* one run checks one beside the other at rest.                                *)
EXTENDS MCSdk, MCWalletPopup

VARIABLE part   \* what is checked

MCInit ==
    /\ part \in {"sdk", "popup"}
    /\ MCSdkInit /\ (part = "popup" => abi = CHOOSE n \in AbiSizes : TRUE)
    /\ MCPopupInit /\ (part = "sdk" => vault = NoVault)

MCNext ==
    /\ UNCHANGED part
    /\ \/ part = "sdk" /\ MCSdkNext /\ UNCHANGED <<vars, popup>>
       \/ part = "popup" /\ MCPopupNext /\ UNCHANGED <<requestVars, input>>

MCSpec == MCInit /\ [][MCNext]_<<requestVars, input, vars, popup, part>>
=============================================================================
