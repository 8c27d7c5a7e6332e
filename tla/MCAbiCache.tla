----------------------------- MODULE MCAbiCache -----------------------------
(* TLC instances of AbiCache and of ApiClient, which ask the same node and *)
(* share nothing: one run checks one beside the other at rest.             *)
EXTENDS AbiCache, ApiClient

VARIABLE part   \* what is called

\* Actions as callers give them.
MCForms == [p \in Pushes |-> IF p \in Final THEN <<"string", "string">> ELSE <<"encoded", "name">>]

\* A key of each of two types.
MCKeyTypes == [k \in Keys |-> IF k = "ed" THEN "ED" ELSE "K1"]

MCInit ==
    /\ part \in {"cache", "client"}
    /\ Init
    /\ ApiInit /\ (part = "cache" => signer = Nobody)

MCNext ==
    /\ UNCHANGED part
    /\ \/ part = "cache" /\ Next /\ UNCHANGED api
       \/ part = "client" /\ ApiNext /\ UNCHANGED vars

MCSpec == MCInit /\ [][MCNext]_<<vars, api, part>> /\ Fairness /\ ApiFairness

(***************************************************************************)
(* Every lookup of an ABI and every push of a transaction ends, whether    *)
(* the node answers or not.                                                *)
(***************************************************************************)
CallsEnd == LookupsSettle /\ PushesEnd
=============================================================================
