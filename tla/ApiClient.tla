----------------------------- MODULE ApiClient -----------------------------
(***************************************************************************)
(* APIClient.pushTransaction: the ABIs of the actions, the header, the     *)
(* signature, the push and the wait for finality are requests one after    *)
(* the other, while blocks are produced, branches change, contracts are    *)
(* upgraded and the signer is replaced.                                    *)
(*                                                                         *)
(* All calls ask for actions of one contract.  The bytes of an action are  *)
(* represented by the ABI that encoded them, an ABI by its generation.     *)
(***************************************************************************)
EXTENDS Integers, Sequences, FiniteSets

CONSTANTS
    Pushes,             \* the calls of pushTransaction
    Forms,              \* the forms in which each gives its actions
    Final,              \* the calls with wait_final
    Keys,               \* the signers
    KeyType,            \* the type of a signer's key
    Nobody,             \* no signer
    SecondsAhead,       \* until a transaction expires
    BlocksPerSecond,
    FirstBlock,         \* the head at first
    MaxHead,            \* bound: the last block
    MaxMishaps          \* bound: changes of branch, contract and signer

ASSUME ApiAssumption ==
    /\ Nobody \notin Keys
    /\ KeyType \in [Keys -> {"K1", "R1", "EM", "ED"}]
    /\ {SecondsAhead, BlocksPerSecond, FirstBlock, MaxHead} \subseteq Nat \ {0}
    /\ MaxMishaps \in Nat
    /\ Forms \in [Pushes -> Seq({"string", "name", "encoded"})]
    /\ Final \subseteq Pushes

VARIABLES
    push,               \* what a call is at
    signer,             \* the client's signer
    request,            \* the push requests at the node
    head, lib,          \* the last block, and the last irreversible one
    generation,         \* of the contract's ABI
    included,           \* the transactions in blocks
    forks, mishaps

node == <<request, head, lib, generation, included, forks>>
api == <<push, signer, node, mishaps>>

\* known: the ABI found by the account's string, 0 if none is.
Idle == [stage |-> "idle", encoded |-> <<>>, known |-> 0,
         keyType |-> "none", signedBy |-> Nobody, tx |-> <<>>, block |-> 0,
         began |-> [generation |-> 0, signer |-> Nobody, head |-> 0]]

ApiInit ==
    /\ push = [p \in Pushes |-> Idle]
    /\ signer \in Keys \cup {Nobody}
    /\ request = [p \in Pushes |-> "none"]
    /\ head = FirstBlock /\ lib = FirstBlock - 1
    /\ generation = 1
    /\ included = {}
    /\ forks = 0 /\ mishaps = 0

---------------------------------------------------------------------------
(* Answers.                                                                *)

\* call: what is not an APIError.
Accepts(response) == response.status \div 100 = 2 /\ ~response.error

\* The responses of a node that refuses, and of one that accepts.
Refusals == {[status |-> 200, error |-> TRUE], [status |-> 500, error |-> TRUE],
             [status |-> 404, error |-> FALSE]}
Acceptance == [status |-> 202, error |-> FALSE]

---------------------------------------------------------------------------
(* buildSignedTransaction.                                                 *)

\* The type of the signature is decided before the first request.
PushTransaction(p) ==
    /\ push[p].stage = "idle"
    /\ push' = [push EXCEPT ![p] =
           IF signer = Nobody THEN [Idle EXCEPT !.stage = "failed"]
           ELSE [Idle EXCEPT
                    !.stage = "abi",
                    !.keyType = KeyType[signer],
                    !.began = [generation |-> generation, signer |-> signer, head |-> head]]]
    /\ UNCHANGED <<signer, node, mishaps>>

(***************************************************************************)
(* anyToAction: one action.  The ABIs that are known are found by the      *)
(* account as given: a string finds itself, a Name only the same object.   *)
(* An action with encoded data needs the contract's ABI all the same, and  *)
(* keeps its data.                                                         *)
(***************************************************************************)
Current(p) == Forms[p][Len(push[p].encoded) + 1]

Encode(p, abi) ==
    push' = [push EXCEPT
        ![p].known = IF Current(p) = "string" THEN abi ELSE @,
        ![p].encoded = Append(@, IF Current(p) = "encoded" THEN push[p].began.generation ELSE abi),
        ![p].stage = IF Len(push[p].encoded) + 1 = Len(Forms[p]) THEN "info" ELSE @]

AnyToAction(p) ==
    /\ push[p].stage = "abi"
    /\ IF Current(p) = "string" /\ push[p].known # 0
       THEN Encode(p, push[p].known)
       ELSE Encode(p, generation)
    /\ UNCHANGED <<signer, node, mishaps>>

\* getTransactionHeader: seconds are rounded, so that blocks share them.
Seconds(block) == (2 * block + BlocksPerSecond) \div (2 * BlocksPerSecond)

Header == [expires |-> Seconds(head) + SecondsAhead, ref |-> lib]

\* The signer that signs, and adds its key, is the one there is now.
Transaction(p) ==
    [header |-> Header, actions |-> push[p].encoded,
     extension |-> IF push[p].keyType = "ED" THEN {signer} ELSE {}]

GetInfoAndSign(p) ==
    /\ push[p].stage = "info"
    /\ push' = [push EXCEPT ![p].stage = "pushing", ![p].tx = Transaction(p),
                                    ![p].signedBy = signer]
    /\ request' = [request EXCEPT ![p] =
           IF KeyType[signer] = push[p].keyType THEN "signed" ELSE "misSigned"]
    /\ UNCHANGED <<signer, head, lib, generation, included, forks, mishaps>>

---------------------------------------------------------------------------
(* The node, modelled from how it is used.                                 *)

Expired(tx) == Seconds(head) > tx.header.expires
Included(tx) == \E i \in included : i.tx = tx
Decodes(tx) == \A n \in 1..Len(tx.actions) : tx.actions[n] = generation

\* A request is executed in the next block, if its transaction is not refused;
\* bytes of another ABI may mean something to the contract.
ProcessPush(p) ==
    LET tx == push[p].tx
    IN  \/ /\ request[p] = "signed" /\ ~Expired(tx) /\ ~Included(tx)
           /\ request' = [request EXCEPT ![p] = "executed"]
           /\ included' = included \cup {[tx |-> tx, block |-> head + 1]}
           /\ push' = [push EXCEPT ![p].block = head + 1]
        \/ /\ \/ request[p] = "misSigned"
              \/ request[p] = "signed" /\ (Expired(tx) \/ Included(tx) \/ ~Decodes(tx))
           /\ request' = [request EXCEPT ![p] = "refused"]
           /\ UNCHANGED <<included, push>>

\* A block may make all blocks before it irreversible.
ProduceBlock ==
    /\ head < MaxHead
    /\ head' = head + 1
    /\ lib' \in {lib, head}
    /\ UNCHANGED <<push, request, included, generation, signer, forks, mishaps>>

\* Another branch from block b on: its transactions are in it again, or not.
SwitchBranch(b) ==
    /\ b \in lib + 1..head + 1
    /\ LET undone == {i \in included : i.block >= b}
       IN  \E again \in SUBSET undone :
               included' = (included \ undone)
                   \cup {[i EXCEPT !.block = IF @ = head + 1 THEN @ ELSE @ + 1] : i \in again}
    /\ forks' = forks + 1
    /\ UNCHANGED <<push, request, head, lib, generation, signer>>

UpgradeContract ==
    /\ generation' = generation + 1
    /\ UNCHANGED <<push, request, head, lib, included, signer, forks>>

\* setSigner
SetSigner(s) ==
    /\ signer' = s
    /\ UNCHANGED <<push, node>>

Mishap ==
    /\ mishaps < MaxMishaps
    /\ mishaps' = mishaps + 1
    /\ \/ \E b \in 1..MaxHead + 1 : SwitchBranch(b)
       \/ UpgradeContract
       \/ \E s \in Keys \ {signer} : SetSigner(s)

---------------------------------------------------------------------------
(* push_transaction and awaitBlock.                                        *)

ReceivePushed(p) ==
    /\ push[p].stage = "pushing"
    /\ \E response \in CASE request[p] = "executed" -> {Acceptance}
                         [] request[p] = "refused" -> Refusals
                         [] OTHER -> {} :
           push' = [push EXCEPT ![p].stage =
                        IF ~Accepts(response) THEN "failed"
                        ELSE IF p \in Final THEN "awaiting" ELSE "ok"]
    /\ UNCHANGED <<signer, node, mishaps>>

\* Mutant: waits for the head.
AwaitHead(p) ==
    /\ push[p].stage = "awaiting"
    /\ head >= push[p].block
    /\ push' = [push EXCEPT ![p].stage = "ok"]
    /\ UNCHANGED <<signer, node, mishaps>>

\* Polls until the number of the block is irreversible.
AwaitBlock(p) ==
    /\ push[p].stage = "awaiting"
    /\ lib >= push[p].block
    /\ push' = [push EXCEPT ![p].stage = "ok"]
    /\ UNCHANGED <<signer, node, mishaps>>

\* One of the requests is refused, lost, or not answered in time; waiting, the
\* deadline passes as well.
Fail(p) ==
    /\ push[p].stage \in {"abi", "info", "pushing", "awaiting"}
    /\ push' = [push EXCEPT ![p] =
           IF @.stage \in {"abi", "info"} THEN [Idle EXCEPT !.stage = "failed"]
           ELSE [@ EXCEPT !.stage = "failed"]]
    /\ UNCHANGED <<signer, node, mishaps>>

ApiNext ==
    \/ \E p \in Pushes : PushTransaction(p)
    \/ \E p \in Pushes : AnyToAction(p)
    \/ \E p \in Pushes : GetInfoAndSign(p)
    \/ \E p \in Pushes : ProcessPush(p) /\ UNCHANGED <<signer, head, lib, generation, forks, mishaps>>
    \/ \E p \in Pushes : ReceivePushed(p)
    \/ \E p \in Pushes : AwaitBlock(p)
    \/ \E p \in Pushes : Fail(p)
    \/ ProduceBlock
    \/ Mishap

\* Requests time out (FetchProvider), and so does the wait.
ApiFairness == \A p \in Pushes : WF_api(AnyToAction(p) \/ GetInfoAndSign(p) \/ Fail(p))

ApiSpec == ApiInit /\ [][ApiNext]_api /\ ApiFairness

---------------------------------------------------------------------------
(* Properties.                                                             *)

(***************************************************************************)
(* A call that returns has had a transaction of its own executed, where    *)
(* and, if it waited, as finally as it says, unless branches changed: what *)
(* is awaited is the number of the block.                                  *)
(***************************************************************************)
ReturnedIsExecuted ==
    \A p \in Pushes : push[p].stage = "ok" =>
        /\ forks = 0 => [tx |-> push[p].tx, block |-> push[p].block] \in included
        /\ p \in Final => push[p].block <= lib
        /\ forks = 0 => \A q \in Pushes \ {p} :
               request[q] = "executed" => push[q].tx # push[p].tx

(***************************************************************************)
(* The node refuses a transaction only if, since the call began, time has  *)
(* passed, the contract or the signer was replaced, or another call had    *)
(* the same transaction executed.                                          *)
(***************************************************************************)
RefusedForACause ==
    \A p \in Pushes : request[p] = "refused" =>
        \/ Seconds(head) > Seconds(push[p].began.head) + SecondsAhead
        \/ generation # push[p].began.generation
        \/ push[p].signedBy # push[p].began.signer
        \/ \E q \in Pushes \ {p} : push[q].tx = push[p].tx /\ request[q] = "executed"

\* Actions given for one account string are encoded by one ABI.
EncodedAlike ==
    \A p \in Pushes : \A m, n \in 1..Len(push[p].encoded) :
        Forms[p][m] = "string" /\ Forms[p][n] = "string" =>
            push[p].encoded[m] = push[p].encoded[n]

AnswersAreTrue == ReturnedIsExecuted /\ RefusedForACause /\ EncodedAlike

\* Every call of pushTransaction ends, whether the node answers or not.
PushesEnd == \A p \in Pushes : push[p].stage # "idle" ~> push[p].stage \in {"ok", "failed"}
=============================================================================
