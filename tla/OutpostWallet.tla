--------------------------- MODULE OutpostWallet ---------------------------
(***************************************************************************)
(* A wallet's operations on an outpost, on Ethereum and on Solana: deposit *)
(* of the native coin for liquid tokens, syndication of those, withdrawal  *)
(* by a request and, when its receipt is ready, a claim, and the           *)
(* commitment of a node-owner slot.  An operation reads the chain in       *)
(* several requests, decides, asks for a signature and waits for its       *)
(* transaction, while the chain moves on and another operation is under    *)
(* way.                                                                    *)
(*                                                                         *)
(* The chain is what these clients see of one account; its contracts are   *)
(* external.                                                               *)
(***************************************************************************)
EXTENDS Integers, Sequences, FiniteSets

CONSTANTS
    WalletCalls,        \* operations under way
    Amounts,
    Deployments,        \* of "ethereum", "ethereumV2", "solana", "solanaLegacy"
    MinDeposit, MinRequest, MaxSyndication,
    DepositFee,         \* Solana: on top of the amount
    MinCredited,        \* Ethereum: least syndication, in depot units
    CreditScale,        \* and what such a unit is worth: a power of ten
    ShareSize,          \* liquid tokens of one share
    WithdrawDelay,
    MaxMoves            \* what else happens on the chain

ASSUME OutpostWalletAssumption ==
    /\ Amounts \subseteq Nat \ {0} /\ \E n \in Amounts : \A m \in Amounts : m <= n
    /\ {MinDeposit, MinRequest, MaxSyndication, DepositFee, MinCredited, WithdrawDelay, MaxMoves} \subseteq Nat
    /\ {CreditScale, ShareSize} \subseteq Nat \ {0}
    /\ Deployments \subseteq {"ethereum", "ethereumV2", "solana", "solanaLegacy"}

VARIABLES
    deployment,
    chain,          \* the latest block
    calls,
    mempool,        \* transactions of the account, in the order of its nonces
    moves

wallet == <<deployment, chain, calls, mempool, moves>>

Ethereum == deployment \in {"ethereum", "ethereumV2"}
Solana == ~Ethereum

Operations ==
    ({"deposit", "syndicate", "request"} \X Amounts)
        \cup {<<"claim", r.id>> : r \in chain.receipts}
        \cup (IF Ethereum THEN ({"approve"} \X Amounts) \cup {<<"commit", 0>>} ELSE {})

NotCalled == [op |-> "none", arg |-> 0, step |-> "idle"]

---------------------------------------------------------------------------
(* Reading.                                                                *)

\* What an operation reads; approve reads nothing.
Reads(op) ==
    CASE op = "deposit" -> {"tokenPaused", "native"}
      [] op = "syndicate" -> {"tokenPaused", "poolPaused", "liquid", "allowance"}
      [] op = "request" -> {"tokenPaused", "liquid"}
      [] op = "claim" -> {"claimPaused", "payout", "time", "receipts"}
      [] op = "commit" -> {"approved"}
      [] OTHER -> {}

\* Ethereum's withdrawals are read at the block the operation started with.
Pinned(op) == Ethereum /\ op \in {"request", "claim"}

Observed(call) == IF Pinned(call.op) THEN call.block ELSE chain

Read(call, fields) ==
    [f \in DOMAIN call.seen \cup fields |->
        IF f \in DOMAIN call.seen THEN call.seen[f] ELSE Observed(call)[f]]

---------------------------------------------------------------------------
(* Deciding.                                                               *)

\* The least amount that is credited, in liquid tokens.
MinimumSyndication ==
    IF Ethereum THEN (IF MinCredited = 0 THEN 1 ELSE MinCredited) * CreditScale ELSE 1

Deposits(a, seen) ==
    /\ ~seen.tokenPaused
    /\ a >= MinDeposit
    /\ (IF Solana THEN a + DepositFee ELSE a) < seen.native

\* Mutant: the allowance is not looked at.
SyndicatesUnapproved(a, seen) ==
    /\ ~seen.tokenPaused /\ ~seen.poolPaused
    /\ MinimumSyndication <= a /\ a <= seen.liquid /\ a <= MaxSyndication

Syndicates(a, seen) ==
    /\ ~seen.tokenPaused /\ ~seen.poolPaused
    /\ MinimumSyndication <= a /\ a <= seen.liquid /\ a <= MaxSyndication
    /\ Ethereum => seen.allowance >= a

Requests(a, seen) ==
    /\ ~seen.tokenPaused /\ a <= seen.liquid
    /\ Solana => a >= MinRequest

\* V2 has no pause of claims; Solana's receipts are paid from a reserve that
\* the serviceable epoch stands for.
Claims(id, seen) ==
    \E r \in seen.receipts :
        /\ r.id = id /\ r.mine
        /\ seen.time >= r.readyAt
        /\ deployment # "ethereumV2" => ~seen.claimPaused
        /\ Ethereum => seen.payout >= r.amount

Admitted(call) ==
    CASE call.op = "deposit" -> Deposits(call.arg, call.seen)
      [] call.op = "syndicate" -> Syndicates(call.arg, call.seen)
      [] call.op = "request" -> Requests(call.arg, call.seen)
      [] call.op = "claim" -> Claims(call.arg, call.seen)
      [] OTHER -> TRUE

\* The first transaction of a call: node owners are asked to approve first.
FirstTransaction(call) ==
    [op |-> IF call.op = "commit" /\ ~call.seen.approved THEN "approval" ELSE call.op,
     arg |-> call.arg, receipt |-> call.receipt]

---------------------------------------------------------------------------
(* The contracts.                                                          *)

Succeeds(tx, c) ==
    CASE tx.op = "deposit" ->
             ~c.tokenPaused /\ tx.arg >= MinDeposit /\ tx.arg + (IF Solana THEN DepositFee ELSE 0) < c.native
      [] tx.op = "syndicate" ->
             /\ ~c.tokenPaused /\ ~c.poolPaused /\ tx.arg <= c.liquid /\ tx.arg <= MaxSyndication
             /\ Ethereum => /\ tx.arg <= c.allowance
                            /\ tx.arg \div CreditScale > 0 /\ tx.arg \div CreditScale >= MinCredited
      [] tx.op = "request" ->
             /\ ~c.tokenPaused /\ tx.arg <= c.liquid
             /\ Ethereum => tx.arg \div ShareSize > 0
             /\ Solana => tx.arg >= MinRequest
             /\ deployment = "solanaLegacy" => tx.receipt = c.nextReceiptId
      [] tx.op = "claim" ->
             \E r \in c.receipts : /\ r.id = tx.arg /\ r.mine /\ c.time >= r.readyAt
                                   /\ deployment # "ethereumV2" => ~c.claimPaused
                                   /\ Ethereum => c.payout >= r.amount
      [] tx.op = "commit" -> c.approved /\ c.slots > 0
      [] OTHER -> TRUE

Effect(tx, c) ==
    CASE tx.op = "deposit" ->
             [c EXCEPT !.native = @ - tx.arg - (IF Solana THEN DepositFee ELSE 0), !.liquid = @ + tx.arg]
      [] tx.op = "approve" -> [c EXCEPT !.allowance = tx.arg]
      [] tx.op = "syndicate" ->
             [c EXCEPT !.liquid = @ - tx.arg, !.allowance = IF Ethereum THEN @ - tx.arg ELSE @]
      [] tx.op = "request" ->
             [c EXCEPT !.liquid = @ - tx.arg, !.nextReceiptId = @ + 1,
                       !.receipts = @ \cup {[id |-> c.nextReceiptId, amount |-> tx.arg,
                                             readyAt |-> c.time + WithdrawDelay, mine |-> TRUE]}]
      [] tx.op = "claim" ->
             LET r == CHOOSE r \in c.receipts : r.id = tx.arg
             IN  [c EXCEPT !.receipts = @ \ {r}, !.native = @ + r.amount,
                           !.payout = IF Ethereum THEN @ - r.amount ELSE @]
      [] tx.op = "approval" -> [c EXCEPT !.approved = TRUE]
      [] tx.op = "commit" -> [c EXCEPT !.slots = @ - 1]

\* What the outcome of a call depends on.
Relevant(call, c) ==
    CASE call.op = "deposit" -> <<c.tokenPaused, c.native>>
      [] call.op = "syndicate" -> <<c.tokenPaused, c.poolPaused, c.liquid, c.allowance>>
      [] call.op = "request" -> <<c.tokenPaused, c.liquid, (deployment = "solanaLegacy" => c.nextReceiptId = call.receipt)>>
      [] call.op = "claim" -> <<c.claimPaused, c.payout, {r \in c.receipts : r.id = call.arg}>>
      [] call.op = "commit" -> <<c.slots, c.approved>>
      [] OTHER -> <<>>

InProgress(call) == call.step \notin {"idle", "done"}

\* The chain becomes c; the calls under way that depend on what changed are
\* marked.  A commit's own approval is not such a change.
Becomes(c, others) ==
    /\ chain' = c
    /\ calls' = [i \in WalletCalls |->
                    IF InProgress(others[i]) /\ Relevant(others[i], c) # Relevant(others[i], chain)
                       /\ ~(others[i].op = "commit" /\ c = [chain EXCEPT !.approved = TRUE])
                    THEN [others[i] EXCEPT !.changed = TRUE] ELSE others[i]]

---------------------------------------------------------------------------
(* An operation, step by step.                                             *)

At(i, step) == calls[i].step = step

\* Some of the requests are answered before the chain goes on, the others not.
\* The slots and receipts a caller offers are those the client listed.
Start(i, op, arg, fields) ==
    /\ At(i, "idle")
    /\ op = "commit" => chain.slots > 0
    /\ LET call == [op |-> op, arg |-> arg, step |-> "reading", block |-> chain, seen |-> << >>,
                    receipt |-> 0, changed |-> FALSE, result |-> "none"]
       IN  calls' = [calls EXCEPT ![i] = [call EXCEPT !.seen = Read(call, fields)]]
    /\ UNCHANGED <<deployment, chain, mempool, moves>>

Finish(i, result) == [calls EXCEPT ![i].step = "done", ![i].result = result]

ReadRest(i) ==
    /\ At(i, "reading")
    /\ LET call == [calls[i] EXCEPT !.seen = Read(calls[i], Reads(calls[i].op))]
       IN  calls' = [calls EXCEPT ![i] =
                        IF ~Admitted(call) THEN [call EXCEPT !.step = "done", !.result = "thrown"]
                        ELSE [call EXCEPT !.step = IF call.op = "request" THEN "building" ELSE "signing"]]
    /\ UNCHANGED <<deployment, chain, mempool, moves>>

\* Ethereum tries the request on the latest block, which tells the shares it
\* burns; legacy Solana programs number the receipts.
Build(i) ==
    /\ At(i, "building")
    /\ calls' = IF Ethereum /\ ~Succeeds([op |-> "request", arg |-> calls[i].arg], chain)
                THEN Finish(i, "thrown")
                ELSE [calls EXCEPT ![i].step = "signing",
                                   ![i].receipt = IF deployment = "solanaLegacy" THEN chain.nextReceiptId ELSE 0]
    /\ UNCHANGED <<deployment, chain, mempool, moves>>

Sign(i) ==
    /\ At(i, "signing")
    /\ mempool' = Append(mempool, [call |-> i, tx |-> FirstTransaction(calls[i])])
    /\ calls' = [calls EXCEPT ![i].step = "waiting"]
    /\ UNCHANGED <<deployment, chain, moves>>

RefuseToSign(i) ==
    /\ At(i, "signing")
    /\ calls' = Finish(i, "refused")
    /\ UNCHANGED <<deployment, chain, mempool, moves>>

\* The first transaction is mined.  After its approval a commit goes on.
Mine ==
    /\ mempool # <<>>
    /\ LET i == Head(mempool).call
           tx == Head(mempool).tx
           ok == Succeeds(tx, chain)
       IN  /\ Becomes(IF ok THEN Effect(tx, chain) ELSE chain,
                      IF tx.op = "approval"
                      THEN [calls EXCEPT ![i].step = "signing", ![i].seen = [approved |-> TRUE]]
                      ELSE Finish(i, IF ok THEN "succeeded" ELSE "reverted"))
           /\ mempool' = Tail(mempool)
    /\ UNCHANGED <<deployment, moves>>

\* A Solana transaction whose block hash is too old is never executed.
Expire ==
    /\ Solana /\ mempool # <<>>
    /\ calls' = Finish(Head(mempool).call, "expired")
    /\ mempool' = Tail(mempool)
    /\ UNCHANGED <<deployment, chain, moves>>

---------------------------------------------------------------------------
(* What else happens on the chain.                                         *)

\* The blocks that may follow: time passes, something is paused or not, the
\* payer is funded or pays others, a receipt is given away, liquid tokens are
\* spent or an approval withdrawn elsewhere, another user requests.
Elsewhere ==
    {[chain EXCEPT !.time = @ + 1], [chain EXCEPT !.tokenPaused = ~@], [chain EXCEPT !.poolPaused = ~@],
     [chain EXCEPT !.claimPaused = ~@], [chain EXCEPT !.nextReceiptId = @ + 1],
     [chain EXCEPT !.liquid = IF @ = 0 THEN 0 ELSE @ - 1]}
        \cup {[chain EXCEPT !.receipts = (@ \ {r}) \cup {[r EXCEPT !.mine = FALSE]}] : r \in chain.receipts}
        \cup (IF Solana THEN {}
              ELSE {[chain EXCEPT !.approved = FALSE]} \cup {[chain EXCEPT !.payout = n] : n \in Amounts \cup {0}})

Move(c) ==
    /\ moves < MaxMoves
    /\ c # chain
    /\ Becomes(c, calls)
    /\ moves' = moves + 1
    /\ UNCHANGED <<deployment, mempool>>

---------------------------------------------------------------------------
MaxOf(S) == CHOOSE n \in S : \A m \in S : m <= n

WInit ==
    /\ deployment \in Deployments
    /\ chain = [time |-> 0, native |-> MaxOf(Amounts), liquid |-> MaxOf(Amounts), allowance |-> 0,
                tokenPaused |-> FALSE, poolPaused |-> FALSE, claimPaused |-> FALSE,
                payout |-> MaxOf(Amounts), receipts |-> {[id |-> 1, amount |-> 1, readyAt |-> WithdrawDelay, mine |-> TRUE]},
                nextReceiptId |-> 2, approved |-> FALSE, slots |-> 1]
    /\ calls = [i \in WalletCalls |-> NotCalled]
    /\ mempool = <<>>
    /\ moves = 0

WNext ==
    \/ \E i \in WalletCalls :
        \/ \E o \in Operations : \E fields \in SUBSET Reads(o[1]) : Start(i, o[1], o[2], fields)
        \/ ReadRest(i) \/ Build(i) \/ Sign(i) \/ RefuseToSign(i)
    \/ Mine \/ Expire
    \/ \E c \in Elsewhere : Move(c)

WSpec == WInit /\ [][WNext]_wallet

---------------------------------------------------------------------------
(* Properties.                                                             *)

(***************************************************************************)
(* A transaction that the client has let the user sign fails only if       *)
(* something it depends on changed while the call was under way; and the   *)
(* client refuses only what the contracts would have refused at its start. *)
(***************************************************************************)
QuietCallsAgree ==
    \A i \in WalletCalls :
        calls[i].step = "done" /\ ~calls[i].changed =>
            /\ calls[i].result # "reverted"
            /\ calls[i].result = "thrown" =>
                   ~Succeeds([op |-> calls[i].op, arg |-> calls[i].arg, receipt |-> calls[i].block.nextReceiptId],
                             calls[i].block)

(***************************************************************************)
(* "Exact wallet and queue state observed at one Ethereum block": whatever *)
(* the chain does between the requests, what a withdrawal was decided on   *)
(* is one block.                                                           *)
(***************************************************************************)
ReadAtOneBlock ==
    \A i \in WalletCalls :
        calls[i].step \in {"building", "signing", "waiting", "done"} /\ Pinned(calls[i].op) =>
            \A f \in Reads(calls[i].op) : calls[i].seen[f] = calls[i].block[f]

(***************************************************************************)
(* What a call of the outpost clients decided on is what one block of the  *)
(* chain had, and what they ask a user to sign is what would succeed: the  *)
(* two statements above.                                                   *)
(***************************************************************************)
CallsAgree == QuietCallsAgree /\ ReadAtOneBlock
=============================================================================
