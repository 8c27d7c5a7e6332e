----------------------------- MODULE SwapQuotes -----------------------------
(***************************************************************************)
(* Quotes of the swap contract from a snapshot of a pool: a trade with an  *)
(* exact input, and shares minted or burned.  Everything is in base units. *)
(* A pool has two legs, the second of which is credited the yield that the *)
(* first accrues; yield is the snapshot of the pool's holding.             *)
(***************************************************************************)
EXTENDS Integers

CONSTANTS
    FeeDenominator,     \* 10000
    MaxAssetAmount,     \* 2^62 - 1
    MaxYieldIndex,      \* 2^128 - 1
    YieldIndexScale,    \* 10^12
    Absent              \* a row that is verified to be absent, or not given

ASSUME SwapAssumption ==
    /\ FeeDenominator \in Nat \ {0} /\ YieldIndexScale \in Nat \ {0}
    /\ MaxAssetAmount \in Nat /\ MaxYieldIndex \in Nat

MinimumFee == 1
AddLiquidityFeeBps == 1

Refusal == [ok |-> FALSE]
NoUnits == -1

IsUnsigned(n, maximum) == 0 <= n /\ n <= maximum
IsUnits(n) == IsUnsigned(n, MaxAssetAmount)
ToleranceIsValid(bps) == 0 <= bps /\ bps < FeeDenominator

CeilOf(numerator, denominator) == (numerator + denominator - 1) \div denominator

\* What the holder is owed since its checkpoint; NoUnits if that is refused.
AccruedPoolYield(pool, yield) ==
    LET index == IF yield = Absent \/ yield.index = Absent THEN 0 ELSE yield.index
        account == yield.account
        product == account.balance * (index - account.checkpoint)
        accrued == IF pool.yieldLeg = "none" \/ index = 0 \/ account = Absent THEN 0
                   ELSE account.owed + (product \div YieldIndexScale)
        holds == /\ IsUnits(account.balance) /\ IsUnsigned(account.checkpoint, MaxYieldIndex)
                 /\ account.checkpoint <= index /\ product <= MaxYieldIndex /\ IsUnits(account.owed)
    IN  IF \/ ~IsUnits(pool.second)
           \/ pool.yieldLeg = "second"
           \/ pool.yieldLeg = "first" /\ (yield = Absent \/ ~IsUnsigned(index, MaxYieldIndex))
           \/ pool.yieldLeg = "first" /\ index # 0 /\ account # Absent /\ ~holds
           \/ pool.second + accrued > MaxAssetAmount
        THEN NoUnits ELSE accrued

---------------------------------------------------------------------------
(* A trade.                                                                *)

\* inFirst: the input is of the first leg.
Swap(pool, accrued, inFirst, amount, slippageBps) ==
    LET credited == pool.second + accrued
        poolIn == IF inFirst THEN pool.first ELSE credited
        poolOut == IF inFirst THEN credited ELSE pool.first
        gross == (poolOut * amount) \div (poolIn + amount)
        proportional == (gross * pool.fee) \div FeeDenominator
        fee == IF pool.fee = 0 \/ gross = 0 THEN 0
               ELSE IF proportional > MinimumFee THEN proportional ELSE MinimumFee
    IN  IF /\ ToleranceIsValid(pool.fee) /\ ToleranceIsValid(slippageBps)
           /\ IsUnits(amount) /\ IsUnits(pool.first) /\ IsUnits(pool.second)
           /\ amount # 0 /\ pool.first # 0 /\ pool.second # 0
           /\ accrued # NoUnits /\ poolIn + amount <= MaxAssetAmount
        THEN [ok |-> TRUE, gross |-> gross, fee |-> fee, output |-> gross - fee,
              minimum |-> ((gross - fee) * (FeeDenominator - slippageBps)) \div FeeDenominator,
              accrued |-> accrued]
        ELSE Refusal

QuoteSwap(pool, yield, inFirst, amount, slippageBps) ==
    Swap(pool, AccruedPoolYield(pool, yield), inFirst, amount, slippageBps)

---------------------------------------------------------------------------
(* Shares.                                                                 *)

\* The amounts both quotes start from; the state must be sound.
SnapshotOf(pool, accrued, second, shares, slippageBps) ==
    IF /\ \A n \in {shares, pool.first, pool.second, pool.supply, pool.locked, pool.max} : IsUnits(n)
       /\ accrued # NoUnits
       /\ shares # 0 /\ pool.supply # 0 /\ pool.first # 0 /\ second # 0
       /\ pool.locked <= pool.supply /\ pool.supply <= pool.max
       /\ ToleranceIsValid(slippageBps)
    THEN [ok |-> TRUE, amount |-> shares, total |-> pool.supply, first |-> pool.first,
          second |-> second, accrued |-> accrued, locked |-> pool.locked, max |-> pool.max]
    ELSE Refusal

Snapshot(pool, yield, shares, slippageBps) ==
    LET accrued == AccruedPoolYield(pool, yield)
    IN  SnapshotOf(pool, accrued, pool.second + accrued, shares, slippageBps)

AddLiquidity(state, slippageBps) ==
    LET part(reserve) == CeilOf(reserve * state.amount, state.total)
        fee(units) == CeilOf(units * AddLiquidityFeeBps, FeeDenominator)
        input(reserve) == part(reserve) + fee(part(reserve))
        maximum(reserve) == CeilOf(input(reserve) * (FeeDenominator + slippageBps), FeeDenominator)
    IN  IF /\ state.ok
           /\ state.total + state.amount <= state.max
           /\ state.total + state.amount <= MaxAssetAmount
           /\ \A reserve \in {state.first, state.second} :
                  reserve + input(reserve) <= MaxAssetAmount /\ IsUnits(maximum(reserve))
        THEN [ok |-> TRUE, input1 |-> input(state.first), input2 |-> input(state.second),
              maximum1 |-> maximum(state.first), maximum2 |-> maximum(state.second),
              fee1 |-> fee(part(state.first)), fee2 |-> fee(part(state.second)),
              accrued |-> state.accrued]
        ELSE Refusal

QuoteAddLiquidity(pool, yield, shares, slippageBps) ==
    AddLiquidity(Snapshot(pool, yield, shares, slippageBps), slippageBps)

RemoveLiquidity(state, slippageBps) ==
    LET remaining == state.total - state.amount
        output(reserve) == (reserve * state.amount) \div state.total
        minimum(reserve) == (output(reserve) * (FeeDenominator - slippageBps)) \div FeeDenominator
    IN  IF state.ok /\ remaining > 0 /\ remaining >= state.locked
        THEN [ok |-> TRUE, output1 |-> output(state.first), output2 |-> output(state.second),
              minimum1 |-> minimum(state.first), minimum2 |-> minimum(state.second),
              accrued |-> state.accrued]
        ELSE Refusal

QuoteRemoveLiquidity(pool, yield, shares, slippageBps) ==
    RemoveLiquidity(Snapshot(pool, yield, shares, slippageBps), slippageBps)

---------------------------------------------------------------------------
(* Properties.  What the snapshots of a pool and its yield are: an amount  *)
(* may be out of range, and is refused then.                               *)

PoolRecords ==
    [first : Int, second : Int, fee : Int, yieldLeg : {"none", "first", "second"},
     supply : Int, locked : Int, max : Int]

YieldRecords ==
    [index : Int \cup {Absent},
     account : [balance : Int, checkpoint : Int, owed : Int] \cup {Absent}] \cup {Absent}

\* After a trade the fee may stay in the pool or leave it: the contract's.
Traded(pool, inFirst, amount, quote, left) ==
    LET second == pool.second + quote.accrued
    IN  [pool EXCEPT !.first = IF inFirst THEN @ + amount ELSE @ - left,
                     !.second = IF inFirst THEN second - left ELSE second + amount,
                     !.yieldLeg = "none"]

\* The pool once its yield is credited.
Accrued(pool, quote) == [pool EXCEPT !.second = @ + quote.accrued, !.yieldLeg = "none"]

ProductOf(pool) == pool.first * pool.second

SameTrade(q, r) ==
    q.ok = r.ok /\ q.gross = r.gross /\ q.fee = r.fee /\ q.output = r.output /\ q.minimum = r.minimum

\* What TradesKeepTheProduct says of one trade, of which left leaves the pool.
NothingIsTaken(pool, inFirst, amount, slip, quote, left) ==
    LET after == Traded(pool, inFirst, amount, quote, left)
        back == QuoteSwap(after, Absent, ~inFirst, quote.output, slip)
    IN  /\ after.first > 0 /\ after.second > 0
        /\ ProductOf(after) >= ProductOf(Accrued(pool, quote))
        /\ back.ok => back.output <= amount

TradeKeepsTheProduct(pool, yield, inFirst, amount, slip) ==
    LET quote == QuoteSwap(pool, yield, inFirst, amount, slip)
    IN  quote.ok =>
            /\ SameTrade(QuoteSwap(Accrued(pool, quote), Absent, inFirst, amount, slip), quote)
            /\ 0 <= quote.minimum /\ quote.minimum <= quote.output /\ quote.output <= quote.gross
            /\ \A left \in {quote.output, quote.gross} : NothingIsTaken(pool, inFirst, amount, slip, quote, left)

\* before has the leg second once its yield is credited.
WorthIsKept(second, before, after) ==
    /\ after.first * before.supply >= before.first * after.supply
    /\ after.second * before.supply >= second * after.supply

Resized(pool, first, second, shares) ==
    [pool EXCEPT !.first = first, !.second = second, !.supply = @ + shares, !.yieldLeg = "none"]

\* pool is minted shares as add says; second is its leg with its yield.
MintedKeepsWorth(pool, second, add, shares, slip) ==
    LET minted == Resized(pool, pool.first + add.input1, second + add.input2, shares)
        back == QuoteRemoveLiquidity(minted, Absent, shares, slip)
    IN  /\ WorthIsKept(second, pool, minted)
        /\ add.maximum1 >= add.input1 /\ add.maximum2 >= add.input2
        /\ back.ok /\ back.output1 <= add.input1 /\ back.output2 <= add.input2

BurnedKeepsWorth(pool, second, remove, shares, slip) ==
    LET burned == Resized(pool, pool.first - remove.output1, second - remove.output2, -shares)
        again == QuoteAddLiquidity(burned, Absent, shares, slip)
    IN  /\ WorthIsKept(second, pool, burned)
        /\ remove.minimum1 <= remove.output1 /\ remove.minimum2 <= remove.output2
        /\ burned.supply > 0 /\ burned.supply >= pool.locked
        /\ again.ok => again.input1 >= remove.output1 /\ again.input2 >= remove.output2

SharesKeepWorth(pool, yield, shares, slip) ==
    LET add == QuoteAddLiquidity(pool, yield, shares, slip)
        remove == QuoteRemoveLiquidity(pool, yield, shares, slip)
        second == pool.second + AccruedPoolYield(pool, yield)
    IN  /\ add.ok => MintedKeepsWorth(pool, second, add, shares, slip)
        /\ remove.ok => BurnedKeepsWorth(pool, second, remove, shares, slip)
=============================================================================
