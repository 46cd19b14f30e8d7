------------------------------ MODULE Execution ------------------------------
(***************************************************************************)
(* The transactions of a block: spillBlockEvents and assembleEvmBlock       *)
(* (gossip/consensus_callbacks.go), Process and ApplyTransaction            *)
(* (evmcore/state_processor.go), TransitionDb (state_transition.go), and    *)
(* what DeliverTxs and EndBlock make of the receipts (app/app.go,           *)
(* scores.go).                                                              *)
(*                                                                         *)
(* Events of several validators may hold the same transaction, in any       *)
(* order of nonces.  Process never fails: a transaction that cannot be      *)
(* executed is skipped, and nothing is rolled back, so no error may come    *)
(* after the first change of the state.  The EVM is external: it moves the  *)
(* value or fails, and leaves some gas.  Gas is a machine word.             *)
(***************************************************************************)
EXTENDS Integers, Sequences, FiniteSets, SequencesExt, FiniteSetsExt

CONSTANTS
    Account, Contract,      \* Contract \in Account: where a creation puts its value
    Create,                 \* the recipient of a creation: no address
    Tx,                     \* records [from, to, nonce, gas, price, value, nonZero, zero]
    Creators,               \* the creators of the block's events, in their order
    Funds,                  \* [Account -> Nat]: balances at the start
    Bits,                   \* Bound: the width of uint64
    TxGas, TxGasContractCreation, NonZeroGas, ZeroGas, MinGasPrice,
    EventGas,               \* of an event beside its transactions: itself, parents, extra data
    BlockGasHardLimit,
    Refunds,                \* Bound: refund counters
    MaxTxs                  \* Bound: transactions of a block

VARIABLES
    balance, nonce,     \* statedb
    gp,                 \* the block's GasPool
    block,              \* <<>>, or <<[events, txs, at, receipts, skipped, totalFee]>>
    scores,             \* [dirty, active]: creator -> origination score
    burnt,              \* [epoch, last]: total fees of the blocks of this and of the last epoch
    panic               \* "none", "gas" (AddGas) or "index" (out of range)

vars == <<balance, nonce, gp, block, scores, burnt, panic>>

MaxUint64 == 2^Bits - 1
SumOf(f(_), S) == MapThenSumSet(f, S)

-----------------------------------------------------------------------------
(***************************************************************************)
(* What an event must pass: basiccheck                                     *)
(***************************************************************************)
ErrOutOfGas == -1

IntrinsicGas(tx) ==
    LET base == IF tx.to = Create THEN TxGasContractCreation ELSE TxGas
        with == base + tx.nonZero * NonZeroGas
    IN  IF (MaxUint64 - base) \div NonZeroGas < tx.nonZero THEN ErrOutOfGas
        ELSE IF (MaxUint64 - with) \div ZeroGas < tx.zero THEN ErrOutOfGas
        ELSE with + tx.zero * ZeroGas

validateTx(tx) ==
    /\ IntrinsicGas(tx) # ErrOutOfGas
    /\ tx.gas >= IntrinsicGas(tx)
    /\ tx.price >= MinGasPrice

-----------------------------------------------------------------------------
(***************************************************************************)
(* The block: the last events whose gas fits, their transactions in order, *)
(* and for each transaction the first event that holds it.                 *)
(***************************************************************************)
CalcGasPowerUsed(e) == FoldLeft(LAMBDA s, tx : s + tx.gas, EventGas, e.txs)

spillBlockEvents(events) ==
    LET sum(i) == SumOf(LAMBDA j : CalcGasPowerUsed(events[j]), i..Len(events))
        kept == {i \in 1..Len(events) : sum(i) <= BlockGasHardLimit}
    IN  IF kept = {} THEN <<>> ELSE SubSeq(events, Min(kept), Len(events))

\* The events once more at the end change no position.
txPositions(events, tx) ==
    events[Min({i \in DOMAIN events : Contains(events[i].txs, tx)})].creator

NewBlock(events) ==
    /\ LET kept == spillBlockEvents(events)
       IN  block' = <<[events |-> kept, at |-> 1, receipts |-> <<>>, skipped |-> <<>>, totalFee |-> 0,
                       txs |-> FlattenSeq([i \in DOMAIN kept |-> kept[i].txs])]>>
    /\ gp' = MaxUint64
    /\ UNCHANGED <<balance, nonce, scores, burnt, panic>>

-----------------------------------------------------------------------------
(***************************************************************************)
(* The EVM on a state W == [balance, nonce, gp]: the value moves to the    *)
(* recipient, or the call fails and the state is as before it.             *)
(***************************************************************************)
World == [balance |-> balance, nonce |-> nonce, gp |-> gp]
Payee(tx) == IF tx.to = Create THEN Contract ELSE tx.to
Moved(W, tx) ==
    [W EXCEPT !.balance = [[@ EXCEPT ![tx.from] = @ - tx.value] EXCEPT ![Payee(tx)] = @ + tx.value]]

\* Bound: all gas is used, or none.
Evm(W, tx, gas) ==
    IF W.balance[tx.from] < tx.value
    THEN {[vmerr |-> "ErrInsufficientBalance", left |-> gas, refund |-> 0, world |-> W]}
    ELSE LET V == IF tx.to = Create THEN [W EXCEPT !.nonce[tx.from] = @ + 1] ELSE W
         IN  [vmerr : {"reverted"}, left : {0, gas}, refund : {0}, world : {V}]
             \cup [vmerr : {"none"}, left : {0, gas}, refund : Refunds, world : {Moved(V, tx)}]

-----------------------------------------------------------------------------
(***************************************************************************)
(* TransitionDb.  The result holds the state it leaves, with an error too. *)
(***************************************************************************)
Failure(W) == [err |-> TRUE, world |-> W, used |-> 0, fee |-> 0, panic |-> "none"]

preCheck(W, tx) ==
    /\ W.nonce[tx.from] = tx.nonce
    /\ W.balance[tx.from] >= tx.gas * tx.price
    /\ W.gp >= tx.gas

buyGas(W, tx) ==
    [W EXCEPT !.gp = @ - tx.gas, !.balance[tx.from] = @ - tx.gas * tx.price]

refund(tx, left, counter) == left + Min({(tx.gas - left) \div 2, counter})

Fee(tx, left, gas) == (tx.gas - gas) * tx.price

Executed(tx, o) ==
    LET left == o.left - o.left \div 10
        gas == refund(tx, left, o.refund)
        W == o.world
    IN  [err |-> FALSE, used |-> tx.gas - gas, fee |-> Fee(tx, left, gas),
         panic |-> IF W.gp > MaxUint64 - gas THEN "gas" ELSE "none",
         world |-> [W EXCEPT !.balance[tx.from] = @ + gas * tx.price, !.gp = @ + gas]]

\* The results that the EVM's outcomes give
TransitionDb(W, tx) ==
    IF ~preCheck(W, tx) THEN {Failure(W)}
    ELSE LET B == buyGas(W, tx)
             N == IF tx.to = Create THEN B ELSE [B EXCEPT !.nonce[tx.from] = @ + 1]
         IN  IF IntrinsicGas(tx) = ErrOutOfGas \/ tx.gas < IntrinsicGas(tx) THEN {Failure(B)}
             ELSE {IF o.vmerr = "ErrInsufficientBalance" THEN Failure(o.world) ELSE Executed(tx, o) :
                      o \in Evm(N, tx, tx.gas - IntrinsicGas(tx))}

\* Mutant: only the nonce is looked at beforehand.
PreCheckNonce(W, tx) == W.nonce[tx.from] = tx.nonce

TransactionPreCheck(W, tx) ==
    /\ W.nonce[tx.from] = tx.nonce
    /\ W.balance[tx.from] >= tx.gas * tx.price + tx.value

ApplyTransaction(W, tx) ==
    IF TransactionPreCheck(W, tx) THEN TransitionDb(W, tx) ELSE {Failure(W)}

\* One round of Process
Process ==
    /\ block # <<>> /\ panic = "none"
    /\ block[1].at <= Len(block[1].txs)
    /\ LET b == block[1]
           tx == b.txs[b.at]
       IN  \E r \in ApplyTransaction(World, tx) :
             /\ balance' = r.world.balance /\ nonce' = r.world.nonce /\ gp' = r.world.gp
             /\ panic' = r.panic
             /\ block' = <<IF r.err THEN [b EXCEPT !.at = @ + 1, !.skipped = Append(@, b.at)]
                           ELSE [b EXCEPT !.at = @ + 1, !.totalFee = @ + r.fee,
                                          !.receipts = Append(@, [tx |-> tx, gasUsed |-> r.used])]>>
    /\ UNCHANGED <<scores, burnt>>

-----------------------------------------------------------------------------
(***************************************************************************)
(* DeliverTxs, EndBlock                                                    *)
(***************************************************************************)
\* Mutant: the list of skipped transactions is compared one ahead.
filterSkippedAhead(b) ==
    FoldLeft(LAMBDA f, i : IF f.skips < Len(b.skipped) /\ b.skipped[f.skips + 1] = i + 1
                           THEN [f EXCEPT !.skips = @ + 1] ELSE [f EXCEPT !.txs = Append(@, b.txs[i])],
             [skips |-> 0, txs |-> <<>>], [i \in 1..Len(b.txs) |-> i]).txs

filterSkippedTxs(b) ==
    FoldLeft(LAMBDA f, i : IF f.skips < Len(b.skipped) /\ b.skipped[f.skips + 1] = i
                           THEN [f EXCEPT !.skips = @ + 1] ELSE [f EXCEPT !.txs = Append(@, b.txs[i])],
             [skips |-> 0, txs |-> <<>>], [i \in 1..Len(b.txs) |-> i]).txs

\* The fee is computed from the transaction and the receipt at the same place.
AddDirtyOriginationScores(b, txs) ==
    [c \in DOMAIN scores.dirty |-> scores.dirty[c] +
        SumOf(LAMBDA i : b.receipts[i].gasUsed * txs[i].price,
              {i \in DOMAIN txs : txPositions(b.events, b.receipts[i].tx) = c})]

NoScores == [c \in ToSet(Creators) |-> 0]

MoveDirtyOriginationScoresToActive(dirty) == [dirty |-> NoScores, active |-> dirty]

updateOriginationScores(b, txs, seal) ==
    LET dirty == AddDirtyOriginationScores(b, txs)
    IN  IF seal THEN MoveDirtyOriginationScoresToActive(dirty) ELSE [scores EXCEPT !.dirty = dirty]

\* Whether the block seals the epoch is decided in App.
EndBlock(seal) ==
    /\ block # <<>> /\ panic = "none"
    /\ block[1].at > Len(block[1].txs)
    /\ LET b == block[1]
           txs == filterSkippedTxs(b)
       IN  IF Len(txs) > Len(b.receipts)
           THEN panic' = "index" /\ UNCHANGED <<block, scores, burnt>>
           ELSE /\ scores' = updateOriginationScores(b, txs, seal)
                /\ LET fees == burnt.epoch + b.totalFee
                   IN  burnt' = IF seal THEN [epoch |-> 0, last |-> fees] ELSE [burnt EXCEPT !.epoch = fees]
                /\ block' = <<>>
                /\ UNCHANGED panic
    /\ UNCHANGED <<balance, nonce, gp>>

Init ==
    /\ balance = Funds
    /\ nonce = [a \in Account |-> 0]
    /\ gp = 0
    /\ block = <<>>
    /\ scores = [dirty |-> NoScores, active |-> NoScores]
    /\ burnt = [epoch |-> 0, last |-> 0]
    /\ panic = "none"

\* Events of at most two transactions, each of which passed the check
Valid == {tx \in Tx : validateTx(tx)}
TxLists == {<<>>} \cup {<<t>> : t \in Valid} \cup {<<t, u>> : t, u \in Valid}
Next ==
    \/ /\ block = <<>>
       /\ \E l \in [DOMAIN Creators -> TxLists] :
             /\ Len(FlattenSeq(l)) <= MaxTxs
             /\ NewBlock([i \in DOMAIN l |-> [creator |-> Creators[i], txs |-> l[i]]])
    \/ Process
    \/ \E seal \in BOOLEAN : EndBlock(seal)

Spec == Init /\ [][Next]_vars

-----------------------------------------------------------------------------
(***************************************************************************)
(* What a transaction costs.  One that Process skips has changed nothing,  *)
(* neither its sender's balance and nonce nor the gas of the block: every  *)
(* error of TransitionDb that comes after buyGas is excluded by the checks *)
(* of the event and by TransactionPreCheck ("to avoid spending sender's    *)
(* gas").  One that is executed costs the accounts together exactly the    *)
(* fee that the block reports for it: prepaying, the tenth of the unused   *)
(* gas, the refund and the value create and lose nothing.                  *)
(***************************************************************************)
CostIsFee ==
    block # <<>> /\ block' # <<>> =>
        /\ block'[1].skipped # block[1].skipped => UNCHANGED <<balance, nonce, gp>>
        /\ block'[1].receipts # block[1].receipts =>
              SumOf(LAMBDA a : balance[a] - balance'[a], Account)
                = block'[1].totalFee - block[1].totalFee

(***************************************************************************)
(* All fees of an epoch are credited as origination scores, once, and      *)
(* those of the last epoch are the active ones, although skipped           *)
(* transactions have no receipt, a transaction may be skipped in one event *)
(* and executed from another, and an epoch may seal without fees           *)
(* (filterSkippedTxs, updateOriginationScores).  Neither an index of the   *)
(* receipts is out of range, nor does AddGas of the gas pool overflow.     *)
(***************************************************************************)
FeesCredited ==
    LET Total(f) == SumOf(LAMBDA c : f[c], DOMAIN f)
    IN  /\ panic = "none"
        /\ Total(scores.active) = burnt.last
        /\ Total(scores.dirty) = burnt.epoch
==============================================================================
