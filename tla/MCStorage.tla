----------------------------- MODULE MCStorage ------------------------------
(***************************************************************************)
(* The databases, the application and the tables that outlive an epoch,    *)
(* small instances of which one is picked at the start:                    *)
(*   flush    the pool of databases is flushed and crashes;                *)
(*   iterate  an iterator over a flushable database while it is written;   *)
(*   epochs   the databases of the epochs, their events and heads;         *)
(*   app      blocks with SFC operations, sealings and restarts;           *)
(*   sfc      more blocks of operations on two stakers and a delegation;   *)
(*   gas      the gas power of a validator over events, blocks and epochs; *)
(*   execute  the transactions of a block;                                 *)
(*   migrate  a node starts on the database of an older program.           *)
(* Only the variables of the picked component change.                      *)
(***************************************************************************)
EXTENDS SyncedPool, Sequences

VARIABLES
    scenario,
    kvDisk, modified, iter, writes,
    ring, data, epochDisk, seen, epochPanic,
    db, appMem, panic,
    epoch, group, pending, tip, lastHeaders, refunds, endTime, constants, ctx, account,
    balance, nonce, gp, block, scores, burnt, execPanic,
    migDisk, migMem, program, service, migPanic

kvVars == <<kvDisk, modified, iter, writes>>
epochVars == <<ring, data, epochDisk, seen, epochPanic>>
appVars == <<db, appMem, panic>>
gasVars == <<epoch, group, pending, tip, lastHeaders, refunds, endTime, constants, ctx, account>>
execVars == <<balance, nonce, gp, block, scores, burnt, execPanic>>
migVars == <<migDisk, migMem, program, service, migPanic>>
mcvars == <<scenario, vars, kvVars, epochVars, appVars, gasVars, execVars, migVars>>

-----------------------------------------------------------------------------
\* Changes that make no difference to what is flushed are left out: a key is
\* written at most once between two flushes.
WriteOnce ==
    \A d \in DOMAIN wrappers \cap DOMAIN wrappers' :
        \A k \in DOMAIN wrappers[d].modified :
            k \in DOMAIN wrappers'[d].modified =>
                wrappers'[d].modified[k] = wrappers[d].modified[k]

Kv == INSTANCE KvStore WITH
    disk <- kvDisk, MaxKey <- 3, Value <- {1, 2}, Ranges <- {<<1, 3>>, <<2, 3>>}, Table <- <<1, 2>>

\* Bounds: one write; value 1 is on the disk and value 2 in the tree, key 3 is only on the disk.
KvInit ==
    /\ Kv!Init
    /\ writes = 1
    /\ \A k \in 1..3 : kvDisk[k] # 2 /\ modified[k] # 1
    /\ kvDisk[3] # 0 /\ modified[3] = 0

Epochs == INSTANCE EpochStore WITH
    disk <- epochDisk, panic <- epochPanic,
    Event <- {1, 2, 3, 4}, Creator <- <<"A", "B", "A", "B">>,
    Parents <- <<{}, {}, {1, 2}, {2, 3}>>, RingLen <- 2, MaxEpoch <- 3

Stakers == {1, 2}
FirstStaker == {1}
Delegators == {"d"}

TheApp == INSTANCE App WITH
    mem <- appMem, Staker <- Stakers, Genesis <- FirstStaker, Delegator <- Delegators,
    Amounts <- {1, 2}, MaxEpochBlocks <- 2, MaxEpochDuration <- 3, BlockMissedLatency <- 1, OfflineBlocks <- 2, OfflinePeriod <- 2,
    MaxBlocks <- 3

\* Bounds: all validators take part in a block or none; a block with an operation comes after
\* one tick, and a block with a cheater has no operation.
AppNext ==
    \/ \E dt \in 1..2, op \in TheApp!Ops(db.ledger, appMem.epoch),
          participated \in {{}, TheApp!EpochValidators} :
          /\ dt = 1 \/ op.ledger = db.ledger
          /\ TheApp!ApplyBlock(dt, op, {}, participated)
    \/ \E s \in TheApp!EpochValidators :
          TheApp!ApplyBlock(1, [ledger |-> db.ledger, logs |-> <<>>], {s}, {s})
    \/ TheApp!Restart

Sfc == INSTANCE App WITH
    mem <- appMem, Staker <- Stakers, Genesis <- Stakers, Delegator <- Delegators,
    Amounts <- {2}, MaxEpochBlocks <- 2, MaxEpochDuration <- 6, BlockMissedLatency <- 1,
    OfflineBlocks <- 2, OfflinePeriod <- 2, MaxBlocks <- 6

\* Bounds: the blocks are a tick apart, nobody misses one or cheats, the constants stay.
SfcNext ==
    \/ \E op \in {op \in Sfc!Ops(db.ledger, appMem.epoch) :
                   \A i \in DOMAIN op.logs : op.logs[i][1] # "UpdatedConstants"} :
          Sfc!ApplyBlock(1, op, {}, Sfc!EpochValidators)
    \/ Sfc!Restart

MCStake == [a |-> 2, b |-> 1]
MCAlloc == [short |-> 2, long |-> 3]

Gas == INSTANCE GasPower WITH
    Stake <- MCStake, AllocPerSec <- MCAlloc,
    MinAlloc <- 1, MaxAlloc <- 3, CustomAlloc <- 1, MaxAllocPeriod <- 2, StartupAllocPeriod <- 1,
    MinStartupGas <- 1, MinGasPowerRefund <- 1, Second <- 1, Bits <- 5, MaxGasPowerUsed <- 2,
    EventGas <- 1, MaxTime <- 2, MaxEpoch <- 2, MaxPending <- 1

\* Bounds: only "a" emits events, only "b" may be a cheater, the refunds of an epoch are at most 2.
GasNext ==
    \/ \E used \in 1..2, time \in 0..2 : Gas!Emit("a", used, time)
    \/ \E k \in 0..Len(pending["a"]), r \in 0..1, custom \in {<<>>, <<1>>},
          cheaters \in {{}, {"b"}} \cap SUBSET group, seal \in BOOLEAN :
          /\ refunds[epoch]["a"] + r <= 2
          /\ Gas!Block([a |-> k, b |-> 0], [a |-> r, b |-> 0], custom, 2, cheaters, seal)
    \/ Gas!Restart

MCTx(from, to, n, gas, price, value, nonZero) ==
    [from |-> from, to |-> to, nonce |-> n, gas |-> gas, price |-> price, value |-> value,
     nonZero |-> nonZero, zero |-> 1]

\* A transfer that empties "a" when its second one is executed after it, a creation that
\* competes for the same nonce, one of the least gas, one below it and one out of range.
MCTxs ==
    {MCTx("a", "b", 0, 15, 1, 1, 1), MCTx("a", "b", 1, 4, 2, 9, 0), MCTx("a", "none", 1, 5, 1, 1, 0),
     MCTx("b", "a", 0, 4, 1, 0, 0), MCTx("b", "a", 0, 3, 1, 0, 1), MCTx("b", "a", 0, 3, 2, 0, 30)}

MCFunds == [a |-> 27, b |-> 5, c |-> 0]

Exec == INSTANCE Execution WITH
    panic <- execPanic, Account <- {"a", "b", "c"}, Contract <- "c", Create <- "none", Tx <- MCTxs,
    Creators <- <<"v", "w">>, Funds <- MCFunds, Bits <- 5, TxGas <- 2, TxGasContractCreation <- 3,
    NonZeroGas <- 2, ZeroGas <- 1, MinGasPrice <- 1, EventGas <- 1, BlockGasHardLimit <- 25,
    Refunds <- {0, 6}, MaxTxs <- 3

\* Bound: only empty blocks after one that changed a balance.
ExecNext ==
    \/ (block = <<>> => balance = MCFunds) /\ Exec!Next
    \/ block = <<>> /\ balance # MCFunds /\ Exec!NewBlock(<<>>)

Upgrade == INSTANCE Migration WITH
    disk <- migDisk, mem <- migMem, panic <- migPanic,
    MaxEpochBlocks <- 2, MaxEpochDuration <- 3, Gaps <- {1, 2}, MaxBlocks <- 4, MaxStops <- 3

-----------------------------------------------------------------------------
MCInit ==
    /\ scenario \in {"flush", "iterate", "epochs", "app", "sfc", "gas", "execute", "migrate"}
    /\ Init
    /\ IF scenario = "iterate" THEN KvInit
       ELSE kvDisk = <<>> /\ modified = <<>> /\ iter = <<>> /\ writes = <<>>
    /\ IF scenario = "epochs" THEN Epochs!Init
       ELSE ring = <<>> /\ data = <<>> /\ epochDisk = <<>> /\ seen = <<>> /\ epochPanic = <<>>
    /\ IF scenario = "app" THEN TheApp!Init
       ELSE IF scenario = "sfc" THEN Sfc!Init
       ELSE db = <<>> /\ appMem = <<>> /\ panic = <<>>
    /\ IF scenario = "gas" THEN Gas!Init
       ELSE /\ epoch = <<>> /\ group = <<>> /\ pending = <<>> /\ tip = <<>> /\ lastHeaders = <<>>
            /\ refunds = <<>> /\ endTime = <<>> /\ constants = <<>> /\ ctx = <<>> /\ account = <<>>
    /\ IF scenario = "execute" THEN Exec!Init
       ELSE /\ balance = <<>> /\ nonce = <<>> /\ gp = <<>> /\ block = <<>> /\ scores = <<>>
            /\ burnt = <<>> /\ execPanic = <<>>
    /\ IF scenario = "migrate" THEN Upgrade!Init
       ELSE migDisk = <<>> /\ migMem = <<>> /\ program = <<>> /\ service = <<>> /\ migPanic = <<>>

MCNext ==
    /\ \/ /\ scenario = "flush" /\ Next
          /\ UNCHANGED <<kvVars, epochVars, appVars, gasVars, execVars, migVars>>
       \/ /\ scenario = "iterate" /\ Kv!Next
          /\ UNCHANGED <<vars, epochVars, appVars, gasVars, execVars, migVars>>
       \/ /\ scenario = "epochs" /\ Epochs!Next
          /\ UNCHANGED <<vars, kvVars, appVars, gasVars, execVars, migVars>>
       \/ /\ scenario = "app" /\ AppNext
          /\ UNCHANGED <<vars, kvVars, epochVars, gasVars, execVars, migVars>>
       \/ /\ scenario = "sfc" /\ SfcNext
          /\ UNCHANGED <<vars, kvVars, epochVars, gasVars, execVars, migVars>>
       \/ /\ scenario = "gas" /\ GasNext
          /\ UNCHANGED <<vars, kvVars, epochVars, appVars, execVars, migVars>>
       \/ /\ scenario = "execute" /\ ExecNext
          /\ UNCHANGED <<vars, kvVars, epochVars, appVars, gasVars, migVars>>
       \/ /\ scenario = "migrate" /\ Upgrade!Next
          /\ UNCHANGED <<vars, kvVars, epochVars, appVars, gasVars, execVars>>
    /\ UNCHANGED scenario

MCSpec == MCInit /\ [][MCNext]_mcvars

-----------------------------------------------------------------------------
(***************************************************************************)
(* What an iterator has given is what the database held, the modified keys *)
(* merged with those on the disk (IterationExact of KvStore).              *)
(***************************************************************************)
IterationExact == scenario = "iterate" => Kv!IterationExact

(***************************************************************************)
(* The stored heads are the events without children, and the last events   *)
(* are those of each creator (HeadsExact of EpochStore).                   *)
(***************************************************************************)
HeadsExact == scenario = "epochs" => Epochs!HeadsExact

(***************************************************************************)
(* The index of stakers and delegations follows the SFC contract, and the  *)
(* two rules for sealing an epoch agree (IndexInSync of App).              *)
(***************************************************************************)
IndexInSync == (scenario = "app" => TheApp!IndexInSync) /\ (scenario = "sfc" => Sfc!IndexInSync)

(***************************************************************************)
(* No block's time is credited twice to a validator (CreditedOnce of App). *)
(***************************************************************************)
CreditedOnce == (scenario = "app" => TheApp!CreditedOnce) /\ (scenario = "sfc" => Sfc!CreditedOnce)

(***************************************************************************)
(* A validator whose events all passed the gas power check has used no     *)
(* more than it was allocated (NotOverdrawn of GasPower).                  *)
(***************************************************************************)
NotOverdrawn == scenario = "gas" => Gas!NotOverdrawn

(***************************************************************************)
(* The gas power context that a node works with is the one it would read   *)
(* after a restart (ContextReproducible of GasPower).                      *)
(***************************************************************************)
ContextReproducible == scenario = "gas" => Gas!ContextReproducible

(***************************************************************************)
(* The fees of a block are all credited as origination scores              *)
(* (FeesCredited of Execution).                                            *)
(***************************************************************************)
FeesCredited == scenario = "execute" => Exec!FeesCredited

(***************************************************************************)
(* A skipped transaction costs nothing, an executed one its fee (CostIsFee *)
(* of Execution).                                                          *)
(***************************************************************************)
TxCosts == [][scenario = "execute" => Exec!CostIsFee]_execVars

(***************************************************************************)
(* Databases of older programs are migrated completely (MigratedCompletely *)
(* of Migration).                                                          *)
(***************************************************************************)
Migrated == scenario = "migrate" => Upgrade!MigratedCompletely
=============================================================================
