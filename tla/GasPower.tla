------------------------------ MODULE GasPower ------------------------------
(***************************************************************************)
(* Gas power: eventcheck/gaspowercheck, the limits of basiccheck that it   *)
(* relies on, and what the gossip service keeps for it from one epoch to   *)
(* the next: the last confirmed header of every validator, the refunds,    *)
(* the end of the epoch and the constants of the SFC contract.             *)
(*                                                                         *)
(* Gas is a Bits-bit number, as uint64 in the code; a second is Second     *)
(* units of time.  A block confirms the next events of some validators.    *)
(***************************************************************************)
EXTENDS Integers, FiniteSets, FiniteSetsExt, Sequences, SequencesExt

CONSTANTS
    Stake,               \* validator -> stake
    AllocPerSec,         \* "short", "long" -> InitialAllocPerSec
    MinAlloc, MaxAlloc, CustomAlloc,
    MaxAllocPeriod, StartupAllocPeriod, MinStartupGas, MinGasPowerRefund,
    Second, Bits, MaxGasPowerUsed, EventGas,
    MaxTime, MaxEpoch, MaxPending      \* Bounds

VARIABLES
    epoch, group,        \* the validators of the epoch
    pending,             \* validator -> its events of the epoch not yet confirmed
    tip,                 \* validator -> its last event of the epoch, or None
    lastHeaders, refunds, endTime, constants,  \* tables: epoch -> ...
    ctx,                 \* the gas power check's validation context
    account              \* auxiliary: validator -> gas -> what it may still use, exactly

vars == <<epoch, group, pending, tip, lastHeaders, refunds, endTime, constants, ctx, account>>
tables == <<lastHeaders, refunds, endTime, constants>>

Validator == DOMAIN Stake
Gas == DOMAIN AllocPerSec
Epoch == 0..MaxEpoch
None == <<>>
U(n) == n % 2^Bits
EmptyRow == [v \in Validator |-> None]
ZeroRow == [v \in Validator |-> 0]

-----------------------------------------------------------------------------
gasPowerBounds(initial, custom) ==
    LET alloc == IF custom # 0 THEN custom ELSE initial
    IN  Max({MinAlloc, Min({MaxAlloc, alloc})})

ReadGasPowerContext(T, vv, e) ==
    [epoch |-> e, validators |-> vv,
     prevLastHeaders |-> T.lastHeaders[e - 1],
     prevEndTime |-> T.endTime[e - 1],
     prevRefunds |-> T.refunds[e - 1],
     alloc |-> [g \in Gas |-> gasPowerBounds(AllocPerSec[g], T.constants[e - 1])]]

Tables == [lastHeaders |-> lastHeaders, refunds |-> refunds, endTime |-> endTime,
           constants |-> constants]

\* calcValidatorGasPowerPerSec
GasPowerPerSec(C, v, g) ==
    LET total == MapThenSumSet(LAMBDA w : Stake[w], C.validators)
        perSec == IF v \in C.validators THEN U((C.alloc[g] * Stake[v]) \div total) ELSE 0
    IN  IF v \notin C.validators THEN [perSec |-> 0, max |-> 0, startup |-> 0]
        ELSE [perSec |-> perSec, max |-> U(perSec * MaxAllocPeriod),
              startup |-> Max({MinStartupGas, U(perSec * StartupAllocPeriod)})]

\* What an event starts from: its self-parent, or what the last epoch left.
Previous(C, v, g) ==
    LET startup == GasPowerPerSec(C, v, g).startup
        header == C.prevLastHeaders[v]
    IN  CASE tip[v] # None -> [left |-> tip[v][1].left[g], time |-> tip[v][1].time]
          [] tip[v] = None /\ header # None ->
                [left |-> Max({startup, U(header[1].left[g] + C.prevRefunds[v])}),
                 time |-> header[1].time]
          [] OTHER -> [left |-> U(startup + C.prevRefunds[v]), time |-> C.prevEndTime]

Allocated(C, v, g, time) ==
    U(((time - Min({Previous(C, v, g).time, time})) * GasPowerPerSec(C, v, g).perSec) \div Second)

calcGasPower(C, v, g, time) ==
    Min({GasPowerPerSec(C, v, g).max, U(Allocated(C, v, g, time) + Previous(C, v, g).left)})

\* Mutant: the limit on the values is not checked.
NoLimits(e) == e.used <= MaxGasPowerUsed

\* checkLimits and checkGas of basiccheck, the parts on gas
checkLimits(e) ==
    /\ \A g \in Gas : e.left[g] < 2^(Bits - 2)
    /\ e.used < 2^(Bits - 2)
    /\ e.used <= MaxGasPowerUsed

\* Validate of gaspowercheck, and of epochcheck: the event is of the running epoch.
Validate(e) ==
    /\ ctx.epoch = epoch
    /\ e.creator \in ctx.validators
    /\ \A g \in Gas : U(e.left[g] + e.used) = calcGasPower(ctx, e.creator, g, e.time)

-----------------------------------------------------------------------------
(***************************************************************************)
(* An event that the checks accept is connected.  account is in exact      *)
(* numbers.                                                                *)
(***************************************************************************)
Account(v, g, time) ==
    LET header == ctx.prevLastHeaders[v]
        power == GasPowerPerSec(ctx, v, g)
        start == IF header = None THEN power.startup + ctx.prevRefunds[v]
                 ELSE Max({power.startup, header[1].left[g] + ctx.prevRefunds[v]})
        since == Previous(ctx, v, g).time
        earned == (Max({0, time - since}) * power.perSec) \div Second
    IN  Min({power.max, earned + IF tip[v] = None THEN start ELSE account[v][g]})

Connect(e) ==
    /\ Len(pending[e.creator]) < MaxPending
    /\ checkLimits(e)
    /\ Validate(e)
    /\ tip' = [tip EXCEPT ![e.creator] = <<e>>]
    /\ pending' = [pending EXCEPT ![e.creator] = Append(@, e)]
    /\ account' = [account EXCEPT ![e.creator] =
                    [g \in Gas |-> Account(e.creator, g, e.time) - e.used]]
    /\ UNCHANGED <<epoch, group, tables, ctx>>

-----------------------------------------------------------------------------
(***************************************************************************)
(* A block.  n[v] events of v are confirmed, of which back[v] of the gas   *)
(* is not used; custom is what the contract sets.  The last header, the    *)
(* refunds and the epoch's end are kept, what the epoch before left is     *)
(* pruned when the block seals the epoch.                                  *)
(***************************************************************************)
\* Mutant: the refunds of the last epoch are pruned with the first block.
incGasPowerRefundPrunes(back, seal) ==
    [e \in Epoch |->
        CASE e = epoch -> [v \in Validator |->
                IF back[v] >= MinGasPowerRefund THEN U(refunds[e][v] + back[v]) ELSE refunds[e][v]]
          [] e = epoch - 1 -> ZeroRow
          [] OTHER -> refunds[e]]

incGasPowerRefund(back, seal) ==
    [e \in Epoch |->
        CASE e = epoch -> [v \in Validator |->
                IF back[v] >= MinGasPowerRefund THEN U(refunds[e][v] + back[v]) ELSE refunds[e][v]]
          [] e = epoch - 1 /\ seal -> ZeroRow
          [] OTHER -> refunds[e]]

\* onEventConfirmed and onEpochSealed: the last header of each creator
ConfirmHeaders(n, cheaters, seal) ==
    [e \in Epoch |->
        CASE e = epoch -> [v \in Validator |->
                IF seal /\ v \in cheaters THEN None
                ELSE IF n[v] > 0 THEN <<pending[v][n[v]]>> ELSE lastHeaders[e][v]]
          [] e = epoch - 1 /\ seal -> EmptyRow
          [] OTHER -> lastHeaders[e]]

ConfirmedGas(v, k) == FoldLeft(LAMBDA sum, e : sum + e.used, 0, SubSeq(pending[v], 1, k))

Block(n, back, custom, time, cheaters, seal) ==
    LET set == IF custom = None THEN constants[epoch] ELSE custom[1]
    IN  /\ \A v \in Validator : back[v] <= ConfirmedGas(v, n[v]) - n[v] * EventGas
        /\ cheaters # {} => seal
        /\ seal => epoch < MaxEpoch
        /\ lastHeaders' = ConfirmHeaders(n, cheaters, seal)
        /\ refunds' = incGasPowerRefund(back, seal)
        /\ constants' = [e \in Epoch |-> IF e = epoch \/ (seal /\ e = epoch + 1) THEN set
                                         ELSE constants[e]]
        /\ IF seal
           THEN /\ endTime' = [endTime EXCEPT ![epoch] = time]
                /\ epoch' = epoch + 1
                /\ group' = group \ cheaters
                /\ pending' = [v \in Validator |-> <<>>]
                /\ tip' = EmptyRow
                /\ account' = [v \in Validator |-> [g \in Gas |-> 0]]
                /\ ctx' = ReadGasPowerContext(Tables', group', epoch')
           ELSE /\ pending' = [v \in Validator |-> SubSeq(pending[v], n[v] + 1, Len(pending[v]))]
                /\ UNCHANGED <<endTime, epoch, group, tip, ctx, account>>

\* NewService: the context is read from the tables.
Restart ==
    /\ ctx' = ReadGasPowerContext(Tables, group, epoch)
    /\ UNCHANGED <<epoch, group, pending, tip, tables, account>>

Init ==
    /\ epoch = 1 /\ group = Validator
    /\ pending = [v \in Validator |-> <<>>]
    /\ tip = EmptyRow
    /\ lastHeaders = [e \in Epoch |-> EmptyRow]
    /\ refunds = [e \in Epoch |-> ZeroRow]
    /\ endTime = [e \in Epoch |-> 0]
    /\ constants = [e \in Epoch |-> 0]
    /\ ctx = ReadGasPowerContext(Tables, group, epoch)
    /\ account = [v \in Validator |-> [g \in Gas |-> 0]]

\* The gas left is the only one that Validate accepts.
Emit(v, used, time) ==
    Connect([creator |-> v, used |-> used, time |-> time,
             left |-> [g \in Gas |-> U(calcGasPower(ctx, v, g, time) - used)]])

Next ==
    \/ \E v \in Validator, used \in EventGas..MaxGasPowerUsed, time \in 0..MaxTime :
          Emit(v, used, time)
    \/ \E n \in [Validator -> 0..MaxPending], back \in [Validator -> 0..MaxGasPowerUsed],
          custom \in {None, <<CustomAlloc>>}, time \in 0..MaxTime,
          cheaters \in {{}} \cup {{v} : v \in group}, seal \in BOOLEAN :
          /\ \A v \in Validator : n[v] <= Len(pending[v])
          /\ Block(n, back, custom, time, cheaters, seal)
    \/ Restart

Spec == Init /\ [][Next]_vars

-----------------------------------------------------------------------------
(***************************************************************************)
(* No validator overdraws its gas power: the gas left that an accepted     *)
(* event declares is what remains, counted exactly, of what its creator    *)
(* brought from the last epoch and was allocated since, and not less than  *)
(* nothing.  Validate compares sums of uint64, which may wrap around, so   *)
(* this rests on the limits that basiccheck puts on the values.            *)
(***************************************************************************)
NotOverdrawn ==
    \A v \in Validator, g \in Gas :
        tip[v] # None => account[v][g] >= 0 /\ tip[v][1].left[g] = account[v][g]

(***************************************************************************)
(* The context that the check uses is at any time the one a restarted node *)
(* would read: nodes that restart within an epoch accept the same events   *)
(* as those that do not (ReadGasPowerContext at processEvent, NewService). *)
(***************************************************************************)
ContextReproducible == ctx = ReadGasPowerContext(Tables, group, epoch)
=============================================================================
