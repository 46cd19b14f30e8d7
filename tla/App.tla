-------------------------------- MODULE App --------------------------------
(***************************************************************************)
(* The application that executes blocks: app/app.go, app/sfc_index.go,     *)
(* app/scores.go and their tables, with the part of                        *)
(* gossip/consensus_callbacks.go that calls them.                          *)
(*                                                                         *)
(* A block carries at most one operation of the SFC contract (external);   *)
(* its effect on the contract is in db.ledger, the logs it emits are what  *)
(* processSfc reads.  db is what the databases hold, mem what only the     *)
(* process holds.  Transactions pay no fee here, so that the scores for    *)
(* originating them are zero (fees are in module Execution); the counters of*)
(* claimed rewards, which only the API reads, are left out.  A crash takes *)
(* db back to what it was at an earlier flush; a restart there is a        *)
(* restart of that earlier state.                                          *)
(***************************************************************************)
EXTENDS Integers, FiniteSets, FiniteSetsExt, Sequences, SequencesExt, Functions

CONSTANTS
    Staker, Genesis,        \* staker ids, those of the genesis
    Delegator, Amounts,
    MaxEpochBlocks, MaxEpochDuration,
    BlockMissedLatency, OfflineBlocks, OfflinePeriod,
    MaxBlocks               \* Bound: blocks

VARIABLES db, mem, panic

vars == <<db, mem, panic>>

Epoch == 1..(MaxBlocks + 1)
None == <<>>
NewStaker(amount) ==
    [stake |-> amount, delegated |-> 0, deactivated |-> 0, fork |-> FALSE, offline |-> FALSE]

\* SfcStaker.Ok
Ok(v) == ~v.fork /\ ~v.offline /\ v.deactivated = 0
CalcTotalStake(v) == v.stake + v.delegated

Height(D) == Len(D.times) - 1
blockTime(D, n) == D.times[n + 1]
BlockTimeDiff(D) == blockTime(D, Height(D)) - blockTime(D, Height(D) - 1)
ActiveSfcStakers(D) == {s \in Staker : D.stakers[s] # None /\ Ok(D.stakers[s][1])}

-----------------------------------------------------------------------------
(***************************************************************************)
(* The store.  A step works on St == [db, mem, panic].  GetSfcStaker gives *)
(* the object that the cache of stakers holds, so a change in place shows  *)
(* in the cached validators of an epoch that hold the same object:         *)
(* mem.shared.  A new object takes the old one's place in the cache.       *)
(***************************************************************************)
Change(St, s, v) ==
    [St EXCEPT !.db.stakers[s] = <<v>>,
               !.mem.cached = IF s \in St.mem.shared
                              THEN [@ EXCEPT ![1] = <<[@[1] EXCEPT ![s] = <<v>>]>>] ELSE @]
SetSfcStaker(St, s, v) ==
    [St EXCEPT !.db.stakers[s] = <<v>>, !.mem.shared = @ \ {s}]
delAllStakerData(St, s) ==
    [St EXCEPT !.db.stakers[s] = None, !.db.missed[s] = [num |-> 0, period |-> 0],
               !.db.dirty[s] = 0, !.db.active[s] = 0, !.mem.shared = @ \ {s}]

\* The delegators' cache is written with the table.
SetSfcDelegator(St, d, v) == [St EXCEPT !.db.delegators[d] = <<v>>]
DelSfcDelegator(St, d) == [St EXCEPT !.db.delegators[d] = None]

\* The cache of epoch validators holds the two epochs used last.
GetEpochValidators(St, e) ==
    IF e \in DOMAIN St.mem.cached /\ St.mem.cached[e] # None
    THEN St.mem.cached[e][1] ELSE St.db.validators[e]
HasEpochValidator(D, e, s) == D.validators[e][s] # None
Cached(c, e, vv) == [x \in Epoch |-> IF x = e THEN <<vv>> ELSE IF x = e - 1 THEN c[x] ELSE None]
SetEpochValidators(St, e, vv) ==
    [St EXCEPT !.db.validators[e] = vv, !.mem.cached = Cached(@, e, vv)]

IncBlocksMissed(D, s, periodDiff) ==
    [D EXCEPT !.missed[s] = [num |-> @.num + 1, period |-> @.period + periodDiff]]
ResetBlocksMissed(D, s) == [D EXCEPT !.missed[s] = [num |-> 0, period |-> 0]]
\* credited is auxiliary.
AddDirtyValidationScore(D, s, v) == [D EXCEPT !.dirty[s] = @ + v, !.credited[s] = @ + v]
MoveDirtyValidationScoresToActive(D) ==
    [D EXCEPT !.active = D.dirty, !.dirty = [s \in Staker |-> 0]]

-----------------------------------------------------------------------------
(***************************************************************************)
(* processSfc, one log after the other.  A log is <<topic, argument ...>>. *)
(* A staker that is missing is skipped or, where the code does not look,   *)
(* ends the process.                                                       *)
(***************************************************************************)
\* Mutant: the delegation is taken off without looking whose it was.
DeactivateDelegatorsKept(St, d) ==
    IF St.db.delegators[d] = None THEN [St EXCEPT !.panic = TRUE]
    ELSE SetSfcDelegator(St, d, [St.db.delegators[d][1] EXCEPT !.deactivated = St.mem.epoch])

DeactivateDelegators(St, d) ==
    IF St.db.delegators[d] = None THEN [St EXCEPT !.panic = TRUE]
    ELSE LET del == St.db.delegators[d][1]
             off == SetSfcDelegator(St, d, [del EXCEPT !.deactivated = St.mem.epoch])
         IN  IF St.db.stakers[del.to] = None THEN off
             ELSE LET v == St.db.stakers[del.to][1]
                  IN  Change(off, del.to, [v EXCEPT !.delegated = Max({0, @ - del.amount})])

ProcessLog(St, l) ==
    LET v(s) == St.db.stakers[s][1]
        missing(s) == St.db.stakers[s] = None
    IN  CASE l[1] = "CreatedStake" -> SetSfcStaker(St, l[2], NewStaker(l[3]))
          [] l[1] = "IncreasedStake" ->
                IF missing(l[2]) THEN St ELSE Change(St, l[2], [v(l[2]) EXCEPT !.stake = l[3]])
          [] l[1] = "CreatedDelegation" ->
                IF missing(l[3]) THEN St
                ELSE Change(SetSfcDelegator(St, l[2],
                                [to |-> l[3], amount |-> l[4], deactivated |-> 0]),
                            l[3], [v(l[3]) EXCEPT !.delegated = @ + l[4]])
          [] l[1] = "DeactivatedStake" ->
                IF missing(l[2]) THEN [St EXCEPT !.panic = TRUE]
                ELSE Change(St, l[2], [v(l[2]) EXCEPT !.deactivated = St.mem.epoch])
          [] l[1] = "DeactivatedDelegation" -> DeactivateDelegators(St, l[2])
          [] l[1] = "UpdatedStake" ->
                IF missing(l[2]) THEN St
                ELSE Change(St, l[2], [v(l[2]) EXCEPT !.stake = l[3], !.delegated = l[4]])
          [] l[1] = "UpdatedDelegation" ->
                IF St.db.delegators[l[2]] = None THEN St
                ELSE SetSfcDelegator(St, l[2],
                         [St.db.delegators[l[2]][1] EXCEPT !.to = l[3], !.amount = l[4]])
          [] l[1] = "WithdrawnStake" -> delAllStakerData(St, l[2])
          [] l[1] = "WithdrawnDelegation" -> DelSfcDelegator(St, l[2])
          [] l[1] = "UpdatedConstants" -> [St EXCEPT !.db.constants[St.mem.epoch] = <<l[2]>>]
          [] l[1] = "AdvanceEpoch" -> St

Cheaters(St, cheaters) ==
    FoldSet(LAMBDA s, acc :
               IF acc.db.stakers[s] = None THEN [acc EXCEPT !.panic = TRUE]
               ELSE IF acc.db.stakers[s][1].fork THEN acc
               ELSE Change(acc, s, [acc.db.stakers[s][1] EXCEPT !.fork = TRUE]),
            St, cheaters)

Offline(St) ==
    FoldSet(LAMBDA s, acc : SetSfcStaker(acc, s, [acc.db.stakers[s][1] EXCEPT !.offline = TRUE]),
            St,
            {s \in Staker : /\ St.db.stakers[s] # None /\ ~St.db.stakers[s][1].offline
                            /\ St.db.missed[s].num >= OfflineBlocks
                            /\ St.db.missed[s].period >= OfflinePeriod})

\* calcRewardWeights, the part that depends on the stake
BaseRewardWeight(D, v, s, duration) ==
    LET dur == IF duration = 0 THEN 1 ELSE duration
    IN  (((CalcTotalStake(v) * D.active[s]) \div dur) * D.active[s]) \div dur

\* getRewardPerSec: the rate an epoch is rewarded at was set in the one before; 0 is the initial one.
RewardPerSec(D, e) == IF e \in Epoch /\ D.constants[e] # None THEN D.constants[e][1] ELSE 0

\* The sealing part of processSfc: offline stakers, the snapshot for the rewards, the next validators.
Seal(St, cheaters) ==
    LET e == St.mem.epoch
        O == Offline([St EXCEPT !.db.constants[e + 1] = St.db.constants[e]])
        vv == GetEpochValidators(O, e)
        duration == blockTime(O.db, Height(O.db)) - O.db.epochStart
        weight(s) == BaseRewardWeight(O.db, vv[s][1], s, duration)
        merit == [s \in Staker |->
                    IF vv[s] = None \/ s \in cheaters \/ weight(s) = 0 THEN None
                    ELSE <<vv[s][1].stake, vv[s][1].delegated, weight(s)>>]
        next == [s \in Staker |-> IF s \in ActiveSfcStakers(O.db) THEN O.db.stakers[s] ELSE None]
        rewarded == [O EXCEPT !.db.merit = merit, !.db.rate = RewardPerSec(O.db, e - 1),
                              !.mem.shared = IF e = 1 THEN @ ELSE {}]
    IN  SetEpochValidators(rewarded, e + 1, next)

-----------------------------------------------------------------------------
(***************************************************************************)
(* updateValidationScores: a validator that took part in the block is      *)
(* credited the block's time, and that of the blocks just before which it  *)
(* missed, up to BlockMissedLatency.                                       *)
(***************************************************************************)
Credit(D, s) ==
    LET n == Min({D.missed[s].num, BlockMissedLatency, Height(D) - 1})
    IN  blockTime(D, Height(D)) - blockTime(D, Height(D) - 1 - n)

\* Mutant: the missed blocks stay counted.
ScoreNotReset(D, s, participated) ==
    IF s \notin participated THEN IncBlocksMissed(D, s, BlockTimeDiff(D))
    ELSE AddDirtyValidationScore(D, s, Credit(D, s))

Score(D, s, participated) ==
    IF s \notin participated THEN IncBlocksMissed(D, s, BlockTimeDiff(D))
    ELSE ResetBlocksMissed(AddDirtyValidationScore(D, s, Credit(D, s)), s)

updateValidationScores(St, participated, seal) ==
    LET scored == FoldSet(LAMBDA s, D : Score(D, s, participated), St.db,
                          {s \in ActiveSfcStakers(St.db) :
                              HasEpochValidator(St.db, St.mem.epoch, s)})
    IN  [St EXCEPT !.db = IF seal THEN MoveDirtyValidationScoresToActive(scored) ELSE scored]

\* updateEpochStats, as far as the start of the running epoch goes
updateEpochStats(St, seal) ==
    IF seal THEN [St EXCEPT !.db.epochStart = blockTime(St.db, Height(St.db))] ELSE St

\* shouldSealEpoch and the check of applyBlock that compares it with the older rule
shouldSealEpoch(D, cheaters) ==
    \/ Height(D) - D.lastVoting.block >= MaxEpochBlocks
    \/ blockTime(D, Height(D)) - D.lastVoting.time >= MaxEpochDuration
    \/ cheaters # {}
legacyShouldSealEpoch(D, frame, cheaters) ==
    \/ frame >= MaxEpochBlocks
    \/ blockTime(D, Height(D)) - D.epochStart >= MaxEpochDuration
    \/ cheaters # {}

EndEpoch(St, seal) ==
    IF seal THEN [St EXCEPT !.db.lastVoting = [block |-> Height(St.db),
                                               time |-> blockTime(St.db, Height(St.db))],
                            !.db.frame = 0, !.mem.epoch = @ + 1] ELSE St

(***************************************************************************)
(* The SFC contract: its operations, with their effect and their logs.  A  *)
(* staker id is used once; a withdrawal comes at least an epoch after the  *)
(* deactivation.                                                           *)
(***************************************************************************)
Delegated(L, s) ==
    FoldSet(LAMBDA d, sum : sum + L.deleg[d][1].amount, 0,
            {d \in Delegator : L.deleg[d] # None /\ L.deleg[d][1].to = s
                                                 /\ L.deleg[d][1].deactivated = 0})
Stands(L, s) == L.stake[s] # None /\ L.stake[s][1].deactivated = 0

Ops(L, e) ==
    LET may(c, X) == IF c THEN X ELSE {}
        updated(N, s) == <<"UpdatedStake", s, N.stake[s][1].amount, Delegated(N, s)>>
    IN  {[ledger |-> L, logs |-> <<>>], [ledger |-> L, logs |-> <<<<"AdvanceEpoch">>>>]}
        \cup UNION {
          may(s \notin L.used,
              {[ledger |-> [L EXCEPT !.used = @ \cup {s},
                                     !.stake[s] = <<[amount |-> a, deactivated |-> 0]>>],
                logs |-> <<<<"CreatedStake", s, a>>>>] : a \in Amounts})
          \cup may(Stands(L, s),
              {[ledger |-> [L EXCEPT !.stake[s] = <<[@[1] EXCEPT !.deactivated = e]>>],
                logs |-> <<<<"DeactivatedStake", s>>>>]}
              \cup {[ledger |-> [L EXCEPT !.stake[s] = <<[@[1] EXCEPT !.amount = a]>>],
                     logs |-> <<<<"IncreasedStake", s, a>>>>] :
                        a \in {a \in Amounts : a > L.stake[s][1].amount}}
              \cup {[ledger |-> [L EXCEPT !.deleg[d] = <<[to |-> s, amount |-> a, deactivated |-> 0]>>],
                     logs |-> <<<<"CreatedDelegation", d, s, a>>>>] :
                        d \in {d \in Delegator : L.deleg[d] = None}, a \in Amounts})
          \cup may(L.stake[s] # None /\ L.stake[s][1].deactivated \in 1..(e - 1),
              {[ledger |-> [L EXCEPT !.stake[s] = None], logs |-> <<<<"WithdrawnStake", s>>>>]})
          : s \in Staker}
        \cup UNION {
          may(L.deleg[d][1].deactivated = 0,
              {[ledger |-> [L EXCEPT !.deleg[d] = <<[@[1] EXCEPT !.deactivated = e]>>],
                logs |-> <<<<"DeactivatedDelegation", d>>>>]}
              \cup {LET N == [L EXCEPT !.deleg[d] = <<[@[1] EXCEPT !.to = s]>>]
                        old == L.deleg[d][1].to
                    IN  [ledger |-> N,
                         logs |-> <<<<"UpdatedDelegation", d, s, N.deleg[d][1].amount>>,
                                    updated(N, s)>>
                                  \o (IF L.stake[old] = None THEN <<>> ELSE <<updated(N, old)>>)] :
                        s \in {s \in Staker : Stands(L, s) /\ s # L.deleg[d][1].to}})
          \cup may(L.deleg[d][1].deactivated \in 1..(e - 1),
              {[ledger |-> [L EXCEPT !.deleg[d] = None],
                logs |-> <<<<"WithdrawnDelegation", d>>>>]})
          : d \in {d \in Delegator : L.deleg[d] # None}}
        \cup {[ledger |-> L, logs |-> <<<<"UpdatedConstants", a>>>>] : a \in Amounts}

-----------------------------------------------------------------------------
(***************************************************************************)
(* applyBlock: BeginBlock, DeliverTxs and EndBlock, then the comparison of *)
(* the two rules for sealing, which ends the process when they differ.     *)
(***************************************************************************)
ApplyBlock(dt, op, cheaters, participated) ==
    LET begun == [db EXCEPT !.times = Append(@, Last(@) + dt), !.frame = @ + 1,
                            !.ledger = op.ledger]
        forced == <<"AdvanceEpoch">> \in ToSet(op.logs)
        seal == shouldSealEpoch(begun, cheaters) \/ forced
        legacy == legacyShouldSealEpoch(begun, begun.frame, cheaters) \/ forced
        validTime == [s \in Staker |-> begun.validTime[s] +
                        IF HasEpochValidator(begun, mem.epoch, s) THEN dt ELSE 0]
        scored == updateValidationScores(
                      [db |-> [begun EXCEPT !.validTime = validTime], mem |-> mem, panic |-> FALSE],
                      participated, seal)
        logged == Cheaters(FoldLeft(ProcessLog, scored, op.logs), cheaters)
        sealed == IF seal THEN Seal(logged, cheaters) ELSE logged
        ended == EndEpoch(updateEpochStats(sealed, seal), seal)
    IN  /\ ~panic
        /\ Height(db) < MaxBlocks
        /\ db' = [ended.db EXCEPT !.epoch = ended.mem.epoch]
        /\ mem' = ended.mem
        /\ panic' = (ended.panic \/ seal # legacy)

\* A restart: InitChain takes the epoch from the engine, the caches are empty.
Restart ==
    /\ ~panic
    /\ mem' = [epoch |-> db.epoch, cached |-> [e \in Epoch |-> None], shared |-> {}]
    /\ UNCHANGED <<db, panic>>

\* ApplyGenesis: the stakers' objects are put into both caches.
GenesisStakers == [s \in Staker |-> IF s \in Genesis THEN <<NewStaker(1)>> ELSE None]
Init ==
    /\ db = [stakers |-> GenesisStakers,
             delegators |-> [d \in Delegator |-> None],
             validators |-> [e \in Epoch |-> IF e = 1 THEN GenesisStakers
                                              ELSE [s \in Staker |-> None]],
             missed |-> [s \in Staker |-> [num |-> 0, period |-> 0]],
             dirty |-> [s \in Staker |-> 0], active |-> [s \in Staker |-> 0],
             constants |-> [e \in Epoch |-> None],
             merit |-> [s \in Staker |-> None], rate |-> 0,
             lastVoting |-> [block |-> 0, time |-> 0], epochStart |-> 0,
             times |-> <<0>>, epoch |-> 1, frame |-> 0,
             ledger |-> [stake |-> [s \in Staker |-> IF s \in Genesis
                                      THEN <<[amount |-> 1, deactivated |-> 0]>> ELSE None],
                         deleg |-> [d \in Delegator |-> None], used |-> Genesis],
             credited |-> [s \in Staker |-> 0], validTime |-> [s \in Staker |-> 0]]
    /\ mem = [epoch |-> 1, cached |-> Cached([e \in Epoch |-> None], 1, GenesisStakers),
              shared |-> Genesis]
    /\ panic = FALSE

EpochValidators == {s \in Staker : HasEpochValidator(db, mem.epoch, s)}
Next ==
    \/ \E dt \in 1..2, op \in Ops(db.ledger, mem.epoch), participated \in SUBSET EpochValidators,
         cheaters \in {C \in SUBSET EpochValidators : Cardinality(C) <= 1} :
           ApplyBlock(dt, op, cheaters, participated)
    \/ Restart

Spec == Init /\ [][Next]_vars

-----------------------------------------------------------------------------
(***************************************************************************)
(* "Internal SFC index isn't synced with SFC contract" is never logged:    *)
(* after every block the index holds the stakes of the contract, and for   *)
(* each staker the sum of the delegations that stand.  Nor does applyBlock *)
(* meet "SealEpoch is not compatible with legacy", or processSfc a staker  *)
(* or a delegator that the index does not hold.                            *)
(***************************************************************************)
IndexInSync ==
    /\ ~panic
    /\ \A s \in Staker :
          /\ db.stakers[s] = None <=> db.ledger.stake[s] = None
          /\ db.stakers[s] # None =>
                /\ db.stakers[s][1].stake = db.ledger.stake[s][1].amount
                /\ db.stakers[s][1].delegated = Delegated(db.ledger, s)

(***************************************************************************)
(* No block's time is credited twice to a validator: what its validation   *)
(* scores got is at most the time for which it was a validator, although   *)
(* a block may credit blocks before it (updateValidationScores).           *)
(***************************************************************************)
CreditedOnce == \A s \in Staker : db.credited[s] <= db.validTime[s]

(***************************************************************************)
(* "GetEpochValidators returns all stored EpochValidators on the epoch":   *)
(* what the cache gives, and the rewards are computed from, is what the    *)
(* table holds and a restarted node would read.                            *)
(***************************************************************************)
EpochValidatorsStored ==
    \A e \in 1..mem.epoch : mem.cached[e] # None => mem.cached[e][1] = db.validators[e]
=============================================================================
