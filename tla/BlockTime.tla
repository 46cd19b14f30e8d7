------------------------------ MODULE BlockTime ------------------------------
(***************************************************************************)
(* The time of blocks and events: vector/median_time.go,                    *)
(* poset/event_ordering.go (fareTimestamps) and poset/frame_info.go.        *)
(*                                                                         *)
(* An atropos sees, for every validator, the time its highest event claims, *)
(* or a fork, or nothing yet.  The weighted median of the claims becomes    *)
(* the time of the block, spread over the Lamport times of the events the   *)
(* block confirms.  Claims are whatever clocks say: the median of the next  *)
(* atropos may be earlier.  Timestamps are unsigned machine words of Bits   *)
(* bits; FrameInfo is read back through its encoding.                       *)
(***************************************************************************)
EXTENDS Integers, Sequences, FiniteSets, FiniteSetsExt

CONSTANTS Validator, Stake,   \* [Validator -> Nat \ {0}]
          Bits,               \* Bound: the width of a Timestamp
          MaxTime,            \* Bound: the claimed times
          MaxLamport,         \* Bound: Lamport times
          MaxBlockTime        \* Bound: the times of blocks

VARIABLES prevEpochTime,  \* PrevEpoch.Time
          frame,          \* <<>>, or <<the FrameInfo of the last decided frame>>
          atropos,        \* <<>>, or <<[claims, median]>>: the next atropos
          block           \* <<>>, or <<[before, info, low, high]>>: the last block;
                          \* before is the time of the block before it

btvars == <<prevEpochTime, frame, atropos, block>>

U(x) == x % 2^Bits                                    \* uint64(x)
S(x) == IF U(x) >= 2^(Bits-1) THEN U(x) - 2^Bits ELSE U(x)   \* int64(x)
MaxInt64 == 2^(Bits-1) - 1
MaxTimestamp(x, y) == IF x > y THEN x ELSE y

\* A validator's highest event: a claimed time, 0 .. MaxTime, of an honest
\* validator or of a cheater, or none.
Claim == [seen : {"honest", "cheater"}, time : 0 .. MaxTime] \cup {[seen |-> "none", time |-> 0]}

------------------------------------------------------------------------------
(* MedianTime *)

Highest(c, genesisTime, v) ==
  [stake |-> IF c[v].seen = "cheater" THEN 0 ELSE Stake[v],
   time |-> IF c[v].seen = "none" THEN genesisTime ELSE c[v].time]

\* The first time, in ascending order, at which the stake of the claims up to
\* it reaches half.  Claims of one time come in any order: all give that time,
\* unless half is 0, where the first of all is taken.
MedianTime(c, genesisTime) ==
  LET H(v) == Highest(c, genesisTime, v)
      half == FoldSet(LAMBDA v, s : s + H(v).stake, 0, Validator) \div 2
      UpTo(t) == FoldSet(LAMBDA v, s : s + H(v).stake, 0, {v \in Validator : H(v).time <= t})
  IN Min({t \in {H(v).time : v \in Validator} : UpTo(t) >= half})

------------------------------------------------------------------------------
(* fareTimestamps, FrameInfo *)

frameConsensusTime == IF frame = <<>> THEN prevEpochTime ELSE frame[1].last

\* Mutant: the time of the frame may lie before the last one.
FarePeriod(last, now) == MaxTimestamp(U(now - last), 1)

FramePeriod(last, now) ==
  IF last > now THEN 1 ELSE MaxTimestamp(U(now - last), 1)

fareTimestamps(last, now, high, low) ==
  LET lamports == MaxTimestamp(high - low + 1, 1)
      ratio == MaxTimestamp(FramePeriod(last, now) \div lamports, 1)
      offset == S(U(last + ratio)) - low * ratio
  IN [offset |-> S(offset), ratio |-> ratio, last |-> U(high * ratio + offset)]

\* EncodeRLP keeps the offset as an unsigned number, DecodeRLP takes it back.
EncodeRLP(f) == [f EXCEPT !.offset = U(@ + MaxInt64 \div 2)]
DecodeRLP(m) == [m EXCEPT !.offset = S(S(@) - MaxInt64 \div 2)]

CalcConsensusTime(f, lamport) == U(S(lamport * f.ratio) + f.offset)

------------------------------------------------------------------------------
Init ==
  /\ prevEpochTime \in 0 .. MaxTime
  /\ frame = <<>>
  /\ atropos = <<>>
  /\ block = <<>>

\* checkAndSaveEvent: the event that becomes the next atropos claims its median.
SaveEvent(c) ==
  /\ atropos = <<>>
  /\ atropos' = <<[claims |-> c, median |-> MedianTime(c, prevEpochTime)]>>
  /\ UNCHANGED <<prevEpochTime, frame, block>>

\* confirmBlock: the atropos has Lamport time high, its lowest new event low.
ConfirmBlock(low, high) ==
  /\ atropos # <<>>
  /\ LET last == frameConsensusTime
         info == DecodeRLP(EncodeRLP(fareTimestamps(last, atropos[1].median, high, low)))
     IN /\ last <= MaxBlockTime
        /\ frame' = <<info>>
        /\ block' = <<[before |-> IF block = <<>> THEN prevEpochTime ELSE block[1].info.last,
                       info |-> info, low |-> low, high |-> high]>>
  /\ atropos' = <<>>
  /\ UNCHANGED prevEpochTime

SealEpoch ==
  /\ frame # <<>> /\ atropos = <<>>
  /\ prevEpochTime' = frameConsensusTime
  /\ frame' = <<>>
  /\ UNCHANGED <<atropos, block>>

Next ==
  \/ \E c \in [Validator -> Claim] : SaveEvent(c)
  \/ \E high \in 1 .. MaxLamport : \E low \in 1 .. high : ConfirmBlock(low, high)
  \/ SealEpoch

Spec == Init /\ [][Next]_btvars

------------------------------------------------------------------------------
\* Block times strictly increase, over frames and epochs and even where the
\* median of the claims goes back; and the time GetConsensusTime gives an event
\* of a block lies after the block before and not after its own block, in the
\* order of Lamport times, the atropos having exactly the block's time
\* (fareTimestamps, CalcConsensusTime, sealEpoch).
TimesIncrease ==
  block # <<>> =>
    LET b == block[1]
        T(l) == CalcConsensusTime(b.info, l)
    IN /\ T(b.high) = b.info.last
       /\ b.before < T(b.low)
       /\ \A l \in b.low .. (b.high - 1) : T(l) < T(l + 1)

==============================================================================
