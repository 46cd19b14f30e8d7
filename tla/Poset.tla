------------------------------- MODULE Poset -------------------------------
(***************************************************************************)
(* poset, with the callbacks that gossip and app give it: events are       *)
(* checked, get frames, elect Atropoi, are confirmed in blocks, and blocks *)
(* seal epochs.  Several nodes receive the same events in different orders *)
(* and may crash.                                                          *)
(*                                                                         *)
(* ForklessCause is the relation over the graph that VectorIndex shows the *)
(* index to compute, and an election is its outcome for the known roots,   *)
(* which Election shows not to depend on the order of their arrival.       *)
(* All of a node's state is in its store; engineMu makes each handler one  *)
(* step, except that every decided frame is a step of its own.             *)
(***************************************************************************)
EXTENDS EventGraph, Sequences

CONSTANTS
    Node,
    Home,                      \* the node that emits for an honest validator
    NoTransactions,            \* the events that carry no transactions
    AdvanceEpoch,              \* the events with a transaction that seals the epoch
    MaxEpochBlocks,            \* net.Dag.MaxEpochBlocks
    MaxEpochDuration,          \* net.Dag.MaxEpochDuration
    MaxValidatorEventsInBlock, \* net.Dag.MaxValidatorEventsInBlock
    GenesisTime,               \* net.Genesis.Time
    Clock,                     \* the times that the clocks of validators show
    MaxEvents,                 \* bound: how many events exist
    MaxEpoch,                  \* bound: events exist in epochs up to this one
    MaxRestarts                \* bound: how often nodes crash

ASSUME PosetAssumption ==
    /\ Home \in [Validators \ Cheater -> Node]
    /\ MaxEpochBlocks \in Nat \ {0}
    /\ {MaxValidatorEventsInBlock, MaxEpochDuration, GenesisTime} \subseteq Nat
    /\ Clock \subseteq Nat
    /\ {MaxEvents, MaxEpoch, MaxRestarts} \subseteq Nat

VARIABLES
    event,     \* the events that exist: id -> event; ids are also the hashes
    store,     \* node -> its store, as the node sees it
    disk,      \* node -> its store, as it was last flushed
    pc,        \* node -> "idle", "electing", "sealed" or "panic"
    restarts,
    applied    \* history: every block that any node has applied

vars == <<event, store, disk, pc, restarts, applied>>

-----------------------------------------------------------------------------
\* Frames.  S is a node's store.
EpochEvents(S) == {i \in S.events : event[i].epoch = S.epoch}

GetFrameRoots(S, f) == Roots(event, EpochEvents(S), f)

ForklessCausedByQuorumOn(E, S, id, f) ==
    HasQuorumOf(S.validators,
        {E[r].creator : r \in {q \in GetFrameRoots(S, f) :
                                  ForklessCause(E, S.validators, id, q)}})

\* calcFrameIdx for Prepare.
CalcFrameIdx(E, S, id) ==
    LET f == SelfParentFrame(E, id)
    IN  CASE E[id].selfParent = 0 -> [frame |-> 1, isRoot |-> TRUE]
          [] ForklessCausedByQuorumOn(E, S, id, f) -> [frame |-> f + 1, isRoot |-> TRUE]
          [] OTHER -> [frame |-> f, isRoot |-> FALSE]

\* Mutant: the roots of the event's own frame are counted.
CheckOwnFrame(E, S, id) ==
    LET e == E[id]
        f == SelfParentFrame(E, id)
    IN  CASE e.parents = {} -> [frame |-> 1, isRoot |-> TRUE]
          [] e.parents # {} /\ ~e.isRoot -> [frame |-> f, isRoot |-> FALSE]
          [] OTHER -> [frame |-> f + 1,
                       isRoot |-> /\ e.frame = f + 1
                                  /\ \/ e.frame <= 1
                                     \/ ForklessCausedByQuorumOn(E, S, id, e.frame)]

\* calcFrameIdx with checkOnly.
CheckFrameIdx(E, S, id) ==
    LET e == E[id]
        f == SelfParentFrame(E, id)
    IN  CASE e.parents = {} -> [frame |-> 1, isRoot |-> TRUE]
          [] e.parents # {} /\ ~e.isRoot -> [frame |-> f, isRoot |-> FALSE]
          [] OTHER -> [frame |-> f + 1,
                       isRoot |-> /\ e.frame = f + 1
                                  /\ \/ e.frame <= 1
                                     \/ ForklessCausedByQuorumOn(E, S, id, e.frame - 1)]

\* The highest event of v that id observes (GetHighestBeforeMerged), or 0, and the
\* time that it claims.
HighestSeq(E, id, v) ==
    LET seqs == {E[x].seq : x \in {y \in E[id].anc : E[y].creator = v}} \cup {0}
    IN  CHOOSE m \in seqs : \A q \in seqs : m >= q

ObservedTime(E, id, v, prevTime) ==
    LET highest == HighestSeq(E, id, v)
        times == {E[x].claimedTime :
                    x \in {y \in E[id].anc : E[y].creator = v /\ E[y].seq = highest}}
    IN  IF times = {} THEN prevTime ELSE CHOOSE t \in times : TRUE

\* The first time at which the stake of the claims up to it reaches half; the
\* claim of a cheater is time 0, without stake.
MedianTime(E, G, id, prevTime) ==
    LET honest == {v \in G : ~SeesFork(E, id, v)}
        claims == {<<v, ObservedTime(E, id, v, prevTime)>> : v \in honest}
        times == {c[2] : c \in claims} \cup {0 : v \in G \ honest}
        halfStake == Sum(honest) \div 2
        reached == {t \in times : Sum({c[1] : c \in {d \in claims : d[2] <= t}}) >= halfStake}
    IN  CHOOSE t \in reached : \A u \in reached : t <= u

\* epochcheck.Validate and checkAndSaveEvent's checks.
CheckEvent(S, id) ==
    LET e == event[id]
    IN  /\ e.epoch = S.epoch /\ e.creator \in S.validators
        /\ e.prevEpoch = IF e.seq = 1 THEN S.prevEpoch ELSE 0
        /\ NoCheaters(event, e.selfParent, e.parents) = e.parents
        /\ CheckFrameIdx(event, S, id) = [frame |-> e.frame, isRoot |-> e.isRoot]
        /\ e.medianTime = MedianTime(event, S.validators, id, S.prevTime)

Elected(S) == ChooseAtropos(event, EpochEvents(S), S.validators, S.lastDecidedFrame + 1)

-----------------------------------------------------------------------------
\* Mutant: the walk does not stop at confirmed events.
WalkedAgain(S, atropos) == event[atropos].anc

\* Mutant: all that the node has connected is confirmed.
WalkedAll(S, atropos) == EpochEvents(S) \ DOMAIN S.confirmedOn

\* confirmEvents: the walk from the Atropos, not below a confirmed event; the
\* smallest set that the walk does not leave.
Walked(S, atropos) ==
    LET left == EpochEvents(S) \ DOMAIN S.confirmedOn
        closed == {W \in SUBSET left :
                      \A x \in left :
                         (x = atropos \/ \E y \in W : x \in event[y].parents) => x \in W}
    IN  {x \in left : \A W \in closed : x \in W}

Cheaters(S, atropos) == {v \in S.validators : SeesFork(event, atropos, v)}

\* isEventAllowedIntoBlock
IsEventAllowedIntoBlock(x, seqDepth) ==
    /\ x \notin NoTransactions
    /\ seqDepth <= MaxValidatorEventsInBlock

\* fareOrdering: by Lamport time, then by hash; x is at the place that as many
\* events as come before it leave.
Before(lamport, x, y) ==
    lamport[x] < lamport[y] \/ (lamport[x] = lamport[y] /\ x < y)

Rank(X, lamport, x) == Cardinality({y \in X : Before(lamport, y, x)}) + 1

FareOrdering(X, lamport) ==
    [i \in 1..Cardinality(X) |-> CHOOSE x \in X : Rank(X, lamport, x) = i]

\* The events of a block, out of those that its Atropos confirms.
BlockEvents(E, cheaters, atropos, confirmed) ==
    LET allowed == {x \in confirmed :
                       /\ E[x].creator \notin cheaters
                       /\ IsEventAllowedIntoBlock(x,
                             HighestSeq(E, atropos, E[x].creator) - E[x].seq)}
    IN  FareOrdering(allowed, [x \in allowed |-> E[x].lamport])

\* The LastConsensusTime of the last decided frame is the time of its block.
FrameConsensusTime(S) ==
    IF S.lastDecidedFrame = 0 THEN S.prevTime ELSE S.blocks[Len(S.blocks)].time

MaxTimestamp(x, y) == IF x > y THEN x ELSE y

\* The time of the Atropos, from its median time and the Lamport times that it confirms.
FareTimestamps(last, now, lamports) ==
    LET highest == CHOOSE m \in lamports : \A l \in lamports : m >= l
        lowest == CHOOSE m \in lamports : \A l \in lamports : m <= l
        lamportPeriod == highest - lowest + 1
        timePeriod == IF last > now THEN 1 ELSE MaxTimestamp(now - last, 1)
    IN  last + MaxTimestamp(timePeriod \div lamportPeriod, 1) * lamportPeriod

ConfirmBlock(S, atropos) ==
    [index |-> Len(S.blocks) + 1, epoch |-> S.epoch, frame |-> S.lastDecidedFrame + 1,
     atropos |-> atropos, prev |-> S.lastAtropos, cheaters |-> Cheaters(S, atropos),
     events |-> BlockEvents(event, Cheaters(S, atropos), atropos, Walked(S, atropos)),
     time |-> FareTimestamps(FrameConsensusTime(S), event[atropos].medianTime,
                             {event[x].lamport : x \in Walked(S, atropos)})]

-----------------------------------------------------------------------------
\* ApplyBlock: when app, and the check that gossip keeps, seal an epoch.  app counts
\* from its last voting, gossip by frames and from the start of the pending EpochStats.
ForceSealed(b) == \E i \in DOMAIN b.events : b.events[i] \in AdvanceEpoch

ShouldSealEpoch(lastVoting, b) ==
    \/ b.index - lastVoting.block >= MaxEpochBlocks
    \/ b.time - lastVoting.time >= MaxEpochDuration
    \/ b.cheaters # {}
    \/ ForceSealed(b)

LegacyShouldSealEpoch(epochStart, b) ==
    \/ b.frame >= MaxEpochBlocks
    \/ b.time - epochStart >= MaxEpochDuration
    \/ b.cheaters # {}
    \/ ForceSealed(b)

\* processSfc marks the cheaters; GetActiveSfcStakers leaves them out.
SelectValidatorsGroup(S, b) == S.validators \ b.cheaters

\* onFrameDecided up to its checkpoint.
Decide(S, b) ==
    [S EXCEPT !.lastDecidedFrame = b.frame,
              !.lastAtropos = b.atropos,
              !.confirmedOn = [x \in DOMAIN @ \cup Walked(S, b.atropos) |->
                                  IF x \in DOMAIN @ THEN @[x] ELSE b.frame],
              !.blocks = Append(@, b)]

SealEpoch(S, b) ==
    [S EXCEPT !.epoch = @ + 1,
              !.prevEpoch = b.atropos,
              !.prevTime = b.time,
              !.validators = SelectValidatorsGroup(S, b),
              !.lastDecidedFrame = 0,
              !.lastVoting = [block |-> b.index, time |-> b.time],
              !.epochStart = b.time]

\* One decided frame of handleElection's loop, and the end of the loop.
HandleElection(n) ==
    /\ pc[n] = "electing"
    /\ LET S == store[n]
       IN  \/ /\ Elected(S) = {}
              /\ pc' = [pc EXCEPT ![n] = "idle"]
              /\ UNCHANGED <<store, applied>>
           \/ \E a \in Elected(S) :
              LET b == ConfirmBlock(S, a)
                  seal == ShouldSealEpoch(S.lastVoting, b)
                  legacy == LegacyShouldSealEpoch(S.epochStart, b)
                  D == Decide(S, b)
              IN  /\ store' = [store EXCEPT ![n] = IF seal THEN SealEpoch(D, b) ELSE D]
                  /\ pc' = [pc EXCEPT ![n] = CASE seal # legacy -> "panic"
                                               [] seal = legacy /\ seal -> "sealed"
                                               [] OTHER -> "electing"]
                  /\ applied' = applied \cup {b}
    /\ UNCHANGED <<event, disk, restarts>>

-----------------------------------------------------------------------------
\* An event of v in epoch k with self-parent sp, made when the clock shows now.
NewEvent(id, v, k, sp, others, prev, now) ==
    LET P == others \cup ({sp} \ {0})
        lamports == {event[p].lamport : p \in P} \cup {0}
    IN  [creator |-> v, epoch |-> k, selfParent |-> sp, parents |-> P,
         seq |-> IF sp = 0 THEN 1 ELSE event[sp].seq + 1,
         lamport |-> 1 + CHOOSE m \in lamports : \A l \in lamports : m >= l,
         prevEpoch |-> IF sp = 0 THEN prev ELSE 0,
         anc |-> {id} \cup UNION {event[p].anc : p \in P},
         line |-> {id} \cup (IF sp = 0 THEN {} ELSE event[sp].line),
         claimedTime |-> MaxTimestamp(now, IF sp = 0 THEN 1 ELSE event[sp].claimedTime + 1),
         frame |-> 0, isRoot |-> FALSE, medianTime |-> 0]

OwnEvents(v, k) == {i \in DOMAIN event : event[i].creator = v /\ event[i].epoch = k}

\* The heads of others, from which findBestParents takes the parents.
Candidates(S, own) ==
    {i \in EpochEvents(S) \ own : \A j \in EpochEvents(S) : i \notin event[j].parents}

Connect(n, id) ==
    /\ store' = [store EXCEPT ![n].events = @ \cup {id}]
    /\ pc' = [pc EXCEPT ![n] = IF event'[id].isRoot THEN "electing" ELSE "idle"]

(***************************************************************************)
(* EmitEvent for v: Prepare, then ProcessEvent, under one lock.  isSynced  *)
(* keeps a validator from emitting until it has all of its own events      *)
(* back.  The parents are some of the heads, none of a cheater that the    *)
(* self-parent has observed.                                               *)
(***************************************************************************)
EmitEvent(v) ==
    LET n == Home[v]
        S == store[n]
        own == OwnEvents(v, S.epoch)
        id == Cardinality(DOMAIN event) + 1
    IN  /\ pc[n] = "idle"
        /\ id <= MaxEvents /\ S.epoch <= MaxEpoch
        /\ v \in S.validators
        /\ own \subseteq S.events
        /\ \E others \in SUBSET Candidates(S, own), now \in Clock :
              LET sp == IF own = {} THEN 0 ELSE CHOOSE i \in own : \A j \in own : i >= j
                  draft == NewEvent(id, v, S.epoch, sp, others, S.prevEpoch, now)
                  idx == CalcFrameIdx(With(event, id, draft), S, id)
                  median == MedianTime(With(event, id, draft), S.validators, id, S.prevTime)
              IN  /\ NoCheaters(event, sp, others) = others
                  /\ event' = With(event, id, [draft EXCEPT !.frame = idx.frame,
                                                           !.isRoot = idx.isRoot,
                                                           !.medianTime = median])
        /\ Connect(n, id)
        /\ UNCHANGED <<disk, restarts, applied>>

\* A cheater's event: any self-parent, any parents, a claim to be a root, and the
\* median time that the nodes find or any other.
Cheat(v) ==
    LET id == Cardinality(DOMAIN event) + 1
    IN  /\ id <= MaxEvents
        /\ \E n \in Node, root \in BOOLEAN, now \in Clock :
           LET S == store[n]
           IN  /\ S.epoch <= MaxEpoch /\ v \in S.validators
               /\ \E sp \in {0} \cup OwnEvents(v, S.epoch) :
                  \E others \in SUBSET ({i \in DOMAIN event : event[i].epoch = S.epoch}
                                           \ OwnEvents(v, S.epoch)) :
                     LET draft == NewEvent(id, v, S.epoch, sp, others, S.prevEpoch, now)
                         D == With(event, id, draft)
                         f == SelfParentFrame(D, id)
                     IN  /\ root \/ f > 0
                         /\ \E median \in Clock \cup {MedianTime(D, S.validators, id, S.prevTime)} :
                               event' = With(event, id, [draft EXCEPT
                                           !.frame = IF root THEN f + 1 ELSE f,
                                           !.isRoot = root, !.medianTime = median])
        /\ UNCHANGED <<store, disk, pc, restarts, applied>>

\* ProcessEvent of an event that passes the checks; others change nothing.
ProcessEvent(n, id) ==
    /\ pc[n] = "idle"
    /\ id \notin store[n].events
    /\ event[id].parents \subseteq store[n].events
    /\ CheckEvent(store[n], id)
    /\ UNCHANGED event
    /\ Connect(n, id)
    /\ UNCHANGED <<disk, restarts, applied>>

\* The store is flushed between events, and at once after an epoch is sealed.
Commit(n) ==
    /\ pc[n] \in {"idle", "sealed"}
    /\ disk' = [disk EXCEPT ![n] = store[n]]
    /\ pc' = [pc EXCEPT ![n] = "idle"]
    /\ UNCHANGED <<event, store, restarts, applied>>

\* A crash, and Bootstrap on what was flushed.
Bootstrap(n) ==
    /\ restarts < MaxRestarts
    /\ restarts' = restarts + 1
    /\ store' = [store EXCEPT ![n] = disk[n]]
    /\ pc' = [pc EXCEPT ![n] = "electing"]
    /\ UNCHANGED <<event, disk, applied>>

-----------------------------------------------------------------------------
\* ApplyGenesis
Genesis ==
    [events |-> {}, epoch |-> 1, validators |-> Validators, prevEpoch |-> 0,
     prevTime |-> GenesisTime, lastDecidedFrame |-> 0, lastAtropos |-> 0,
     confirmedOn |-> [x \in {} |-> 0], blocks |-> <<>>,
     lastVoting |-> [block |-> 0, time |-> GenesisTime], epochStart |-> GenesisTime]

Init ==
    /\ event = [i \in {} |-> 0]
    /\ store = [n \in Node |-> Genesis]
    /\ disk = [n \in Node |-> Genesis]
    /\ pc = [n \in Node |-> "idle"]
    /\ restarts = 0
    /\ applied = {}

Next ==
    \/ \E v \in Validators \ Cheater : EmitEvent(v)
    \/ \E v \in Cheater : Cheat(v)
    \/ \E n \in Node, id \in DOMAIN event : ProcessEvent(n, id)
    \/ \E n \in Node : HandleElection(n)
    \/ \E n \in Node : Commit(n)
    \/ \E n \in Node : Bootstrap(n)

Spec == Init /\ [][Next]_vars

-----------------------------------------------------------------------------
TypeOK ==
    /\ DOMAIN event \subseteq 1..MaxEvents
    /\ pc \in [Node -> {"idle", "electing", "sealed", "panic"}]
    /\ restarts \in 0..MaxRestarts
    /\ \A n \in Node : \A S \in {store[n], disk[n]} :
          /\ S.events \subseteq DOMAIN event
          /\ \A i \in S.events : event[i].parents \subseteq S.events
          /\ DOMAIN S.confirmedOn \subseteq S.events
          /\ S.validators \subseteq Validators /\ S.validators # {}
          /\ S.lastDecidedFrame \in 0..MaxEpochBlocks
          /\ S.blocks \in Seq(applied)

(***************************************************************************)
(* Whatever order the events arrived in, and whatever was lost in crashes, *)
(* a block number has one block: same Atropos, same events in the same     *)
(* order, same cheaters, same time.  This includes blocks that a node      *)
(* applied and announced but lost before they were flushed.                *)
(***************************************************************************)
BlocksAgree == \A b, c \in applied : b.index = c.index => b = c

(***************************************************************************)
(* An honest validator's event passes checkAndSaveEvent on every node that *)
(* is in its epoch and has its parents: the frame, the root flag, the      *)
(* median time and the previous epoch's hash that Prepare computed from    *)
(* one node's store are what every other node computes from its own.       *)
(***************************************************************************)
HonestAccepted ==
    \A n \in Node, i \in DOMAIN event :
        (/\ event[i].creator \notin Cheater
         /\ event[i].epoch = store[n].epoch
         /\ event[i].parents \subseteq store[n].events) => CheckEvent(store[n], i)

(***************************************************************************)
(* An event is in at most one block, and after all the events that it      *)
(* observes and that are in a block too.                                   *)
(***************************************************************************)
ConfirmedInOrder ==
    \A n \in Node :
        LET blocks == store[n].blocks
        IN  \A i, j \in DOMAIN blocks :
            \A p \in DOMAIN blocks[i].events, q \in DOMAIN blocks[j].events :
                (i < j \/ (i = j /\ p < q))
                    => blocks[j].events[q] \notin event[blocks[i].events[p]].anc

=============================================================================
