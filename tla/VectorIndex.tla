---------------------------- MODULE VectorIndex ----------------------------
(***************************************************************************)
(* vector: the index of the event graph.  For every event it keeps the     *)
(* highest events observed on each branch (HighestBefore) and the lowest   *)
(* events that observe it (LowestAfter), from which ForklessCause is       *)
(* computed.  A creator that forks has several branches; which events form *)
(* a branch depends on the order in which events arrive.                   *)
(*                                                                         *)
(* The events are those eventcheck/parentscheck lets through: a self-      *)
(* parent of the same creator with the previous sequence number, other     *)
(* parents of other creators.  Honest validators do not fork.              *)
(***************************************************************************)
EXTENDS Pos

CONSTANTS
    Cheater,    \* the validators that may fork
    MaxEvents   \* bound: how many events exist

ASSUME VectorIndexAssumption ==
    /\ Cheater \subseteq Validators
    /\ MaxEvents \in Nat
    /\ 3 * Sum(Cheater) < TotalStake

VARIABLES
    event,    \* the events that exist: id -> header
    branch,   \* EventBranch table: indexed event -> its branch
    before,   \* HighestBeforeSeq table: indexed event -> vector
    after,    \* LowestAfterSeq table: indexed event -> vector
    bi,       \* branchesInfo: lastSeq and creator of every branch
    disk,     \* the tables and branchesInfo last flushed
    fcCache   \* the ForklessCause cache: <<a, b>> -> result

vars == <<event, branch, before, after, bi, disk, fcCache>>

Indexed == DOMAIN branch

\* Validators.GetIdx: the position in sort order, also the first branch's ID.
GetIdx(v) == Cardinality({w \in Validators : Less(w, v)}) + 1

SortedIDs == [i \in 1..Cardinality(Validators) |->
                 CHOOSE v \in Validators : GetIdx(v) = i]

-----------------------------------------------------------------------------
\* Vectors.  An entry beyond a vector's size reads as zero.
Zero == [seq |-> 0, minSeq |-> 0]

ForkDetected == [seq |-> 0, minSeq |-> 2147483647]

GetBefore(vec, b) == IF b \in DOMAIN vec THEN vec[b] ELSE Zero

GetAfter(vec, b) == IF b \in DOMAIN vec THEN vec[b] ELSE 0

SetAfter(vec, b, seq) ==
    [c \in DOMAIN vec \cup 1..b |-> IF c = b THEN seq ELSE GetAfter(vec, c)]

Branches(info) == DOMAIN info.lastSeq

BranchesOf(info, v) == {b \in Branches(info) : info.creator[b] = v}

AtLeastOneFork(info) == Cardinality(Branches(info)) > Cardinality(Validators)

-----------------------------------------------------------------------------
\* Mutant: a fork stays in the branch of its self-parent.
FillOwnBranch(e) ==
    IF e.selfParent = 0 THEN GetIdx(e.creator) ELSE branch[e.selfParent]

\* fillGlobalBranchID: the branch of e, a new one when e forks from what has
\* arrived before.
FillGlobalBranchID(e) ==
    LET own == IF e.selfParent = 0 THEN GetIdx(e.creator) ELSE branch[e.selfParent]
        new == Cardinality(Branches(bi)) + 1
    IN  IF bi.lastSeq[own] + 1 = e.seq THEN own ELSE new

\* branchesInfo after e has joined branch b.
UpdateBranches(e, b) ==
    [lastSeq |-> [c \in Branches(bi) \cup {b} |->
                     IF c = b THEN e.seq ELSE bi.lastSeq[c]],
     creator |-> [c \in Branches(bi) \cup {b} |->
                     IF c = b THEN e.creator ELSE bi.creator[c]]]

\* What e observes on branch c: its parents' entries, and e itself.
Observed(e, me, c) ==
    {GetBefore(before[p], c) : p \in e.parents}
        \cup (IF c = me THEN {[seq |-> e.seq, minSeq |-> e.seq]} ELSE {})

\* The entry before forks are looked for: a parent's fork mark, else the
\* highest and the lowest sequence number.
MergedEntry(e, me, c) ==
    LET seen == {s \in Observed(e, me, c) : s.seq # 0}
    IN  IF seen = {} THEN Zero
        ELSE [seq |-> CHOOSE n \in {s.seq : s \in seen} : \A s \in seen : n >= s.seq,
              minSeq |-> CHOOSE n \in {s.minSeq : s \in seen} :
                            \A s \in seen : n <= s.minSeq]

\* A parent observes a fork of v, or two branches of v overlap in e's view.
ForkObserved(e, me, info, v) ==
    \/ \E c \in BranchesOf(info, v) : ForkDetected \in Observed(e, me, c)
    \/ /\ AtLeastOneFork(info)
       /\ \E c, d \in BranchesOf(info, v) :
             LET x == MergedEntry(e, me, c)
                 y == MergedEntry(e, me, d)
             IN  /\ c # d
                 /\ x.seq # 0 /\ y.seq # 0
                 /\ x.minSeq <= y.seq /\ y.minSeq <= x.seq

HighestBefore(e, me, info) ==
    [c \in Branches(info) |-> IF ForkObserved(e, me, info, info.creator[c])
                              THEN ForkDetected ELSE MergedEntry(e, me, c)]

\* dfsSubgraph with onWalk: from e's parents down, not below an event that
\* branch me observes already; the smallest set that the walk does not leave.
Walked(e, me) ==
    LET enters(w, W) == /\ GetAfter(after[w], me) = 0
                        /\ w \in e.parents \/ \E c \in W : w \in event[c].parents
        closed == {W \in SUBSET Indexed : \A w \in Indexed : enters(w, W) => w \in W}
    IN  {w \in Indexed : \A W \in closed : w \in W}

-----------------------------------------------------------------------------
(***************************************************************************)
(* parentscheck.Validate, for an event that its creator can have made.     *)
(* anc, the events it observes, and line, its self-parents (itself         *)
(* included in both) are the graph that the index is compared with.        *)
(***************************************************************************)
Event(id, v, sp, others) ==
    [creator |-> v,
     seq |-> IF sp = 0 THEN 1 ELSE event[sp].seq + 1,
     selfParent |-> sp,
     parents |-> others \cup ({sp} \ {0}),
     anc |-> {id} \cup UNION {event[p].anc : p \in others \cup ({sp} \ {0})},
     line |-> {id} \cup (IF sp = 0 THEN {} ELSE event[sp].line)]

OwnEvents(v) == {i \in DOMAIN event : event[i].creator = v}

CreateEvent(v) ==
    \E id \in 1..MaxEvents :
        /\ id = 1 \/ id - 1 \in DOMAIN event
        /\ \A i \in DOMAIN event : i < id
        /\ \E sp \in {0} \cup OwnEvents(v) :
           \E others \in SUBSET (DOMAIN event \ OwnEvents(v)) :
              /\ v \in Cheater \/ \A i \in OwnEvents(v) : sp # 0 /\ i \in event[sp].anc
              /\ event' = [i \in DOMAIN event \cup {id} |->
                              IF i = id THEN Event(id, v, sp, others) ELSE event[i]]
        /\ UNCHANGED <<branch, before, after, bi, disk, fcCache>>

\* Add: the event's vectors, and the LowestAfter of what it newly observes.
Add(id) ==
    /\ id \notin Indexed
    /\ event[id].parents \subseteq Indexed
    /\ LET e == event[id]
           me == FillGlobalBranchID(e)
           info == UpdateBranches(e, me)
           walked == Walked(e, me)
       IN  /\ bi' = info
           /\ branch' = [i \in Indexed \cup {id} |-> IF i = id THEN me ELSE branch[i]]
           /\ before' = [i \in Indexed \cup {id} |->
                            IF i = id THEN HighestBefore(e, me, info) ELSE before[i]]
           /\ after' = [i \in Indexed \cup {id} |->
                           CASE i = id -> SetAfter([c \in Branches(bi) |-> 0], me, e.seq)
                             [] i \in walked -> SetAfter(after[i], me, e.seq)
                             [] OTHER -> after[i]]
    /\ UNCHANGED <<event, disk, fcCache>>

Flush ==
    /\ disk' = [branch |-> branch, before |-> before, after |-> after, bi |-> bi]
    /\ UNCHANGED <<event, branch, before, after, bi, fcCache>>

\* The tables go back to what was flushed.
DropNotFlushed ==
    /\ branch' = disk.branch
    /\ before' = disk.before
    /\ after' = disk.after
    /\ bi' = disk.bi
    /\ UNCHANGED disk

\* An event failed its checks.  It may come again; the ForklessCause cache
\* still holds what was computed about it.
DropFailed ==
    /\ DropNotFlushed
    /\ UNCHANGED <<event, fcCache>>

\* Prepare: the emitter's draft was indexed to find its frame.  The event that
\* will be emitted has another hash, so the draft is never seen again.
DropDraft ==
    /\ DropNotFlushed
    /\ event' = [i \in DOMAIN disk.branch |-> event[i]]
    /\ fcCache' = [p \in {q \in DOMAIN fcCache : /\ q[1] \in DOMAIN disk.branch
                                                /\ q[2] \in DOMAIN disk.branch}
                      |-> fcCache[p]]

-----------------------------------------------------------------------------
\* forklessCause: a does not observe a fork of b's creator, and observes that
\* a quorum of validators, none of which it saw forking, observes b.
ForklessCauseNow(a, b) ==
    /\ AtLeastOneFork(bi) => GetBefore(before[a], branch[b]) # ForkDetected
    /\ HasQuorum({v \in Validators : \E c \in BranchesOf(bi, v) :
          /\ GetAfter(after[b], c) <= GetBefore(before[a], c).seq
          /\ GetAfter(after[b], c) # 0
          /\ GetBefore(before[a], c) # ForkDetected})

ForklessCause(a, b) ==
    /\ a \in Indexed /\ b \in Indexed
    /\ <<a, b>> \notin DOMAIN fcCache
    /\ fcCache' = [p \in DOMAIN fcCache \cup {<<a, b>>} |->
                      IF p = <<a, b>> THEN ForklessCauseNow(a, b) ELSE fcCache[p]]
    /\ UNCHANGED <<event, branch, before, after, bi, disk>>

\* NoCheaters: the options whose creators selfParent (0: nil) has not seen forking.
NoCheaters(selfParent, options) ==
    {o \in options :
        \/ selfParent = 0
        \/ GetBefore(before[selfParent], GetIdx(event[o].creator)) # ForkDetected}

-----------------------------------------------------------------------------
\* newInitialBranchesInfo
InitialBranches == [lastSeq |-> [i \in 1..Cardinality(Validators) |-> 0],
                    creator |-> SortedIDs]

Empty == [i \in {} |-> 0]

Init ==
    /\ event = Empty
    /\ branch = Empty
    /\ before = Empty
    /\ after = Empty
    /\ bi = InitialBranches
    /\ disk = [branch |-> Empty, before |-> Empty, after |-> Empty,
               bi |-> InitialBranches]
    /\ fcCache = Empty

Next ==
    \/ \E v \in Validators : CreateEvent(v)
    \/ \E id \in DOMAIN event : Add(id)
    \/ Flush
    \/ DropFailed
    \/ DropDraft
    \/ \E a, b \in DOMAIN event : ForklessCause(a, b)

Spec == Init /\ [][Next]_vars

-----------------------------------------------------------------------------
\* The graph's view of what the index computes.
Observes(a, b) == b \in event[a].anc

\* Two events of a creator, neither of which descends from the other by
\* self-parents.
Fork(x, y) ==
    /\ event[x].creator = event[y].creator
    /\ x \notin event[y].line /\ y \notin event[x].line

SeesFork(a, v) ==
    \E x, y \in event[a].anc : event[x].creator = v /\ Fork(x, y)

\* What the comment on ForklessCause promises, over the graph.
Causes(a, b) ==
    /\ ~SeesFork(a, event[b].creator)
    /\ HasQuorum({v \in Validators :
          /\ ~SeesFork(a, v)
          /\ \E x \in event[a].anc : event[x].creator = v /\ Observes(x, b)})

TypeOK ==
    /\ DOMAIN event \subseteq 1..MaxEvents
    /\ Indexed \subseteq DOMAIN event
    /\ DOMAIN before = Indexed /\ DOMAIN after = Indexed
    /\ \A i \in Indexed : branch[i] \in Branches(bi)
    /\ \A i \in Indexed : DOMAIN before[i] \subseteq Branches(bi)
    /\ \A i \in Indexed : DOMAIN after[i] \subseteq Branches(bi)
    /\ \A i \in Indexed : bi.creator[branch[i]] = event[i].creator
    /\ DOMAIN fcCache \subseteq (DOMAIN event) \X (DOMAIN event)

(***************************************************************************)
(* The vectors give exactly the graph's relation, for all events of the    *)
(* index and in whatever order they and the forks arrived, also for events *)
(* that were indexed before a branch existed (forkless_cause.go).  So does *)
(* the cache, which DropNotFlushed does not purge: what it holds about an  *)
(* event that was dropped is still right when the event is added again.    *)
(* And NoCheaters drops exactly the options of the creators of which the   *)
(* self-parent observes a fork.                                            *)
(***************************************************************************)
IndexIsGraph ==
    /\ \A a, b \in Indexed : ForklessCauseNow(a, b) <=> Causes(a, b)
    /\ \A p \in DOMAIN fcCache : fcCache[p] <=> Causes(p[1], p[2])
    /\ \A a \in Indexed :
          NoCheaters(a, Indexed) = {o \in Indexed : ~SeesFork(a, event[o].creator)}

(***************************************************************************)
(* "If B1 and B2 are forks, then they cannot BOTH forkless-cause any       *)
(* specific event A" (forkless_cause.go), nor can they forkless-cause two  *)
(* different events, while less than 1/3 of the stake cheats.              *)
(***************************************************************************)
ForksExclude ==
    \A b, c \in Indexed :
        Fork(b, c) => ~\E x, y \in Indexed : ForklessCauseNow(x, b) /\ ForklessCauseNow(y, c)
=============================================================================
