------------------------------ MODULE Election ------------------------------
(***************************************************************************)
(* poset/election, with the loops of poset/poset.go that feed it: every    *)
(* node runs the same election over the roots it knows and chooses one     *)
(* Atropos per frame.                                                      *)
(*                                                                         *)
(* The election is a function of two callbacks, the roots of a frame       *)
(* (getFrameRoots) and forkless cause between roots (observe).  Here the   *)
(* roots of the network and what each of them observes grow freely, within *)
(* what the callers guarantee (calcFrameIdx, ForklessCause); the nodes     *)
(* receive the roots in any order that puts a root after the ones it       *)
(* observes.  The index and the frame calculation that give those          *)
(* guarantees are modelled in VectorIndex and Poset.                       *)
(*                                                                         *)
(* A node handles a root under one lock (engineMu).  After a decision the  *)
(* handler loops over the known roots; each turn of the loop is a step     *)
(* here, and pc keeps the node inside the loop until it ends.              *)
(***************************************************************************)
EXTENDS Pos

CONSTANTS
    Node,        \* the nodes that run the election
    Cheater,     \* the validators that may fork
    ForkId,      \* tells the roots of one slot apart
    MaxFrame,    \* bound: no root is created above this frame
    MaxRestarts  \* bound: the restarts of all nodes together

ASSUME ElectionAssumption ==
    /\ Cheater \subseteq Validators
    /\ 0 \in ForkId
    /\ MaxFrame \in Nat \ {0}
    /\ MaxRestarts \in Nat
    /\ 3 * Sum(Cheater) < TotalStake

VARIABLES
    roots,          \* the roots that exist in the network
    obs,            \* root -> the roots of the previous frame that forkless-cause it
    known,          \* node -> the roots in its store (getFrameRoots)
    frameToDecide,  \* node -> Election.frameToDecide, i.e. LastDecidedFrame + 1
    votes,          \* node -> Election.votes
    decidedRoots,   \* node -> Election.decidedRoots, as the deciding votes
    pc,             \* node -> "idle", "known" (in processKnownRoots) or "crit"
    todo,           \* node -> the roots processKnownRoots has still to process
    disk,           \* node -> the roots and frameToDecide last committed
    restarts,       \* how many restarts happened
    cast,           \* history: every vote a node computed
    decisions       \* history: every Atropos a node chose

vars == <<roots, obs, known, frameToDecide, votes, decidedRoots, pc, todo,
          disk, restarts, cast, decisions>>

\* election.RootAndSlot: the slot (frame, validator) and the root's identity.
Root == [frame : 1..MaxFrame, validator : Validators, id : ForkId]

\* The zero hash of a "no" vote.
NoRoot == [frame |-> 0, validator |-> 0, id |-> 0]

\* voteID and voteValue in one record, with the frame being decided.
Vote == [election : 1..MaxFrame, from : Root, for : Validators,
         yes : BOOLEAN, observedRoot : Root \cup {NoRoot}, decided : BOOLEAN]

Creators(R) == {r.validator : r \in R}

-----------------------------------------------------------------------------
(***************************************************************************)
(* What the callers of the election guarantee about a new root:            *)
(*  - calcFrameIdx: its creator has a root of the previous frame below it, *)
(*    and it is forkless-caused by a quorum of the previous frame's roots; *)
(*  - ForklessCause: of the forks in a slot, at most one forkless-causes   *)
(*    anything, while less than 1/3 of the stake cheats;                   *)
(*  - only a cheater has two roots in a slot.                              *)
(***************************************************************************)
ObservableTogether(S) ==
    \A s \in S : \A q \in roots : \A t \in obs[q] \cup S :
        (t.frame = s.frame /\ t.validator = s.validator) => t = s

AddRoot(r) ==
    /\ r \notin roots
    /\ r.validator \in Cheater \/ r.id = 0
    /\ \E S \in SUBSET {s \in roots : s.frame = r.frame - 1} :
          /\ \/ r.frame = 1
             \/ /\ \E p \in roots : /\ p.frame = r.frame - 1
                                    /\ p.validator = r.validator
                /\ HasQuorum(Creators(S))
                /\ ObservableTogether(S)
          /\ obs' = [q \in roots \cup {r} |-> IF q = r THEN S ELSE obs[q]]
    /\ roots' = roots \cup {r}
    /\ UNCHANGED <<known, frameToDecide, votes, decidedRoots, pc, todo, disk,
                   restarts, cast, decisions>>

-----------------------------------------------------------------------------
\* observedRoots: the known roots of the previous frame that r observes.
ObservedRoots(n, r) == {s \in known[n] : s.frame = r.frame - 1 /\ s \in obs[r]}

\* The votes for subject v that the roots observed by r have cast.
Ballots(n, r, v) ==
    {b \in votes[n] : b.for = v /\ b.from \in ObservedRoots(n, r)}

YesVotes(B) == {b.from.validator : b \in {c \in B : c.yes}}

NoVotes(B) == {b.from.validator : b \in {c \in B : ~c.yes}}

NotDecided(n) == Validators \ {d.for : d \in decidedRoots[n]}

\* In the first round a root votes "yes" for a subject whose root it observes.
FirstVote(n, r, v) ==
    LET seen == {s \in ObservedRoots(n, r) : s.validator = v}
    IN  [election |-> frameToDecide[n], from |-> r, for |-> v,
         yes |-> seen # {},
         observedRoot |-> IF seen # {} THEN CHOOSE s \in seen : TRUE ELSE NoRoot,
         decided |-> FALSE]

\* In later rounds it votes as the majority of the roots it observes, "yes" on
\* a tie, and decides when a quorum of them agrees.
NextVote(n, r, v) ==
    LET B == Ballots(n, r, v)
        yes == Sum(YesVotes(B)) >= Sum(NoVotes(B))
        subject == {b.observedRoot : b \in {c \in B : c.yes}}
    IN  [election |-> frameToDecide[n], from |-> r, for |-> v,
         yes |-> yes,
         observedRoot |-> IF yes /\ subject # {}
                          THEN CHOOSE s \in subject : TRUE ELSE NoRoot,
         decided |-> HasQuorum(YesVotes(B)) \/ HasQuorum(NoVotes(B))]

\* Mutant: the roots of the third round and above cast no votes.
TwoRounds(n, r) ==
    IF r.frame = frameToDecide[n] + 1
    THEN {FirstVote(n, r, v) : v \in NotDecided(n)}
    ELSE IF r.frame = frameToDecide[n] + 2
         THEN {NextVote(n, r, v) : v \in NotDecided(n)}
         ELSE {}

NewVotes(n, r) ==
    IF r.frame <= frameToDecide[n]
    THEN {}
    ELSE IF r.frame = frameToDecide[n] + 1
         THEN {FirstVote(n, r, v) : v \in NotDecided(n)}
         ELSE {NextVote(n, r, v) : v \in NotDecided(n)}

\* The errors and the Crit calls of a round after the first: two fork roots
\* observed, a vote that is missing, or no quorum of votes.
BadBallots(n, r, v) ==
    LET B == Ballots(n, r, v)
    IN  \/ \E b, c \in B : b.yes /\ c.yes /\ b.observedRoot # c.observedRoot
        \/ \E b, c \in B : b.from # c.from /\ b.from.validator = c.from.validator
        \/ \E s \in ObservedRoots(n, r) : \A b \in B : b.from # s
        \/ ~HasQuorum(Creators({b.from : b \in B}))

Crit(n, r) ==
    /\ r.frame > frameToDecide[n] + 1
    /\ \E v \in NotDecided(n) : BadBallots(n, r, v)

\* Mutant: the first "yes" wins, the sort order is ignored.
ChooseAnyAtropos(D) == {d \in D : d.yes}

\* chooseAtropos: the first validator in sort order that is not decided "no",
\* if it is decided "yes".
ChooseAtropos(D) ==
    {d \in D : /\ d.yes
               /\ \A w \in Validators : Less(w, d.for) =>
                      \E e \in D : e.for = w /\ ~e.yes}

\* chooseAtropos's error: every validator is decided "no".
AllDecidedNo(D) == \A v \in Validators : \E d \in D : d.for = v /\ ~d.yes

-----------------------------------------------------------------------------
\* Mutant: the walk starts one frame too late.
RootsAfter(R, f) ==
    {r \in R : /\ r.frame > f + 1
               /\ \A g \in f..r.frame : \E q \in R : q.frame = g}

\* The roots processKnownRoots walks through: from frame f up to the first
\* frame without roots.
RootsFrom(R, f) ==
    {r \in R : /\ r.frame >= f
               /\ \A g \in f..r.frame : \E q \in R : q.frame = g}

(***************************************************************************)
(* ProcessRoot on r, and onFrameDecided when it decides the frame.  The    *)
(* check at ProcessRoot's entry sees what the previous call left, for      *)
(* which that call's last check returned nil.  rest is what remains of the *)
(* loop that called it.                                                    *)
(***************************************************************************)
ProcessRoot(n, r, K, rest) ==
    LET fresh == NewVotes(n, r)
        D == decidedRoots[n] \cup {b \in fresh : b.decided}
    IN  /\ known' = [known EXCEPT ![n] = K]
        /\ cast' = cast \cup fresh
        /\ \/ /\ ChooseAtropos(D) = {}
              /\ votes' = [votes EXCEPT ![n] = votes[n] \cup fresh]
              /\ decidedRoots' = [decidedRoots EXCEPT ![n] = D]
              /\ todo' = [todo EXCEPT ![n] = rest]
              /\ pc' = [pc EXCEPT ![n] =
                           IF Crit(n, r) \/ AllDecidedNo(D) THEN "crit"
                           ELSE IF rest = {} THEN "idle" ELSE "known"]
              /\ UNCHANGED <<frameToDecide, decisions>>
           \/ \E d \in ChooseAtropos(D) :
              /\ frameToDecide' = [frameToDecide EXCEPT ![n] = frameToDecide[n] + 1]
              /\ votes' = [votes EXCEPT ![n] = {}]
              /\ decidedRoots' = [decidedRoots EXCEPT ![n] = {}]
              /\ todo' = [todo EXCEPT ![n] = RootsFrom(K, frameToDecide[n] + 1)]
              /\ pc' = [pc EXCEPT ![n] =
                           IF Crit(n, r) THEN "crit"
                           ELSE IF todo'[n] = {} THEN "idle" ELSE "known"]
              /\ decisions' = decisions \cup
                    {[node |-> n, frame |-> frameToDecide[n],
                      atropos |-> d.observedRoot, seen |-> K]}
        /\ UNCHANGED <<roots, obs, disk, restarts>>

\* ProcessEvent of a root event: it is stored, then the election handles it.
HandleElection(n) ==
    /\ pc[n] = "idle"
    /\ \E r \in roots \ known[n] :
          /\ obs[r] \subseteq known[n]
          /\ ProcessRoot(n, r, known[n] \cup {r}, {})

\* One turn of processKnownRoots: lower frames first, any order in a frame
\* (the store lists them by key, its cache by arrival).
ProcessKnownRoots(n) ==
    /\ pc[n] = "known"
    /\ \E r \in todo[n] :
          /\ \A s \in todo[n] : r.frame <= s.frame
          /\ ProcessRoot(n, r, known[n], todo[n] \ {r})

\* The store is committed after an event is processed.
Commit(n) ==
    /\ pc[n] = "idle"
    /\ disk' = [disk EXCEPT ![n] = [known |-> known[n],
                                    frameToDecide |-> frameToDecide[n]]]
    /\ UNCHANGED <<roots, obs, known, frameToDecide, votes, decidedRoots, pc,
                   todo, restarts, cast, decisions>>

\* A crash loses what was not committed; Bootstrap starts a new election from
\* the checkpoint and processes the known roots.
Bootstrap(n) ==
    /\ pc[n] # "crit"
    /\ restarts < MaxRestarts
    /\ restarts' = restarts + 1
    /\ known' = [known EXCEPT ![n] = disk[n].known]
    /\ frameToDecide' = [frameToDecide EXCEPT ![n] = disk[n].frameToDecide]
    /\ votes' = [votes EXCEPT ![n] = {}]
    /\ decidedRoots' = [decidedRoots EXCEPT ![n] = {}]
    /\ todo' = [todo EXCEPT ![n] = RootsFrom(disk[n].known, disk[n].frameToDecide)]
    /\ pc' = [pc EXCEPT ![n] = IF todo'[n] = {} THEN "idle" ELSE "known"]
    /\ UNCHANGED <<roots, obs, disk, cast, decisions>>

-----------------------------------------------------------------------------
Init ==
    /\ roots = {}
    /\ obs = [r \in {} |-> {}]
    /\ known = [n \in Node |-> {}]
    /\ frameToDecide = [n \in Node |-> 1]
    /\ votes = [n \in Node |-> {}]
    /\ decidedRoots = [n \in Node |-> {}]
    /\ pc = [n \in Node |-> "idle"]
    /\ todo = [n \in Node |-> {}]
    /\ disk = [n \in Node |-> [known |-> {}, frameToDecide |-> 1]]
    /\ restarts = 0
    /\ cast = {}
    /\ decisions = {}

Next ==
    \/ \E r \in Root : AddRoot(r)
    \/ \E n \in Node : HandleElection(n)
    \/ \E n \in Node : ProcessKnownRoots(n)
    \/ \E n \in Node : Commit(n)
    \/ \E n \in Node : Bootstrap(n)

Spec == Init /\ [][Next]_vars

-----------------------------------------------------------------------------
TypeOK ==
    /\ roots \subseteq Root
    /\ obs \in [roots -> SUBSET roots]
    /\ known \in [Node -> SUBSET roots]
    /\ frameToDecide \in [Node -> 1..MaxFrame]
    /\ votes \in [Node -> SUBSET Vote]
    /\ decidedRoots \in [Node -> SUBSET Vote]
    /\ pc \in [Node -> {"idle", "known", "crit"}]
    /\ todo \in [Node -> SUBSET roots]
    /\ disk \in [Node -> [known : SUBSET roots, frameToDecide : 1..MaxFrame]]
    /\ restarts \in 0..MaxRestarts
    /\ cast \subseteq Vote
    /\ decisions \subseteq [node : Node, frame : 1..MaxFrame, atropos : Root,
                            seen : SUBSET roots]

(***************************************************************************)
(* Whatever order the roots arrived in and however often the nodes         *)
(* restarted, any two Atropoi chosen for a frame are the same root         *)
(* ("guaranteed to be final and consistent", sort_roots.go).               *)
(***************************************************************************)
Agreement ==
    \A d, e \in decisions : d.frame = e.frame => d.atropos = e.atropos

(***************************************************************************)
(* ProcessRoot never meets its errors or Crit calls: no vote is missing    *)
(* because roots were processed out of order (after a restart or a         *)
(* decision they are all processed again), no two forks of a slot are      *)
(* counted, and the subjects are never all decided "no".                   *)
(***************************************************************************)
NoCrit == \A n \in Node : pc[n] # "crit"

(***************************************************************************)
(* "Other validators will come to the same Atropos not later than current  *)
(* highest frame + 2" (sort_roots.go), and even one frame above is enough: *)
(* once some node decided a frame, no node that is done with a root above  *)
(* all the roots the first one knew is still undecided on that frame.      *)
(***************************************************************************)
DecidedInTime ==
    \A d \in decisions : \A n \in Node :
        (pc[n] = "idle" /\ frameToDecide[n] <= d.frame) =>
            \A r \in known[n] : \E s \in d.seen : r.frame <= s.frame
=============================================================================
