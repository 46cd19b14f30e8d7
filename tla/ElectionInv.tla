---------------------------- MODULE ElectionInv ----------------------------
(***************************************************************************)
(* The inductive invariant from which the properties of Election are       *)
(* proved.  It is stated over the history of votes (cast), so that what    *)
(* one node computed can be compared with what any other node computes     *)
(* from the same roots.                                                    *)
(***************************************************************************)
EXTENDS Election

\* Votes in the same election about the same subject.
SameBallot(b, c) == b.election = c.election /\ b.for = c.for

\* The votes that a root's vote c is computed from.
Basis(c) == {b \in cast : SameBallot(b, c) /\ b.from \in obs[c.from]}

\* A root observes roots of the previous frame, a quorum of them, and at most
\* one root of each slot is ever observed.
RootsInv ==
    /\ \A r \in roots : /\ \A s \in obs[r] : s.frame = r.frame - 1
                        /\ r.frame > 1 => HasQuorum(Creators(obs[r]))
    /\ \A q, r \in roots : \A s \in obs[q], t \in obs[r] :
          (s.frame = t.frame /\ s.validator = t.validator) => s = t

\* A "yes" vote carries the one observable root of the subject's slot.
ObservedRootRule(c) ==
    IF c.yes
    THEN /\ c.observedRoot.frame = c.election
         /\ c.observedRoot.validator = c.for
         /\ \E q \in roots : c.observedRoot \in obs[q]
    ELSE c.observedRoot = NoRoot

\* A vote depends only on the graph of roots, not on the node that computes it.
VoteRule(c) ==
    /\ c.from \in roots
    /\ c.from.frame > c.election
    /\ ObservedRootRule(c)
    /\ c.from.frame = c.election + 1 =>
          /\ c.yes <=> c.for \in Creators(obs[c.from])
          /\ ~c.decided
    /\ c.from.frame > c.election + 1 =>
          /\ \A s \in obs[c.from] : \E b \in Basis(c) : b.from = s
          /\ c.yes <=> Sum(YesVotes(Basis(c))) >= Sum(NoVotes(Basis(c)))
          /\ c.decided <=> \/ HasQuorum(YesVotes(Basis(c)))
                           \/ HasQuorum(NoVotes(Basis(c)))

CastInv == \A c \in cast : VoteRule(c)

\* Two nodes that compute a root's vote compute the same vote.
CastFunctional ==
    \A b, c \in cast : (SameBallot(b, c) /\ b.from = c.from) => b = c

\* A ballot has votes in every frame below a frame in which it has one.
CastContiguous ==
    \A c \in cast : \A g \in (c.election + 1)..c.from.frame :
        \E a \in cast : SameBallot(a, c) /\ a.from.frame = g

\* Once the votes of a frame are unanimous, those of higher frames agree.
Unanimity ==
    \A c, b \in cast :
        (SameBallot(b, c) /\ c.from.frame < b.from.frame /\ b.yes # c.yes) =>
            \E a \in cast : /\ SameBallot(a, c)
                            /\ a.from.frame = c.from.frame
                            /\ a.yes # c.yes

\* A node's roots come with all they observe, and leave no frame out.
Closed(K) ==
    /\ \A r \in K : obs[r] \subseteq K
    /\ \A r \in K : \A g \in 1..r.frame : \E q \in K : q.frame = g

\* The frames below f are decided, by nodes that knew no more than K.
DecidedBelow(f, K) ==
    \A g \in 1..(f - 1) : \E d \in decisions : d.frame = g /\ d.seen \subseteq K

\* A node's election: its votes are cast, the roots it is done with have voted
\* on every subject that is not decided, and no decision is overdue.
LocalInv(n) ==
    /\ Closed(known[n])
    /\ Closed(disk[n].known)
    /\ DecidedBelow(frameToDecide[n], known[n])
    /\ DecidedBelow(disk[n].frameToDecide, disk[n].known)
    /\ todo[n] \subseteq known[n]
    /\ pc[n] = "idle" => todo[n] = {}
    /\ \A b \in votes[n] \cup decidedRoots[n] :
          b \in cast /\ b.election = frameToDecide[n] /\ b.from \in known[n]
    /\ \A b \in decidedRoots[n] : b.decided
    /\ \A b \in votes[n] : b.decided => b \in decidedRoots[n]
    /\ \A r \in known[n] \ todo[n] : r.frame > frameToDecide[n] =>
          \A v \in NotDecided(n) : \E b \in votes[n] : b.from = r /\ b.for = v
    /\ ChooseAtropos(decidedRoots[n]) = {}

\* The votes behind a decision.
DecisionBasis(d) ==
    \E c \in cast :
        /\ c.election = d.frame
        /\ c.decided /\ c.yes
        /\ c.observedRoot = d.atropos
        /\ c.from \in d.seen
        /\ \A w \in Validators : Less(w, c.for) =>
              \E e \in cast : /\ e.election = d.frame /\ e.for = w
                              /\ e.decided /\ ~e.yes
                              /\ e.from \in d.seen

DecisionsInv ==
    \A d \in decisions :
        /\ DecisionBasis(d)
        /\ DecidedBelow(d.frame, d.seen)

(***************************************************************************)
(* The inductive invariant: the votes of all nodes come from one function  *)
(* of the graph, unanimity persists from frame to frame, each node's       *)
(* election is complete for the roots it is done with, and every decision  *)
(* rests on decided votes.                                                 *)
(***************************************************************************)
IInv ==
    /\ TypeOK
    /\ RootsInv
    /\ CastInv
    /\ CastFunctional
    /\ CastContiguous
    /\ Unanimity
    /\ \A n \in Node : LocalInv(n)
    /\ DecisionsInv
=============================================================================
