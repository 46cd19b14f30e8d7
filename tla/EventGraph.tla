----------------------------- MODULE EventGraph -----------------------------
(***************************************************************************)
(* The graph of events as poset and poset/election see it, and the outcome *)
(* of an election over it.                                                 *)
(*                                                                         *)
(* ForklessCause is the relation that VectorIndex shows the index to       *)
(* compute.  An election is its outcome when all the roots of a set of     *)
(* events are known, which Election shows not to depend on the order of    *)
(* their arrival.  E is the graph: id -> event; G is the group of          *)
(* validators of an epoch.                                                 *)
(***************************************************************************)
EXTENDS Pos

CONSTANT
    Cheater    \* the validators that may fork

ASSUME CheaterAssumption ==
    /\ Cheater \subseteq Validators
    /\ 3 * Sum(Cheater) < TotalStake

-----------------------------------------------------------------------------
\* The quorum of the validators G of an epoch.
QuorumOf(G) == (Sum(G) * 2) \div 3 + 1

HasQuorumOf(G, S) == Sum(S) >= QuorumOf(G)

\* The graph E of events, as in VectorIndex.
With(E, id, e) == [i \in DOMAIN E \cup {id} |-> IF i = id THEN e ELSE E[i]]

Fork(E, x, y) ==
    /\ E[x].creator = E[y].creator
    /\ x \notin E[y].line /\ y \notin E[x].line

SeesFork(E, a, v) ==
    \E x \in E[a].anc : E[x].creator = v /\ \E y \in E[a].anc : Fork(E, x, y)

ForklessCause(E, G, a, b) ==
    /\ ~SeesFork(E, a, E[b].creator)
    /\ HasQuorumOf(G, {v \in G :
          /\ ~SeesFork(E, a, v)
          /\ \E x \in E[a].anc : E[x].creator = v /\ b \in E[x].anc})

NoCheaters(E, selfParent, options) ==
    {o \in options : selfParent # 0 => ~SeesFork(E, selfParent, E[o].creator)}

SelfParentFrame(E, id) ==
    IF E[id].selfParent = 0 THEN 0 ELSE E[E[id].selfParent].frame

-----------------------------------------------------------------------------
(***************************************************************************)
(* The election of frame f by the validators G over the events X: its      *)
(* outcome when all the roots of X are known.                              *)
(***************************************************************************)
Roots(E, X, f) == {i \in X : E[i].isRoot /\ E[i].frame = f}

Voters(E, X, f) == {r \in X : E[r].isRoot /\ E[r].frame > f}

\* The roots of the frame below r that r observes.
ObservedRoots(E, X, G, r) ==
    {s \in Roots(E, X, E[r].frame - 1) : ForklessCause(E, G, r, s)}

\* The creators of the observed roots that vote for v, or against.
Ballots(E, seen, yes, v, answer) ==
    {E[s].creator : s \in {q \in seen : (v \in yes[q]) = answer}}

\* The validators that root r votes for, when yes holds the votes below.
VotesOf(E, G, f, r, seen, yes) ==
    IF E[r].frame = f + 1
    THEN {E[s].creator : s \in seen}
    ELSE {v \in G : Sum(Ballots(E, seen, yes, v, TRUE)) >= Sum(Ballots(E, seen, yes, v, FALSE))}

Votes(E, X, G, f) ==
    LET yes[r \in Voters(E, X, f)] ==
            VotesOf(E, G, f, r, ObservedRoots(E, X, G, r), yes)
    IN  yes

\* A root decides on v.
Decided(E, X, G, f, yes, v, answer) ==
    \E r \in Voters(E, X, f) :
       /\ E[r].frame > f + 1
       /\ HasQuorumOf(G, Ballots(E, ObservedRoots(E, X, G, r), yes, v, answer))

\* chooseAtropos: the first validator that is not decided "no", if it is
\* decided "yes".
ChooseAtropos(E, X, G, f) ==
    LET yes == Votes(E, X, G, f)
        first == {v \in G : /\ Decided(E, X, G, f, yes, v, TRUE)
                            /\ \A w \in G : Less(w, v) => Decided(E, X, G, f, yes, w, FALSE)}
    IN  {s \in Roots(E, X, f) :
            /\ E[s].creator \in first
            /\ \E r \in Voters(E, X, f) : E[r].frame = f + 1 /\ s \in ObservedRoots(E, X, G, r)}
=============================================================================
