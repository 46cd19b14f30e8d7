------------------------- MODULE EventGraphProofs -------------------------
(***************************************************************************)
(* Over a graph of events in which less than a third of the stake forks,   *)
(* an election has one outcome, whichever of the events are known: the     *)
(* votes of a root follow from what it observes, what a quorum has         *)
(* answered all later roots answer, and more events change nothing that    *)
(* was decided.                                                            *)
(***************************************************************************)
EXTENDS EventGraph, FiniteSetTheorems, TLAPS

\* Leaves are first-order; those that need arithmetic name SMT.
USE ZenonT(30)

-----------------------------------------------------------------------------
(***************************************************************************)
(* The stakes of sets of validators: StakeCounter.Sum is a number, grows   *)
(* with the set and is additive over disjoint sets.                        *)
(***************************************************************************)

\* The stake units of a set of validators are finitely many.
LEMMA StakeUnitsFinite ==
    ASSUME NEW S \in SUBSET Validators
    PROVE  IsFiniteSet(StakeUnits(S))
<1> DEFINE Units(v) == {v} \X (1..Stake[v])
           f == [v \in S |-> Units(v)]
           Image == {Units(v) : v \in S}
<1>1. IsFiniteSet(S)
  BY FS_Subset, PosAssumption
<1>2. f \in Surjection(S, Image)
  BY DEF Surjection
<1>3. IsFiniteSet(Image)
  BY <1>1, <1>2, FS_Surjection
<1>4. ASSUME NEW v \in S
      PROVE  IsFiniteSet(Units(v))
  <2>1. Stake[v] \in Int
    BY SMTT(30), PosAssumption
  <2>2. IsFiniteSet(1..Stake[v])
    BY SMTT(30), <2>1, FS_Interval
  <2>3. IsFiniteSet({v})
    BY FS_Singleton
  <2> QED
    BY <2>2, <2>3, FS_Product
<1>5. \A T \in Image : IsFiniteSet(T)
  BY <1>4
<1>6. IsFiniteSet(UNION Image)
  BY <1>3, <1>5, FS_UNION
<1> QED
  BY <1>6 DEF StakeUnits

\* A stake counter's sum is a natural number.
LEMMA SumType ==
    ASSUME NEW S \in SUBSET Validators
    PROVE  Sum(S) \in Nat
BY StakeUnitsFinite, FS_CardinalityType DEF Sum

\* Counting more validators never lowers the sum.
LEMMA SumMonotone ==
    ASSUME NEW S \in SUBSET Validators, NEW R \in SUBSET S
    PROVE  Sum(R) <= Sum(S)
<1>1. StakeUnits(R) \in SUBSET StakeUnits(S)
  BY DEF StakeUnits
<1> QED
  BY <1>1, StakeUnitsFinite, FS_Subset DEF Sum

\* Validators are counted once, so sums of disjoint sets add up.
LEMMA SumDisjoint ==
    ASSUME NEW S \in SUBSET Validators, NEW R \in SUBSET Validators,
           S \cap R = {}
    PROVE  Sum(S \cup R) = Sum(S) + Sum(R)
<1>1. StakeUnits(S \cup R) = StakeUnits(S) \cup StakeUnits(R)
  BY DEF StakeUnits
<1>2. StakeUnits(S) \cap StakeUnits(R) = {}
  BY SMTT(30) DEF StakeUnits
<1>3. Cardinality(StakeUnits(S) \cap StakeUnits(R)) = 0
  BY <1>2, FS_EmptySet
<1>4. Cardinality(StakeUnits(S) \cup StakeUnits(R))
        = Cardinality(StakeUnits(S)) + Cardinality(StakeUnits(R)) - 0
  BY <1>3, StakeUnitsFinite, FS_Union
<1>5. Cardinality(StakeUnits(S)) \in Nat /\ Cardinality(StakeUnits(R)) \in Nat
  BY StakeUnitsFinite, FS_CardinalityType
<1>6. Sum(S \cup R) = Cardinality(StakeUnits(S) \cup StakeUnits(R))
  BY <1>1 DEF Sum
<1>7. Sum(S) = Cardinality(StakeUnits(S)) /\ Sum(R) = Cardinality(StakeUnits(R))
  BY DEF Sum
<1> QED
  BY SMTT(30), <1>4, <1>5, <1>6, <1>7

\* The order in which chooseAtropos asks the validators is total.
LEMMA LessTotal ==
    ASSUME NEW v \in Validators, NEW w \in Validators
    PROVE  Less(v, w) \/ Less(w, v) \/ v = w
<1>1. v \in Nat /\ w \in Nat /\ Stake[v] \in Nat /\ Stake[w] \in Nat
  BY PosAssumption
<1> QED
  BY SMTT(30), <1>1 DEF Less

-----------------------------------------------------------------------------
(***************************************************************************)
(* The graph of events.                                                    *)
(***************************************************************************)
Header(E, i) ==
    /\ E[i].creator \in Validators
    /\ E[i].epoch \in Nat
    /\ E[i].parents \subseteq DOMAIN E
    /\ \A p \in E[i].parents : p < i /\ E[p].epoch = E[i].epoch
    /\ E[i].selfParent \in E[i].parents \cup {0}
    /\ E[i].selfParent # 0 => E[E[i].selfParent].creator = E[i].creator

Ancestors(E, i) ==
    /\ i \in E[i].anc /\ E[i].anc \subseteq DOMAIN E
    /\ E[i].parents \subseteq E[i].anc
    /\ \A j \in E[i].anc : j <= i /\ E[j].epoch = E[i].epoch /\ E[j].anc \subseteq E[i].anc
    /\ \A j \in E[i].anc \ {i} : \E c \in E[i].anc : j \in E[c].parents

\* Frames grow along self-parents, and with every root.
SelfParents(E, i) ==
    /\ E[i].isRoot \in BOOLEAN
    /\ E[i].frame \in 1..i
    /\ E[i].frame = SelfParentFrame(E, i) + (IF E[i].isRoot THEN 1 ELSE 0)
    /\ i \in E[i].line /\ E[i].line \subseteq E[i].anc
    /\ \A j \in E[i].line :
          /\ E[j].creator = E[i].creator
          /\ E[j].frame <= E[i].frame
          /\ j # i /\ E[i].isRoot => E[j].frame < E[i].frame

\* A validator that is not a cheater has one line of events in an epoch.
Honest(E) ==
    \A i, j \in DOMAIN E :
       (/\ E[i].creator = E[j].creator /\ E[i].creator \notin Cheater
        /\ E[i].epoch = E[j].epoch) => i \in E[j].line \/ j \in E[i].line

Graph(E) ==
    /\ \E k \in Nat : DOMAIN E = 1..k
    /\ \A i \in DOMAIN E : Header(E, i) /\ Ancestors(E, i) /\ SelfParents(E, i)
    /\ Honest(E)

Extends(E, F) == DOMAIN E \subseteq DOMAIN F /\ \A i \in DOMAIN E : F[i] = E[i]

FewCheaters(G) == G \subseteq Validators /\ 3 * Sum(Cheater \cap G) < Sum(G)

\* The roots of the frame below r that r observes, wherever they are known.
Seen(E, G, r) ==
    {s \in E[r].anc : E[s].isRoot /\ E[s].frame = E[r].frame - 1 /\ ForklessCause(E, G, r, s)}

\* What checkAndSaveEvent has found of a root.
RootOK(E, G, r) ==
    (E[r].isRoot /\ E[r].frame > 1) => HasQuorumOf(G, {E[s].creator : s \in Seen(E, G, r)})

\* Events of epoch k that a node may have accepted, with all they observe.
Slice(E, X, G, k) ==
    \A i \in X : /\ i \in DOMAIN E /\ E[i].epoch = k
                 /\ E[i].anc \subseteq X
                 /\ E[i].creator \in G
                 /\ RootOK(E, G, i)

\* All the events of epoch k that a node may have accepted.
Valid(E, k, G) ==
    {i \in DOMAIN E : /\ E[i].epoch = k
                      /\ \A j \in E[i].anc : E[j].creator \in G /\ RootOK(E, G, j)}

\* What an event observes, and the Lamport times, from its parents.
Lineage(E) ==
    \A i \in DOMAIN E :
       /\ E[i].anc = {i} \cup UNION {E[p].anc : p \in E[i].parents}
       /\ E[i].seq \in Nat \ {0} /\ E[i].lamport \in 1..i
       /\ \A j \in E[i].anc \ {i} : E[j].lamport < E[i].lamport

-----------------------------------------------------------------------------
\* A nonempty set of numbers has a smallest one.
LEMMA Smallest ==
    ASSUME NEW S \in SUBSET Nat, S # {}
    PROVE  \E m \in S : \A n \in S : m <= n
<1> DEFINE R == OpToRel(<, Nat)
<1>1. IsWellFoundedOn(R, Nat)
  BY NatLessThanWellFounded
<1>2. \A m, n \in Nat : m < n => <<m, n>> \in R
  BY DEF OpToRel
<1> HIDE DEF R
<1>3. PICK m \in S : \A n \in S : ~(<<n, m>> \in R)
  BY <1>1, WFMin
<1>4. ASSUME NEW n \in S
      PROVE  m <= n
  <2>1. m \in Nat /\ n \in Nat
    OBVIOUS
  <2>2. ~(n < m)
    BY <1>2, <1>3, <2>1
  <2> QED
    BY SMTT(30), <2>1, <2>2
<1> QED
  BY <1>4

\* A bounded nonempty set of numbers has a largest one.
LEMMA Largest ==
    ASSUME NEW k \in Nat, NEW S \in SUBSET 0..k, S # {}
    PROVE  \E m \in S : \A n \in S : m >= n
<1> DEFINE U == {u \in Nat : \A n \in S : u >= n}
<1>1. k \in U /\ U \in SUBSET Nat
  BY SMTT(30)
<1>2. PICK u \in U : \A w \in U : u <= w
  BY <1>1, Smallest
<1>3. u \in S
  <2> SUFFICES ASSUME u \notin S PROVE FALSE
    OBVIOUS
  <2>1. \A n \in S : n \in Nat /\ u >= n /\ u # n
    BY SMTT(30)
  <2>2. PICK n \in S : TRUE
    OBVIOUS
  <2>3. u - 1 \in Nat
    BY SMTT(30), <2>1, <2>2
  <2>4. u - 1 \in U
    BY SMTT(30), <2>1, <2>3
  <2> QED
    BY SMTT(30), <1>2, <2>4
<1> QED
  BY <1>3

-----------------------------------------------------------------------------
(***************************************************************************)
(* Stakes of the validators G of an epoch.                                 *)
(***************************************************************************)

\* A group's quorum is more than two thirds of its stake.
LEMMA GroupQuorum ==
    ASSUME NEW G \in SUBSET Validators
    PROVE  /\ Sum(G) \in Nat
           /\ QuorumOf(G) \in Nat /\ QuorumOf(G) > 0
           /\ 3 * QuorumOf(G) > 2 * Sum(G)
<1>1. Sum(G) \in Nat
  BY SumType
<1>2. ASSUME NEW t \in Nat
      PROVE  /\ (t * 2) \div 3 + 1 \in Nat
             /\ (t * 2) \div 3 + 1 > 0
             /\ 3 * ((t * 2) \div 3 + 1) > 2 * t
  BY SMTT(30)
<1> QED
  BY <1>1, <1>2 DEF QuorumOf

\* A stake is the sum of its parts inside and outside a set.
LEMMA SplitSum ==
    ASSUME NEW A \in SUBSET Validators, NEW B
    PROVE  /\ Sum(A) = Sum(A \cap B) + Sum(A \ B)
           /\ Sum(A) \in Nat /\ Sum(A \cap B) \in Nat /\ Sum(A \ B) \in Nat
<1>1. Sum((A \cap B) \cup (A \ B)) = Sum(A \cap B) + Sum(A \ B)
  BY SumDisjoint
<1>2. (A \cap B) \cup (A \ B) = A
  OBVIOUS
<1> QED
  BY <1>1, <1>2, SumType

\* Sets of the group share what they have together beyond its stake.
LEMMA GroupOverlap ==
    ASSUME NEW G \in SUBSET Validators, NEW A \in SUBSET G, NEW B \in SUBSET G
    PROVE  Sum(A) + Sum(B) <= Sum(A \cap B) + Sum(G)
<1>1. Sum(A) = Sum(A \cap B) + Sum(A \ B)
  BY SplitSum
<1>2. Sum((A \ B) \cup B) = Sum(A \ B) + Sum(B)
  BY SumDisjoint
<1>3. Sum((A \ B) \cup B) <= Sum(G)
  BY SumMonotone
<1>4. /\ Sum(A) \in Nat /\ Sum(B) \in Nat /\ Sum(A \cap B) \in Nat /\ Sum(A \ B) \in Nat
      /\ Sum(G) \in Nat /\ Sum((A \ B) \cup B) \in Nat
  BY SumType
<1> QED
  BY SMTT(30), <1>1, <1>2, <1>3, <1>4

\* A quorum is not empty.
LEMMA GroupNonEmpty ==
    ASSUME NEW G \in SUBSET Validators, NEW A \in SUBSET G, HasQuorumOf(G, A)
    PROVE  A # {}
<1>1. SUFFICES ASSUME A = {} PROVE FALSE
  OBVIOUS
<1>2. StakeUnits(A) = {}
  BY <1>1 DEF StakeUnits
<1>3. Sum(A) = 0
  BY <1>2, FS_EmptySet DEF Sum
<1> QED
  BY SMTT(30), <1>3, GroupQuorum DEF HasQuorumOf

\* Two quorums share a validator that is no cheater.
LEMMA GroupHonest ==
    ASSUME NEW G, FewCheaters(G),
           NEW A \in SUBSET G, HasQuorumOf(G, A), NEW B \in SUBSET G, HasQuorumOf(G, B)
    PROVE  \E h \in A \cap B : h \notin Cheater
<1> SUFFICES ASSUME A \cap B \subseteq Cheater \cap G PROVE FALSE
  OBVIOUS
<1>0. G \in SUBSET Validators
  BY DEF FewCheaters
<1>1. Sum(A) + Sum(B) <= Sum(A \cap B) + Sum(G)
  BY <1>0, GroupOverlap
<1>2. Sum(A \cap B) <= Sum(Cheater \cap G)
  BY <1>0, SumMonotone
<1>3. /\ Sum(A) \in Nat /\ Sum(B) \in Nat /\ Sum(A \cap B) \in Nat
      /\ Sum(Cheater \cap G) \in Nat
  BY <1>0, SumType
<1>4. /\ Sum(G) \in Nat /\ QuorumOf(G) \in Nat /\ 3 * QuorumOf(G) > 2 * Sum(G)
  BY <1>0, GroupQuorum
<1>5. Sum(A) >= QuorumOf(G) /\ Sum(B) >= QuorumOf(G) /\ 3 * Sum(Cheater \cap G) < Sum(G)
  BY DEF HasQuorumOf, FewCheaters
<1> QED
  BY SMTT(30), <1>1, <1>2, <1>3, <1>4, <1>5

\* What a quorum agrees on has the majority in every other quorum.
LEMMA GroupMajority ==
    ASSUME NEW G \in SUBSET Validators,
           NEW Agree \in SUBSET G, HasQuorumOf(G, Agree),
           NEW Counted \in SUBSET G, HasQuorumOf(G, Counted),
           NEW Same \in SUBSET G, Agree \cap Counted \subseteq Same,
           NEW Opposite \in SUBSET G, Opposite \cap Agree = {}
    PROVE  Sum(Same) > Sum(Opposite)
<1>1. Sum(Agree) + Sum(Counted) <= Sum(Agree \cap Counted) + Sum(G)
  BY GroupOverlap
<1>2. Sum(Agree \cap Counted) <= Sum(Same)
  BY SumMonotone
<1>3. Sum(Agree \cup Opposite) = Sum(Agree) + Sum(Opposite)
  BY SumDisjoint
<1>4. Sum(Agree \cup Opposite) <= Sum(G)
  BY SumMonotone
<1>5. /\ Sum(Agree) \in Nat /\ Sum(Counted) \in Nat /\ Sum(Agree \cap Counted) \in Nat
      /\ Sum(Same) \in Nat /\ Sum(Opposite) \in Nat /\ Sum(Agree \cup Opposite) \in Nat
  BY SumType
<1>6. /\ Sum(G) \in Nat /\ QuorumOf(G) \in Nat /\ 3 * QuorumOf(G) > 2 * Sum(G)
  BY GroupQuorum
<1>7. Sum(Agree) >= QuorumOf(G) /\ Sum(Counted) >= QuorumOf(G)
  BY DEF HasQuorumOf
<1> QED
  BY SMTT(30), <1>1, <1>2, <1>3, <1>4, <1>5, <1>6, <1>7

\* When cheaters are left out, those that remain still have less than a third.
LEMMA FewerCheaters ==
    ASSUME NEW C \in SUBSET Cheater
    PROVE  FewCheaters(Validators \ C)
<1> DEFINE G == Validators \ C
<1>1. Cheater \subseteq Validators /\ 3 * Sum(Cheater) < TotalStake
  BY CheaterAssumption
<1>2. Cheater \cap C = C /\ Cheater \ C = Cheater \cap G /\ Validators \cap C = C
  BY <1>1
<1>3. Sum(Cheater) = Sum(C) + Sum(Cheater \cap G)
  <2>1. Sum(Cheater) = Sum(Cheater \cap C) + Sum(Cheater \ C)
    BY <1>1, SplitSum
  <2> QED
    BY <1>2, <2>1
<1>4. Sum(Validators) = Sum(C) + Sum(G)
  <2>1. Sum(Validators) = Sum(Validators \cap C) + Sum(Validators \ C)
    BY SplitSum
  <2> QED
    BY <1>2, <2>1
<1>5. Sum(C) \in Nat /\ Sum(G) \in Nat /\ Sum(Cheater \cap G) \in Nat
  BY <1>1, SumType
<1> QED
  BY SMTT(30), <1>1, <1>3, <1>4, <1>5 DEF FewCheaters, TotalStake

-----------------------------------------------------------------------------
(***************************************************************************)
(* Forkless cause.                                                         *)
(***************************************************************************)

\* The validators through which a observes b.
Observers(E, G, a, b) ==
    {v \in G : /\ ~SeesFork(E, a, v)
               /\ \E x \in E[a].anc : E[x].creator = v /\ b \in E[x].anc}

\* What an event observes, its ancestors observe or are: b is an ancestor of a.
LEMMA CauseIsAncestor ==
    ASSUME NEW E, Graph(E), NEW G \in SUBSET Validators, NEW a \in DOMAIN E, NEW b,
           ForklessCause(E, G, a, b)
    PROVE  b \in E[a].anc /\ b \in DOMAIN E /\ E[b].epoch = E[a].epoch
<1>1. Observers(E, G, a, b) \in SUBSET G /\ HasQuorumOf(G, Observers(E, G, a, b))
  BY DEF ForklessCause, Observers
<1>2. PICK v \in Observers(E, G, a, b) : TRUE
  BY <1>1, GroupNonEmpty
<1>3. PICK x \in E[a].anc : b \in E[x].anc
  BY <1>2 DEF Observers
<1>4. Ancestors(E, a)
  BY DEF Graph
<1> QED
  BY <1>3, <1>4 DEF Ancestors

\* Two events of an epoch do not forklessly cause two events of a fork.
LEMMA NoForkCaused ==
    ASSUME NEW E, Graph(E), NEW G, FewCheaters(G),
           NEW a1 \in DOMAIN E, NEW a2 \in DOMAIN E, E[a1].epoch = E[a2].epoch,
           NEW b1, NEW b2, E[b1].creator = E[b2].creator,
           ForklessCause(E, G, a1, b1), ForklessCause(E, G, a2, b2)
    PROVE  b1 \in E[b2].line \/ b2 \in E[b1].line
<1> SUFFICES ASSUME Fork(E, b1, b2) PROVE FALSE
  BY DEF Fork
<1> DEFINE O1 == Observers(E, G, a1, b1)
           O2 == Observers(E, G, a2, b2)
<1>1. /\ O1 \in SUBSET G /\ HasQuorumOf(G, O1)
      /\ O2 \in SUBSET G /\ HasQuorumOf(G, O2)
  BY DEF ForklessCause, Observers
<1>2. PICK h \in O1 \cap O2 : h \notin Cheater
  BY <1>1, GroupHonest
<1>3. PICK x1 \in E[a1].anc : E[x1].creator = h /\ b1 \in E[x1].anc
  BY <1>2 DEF Observers
<1>4. PICK x2 \in E[a2].anc : E[x2].creator = h /\ b2 \in E[x2].anc
  BY <1>2 DEF Observers
<1>5. Ancestors(E, a1) /\ Ancestors(E, a2)
  BY DEF Graph
<1>6. /\ x1 \in DOMAIN E /\ x2 \in DOMAIN E /\ E[x1].epoch = E[x2].epoch
      /\ E[x1].anc \subseteq E[a1].anc /\ E[x2].anc \subseteq E[a2].anc
  BY <1>3, <1>4, <1>5 DEF Ancestors
<1>7. x1 \in E[x2].line \/ x2 \in E[x1].line
  BY <1>2, <1>3, <1>4, <1>6 DEF Graph, Honest
<1>8. /\ E[x1].line \subseteq E[x1].anc /\ E[x2].line \subseteq E[x2].anc
      /\ Ancestors(E, x1) /\ Ancestors(E, x2)
  BY <1>6 DEF Graph, SelfParents
<1>9. CASE x1 \in E[x2].line
  <2>1. E[x1].anc \subseteq E[x2].anc
    BY <1>8, <1>9 DEF Ancestors
  <2>2. b1 \in E[a2].anc /\ b2 \in E[a2].anc
    BY <1>3, <1>4, <1>6, <2>1
  <2>3. SeesFork(E, a2, E[b2].creator)
    BY <2>2 DEF SeesFork, Fork
  <2> QED
    BY <2>3 DEF ForklessCause
<1>10. CASE x2 \in E[x1].line
  <2>1. E[x2].anc \subseteq E[x1].anc
    BY <1>8, <1>10 DEF Ancestors
  <2>2. b1 \in E[a1].anc /\ b2 \in E[a1].anc
    BY <1>3, <1>4, <1>6, <2>1
  <2>3. SeesFork(E, a1, E[b1].creator)
    BY <2>2 DEF SeesFork, Fork
  <2> QED
    BY <2>3 DEF ForklessCause
<1> QED
  BY <1>7, <1>9, <1>10

\* In a frame, all that is observed of a validator is one root.
LEMMA OneRoot ==
    ASSUME NEW E, Graph(E), NEW G, FewCheaters(G),
           NEW a1 \in DOMAIN E, NEW a2 \in DOMAIN E, E[a1].epoch = E[a2].epoch,
           NEW b1, NEW b2, E[b1].creator = E[b2].creator,
           ForklessCause(E, G, a1, b1), ForklessCause(E, G, a2, b2),
           E[b1].isRoot, E[b2].isRoot, E[b1].frame = E[b2].frame
    PROVE  b1 = b2
<1>1. b1 \in E[b2].line \/ b2 \in E[b1].line
  BY NoForkCaused
<1>2. b1 \in DOMAIN E /\ b2 \in DOMAIN E
  BY CauseIsAncestor DEF FewCheaters
<1>3. SelfParents(E, b1) /\ SelfParents(E, b2)
  BY <1>2 DEF Graph
<1>4. /\ E[b1].frame \in Int
      /\ \A j \in E[b2].line : j # b2 => E[j].frame < E[b2].frame
      /\ \A j \in E[b1].line : j # b1 => E[j].frame < E[b1].frame
  BY SMTT(30), <1>3 DEF SelfParents
<1> QED
  BY SMTT(30), <1>1, <1>4

\* What a root of a slice observes is in the slice.
LEMMA SeenInSlice ==
    ASSUME NEW E, NEW G, NEW X, NEW k, Slice(E, X, G, k), NEW r \in X, NEW s \in Seen(E, G, r)
    PROVE  /\ s \in X /\ s \in DOMAIN E /\ E[s].isRoot /\ E[s].frame = E[r].frame - 1
           /\ E[s].creator \in G /\ E[s].epoch = k /\ ForklessCause(E, G, r, s)
<1>1. s \in X
  BY DEF Slice, Seen
<1> QED
  BY <1>1 DEF Slice, Seen

\* A node that has an event has all that it observes: its roots are what the
\* graph tells.
LEMMA ObservedIsSeen ==
    ASSUME NEW E, Graph(E), NEW G \in SUBSET Validators, NEW X, NEW k, Slice(E, X, G, k),
           NEW r \in X
    PROVE  ObservedRoots(E, X, G, r) = Seen(E, G, r)
<1>1. r \in DOMAIN E /\ E[r].anc \subseteq X
  BY DEF Slice
<1>2. ASSUME NEW s
      PROVE  s \in ObservedRoots(E, X, G, r) <=> s \in Seen(E, G, r)
  BY <1>1, CauseIsAncestor DEF ObservedRoots, Roots, Seen
<1> QED
  BY <1>2

-----------------------------------------------------------------------------
(***************************************************************************)
(* The votes.                                                              *)
(***************************************************************************)

\* A root's votes depend on the votes that it observes only.
LEMMA VotesLocal ==
    ASSUME NEW E, NEW G, NEW f, NEW r, NEW seen, NEW y, NEW z,
           E[r].frame = f + 1 \/ \A q \in seen : y[q] = z[q]
    PROVE  VotesOf(E, G, f, r, seen, y) = VotesOf(E, G, f, r, seen, z)
<1>1. CASE E[r].frame = f + 1
  BY <1>1 DEF VotesOf
<1>2. CASE \A q \in seen : y[q] = z[q]
  <2>1. ASSUME NEW v, NEW answer
        PROVE  Ballots(E, seen, y, v, answer) = Ballots(E, seen, z, v, answer)
    <3>1. {q \in seen : (v \in y[q]) = answer} = {q \in seen : (v \in z[q]) = answer}
      BY <1>2
    <3> QED
      BY <3>1 DEF Ballots
  <2> QED
    BY <2>1 DEF VotesOf
<1> QED
  BY <1>1, <1>2

\* y holds the votes of the roots of D.
IsVotes(E, G, f, D, y) ==
    y = [r \in D |-> VotesOf(E, G, f, r, Seen(E, G, r), y)]

VotersTo(E, X, f, n) == {r \in Voters(E, X, f) : E[r].frame <= n}

\* What a voter above the first frame of votes observes are voters below it.
LEMMA SeenAreVoters ==
    ASSUME NEW E, Graph(E), NEW G \in SUBSET Validators, NEW X, NEW k, Slice(E, X, G, k),
           NEW f \in Nat, NEW r \in Voters(E, X, f)
    PROVE  /\ r \in X /\ r \in DOMAIN E /\ E[r].frame \in Nat /\ E[r].frame > f
           /\ E[r].frame # f + 1 =>
                \A s \in Seen(E, G, r) : s \in Voters(E, X, f) /\ E[s].frame = E[r].frame - 1
<1>1. r \in X /\ r \in DOMAIN E /\ E[r].frame > f
  BY DEF Voters, Slice
<1>2. E[r].frame \in Nat
  BY SMTT(30), <1>1 DEF Graph, SelfParents
<1>3. ASSUME E[r].frame # f + 1, NEW s \in Seen(E, G, r)
      PROVE  s \in Voters(E, X, f) /\ E[s].frame = E[r].frame - 1
  <2>1. s \in X /\ E[s].isRoot /\ E[s].frame = E[r].frame - 1
    BY SMTT(30), <1>1, SeenInSlice
  <2> QED
    BY SMTT(30), <1>1, <1>2, <1>3, <2>1 DEF Voters
<1> QED
  BY <1>1, <1>2, <1>3

\* The votes up to a frame are well defined, frame by frame.
LEMMA VotesExist ==
    ASSUME NEW E, Graph(E), NEW G \in SUBSET Validators, NEW X, NEW k, Slice(E, X, G, k),
           NEW f \in Nat, NEW n \in Nat
    PROVE  \E y : IsVotes(E, G, f, VotersTo(E, X, f, n), y)
<1> DEFINE V(m) == VotersTo(E, X, f, m)
           Missing == {m \in Nat : ~\E y : IsVotes(E, G, f, V(m), y)}
<1> SUFFICES ASSUME Missing # {} PROVE FALSE
  OBVIOUS
<1>1. PICK m \in Missing : \A l \in Missing : m <= l
  BY Smallest
<1>2. m \in Nat /\ \A y : ~IsVotes(E, G, f, V(m), y)
  BY <1>1
<1>3. CASE m = 0
  <2>1. ASSUME NEW r \in V(m)
        PROVE  FALSE
    <3>1. r \in Voters(E, X, f) /\ E[r].frame <= 0
      BY <1>3 DEF VotersTo
    <3>2. E[r].frame \in Nat /\ E[r].frame > f
      BY <3>1, SeenAreVoters
    <3> QED
      BY SMTT(30), <3>1, <3>2
  <2>2. IsVotes(E, G, f, V(m), [r \in {} |-> {}])
    BY <2>1 DEF IsVotes
  <2> QED
    BY <1>2, <2>2
<1>4. CASE m # 0
  <2>1. m - 1 \in Nat /\ m - 1 \notin Missing
    BY SMTT(30), <1>1, <1>2, <1>4
  <2>2. PICK y : IsVotes(E, G, f, V(m - 1), y)
    BY <2>1
  <2> DEFINE z == [r \in V(m) |-> VotesOf(E, G, f, r, Seen(E, G, r), y)]
  <2>3. ASSUME NEW r \in V(m), E[r].frame # f + 1, NEW q \in Seen(E, G, r)
        PROVE  y[q] = z[q]
    <3>1. /\ r \in Voters(E, X, f) /\ E[r].frame <= m
      BY DEF VotersTo
    <3>2. q \in Voters(E, X, f) /\ E[q].frame = E[r].frame - 1 /\ E[r].frame \in Nat
      BY SMTT(30), <2>3, <3>1, SeenAreVoters
    <3>3. q \in V(m - 1) /\ q \in V(m)
      BY SMTT(30), <1>2, <3>1, <3>2 DEF VotersTo
    <3>4. y[q] = VotesOf(E, G, f, q, Seen(E, G, q), y)
      BY <2>2, <3>3 DEF IsVotes
    <3> QED
      BY <3>3, <3>4
  <2>4. ASSUME NEW r \in V(m)
        PROVE  z[r] = VotesOf(E, G, f, r, Seen(E, G, r), z)
    <3> HIDE DEF z
    <3>1. VotesOf(E, G, f, r, Seen(E, G, r), y) = VotesOf(E, G, f, r, Seen(E, G, r), z)
      BY SMTT(30), <2>3, VotesLocal
    <3> QED
      BY <3>1 DEF z
  <2>5. IsVotes(E, G, f, V(m), z)
    <3>1. z = [r \in V(m) |-> z[r]]
      OBVIOUS
    <3> HIDE DEF z
    <3> QED
      BY <2>4, <3>1 DEF IsVotes
  <2> QED
    BY <1>2, <2>5
<1> QED
  BY <1>3, <1>4

\* Votes is the function that its definition asks for.
LEMMA VotesDef ==
    ASSUME NEW E, Graph(E), NEW G \in SUBSET Validators, NEW X, NEW k, Slice(E, X, G, k),
           NEW f \in Nat
    PROVE  IsVotes(E, G, f, Voters(E, X, f), Votes(E, X, G, f))
<1> DEFINE V == Voters(E, X, f)
           Solves(y) == y = [r \in V |-> VotesOf(E, G, f, r, ObservedRoots(E, X, G, r), y)]
<1>1. ASSUME NEW y
      PROVE  Solves(y) <=> IsVotes(E, G, f, V, y)
  <2>1. \A r \in V : ObservedRoots(E, X, G, r) = Seen(E, G, r)
    <3> SUFFICES ASSUME NEW r \in V PROVE ObservedRoots(E, X, G, r) = Seen(E, G, r)
      OBVIOUS
    <3>1. r \in X
      BY DEF Voters
    <3> QED
      BY <3>1, ObservedIsSeen
  <2>2. [r \in V |-> VotesOf(E, G, f, r, ObservedRoots(E, X, G, r), y)]
          = [r \in V |-> VotesOf(E, G, f, r, Seen(E, G, r), y)]
    BY <2>1
  <2> QED
    BY <2>2 DEF IsVotes
<1>2. PICK n \in Nat : DOMAIN E = 1..n
  BY DEF Graph
<1>3. VotersTo(E, X, f, n) = V
  <2>1. ASSUME NEW r \in V
        PROVE  E[r].frame <= n
    <3>1. r \in DOMAIN E
      BY SeenAreVoters
    <3>2. E[r].frame \in 1..r /\ r \in 1..n
      BY <1>2, <3>1 DEF Graph, SelfParents
    <3> QED
      BY SMTT(30), <3>2
  <2> QED
    BY <2>1 DEF VotersTo
<1>4. \E y : Solves(y)
  BY SMTT(30), <1>1, <1>3, VotesExist
<1>5. Votes(E, X, G, f) = CHOOSE y : Solves(y)
  BY DEF Votes
<1>6. Solves(Votes(E, X, G, f))
  <2> HIDE DEF Solves
  <2> QED
    BY <1>4, <1>5
<1> QED
  BY <1>1, <1>6

\* Events that come later change nothing of what an event observes.
LEMMA CauseStable ==
    ASSUME NEW E, Graph(E), NEW F, Extends(E, F), NEW G, NEW a \in DOMAIN E
    PROVE  /\ \A v : SeesFork(F, a, v) <=> SeesFork(E, a, v)
           /\ \A b \in DOMAIN E : ForklessCause(F, G, a, b) <=> ForklessCause(E, G, a, b)
           /\ Seen(F, G, a) = Seen(E, G, a)
<1>1. /\ \A x \in DOMAIN E : F[x] = E[x]
      /\ F[a].anc = E[a].anc /\ E[a].anc \subseteq DOMAIN E
  BY DEF Extends, Graph, Ancestors
<1>2. \A x, y \in E[a].anc : Fork(F, x, y) <=> Fork(E, x, y)
  BY <1>1 DEF Fork
<1>3. ASSUME NEW v
      PROVE  SeesFork(F, a, v) <=> SeesFork(E, a, v)
  BY <1>1, <1>2 DEF SeesFork
<1>4. ASSUME NEW b \in DOMAIN E
      PROVE  ForklessCause(F, G, a, b) <=> ForklessCause(E, G, a, b)
  <2>1. Observers(F, G, a, b) = Observers(E, G, a, b)
    BY <1>1, <1>3 DEF Observers
  <2>2. F[b] = E[b]
    BY <1>1
  <2> QED
    BY <1>3, <2>1, <2>2 DEF ForklessCause, Observers
<1>5. Seen(F, G, a) = Seen(E, G, a)
  BY <1>1, <1>4 DEF Seen
<1> QED
  BY <1>3, <1>4, <1>5

\* A node that knows more counts the same votes.
LEMMA VotesStable ==
    ASSUME NEW E, Graph(E), NEW F, Graph(F), Extends(E, F), NEW G \in SUBSET Validators, NEW k,
           NEW X, Slice(E, X, G, k), NEW Z, Slice(F, Z, G, k), X \subseteq Z, NEW f \in Nat
    PROVE  /\ Voters(E, X, f) \subseteq Voters(F, Z, f)
           /\ \A r \in Voters(E, X, f) : Votes(F, Z, G, f)[r] = Votes(E, X, G, f)[r]
<1> DEFINE V == Voters(E, X, f)
           y == Votes(E, X, G, f)
           z == Votes(F, Z, G, f)
           Bad == {n \in Nat : \E r \in V : E[r].frame = n /\ z[r] # y[r]}
<1>0. \A r \in X : r \in DOMAIN E /\ F[r] = E[r]
  BY DEF Slice, Extends
<1>1. V \subseteq Voters(F, Z, f)
  BY <1>0 DEF Voters
<1>2. /\ y = [r \in V |-> VotesOf(E, G, f, r, Seen(E, G, r), y)]
      /\ z = [r \in Voters(F, Z, f) |-> VotesOf(F, G, f, r, Seen(F, G, r), z)]
  BY SMTT(30), VotesDef DEF IsVotes
<1> HIDE DEF y, z
<1>3. ASSUME NEW r \in V, \A s \in V : E[s].frame = E[r].frame - 1 => z[s] = y[s]
      PROVE  z[r] = y[r]
  <2>1. r \in X /\ r \in DOMAIN E /\ F[r] = E[r]
    BY <1>0 DEF Voters
  <2>2. Seen(F, G, r) = Seen(E, G, r)
    BY SMTT(30), <2>1, CauseStable
  <2>3. z[r] = VotesOf(F, G, f, r, Seen(E, G, r), z)
    BY <1>1, <1>2, <2>2
  <2>4. VotesOf(F, G, f, r, Seen(E, G, r), z) = VotesOf(E, G, f, r, Seen(E, G, r), z)
    <3>1. \A s \in Seen(E, G, r) : F[s] = E[s]
      BY <1>0, <2>1, SeenInSlice
    <3>2. {F[s].creator : s \in Seen(E, G, r)} = {E[s].creator : s \in Seen(E, G, r)}
      BY <3>1
    <3>3. ASSUME NEW v, NEW answer
          PROVE  Ballots(F, Seen(E, G, r), z, v, answer) = Ballots(E, Seen(E, G, r), z, v, answer)
      BY <3>1 DEF Ballots
    <3> QED
      BY <2>1, <3>2, <3>3 DEF VotesOf
  <2>5. E[r].frame # f + 1 => \A s \in Seen(E, G, r) : z[s] = y[s]
    BY SMTT(30), <1>3, SeenAreVoters
  <2>6. VotesOf(E, G, f, r, Seen(E, G, r), z) = VotesOf(E, G, f, r, Seen(E, G, r), y)
    BY SMTT(30), <2>5, VotesLocal
  <2>7. y[r] = VotesOf(E, G, f, r, Seen(E, G, r), y)
    BY <1>2
  <2> QED
    BY <2>3, <2>4, <2>6, <2>7
<1>4. \A r \in V : E[r].frame \in Nat /\ E[r].frame > 0
  <2>1. \A r \in V : E[r].frame \in Nat /\ E[r].frame > f
    BY SeenAreVoters
  <2> QED
    BY SMTT(30), <2>1
<1>5. Bad = {}
  <2> SUFFICES ASSUME Bad # {} PROVE FALSE
    OBVIOUS
  <2>1. PICK n \in Bad : \A m \in Bad : n <= m
    BY Smallest
  <2>2. PICK r \in V : E[r].frame = n /\ z[r] # y[r]
    BY <2>1
  <2>3. ASSUME NEW s \in V, E[s].frame = E[r].frame - 1
        PROVE  z[s] = y[s]
    <3>1. n - 1 \in Nat /\ n - 1 \notin Bad
      BY SMTT(30), <1>4, <2>1, <2>2
    <3> QED
      BY <2>2, <2>3, <3>1
  <2> QED
    BY <1>3, <2>2, <2>3
<1>6. \A r \in V : z[r] = y[r]
  BY <1>4, <1>5
<1> QED
  BY <1>1, <1>6 DEF y, z

\* What is decided stays decided, whatever else arrives.
LEMMA AtroposStable ==
    ASSUME NEW E, Graph(E), NEW F, Graph(F), Extends(E, F), NEW G \in SUBSET Validators, NEW k,
           NEW X, Slice(E, X, G, k), NEW Z, Slice(F, Z, G, k), X \subseteq Z, NEW f \in Nat
    PROVE  ChooseAtropos(E, X, G, f) \subseteq ChooseAtropos(F, Z, G, f)
<1> DEFINE y == Votes(E, X, G, f)
           z == Votes(F, Z, G, f)
<1>0. \A r \in X : r \in DOMAIN E /\ F[r] = E[r] /\ r \in Z
  BY DEF Slice, Extends
<1>1. /\ Voters(E, X, f) \subseteq Voters(F, Z, f)
      /\ \A r \in Voters(E, X, f) : z[r] = y[r]
  BY SMTT(30), VotesStable
<1> HIDE DEF y, z
<1>2. ASSUME NEW r \in Voters(E, X, f)
      PROVE  /\ r \in X
             /\ ObservedRoots(F, Z, G, r) = ObservedRoots(E, X, G, r)
             /\ ObservedRoots(E, X, G, r) = Seen(E, G, r)
             /\ F[r] = E[r]
  <2>1. r \in X /\ r \in Z /\ F[r] = E[r] /\ r \in DOMAIN E
    BY <1>0 DEF Voters
  <2>2. ObservedRoots(F, Z, G, r) = Seen(F, G, r) /\ ObservedRoots(E, X, G, r) = Seen(E, G, r)
    BY <2>1, ObservedIsSeen
  <2> QED
    BY SMTT(30), <2>1, <2>2, CauseStable
<1>3. ASSUME NEW v, NEW answer, Decided(E, X, G, f, y, v, answer)
      PROVE  Decided(F, Z, G, f, z, v, answer)
  <2>1. PICK r \in Voters(E, X, f) :
           /\ E[r].frame > f + 1
           /\ HasQuorumOf(G, Ballots(E, ObservedRoots(E, X, G, r), y, v, answer))
    BY <1>3 DEF Decided
  <2>2. E[r].frame # f + 1
    BY SMTT(30), <2>1, SeenAreVoters
  <2>3. \A s \in Seen(E, G, r) : z[s] = y[s] /\ F[s] = E[s]
    <3>1. \A s \in Seen(E, G, r) : s \in Voters(E, X, f)
      BY <2>2, SeenAreVoters
    <3>2. \A s \in Seen(E, G, r) : s \in X
      BY <3>1 DEF Voters
    <3> QED
      BY <1>0, <1>1, <3>1, <3>2
  <2>4. Ballots(F, Seen(E, G, r), z, v, answer) = Ballots(E, Seen(E, G, r), y, v, answer)
    <3>1. {q \in Seen(E, G, r) : (v \in z[q]) = answer} = {q \in Seen(E, G, r) : (v \in y[q]) = answer}
      BY <2>3
    <3> QED
      BY <2>3, <3>1 DEF Ballots
  <2>5. F[r].frame > f + 1 /\ r \in Voters(F, Z, f)
    BY <1>1, <1>2, <2>1
  <2> QED
    BY <1>2, <2>1, <2>4, <2>5 DEF Decided
<1>4. ASSUME NEW s \in ChooseAtropos(E, X, G, f)
      PROVE  s \in ChooseAtropos(F, Z, G, f)
  <2>1. /\ s \in Roots(E, X, f)
        /\ E[s].creator \in G
        /\ Decided(E, X, G, f, y, E[s].creator, TRUE)
        /\ \A w \in G : Less(w, E[s].creator) => Decided(E, X, G, f, y, w, FALSE)
        /\ \E r \in Voters(E, X, f) : E[r].frame = f + 1 /\ s \in ObservedRoots(E, X, G, r)
    BY <1>4 DEF ChooseAtropos, y
  <2>2. s \in Roots(F, Z, f) /\ F[s].creator = E[s].creator
    BY <1>0, <2>1 DEF Roots
  <2>3. \E r \in Voters(F, Z, f) : F[r].frame = f + 1 /\ s \in ObservedRoots(F, Z, G, r)
    BY <1>1, <1>2, <2>1
  <2> QED
    BY <1>3, <2>1, <2>2, <2>3 DEF ChooseAtropos, z
<1> QED
  BY <1>4

-----------------------------------------------------------------------------
(***************************************************************************)
(* One outcome.                                                            *)
(***************************************************************************)

\* The creators of what a root observes are validators, and each has one root
\* there: a validator is not counted for both answers.
LEMMA BallotsOf ==
    ASSUME NEW E, Graph(E), NEW G, FewCheaters(G), NEW X, NEW k, Slice(E, X, G, k),
           NEW r1 \in X, NEW r2 \in X, E[r1].frame = E[r2].frame, NEW y, NEW v,
           NEW a \in BOOLEAN, NEW c \in Ballots(E, Seen(E, G, r1), y, v, a)
    PROVE  /\ c \in G
           /\ c \notin Ballots(E, Seen(E, G, r2), y, v, ~a)
           /\ c \in {E[s].creator : s \in Seen(E, G, r2)} => c \in Ballots(E, Seen(E, G, r2), y, v, a)
<1>0. G \in SUBSET Validators
  BY DEF FewCheaters
<1>1. PICK s1 \in Seen(E, G, r1) : E[s1].creator = c /\ (v \in y[s1]) = a
  BY DEF Ballots
<1>2. /\ E[s1].isRoot /\ E[s1].frame = E[r1].frame - 1 /\ E[s1].creator \in G
      /\ ForklessCause(E, G, r1, s1)
  BY SMTT(30), SeenInSlice
<1>3. ASSUME NEW s2 \in Seen(E, G, r2), E[s2].creator = c
      PROVE  s2 = s1
  <2>1. /\ E[s2].isRoot /\ E[s2].frame = E[r2].frame - 1
        /\ ForklessCause(E, G, r2, s2)
    BY SMTT(30), SeenInSlice
  <2>2. r1 \in DOMAIN E /\ r2 \in DOMAIN E /\ E[r1].epoch = E[r2].epoch
    BY DEF Slice
  <2> QED
    BY <1>1, <1>2, <1>3, <2>1, <2>2, OneRoot
<1>4. ASSUME c \in Ballots(E, Seen(E, G, r2), y, v, ~a)
      PROVE  FALSE
  <2>1. PICK s2 \in Seen(E, G, r2) : E[s2].creator = c /\ (v \in y[s2]) = (~a)
    BY <1>4 DEF Ballots
  <2>2. s2 = s1
    BY <1>3, <2>1
  <2> QED
    BY <1>1, <2>1, <2>2
<1>5. ASSUME c \in {E[s].creator : s \in Seen(E, G, r2)}
      PROVE  c \in Ballots(E, Seen(E, G, r2), y, v, a)
  BY <1>1, <1>3, <1>5 DEF Ballots
<1> QED
  BY <1>1, <1>2, <1>4, <1>5

\* A root whose answers of one kind are among those that a quorum gave votes so.
LEMMA MajorityVotes ==
    ASSUME NEW E, Graph(E), NEW G, FewCheaters(G), NEW X, NEW k, Slice(E, X, G, k),
           NEW f \in Nat, NEW q \in Voters(E, X, f), E[q].frame > f + 1,
           NEW y, NEW v \in G, NEW a \in BOOLEAN,
           NEW Agree \in SUBSET G, HasQuorumOf(G, Agree),
           \A c \in Agree : c \in {E[s].creator : s \in Seen(E, G, q)} =>
                /\ c \in Ballots(E, Seen(E, G, q), y, v, a)
                /\ c \notin Ballots(E, Seen(E, G, q), y, v, ~a)
    PROVE  (v \in VotesOf(E, G, f, q, Seen(E, G, q), y)) = a
<1> DEFINE Same == Ballots(E, Seen(E, G, q), y, v, a)
           Opposite == Ballots(E, Seen(E, G, q), y, v, ~a)
           Counted == {E[s].creator : s \in Seen(E, G, q)}
<1>0. G \in SUBSET Validators
  BY DEF FewCheaters
<1>1. q \in X /\ E[q].isRoot /\ E[q].frame \in Nat /\ E[q].frame > 1 /\ E[q].frame # f + 1
  <2>1. q \in X /\ E[q].isRoot
    BY DEF Voters
  <2>2. E[q].frame \in Nat
    BY <1>0, SeenAreVoters
  <2> QED
    BY SMTT(30), <2>1, <2>2
<1>2. HasQuorumOf(G, Counted)
  BY <1>1 DEF Slice, RootOK
<1>3. Counted \in SUBSET G
  BY SMTT(30), <1>1, SeenInSlice
<1>4. Same \subseteq Counted /\ Opposite \subseteq Counted
  BY DEF Ballots
<1>5. Agree \cap Counted \subseteq Same /\ Opposite \cap Agree = {}
  BY <1>4
<1>6. Sum(Same) > Sum(Opposite)
  <2> HIDE DEF Same, Opposite, Counted
  <2> QED
    BY <1>0, <1>2, <1>3, <1>4, <1>5, GroupMajority
<1>7. Sum(Same) \in Nat /\ Sum(Opposite) \in Nat
  BY <1>0, <1>3, <1>4, SumType
<1>8. CASE a = TRUE
  <2>1. (~a) = FALSE
    BY <1>8
  <2>2. /\ Same = Ballots(E, Seen(E, G, q), y, v, TRUE)
        /\ Opposite = Ballots(E, Seen(E, G, q), y, v, FALSE)
    BY <1>8, <2>1
  <2> HIDE DEF Same, Opposite
  <2>3. v \in VotesOf(E, G, f, q, Seen(E, G, q), y) <=> Sum(Same) >= Sum(Opposite)
    BY <1>1, <2>2 DEF VotesOf
  <2>4. Sum(Same) >= Sum(Opposite)
    BY SMTT(30), <1>6, <1>7
  <2> QED
    BY <1>8, <2>3, <2>4
<1>9. CASE a = FALSE
  <2>1. (~a) = TRUE
    BY <1>9
  <2>2. /\ Same = Ballots(E, Seen(E, G, q), y, v, FALSE)
        /\ Opposite = Ballots(E, Seen(E, G, q), y, v, TRUE)
    BY <1>9, <2>1
  <2> HIDE DEF Same, Opposite
  <2>3. v \in VotesOf(E, G, f, q, Seen(E, G, q), y) <=> Sum(Opposite) >= Sum(Same)
    BY <1>1, <2>2 DEF VotesOf
  <2>4. ~(Sum(Opposite) >= Sum(Same))
    BY SMTT(30), <1>6, <1>7
  <2> QED
    BY SMTT(30), <1>9, <2>3, <2>4
<1> QED
  BY <1>8, <1>9

\* What a quorum has answered, every root from the next frame on answers.
LEMMA Unanimous ==
    ASSUME NEW E, Graph(E), NEW G, FewCheaters(G), NEW X, NEW k, Slice(E, X, G, k),
           NEW f \in Nat, NEW y, IsVotes(E, G, f, Voters(E, X, f), y),
           NEW r \in Voters(E, X, f), E[r].frame > f + 1, NEW v \in G, NEW a \in BOOLEAN,
           HasQuorumOf(G, Ballots(E, Seen(E, G, r), y, v, a)),
           NEW q \in Voters(E, X, f), E[q].frame >= E[r].frame
    PROVE  (v \in y[q]) = a
<1> DEFINE V == Voters(E, X, f)
           Bad == {n \in Nat : \E p \in V : E[p].frame = n /\ n >= E[r].frame /\ (v \in y[p]) # a}
<1>0. G \in SUBSET Validators
  BY DEF FewCheaters
<1>1. \A p \in V : p \in X /\ E[p].frame \in Nat /\ E[p].isRoot
  BY <1>0, SeenAreVoters DEF Voters
<1>2. Bad = {}
  <2> SUFFICES ASSUME Bad # {} PROVE FALSE
    OBVIOUS
  <2>1. PICK n \in Bad : \A m \in Bad : n <= m
    BY Smallest
  <2>2. PICK p \in V : E[p].frame = n /\ n >= E[r].frame /\ (v \in y[p]) # a
    BY <2>1
  <2>3. E[p].frame > f + 1 /\ n \in Nat /\ E[r].frame \in Nat
    BY SMTT(30), <1>1, <2>2
  <2>4. y[p] = VotesOf(E, G, f, p, Seen(E, G, p), y)
    BY DEF IsVotes
  <2>5. CASE n = E[r].frame
    <3> DEFINE Agree == Ballots(E, Seen(E, G, r), y, v, a)
    <3>1. ASSUME NEW c \in Agree
          PROVE  /\ c \in G
                 /\ c \in {E[s].creator : s \in Seen(E, G, p)} =>
                       /\ c \in Ballots(E, Seen(E, G, p), y, v, a)
                       /\ c \notin Ballots(E, Seen(E, G, p), y, v, ~a)
      <4>1. p \in X /\ r \in X /\ E[r].frame = E[p].frame
        BY <1>1, <2>2, <2>5
      <4> QED
        BY SMTT(30), <4>1, BallotsOf
    <3>2. (v \in VotesOf(E, G, f, p, Seen(E, G, p), y)) = a
      BY SMTT(30), <2>3, <3>1, MajorityVotes
    <3> QED
      BY <2>2, <2>4, <3>2
  <2>6. CASE n > E[r].frame
    <3> DEFINE Agree == {E[s].creator : s \in Seen(E, G, p)}
    <3>1. Agree \in SUBSET G /\ HasQuorumOf(G, Agree)
      <4>1. p \in X /\ E[p].isRoot /\ E[p].frame > 1
        BY SMTT(30), <1>1, <2>3
      <4>2. \A s \in Seen(E, G, p) : E[s].creator \in G
        BY <4>1, SeenInSlice
      <4>3. RootOK(E, G, p)
        BY <4>1 DEF Slice
      <4> QED
        BY <4>1, <4>2, <4>3 DEF RootOK
    <3>2. n - 1 \in Nat /\ n - 1 >= E[r].frame /\ n - 1 \notin Bad
      BY SMTT(30), <2>1, <2>3, <2>6
    <3>3. ASSUME NEW s \in Seen(E, G, p)
          PROVE  (v \in y[s]) = a
      <4>1. s \in V /\ E[s].frame = n - 1
        BY SMTT(30), <1>0, <2>2, <2>3, SeenAreVoters
      <4> QED
        BY <3>2, <4>1
    <3>4. ASSUME NEW c \in Agree
          PROVE  /\ c \in Ballots(E, Seen(E, G, p), y, v, a)
                 /\ c \notin Ballots(E, Seen(E, G, p), y, v, ~a)
      BY <3>3 DEF Ballots
    <3>5. (v \in VotesOf(E, G, f, p, Seen(E, G, p), y)) = a
      BY SMTT(30), <2>3, <3>1, <3>4, MajorityVotes
    <3> QED
      BY <2>2, <2>4, <3>5
  <2> QED
    BY SMTT(30), <2>2, <2>3, <2>5, <2>6
<1> QED
  BY <1>1, <1>2

\* No two roots decide differently on a validator.
LEMMA DecidedOnce ==
    ASSUME NEW E, Graph(E), NEW G, FewCheaters(G), NEW X, NEW k, Slice(E, X, G, k),
           NEW f \in Nat, NEW y, IsVotes(E, G, f, Voters(E, X, f), y),
           NEW v \in G, NEW a \in BOOLEAN,
           NEW r1 \in Voters(E, X, f), E[r1].frame > f + 1,
           HasQuorumOf(G, Ballots(E, Seen(E, G, r1), y, v, a)),
           NEW r2 \in Voters(E, X, f), E[r2].frame >= E[r1].frame,
           HasQuorumOf(G, Ballots(E, Seen(E, G, r2), y, v, ~a))
    PROVE  FALSE
<1> DEFINE A1 == Ballots(E, Seen(E, G, r1), y, v, a)
           A2 == Ballots(E, Seen(E, G, r2), y, v, ~a)
<1>0. G \in SUBSET Validators
  BY DEF FewCheaters
<1>1. /\ r1 \in X /\ r2 \in X /\ E[r1].frame \in Nat /\ E[r2].frame \in Nat
      /\ E[r2].frame # f + 1
  <2>1. /\ r1 \in X /\ r2 \in X /\ E[r1].frame \in Nat /\ E[r2].frame \in Nat
    BY <1>0, SeenAreVoters
  <2> QED
    BY SMTT(30), <2>1
<1>2. A1 \in SUBSET G /\ A2 \in SUBSET G
  BY SMTT(30), <1>1, SeenInSlice DEF Ballots
<1>3. CASE E[r1].frame = E[r2].frame
  <2>1. PICK c \in A1 \cap A2 : TRUE
    BY <1>2, GroupHonest
  <2> QED
    BY SMTT(30), <1>0, <1>1, <1>3, <2>1, BallotsOf
<1>4. CASE E[r2].frame > E[r1].frame
  <2>1. PICK c \in A2 : TRUE
    BY <1>0, <1>2, GroupNonEmpty
  <2>2. PICK s \in Seen(E, G, r2) : (v \in y[s]) = ~a
    BY <2>1 DEF Ballots
  <2>3. s \in Voters(E, X, f) /\ E[s].frame = E[r2].frame - 1
    BY SMTT(30), <1>0, <1>1, <2>2, SeenAreVoters
  <2>4. E[s].frame >= E[r1].frame
    BY SMTT(30), <1>1, <1>4, <2>3
  <2>5. (v \in y[s]) = a
    BY SMTT(30), <2>3, <2>4, Unanimous
  <2> QED
    BY <1>0, <2>2, <2>5
<1> QED
  BY SMTT(30), <1>1, <1>3, <1>4

\* An election has one outcome at most.
LEMMA OneAtropos ==
    ASSUME NEW E, Graph(E), NEW G, FewCheaters(G), NEW X, NEW k, Slice(E, X, G, k),
           NEW f \in Nat, NEW s \in ChooseAtropos(E, X, G, f), NEW t \in ChooseAtropos(E, X, G, f)
    PROVE  s = t
<1> DEFINE y == Votes(E, X, G, f)
           v == E[s].creator
           w == E[t].creator
<1>0. G \in SUBSET Validators
  BY DEF FewCheaters
<1>1. IsVotes(E, G, f, Voters(E, X, f), y)
  BY <1>0, VotesDef
<1>2. /\ v \in G /\ Decided(E, X, G, f, y, v, TRUE)
      /\ Less(w, v) /\ w \in G => Decided(E, X, G, f, y, w, FALSE)
      /\ w \in G /\ Decided(E, X, G, f, y, w, TRUE)
      /\ Less(v, w) /\ v \in G => Decided(E, X, G, f, y, v, FALSE)
  BY DEF ChooseAtropos
<1>3. /\ s \in Roots(E, X, f) /\ t \in Roots(E, X, f)
      /\ \E r \in Voters(E, X, f) : E[r].frame = f + 1 /\ s \in ObservedRoots(E, X, G, r)
      /\ \E r \in Voters(E, X, f) : E[r].frame = f + 1 /\ t \in ObservedRoots(E, X, G, r)
  BY DEF ChooseAtropos
<1> HIDE DEF y
<1>4. ASSUME NEW u \in G, Decided(E, X, G, f, y, u, TRUE), Decided(E, X, G, f, y, u, FALSE)
      PROVE  FALSE
  <2>1. PICK r1 \in Voters(E, X, f) :
           /\ E[r1].frame > f + 1
           /\ HasQuorumOf(G, Ballots(E, ObservedRoots(E, X, G, r1), y, u, TRUE))
    BY <1>4 DEF Decided
  <2>2. PICK r2 \in Voters(E, X, f) :
           /\ E[r2].frame > f + 1
           /\ HasQuorumOf(G, Ballots(E, ObservedRoots(E, X, G, r2), y, u, FALSE))
    BY <1>4 DEF Decided
  <2>3. r1 \in X /\ r2 \in X /\ E[r1].frame \in Nat /\ E[r2].frame \in Nat
    BY <1>0, SeenAreVoters
  <2>4. /\ HasQuorumOf(G, Ballots(E, Seen(E, G, r1), y, u, TRUE))
        /\ HasQuorumOf(G, Ballots(E, Seen(E, G, r2), y, u, FALSE))
    BY <1>0, <2>1, <2>2, <2>3, ObservedIsSeen
  <2>5. (~TRUE) = FALSE /\ (~FALSE) = TRUE
    OBVIOUS
  <2>6. CASE E[r2].frame >= E[r1].frame
    BY <1>1, <2>1, <2>4, <2>5, <2>6, DecidedOnce
  <2>7. CASE E[r1].frame >= E[r2].frame
    BY <1>1, <2>2, <2>4, <2>5, <2>7, DecidedOnce
  <2> QED
    BY SMTT(30), <2>3, <2>6, <2>7
<1>5. v = w
  <2>1. v \in Validators /\ w \in Validators
    BY <1>0, <1>2
  <2> QED
    BY <1>2, <1>4, <2>1, LessTotal
<1>6. PICK r1 \in Voters(E, X, f) : s \in ObservedRoots(E, X, G, r1)
  BY <1>3
<1>7. PICK r2 \in Voters(E, X, f) : t \in ObservedRoots(E, X, G, r2)
  BY <1>3
<1>8. /\ r1 \in DOMAIN E /\ r2 \in DOMAIN E /\ E[r1].epoch = E[r2].epoch
      /\ ForklessCause(E, G, r1, s) /\ ForklessCause(E, G, r2, t)
  BY <1>6, <1>7 DEF Voters, Slice, ObservedRoots
<1>9. E[s].isRoot /\ E[t].isRoot /\ E[s].frame = E[t].frame
  BY <1>3 DEF Roots
<1> QED
  BY <1>5, <1>8, <1>9, OneRoot

-----------------------------------------------------------------------------
(***************************************************************************)
(* Events that nodes may accept.                                           *)
(***************************************************************************)

\* The acceptable events of an epoch are what some node could have: with an event,
\* all that it observes.
LEMMA ValidSlice ==
    ASSUME NEW E, Graph(E), NEW G, NEW k
    PROVE  Slice(E, Valid(E, k, G), G, k)
<1> SUFFICES ASSUME NEW i \in Valid(E, k, G)
             PROVE  /\ i \in DOMAIN E /\ E[i].epoch = k
                    /\ E[i].anc \subseteq Valid(E, k, G)
                    /\ E[i].creator \in G
                    /\ RootOK(E, G, i)
  BY DEF Slice
<1>1. /\ i \in DOMAIN E /\ E[i].epoch = k
      /\ \A j \in E[i].anc : E[j].creator \in G /\ RootOK(E, G, j)
  BY DEF Valid
<1>2. /\ i \in E[i].anc /\ E[i].anc \subseteq DOMAIN E
      /\ \A j \in E[i].anc : E[j].epoch = E[i].epoch /\ E[j].anc \subseteq E[i].anc
  BY <1>1 DEF Graph, Ancestors
<1>3. E[i].anc \subseteq Valid(E, k, G)
  BY <1>1, <1>2 DEF Valid
<1> QED
  BY <1>1, <1>2, <1>3

\* What a node has of an epoch are acceptable events.
LEMMA SliceValid ==
    ASSUME NEW E, NEW G, NEW k, NEW X, Slice(E, X, G, k)
    PROVE  X \subseteq Valid(E, k, G)
<1> SUFFICES ASSUME NEW i \in X
             PROVE  i \in Valid(E, k, G)
  OBVIOUS
<1>1. i \in DOMAIN E /\ E[i].epoch = k /\ E[i].anc \subseteq X
  BY DEF Slice
<1>2. \A j \in E[i].anc : E[j].creator \in G /\ RootOK(E, G, j)
  BY <1>1 DEF Slice
<1> QED
  BY <1>1, <1>2 DEF Valid

\* More events change nothing for those that are known.
LEMMA RootStable ==
    ASSUME NEW E, Graph(E), NEW F, Extends(E, F), NEW G, NEW r \in DOMAIN E
    PROVE  RootOK(F, G, r) <=> RootOK(E, G, r)
<1>1. Seen(F, G, r) = Seen(E, G, r)
  BY SMTT(30), CauseStable
<1>2. F[r] = E[r] /\ \A x \in DOMAIN E : F[x] = E[x]
  BY DEF Extends
<1>3. Seen(E, G, r) \subseteq DOMAIN E
  BY DEF Seen, Graph, Ancestors
<1>4. {F[s].creator : s \in Seen(F, G, r)} = {E[s].creator : s \in Seen(E, G, r)}
  BY <1>1, <1>2, <1>3
<1> QED
  BY <1>2, <1>4 DEF RootOK

\* What a node has of an epoch is the same when the graph has grown.
LEMMA SliceStable ==
    ASSUME NEW E, Graph(E), NEW F, Extends(E, F), NEW G, NEW k, NEW X, Slice(E, X, G, k)
    PROVE  Slice(F, X, G, k)
<1> SUFFICES ASSUME NEW i \in X
             PROVE  /\ i \in DOMAIN F /\ F[i].epoch = k
                    /\ F[i].anc \subseteq X
                    /\ F[i].creator \in G
                    /\ RootOK(F, G, i)
  BY DEF Slice
<1>1. /\ i \in DOMAIN E /\ E[i].epoch = k /\ E[i].anc \subseteq X /\ E[i].creator \in G
      /\ RootOK(E, G, i)
  BY DEF Slice
<1>2. F[i] = E[i] /\ i \in DOMAIN F
  BY <1>1 DEF Extends
<1>3. RootOK(F, G, i)
  BY <1>1, RootStable
<1> QED
  BY <1>1, <1>2, <1>3

\* An acceptable event stays acceptable when the graph grows.
LEMMA ValidStable ==
    ASSUME NEW E, Graph(E), NEW F, Extends(E, F), NEW G, NEW k
    PROVE  Valid(E, k, G) \subseteq Valid(F, k, G)
<1>1. Slice(E, Valid(E, k, G), G, k)
  BY ValidSlice
<1>2. Slice(F, Valid(E, k, G), G, k)
  BY <1>1, SliceStable
<1> QED
  BY <1>2, SliceValid

\* Who is seen to fork is a cheater.
LEMMA ForkIsCheat ==
    ASSUME NEW E, Graph(E), NEW a \in DOMAIN E, NEW v, SeesFork(E, a, v)
    PROVE  v \in Cheater
<1>1. PICK x \in E[a].anc : E[x].creator = v /\ \E y \in E[a].anc : Fork(E, x, y)
  BY DEF SeesFork
<1>2. PICK y \in E[a].anc : Fork(E, x, y)
  BY <1>1
<1>3. /\ x \in DOMAIN E /\ y \in DOMAIN E
      /\ E[x].epoch = E[a].epoch /\ E[y].epoch = E[a].epoch
  BY DEF Graph, Ancestors
<1>4. E[x].creator = E[y].creator /\ x \notin E[y].line /\ y \notin E[x].line
  BY <1>2 DEF Fork
<1> QED
  BY <1>1, <1>3, <1>4 DEF Graph, Honest

-----------------------------------------------------------------------------
(***************************************************************************)
(* A new event.                                                            *)
(***************************************************************************)

\* e may be the next event of the graph E.
NextEvent(E, id, e) ==
    /\ e.creator \in Validators /\ e.epoch \in Nat
    /\ e.parents \subseteq DOMAIN E
    /\ \A p \in e.parents : E[p].epoch = e.epoch /\ E[p].lamport < e.lamport
    /\ e.selfParent \in e.parents \cup {0}
    /\ e.selfParent # 0 => E[e.selfParent].creator = e.creator
    /\ e.anc = {id} \cup UNION {E[p].anc : p \in e.parents}
    /\ e.line = {id} \cup (IF e.selfParent = 0 THEN {} ELSE E[e.selfParent].line)
    /\ e.lamport \in 1..id /\ e.seq \in Nat \ {0}
    /\ e.isRoot \in BOOLEAN /\ e.frame \in Nat \ {0}
    /\ e.frame = (IF e.selfParent = 0 THEN 0 ELSE E[e.selfParent].frame)
                    + (IF e.isRoot THEN 1 ELSE 0)
    /\ e.creator \notin Cheater =>
          \A j \in DOMAIN E : (E[j].creator = e.creator /\ E[j].epoch = e.epoch) =>
                                  e.selfParent # 0 /\ j \in E[e.selfParent].line

\* What is known of an event does not change when the graph grows.
LEMMA OldEvent ==
    ASSUME NEW E, Graph(E), NEW F, Extends(E, F), NEW i \in DOMAIN E
    PROVE  Header(F, i) /\ Ancestors(F, i) /\ SelfParents(F, i)
<1>1. DOMAIN E \subseteq DOMAIN F /\ F[i] = E[i] /\ \A j \in DOMAIN E : F[j] = E[j]
  BY DEF Extends
<1>2. Header(E, i) /\ Ancestors(E, i) /\ SelfParents(E, i)
  BY DEF Graph
<1>3. E[i].parents \subseteq DOMAIN E /\ E[i].anc \subseteq DOMAIN E /\ E[i].line \subseteq DOMAIN E
  BY <1>2 DEF Header, Ancestors, SelfParents
<1>4. E[i].selfParent # 0 => E[i].selfParent \in DOMAIN E
  BY <1>2, <1>3 DEF Header
<1>5. Header(F, i)
  BY <1>1, <1>2, <1>3, <1>4 DEF Header
<1>6. Ancestors(F, i)
  BY SMTT(30), <1>1, <1>2, <1>3 DEF Ancestors
<1>7. SelfParentFrame(F, i) = SelfParentFrame(E, i)
  BY <1>1, <1>4 DEF SelfParentFrame
<1>8. SelfParents(F, i)
  BY <1>1, <1>2, <1>3, <1>7 DEF SelfParents
<1> QED
  BY <1>5, <1>6, <1>8

\* An event on top of the graph makes a graph, and changes none of the others.
LEMMA GraphGrows ==
    ASSUME NEW E, Graph(E), Lineage(E), NEW k \in Nat, DOMAIN E = 1..k,
           NEW e, NextEvent(E, k + 1, e)
    PROVE  /\ Graph(With(E, k + 1, e)) /\ Lineage(With(E, k + 1, e))
           /\ Extends(E, With(E, k + 1, e)) /\ With(E, k + 1, e)[k + 1] = e
<1> DEFINE id == k + 1
           F == With(E, id, e)
           sp == e.selfParent
<1>1. /\ DOMAIN F = 1..id /\ F[id] = e /\ id \notin DOMAIN E
      /\ \A i \in DOMAIN E : F[i] = E[i] /\ i \in DOMAIN F
      /\ \A i \in DOMAIN F : i \in DOMAIN E \/ i = id
  BY SMTT(30) DEF With
<1>2. Extends(E, F)
  BY <1>1 DEF Extends
<1> HIDE DEF F
<1>3. \A i \in DOMAIN E : Header(E, i) /\ Ancestors(E, i) /\ SelfParents(E, i)
  BY DEF Graph
<1>4. Header(F, id)
  <2>1. \A p \in e.parents : p < id
    BY SMTT(30) DEF NextEvent
  <2> QED
    BY SMTT(30), <1>1, <2>1 DEF Header, NextEvent
<1>5. ASSUME NEW j \in e.anc, j # id
      PROVE  /\ \E p \in e.parents : j \in E[p].anc
             /\ j \in DOMAIN E /\ j < id /\ E[j].epoch = e.epoch /\ E[j].anc \subseteq e.anc
             /\ \E c \in e.anc : j \in F[c].parents
             /\ E[j].lamport < e.lamport
  <2>1. PICK p \in e.parents : j \in E[p].anc
    BY SMTT(30), <1>5 DEF NextEvent
  <2>2. p \in DOMAIN E /\ E[p].epoch = e.epoch /\ E[p].anc \subseteq e.anc
    BY DEF NextEvent
  <2>3. /\ j \in DOMAIN E /\ E[j].epoch = E[p].epoch /\ E[j].anc \subseteq E[p].anc
        /\ E[p].anc \subseteq DOMAIN E
    BY <1>3, <2>1, <2>2 DEF Ancestors
  <2>4. j < id
    BY SMTT(30), <2>3
  <2>5. \E c \in e.anc : j \in F[c].parents
    <3>1. CASE j = p
      <4>1. id \in e.anc
        BY DEF NextEvent
      <4> QED
        BY <1>1, <3>1, <4>1
    <3>2. CASE j # p
      <4>1. PICK c \in E[p].anc : j \in E[c].parents
        BY <1>3, <2>1, <2>2, <3>2 DEF Ancestors
      <4> QED
        BY <1>1, <2>2, <2>3, <4>1
    <3> QED
      BY <3>1, <3>2
  <2>6. E[j].lamport < e.lamport
    <3>1. E[p].lamport < e.lamport /\ e.lamport \in Nat
      BY SMTT(30) DEF NextEvent
    <3>2. E[p].lamport \in Nat /\ E[j].lamport \in Nat /\ (j # p => E[j].lamport < E[p].lamport)
      BY SMTT(30), <2>1, <2>2, <2>3 DEF Lineage
    <3> QED
      BY SMTT(30), <3>1, <3>2
  <2> QED
    BY <2>1, <2>2, <2>3, <2>4, <2>5, <2>6
<1>6. id \in e.anc /\ e.anc \subseteq DOMAIN F
  BY SMTT(30), <1>1, <1>5 DEF NextEvent
<1>7. e.parents \subseteq e.anc
  BY SMTT(30), <1>3 DEF NextEvent, Ancestors
<1>8. Ancestors(F, id)
  <2>1. ASSUME NEW j \in F[id].anc
        PROVE  j <= id /\ F[j].epoch = F[id].epoch /\ F[j].anc \subseteq F[id].anc
    BY SMTT(30), <1>1, <1>5
  <2> QED
    BY <1>1, <1>5, <1>6, <1>7, <2>1 DEF Ancestors
<1>9. SelfParents(F, id)
  <2>1. CASE sp = 0
    <3>1. /\ e.line = {id} /\ e.isRoot \in BOOLEAN /\ e.frame \in Nat \ {0}
          /\ e.frame = 0 + (IF e.isRoot THEN 1 ELSE 0)
      BY <2>1 DEF NextEvent
    <3>2. SelfParentFrame(F, id) = 0
      BY <1>1, <2>1 DEF SelfParentFrame
    <3>3. e.frame \in 1..id
      BY SMTT(30), <3>1
    <3> QED
      BY SMTT(30), <1>1, <1>6, <3>1, <3>2, <3>3 DEF SelfParents
  <2>2. CASE sp # 0
    <3>1. /\ e.line = {id} \cup E[sp].line /\ e.isRoot \in BOOLEAN /\ e.frame \in Nat \ {0}
          /\ e.frame = E[sp].frame + (IF e.isRoot THEN 1 ELSE 0)
          /\ sp \in e.parents /\ sp \in DOMAIN E /\ E[sp].creator = e.creator
      BY <2>2 DEF NextEvent
    <3>2. SelfParentFrame(F, id) = E[sp].frame
      BY <1>1, <2>2, <3>1 DEF SelfParentFrame
    <3>3. /\ E[sp].frame \in 1..sp /\ E[sp].line \subseteq E[sp].anc
          /\ \A j \in E[sp].line : E[j].creator = E[sp].creator /\ E[j].frame <= E[sp].frame
      BY <1>3, <3>1 DEF SelfParents
    <3>4. e.frame \in 1..id
      BY SMTT(30), <3>1, <3>3
    <3>5. E[sp].anc \subseteq e.anc /\ E[sp].anc \subseteq DOMAIN E
      BY SMTT(30), <1>3, <3>1 DEF NextEvent, Ancestors
    <3>6. ASSUME NEW j \in e.line
          PROVE  /\ F[j].creator = e.creator /\ F[j].frame <= e.frame
                 /\ j # id /\ e.isRoot => F[j].frame < e.frame
      <4>1. CASE j = id
        BY SMTT(30), <1>1, <3>4, <4>1
      <4>2. CASE j # id
        <5>1. j \in E[sp].line /\ j \in DOMAIN E
          BY <3>1, <3>3, <3>5, <4>2
        <5>2. F[j].creator = e.creator /\ E[j].frame <= E[sp].frame /\ F[j].frame = E[j].frame
          BY SMTT(30), <1>1, <3>1, <3>3, <5>1
        <5>3. E[j].frame \in Nat
          BY SMTT(30), <1>3, <5>1 DEF SelfParents
        <5> QED
          BY SMTT(30), <3>1, <3>3, <5>2, <5>3
      <4> QED
        BY <4>1, <4>2
    <3>7. id \in e.line /\ e.line \subseteq e.anc
      BY <1>6, <3>1, <3>3, <3>5
    <3> QED
      BY <1>1, <3>1, <3>2, <3>4, <3>6, <3>7 DEF SelfParents
  <2> QED
    BY <2>1, <2>2
<1>10. Honest(F)
  <2> SUFFICES ASSUME NEW i \in DOMAIN F, NEW j \in DOMAIN F, F[i].creator = F[j].creator,
                      F[i].creator \notin Cheater, F[i].epoch = F[j].epoch
               PROVE  i \in F[j].line \/ j \in F[i].line
    BY DEF Honest
  <2>1. ASSUME NEW x \in DOMAIN E, E[x].creator = e.creator, e.creator \notin Cheater,
               E[x].epoch = e.epoch
        PROVE  x \in e.line
    BY <2>1 DEF NextEvent
  <2>2. CASE i \in DOMAIN E /\ j \in DOMAIN E
    BY <1>1, <2>2 DEF Graph, Honest
  <2>3. CASE i = id /\ j = id
    BY <1>1, <1>9, <2>3 DEF SelfParents
  <2>4. CASE i = id /\ j \in DOMAIN E
    BY <1>1, <2>1, <2>4
  <2>5. CASE i \in DOMAIN E /\ j = id
    BY <1>1, <2>1, <2>5
  <2> QED
    BY <1>1, <2>2, <2>3, <2>4, <2>5
<1>11. Graph(F)
  <2>1. \A i \in DOMAIN E : Header(F, i) /\ Ancestors(F, i) /\ SelfParents(F, i)
    BY <1>2, OldEvent
  <2>2. \E n \in Nat : DOMAIN F = 1..n
    BY SMTT(30), <1>1
  <2> QED
    BY <1>1, <1>4, <1>8, <1>9, <1>10, <2>1, <2>2 DEF Graph
<1>12. Lineage(F)
  <2> SUFFICES ASSUME NEW i \in DOMAIN F
               PROVE  /\ F[i].anc = {i} \cup UNION {F[p].anc : p \in F[i].parents}
                      /\ F[i].seq \in Nat \ {0} /\ F[i].lamport \in 1..i
                      /\ \A j \in F[i].anc \ {i} : F[j].lamport < F[i].lamport
    BY DEF Lineage
  <2>1. CASE i = id
    <3>1. \A p \in e.parents : F[p] = E[p]
      BY <1>1 DEF NextEvent
    <3>2. {F[p].anc : p \in e.parents} = {E[p].anc : p \in e.parents}
      BY <3>1
    <3>3. F[i].anc = {i} \cup UNION {F[p].anc : p \in F[i].parents}
      BY <1>1, <2>1, <3>2 DEF NextEvent
    <3>4. e.lamport \in 1..id /\ e.seq \in Nat \ {0}
      BY DEF NextEvent
    <3> QED
      BY <1>1, <1>5, <2>1, <3>3, <3>4
  <2>2. CASE i \in DOMAIN E
    <3>1. /\ E[i].anc = {i} \cup UNION {E[p].anc : p \in E[i].parents}
          /\ E[i].seq \in Nat \ {0} /\ E[i].lamport \in 1..i
          /\ \A j \in E[i].anc \ {i} : E[j].lamport < E[i].lamport
      BY <2>2 DEF Lineage
    <3>2. E[i].parents \subseteq DOMAIN E /\ E[i].anc \subseteq DOMAIN E
      BY <1>3, <2>2 DEF Header, Ancestors
    <3>3. {F[p].anc : p \in E[i].parents} = {E[p].anc : p \in E[i].parents}
      BY <1>1, <3>2
    <3> QED
      BY <1>1, <2>2, <3>1, <3>2, <3>3
  <2> QED
    BY <1>1, <2>1, <2>2
<1> QED
  BY <1>1, <1>2, <1>11, <1>12 DEF F
=============================================================================
