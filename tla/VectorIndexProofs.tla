------------------------- MODULE VectorIndexProofs -------------------------
(***************************************************************************)
(* Proofs about the vector index for every group of validators, every      *)
(* graph of events and every order of arrival, flushes and drops: the      *)
(* vectors give the graph's relation (IndexIsGraph), and two forks never   *)
(* both forkless-cause something (ForksExclude).                           *)
(***************************************************************************)
EXTENDS VectorGraph

\* Leaves are first-order; those that need arithmetic name SMT.
USE ZenonT(30)

-----------------------------------------------------------------------------
(***************************************************************************)
(* The stakes of sets of validators: StakeCounter.Sum is a number, grows   *)
(* with the set and is additive over disjoint sets.                        *)
(***************************************************************************)

\* The stake units of a set of validators are finitely many.
LEMMA StakeUnitsFinite ==
    ASSUME NEW S \in SUBSET Validators
    PROVE  IsFiniteSet(StakeUnits(S))
<1> DEFINE Units(v) == {v} \X (1..Stake[v])
           f == [v \in S |-> Units(v)]
           Image == {Units(v) : v \in S}
<1>1. IsFiniteSet(S)
  BY FS_Subset, PosAssumption
<1>2. f \in Surjection(S, Image)
  BY DEF Surjection
<1>3. IsFiniteSet(Image)
  BY <1>1, <1>2, FS_Surjection
<1>4. ASSUME NEW v \in S
      PROVE  IsFiniteSet(Units(v))
  <2>1. Stake[v] \in Int
    BY SMTT(30), PosAssumption
  <2>2. IsFiniteSet(1..Stake[v])
    BY SMTT(30), <2>1, FS_Interval
  <2>3. IsFiniteSet({v})
    BY FS_Singleton
  <2> QED
    BY <2>2, <2>3, FS_Product
<1>5. \A T \in Image : IsFiniteSet(T)
  BY <1>4
<1>6. IsFiniteSet(UNION Image)
  BY <1>3, <1>5, FS_UNION
<1> QED
  BY <1>6 DEF StakeUnits

\* A stake counter's sum is a natural number.
LEMMA SumType ==
    ASSUME NEW S \in SUBSET Validators
    PROVE  Sum(S) \in Nat
BY StakeUnitsFinite, FS_CardinalityType DEF Sum

\* Counting more validators never lowers the sum.
LEMMA SumMonotone ==
    ASSUME NEW S \in SUBSET Validators, NEW R \in SUBSET S
    PROVE  Sum(R) <= Sum(S)
<1>1. StakeUnits(R) \in SUBSET StakeUnits(S)
  BY DEF StakeUnits
<1> QED
  BY <1>1, StakeUnitsFinite, FS_Subset DEF Sum

\* Validators are counted once, so sums of disjoint sets add up.
LEMMA SumDisjoint ==
    ASSUME NEW S \in SUBSET Validators, NEW R \in SUBSET Validators,
           S \cap R = {}
    PROVE  Sum(S \cup R) = Sum(S) + Sum(R)
<1>1. StakeUnits(S \cup R) = StakeUnits(S) \cup StakeUnits(R)
  BY DEF StakeUnits
<1>2. StakeUnits(S) \cap StakeUnits(R) = {}
  BY SMTT(30) DEF StakeUnits
<1>3. Cardinality(StakeUnits(S) \cap StakeUnits(R)) = 0
  BY <1>2, FS_EmptySet
<1>4. Cardinality(StakeUnits(S) \cup StakeUnits(R))
        = Cardinality(StakeUnits(S)) + Cardinality(StakeUnits(R)) - 0
  BY <1>3, StakeUnitsFinite, FS_Union
<1>5. Cardinality(StakeUnits(S)) \in Nat /\ Cardinality(StakeUnits(R)) \in Nat
  BY StakeUnitsFinite, FS_CardinalityType
<1>6. Sum(S \cup R) = Cardinality(StakeUnits(S) \cup StakeUnits(R))
  BY <1>1 DEF Sum
<1>7. Sum(S) = Cardinality(StakeUnits(S)) /\ Sum(R) = Cardinality(StakeUnits(R))
  BY DEF Sum
<1> QED
  BY SMTT(30), <1>4, <1>5, <1>6, <1>7

\* Two sets of validators overlap in at least their excess over the total.
LEMMA SumOverlap ==
    ASSUME NEW S \in SUBSET Validators, NEW R \in SUBSET Validators
    PROVE  Sum(S) + Sum(R) <= Sum(S \cap R) + TotalStake
<1>1. Sum(S) = Sum(S \cap R) + Sum(S \ R)
  <2>1. Sum((S \cap R) \cup (S \ R)) = Sum(S \cap R) + Sum(S \ R)
    BY SumDisjoint
  <2>2. (S \cap R) \cup (S \ R) = S
    OBVIOUS
  <2> QED
    BY <2>1, <2>2
<1>2. Sum((S \ R) \cup R) = Sum(S \ R) + Sum(R)
  BY SumDisjoint
<1>3. Sum((S \ R) \cup R) <= TotalStake
  BY SumMonotone DEF TotalStake
<1>4. /\ Sum(S \cap R) \in Nat
      /\ Sum(S \ R) \in Nat
      /\ Sum(R) \in Nat
      /\ TotalStake \in Nat
      /\ Sum((S \ R) \cup R) \in Nat
  BY SumType DEF TotalStake
<1> QED
  BY SMTT(30), <1>1, <1>2, <1>3, <1>4

\* Quorum() is more than two thirds of the total stake.
LEMMA QuorumBound ==
    /\ TotalStake \in Nat
    /\ Quorum \in Nat
    /\ Quorum > 0
    /\ 3 * Quorum > 2 * TotalStake
<1>1. TotalStake \in Nat
  BY SumType DEF TotalStake
<1>2. ASSUME NEW t \in Nat
      PROVE  /\ (t * 2) \div 3 + 1 \in Nat
             /\ (t * 2) \div 3 + 1 > 0
             /\ 3 * ((t * 2) \div 3 + 1) > 2 * t
  BY SMTT(30)
<1> QED
  BY <1>1, <1>2 DEF Quorum

\* A set with a quorum is not empty.
LEMMA QuorumNonEmpty ==
    ASSUME NEW S \in SUBSET Validators, HasQuorum(S)
    PROVE  S # {}
<1>1. SUFFICES ASSUME S = {}
               PROVE  FALSE
  OBVIOUS
<1>2. StakeUnits(S) = {}
  BY <1>1 DEF StakeUnits
<1>3. Sum(S) = 0
  BY <1>2, FS_EmptySet DEF Sum
<1> QED
  BY SMTT(30), <1>3, QuorumBound DEF HasQuorum

-----------------------------------------------------------------------------
(***************************************************************************)
(* fillEventVectors finds a fork of v exactly when the event observes one. *)
(***************************************************************************)
LEMMA ForkFound ==
    ASSUME NEW id, MayAdd(id), NEW v \in Validators
    PROVE  ForkObserved(event[id], Me(id), NewInfo(id), v) <=> SeesForkIn(event, id, v)
<1> DEFINE e == event[id]
           me == Me(id)
           info == NewInfo(id)
           br == NewBranch(id)
           S(c) == On(event, br, id, c)
           M(c) == MergedEntry(e, me, c)
           inParent == \E p \in e.parents : SeesForkIn(event, p, v)
<1>1. InfoInv(info) /\ BranchInv(event, br, info) /\ Graph(event)
  BY AddInfo, AddBranch DEF MayAdd
<1>2. id \in DOMAIN br /\ DOMAIN br = Indexed \cup {id} /\ e.parents \subseteq Indexed
  BY DEF NewBranch, MayAdd
<1>3. \A c \in BranchesOf(info, v) : c \in Branches(info) /\ info.creator[c] = v
  BY DEF BranchesOf
<1>4. e.seq \in Nat \ {0}
  BY DEF MayAdd, Graph, Header
<1>5. ASSUME ~inParent
      PROVE  \A c \in BranchesOf(info, v) : EntryOf(event, S(c), M(c))
  BY <1>3, <1>5, Merged
<1>6. ASSUME NEW c \in BranchesOf(info, v), ForkDetected \in Observed(e, me, c)
      PROVE  inParent
  <2>1. ForkDetected # [seq |-> e.seq, minSeq |-> e.seq]
    BY SMTT(30), <1>4 DEF ForkDetected
  <2>2. PICK p \in e.parents : ForkDetected = GetBefore(before[p], c)
    BY <1>6, <2>1 DEF Observed
  <2>3. SUFFICES ASSUME ~SeesForkIn(event, p, v)
                 PROVE  FALSE
    OBVIOUS
  <2>4. EntryOf(event, On(event, br, p, c), ForkDetected)
    BY <1>2, <1>3, <2>2, <2>3, OldEntry
  <2>5. \A i \in On(event, br, p, c) : event[i].seq \in Nat \ {0}
    BY <1>2, OnIsEvent
  <2>6. ForkDetected.seq = 0 /\ ForkDetected # Zero
    BY SMTT(30) DEF ForkDetected, Zero
  <2> QED
    BY <2>4, <2>5, <2>6 DEF EntryOf
<1>7. ASSUME inParent
      PROVE  \E c \in BranchesOf(info, v) : ForkDetected \in Observed(e, me, c)
  <2>1. PICK p \in e.parents : SeesForkIn(event, p, v)
    BY <1>7
  <2> DEFINE c == GetIdx(v)
  <2>2. c \in 1..NumValidators /\ info.creator[c] = v
    BY <1>1, IdxType DEF InfoInv
  <2>3. c \in DOMAIN before[p] /\ c \in Branches(bi)
    BY <1>2, <2>2 DEF MayAdd, TableInv, BeforeInv, Indexed
  <2>4. c \in Branches(info)
    BY <2>3, NewInfoValue
  <2>5. before[p][c] = ForkDetected
    BY <1>2, <2>1, <2>2, <2>3, <2>4, OldEntry
  <2>6. ForkDetected \in Observed(e, me, c)
    BY <2>3, <2>5 DEF Observed, GetBefore
  <2> QED
    BY <2>2, <2>4, <2>6 DEF BranchesOf
<1>8. ASSUME ~inParent, SeesForkIn(event, id, v)
      PROVE  ForkObserved(e, me, info, v)
  <2>1. PICK x \in e.anc, y \in e.anc : /\ event[x].creator = v /\ event[y].creator = v
                                        /\ event[x].seq = event[y].seq
                                        /\ br[x] # br[y]
    BY SMTT(30), <1>1, <1>2, <1>8, ForkSplits
  <2> DEFINE c == br[x]
             d == br[y]
  <2>2. /\ c \in BranchesOf(info, v) /\ d \in BranchesOf(info, v)
        /\ x \in S(c) /\ y \in S(d)
        /\ event[x].seq \in Nat \ {0}
    <3>1. x \in S(c) /\ y \in S(d)
      BY DEF On
    <3>2. x \in DOMAIN br /\ y \in DOMAIN br
      BY <1>1, <1>2 DEF BranchInv
    <3>3. c \in Branches(info) /\ d \in Branches(info) /\ info.creator[c] = v /\ info.creator[d] = v
      BY <1>1, <2>1, <3>2 DEF BranchInv
    <3> QED
      BY <3>1, <3>3, OnIsEvent DEF BranchesOf
  <2>3. AtLeastOneFork(info)
    BY <1>1, <1>3, <2>1, <2>2, SecondBranch
  <2>4. /\ M(c).minSeq <= event[x].seq /\ event[x].seq <= M(c).seq
        /\ M(d).minSeq <= event[x].seq /\ event[x].seq <= M(d).seq
    BY <1>5, <1>8, <2>1, <2>2 DEF EntryOf
  <2>5. /\ M(c).minSeq \in Nat /\ M(c).seq \in Nat
        /\ M(d).minSeq \in Nat /\ M(d).seq \in Nat
    <3>1. \A i \in S(c) : event[i].seq \in Nat
      BY OnIsEvent
    <3>2. \A i \in S(d) : event[i].seq \in Nat
      BY SMTT(30), OnIsEvent
    <3>3. EntryOf(event, S(c), M(c)) /\ EntryOf(event, S(d), M(d))
      BY <1>5, <1>8, <2>2
    <3> QED
      BY <2>2, <3>1, <3>2, <3>3 DEF EntryOf
  <2>6. /\ M(c).seq # 0 /\ M(d).seq # 0
        /\ M(c).minSeq <= M(d).seq /\ M(d).minSeq <= M(c).seq
    BY SMTT(30), <2>2, <2>4, <2>5
  <2> HIDE DEF c, d
  <2> QED
    BY <2>1, <2>2, <2>3, <2>6 DEF ForkObserved, c, d
<1>9. ASSUME ~inParent, NEW c \in BranchesOf(info, v), NEW d \in BranchesOf(info, v),
             c # d, M(c).seq # 0, M(d).seq # 0,
             M(c).minSeq <= M(d).seq, M(d).minSeq <= M(c).seq
      PROVE  SeesForkIn(event, id, v)
  <2>1. SUFFICES ASSUME ~SeesForkIn(event, id, v)
                 PROVE  FALSE
    OBVIOUS
  <2>2. EntryOf(event, S(c), M(c)) /\ EntryOf(event, S(d), M(d))
    BY <1>5, <1>9
  <2>3. S(c) # {} /\ S(d) # {}
    BY SMTT(30), <1>9, <2>2 DEF EntryOf, Zero
  <2>4. PICK xlo \in S(c) : M(c).minSeq = event[xlo].seq
    BY <2>2, <2>3 DEF EntryOf
  <2>5. PICK xhi \in S(c) : M(c).seq = event[xhi].seq
    BY <2>2, <2>3 DEF EntryOf
  <2>6. PICK ylo \in S(d) : M(d).minSeq = event[ylo].seq
    BY <2>2, <2>3 DEF EntryOf
  <2>7. PICK yhi \in S(d) : M(d).seq = event[yhi].seq
    BY <2>2, <2>3 DEF EntryOf
  <2>8. \A i \in S(c) : i \in e.anc /\ br[i] = c /\ event[i].creator = v
    BY SMTT(30), <1>3, OnIsEvent
  <2>9. \A i \in S(d) : i \in e.anc /\ br[i] = d /\ event[i].creator = v
    BY SMTT(30), <1>3, OnIsEvent
  <2>10. event[xlo].seq <= event[yhi].seq /\ event[ylo].seq <= event[xhi].seq
    BY <1>9, <2>4, <2>5, <2>6, <2>7
  <2> HIDE DEF S
  <2> QED
    BY SMTT(30), <1>1, <1>2, <1>9, <2>1, <2>8, <2>9, <2>10, NoForkNoOverlap
<1>10. ASSUME inParent
       PROVE  SeesForkIn(event, id, v)
  BY <1>10, ParentFork
<1>11. ASSUME ForkObserved(e, me, info, v)
       PROVE  SeesForkIn(event, id, v)
  BY <1>6, <1>9, <1>10, <1>11 DEF ForkObserved
<1>12. ASSUME SeesForkIn(event, id, v)
       PROVE  ForkObserved(e, me, info, v)
  <2>1. CASE inParent
    BY <1>7, <2>1 DEF ForkObserved
  <2>2. CASE ~inParent
    BY <1>8, <1>12, <2>2
  <2> QED
    BY <2>1, <2>2
<1> QED
  BY <1>11, <1>12

\* After Add, HighestBefore of every indexed event, the new one included, tells
\* what the event observes on each branch, and its forks.
LEMMA AddBefore ==
    ASSUME NEW id, MayAdd(id)
    PROVE  BeforeInv(event, NewBranch(id), NewBefore(id), NewInfo(id))
<1> DEFINE br == NewBranch(id)
           be == NewBefore(id)
           info == NewInfo(id)
<1>1. DOMAIN br = Indexed \cup {id} /\ DOMAIN be = DOMAIN br
  BY DEF NewBranch, NewBefore
<1>2. \A a \in Indexed : be[a] = before[a]
  BY DEF NewBefore, MayAdd
<1>3. be[id] = HighestBefore(event[id], Me(id), info)
  BY DEF NewBefore
<1>4. InfoInv(info) /\ NumValidators \in Nat
  BY AddInfo, FS_CardinalityType, PosAssumption DEF NumValidators
<1>5. ASSUME NEW a \in Indexed
      PROVE  /\ 1..NumValidators \subseteq DOMAIN before[a]
             /\ DOMAIN before[a] \subseteq Branches(info)
  BY SMTT(30), NewInfoValue DEF MayAdd, TableInv, BeforeInv, Indexed
<1>6. /\ DOMAIN be[id] = Branches(info)
      /\ \A c \in Branches(info) :
            be[id][c] = IF SeesForkIn(event, id, info.creator[c])
                        THEN ForkDetected ELSE MergedEntry(event[id], Me(id), c)
  <2>1. \A c \in Branches(info) : info.creator[c] \in Validators
    BY <1>4 DEF InfoInv
  <2> QED
    BY <1>3, <2>1, ForkFound DEF HighestBefore
<1>7. 1..NumValidators \subseteq Branches(info)
  BY SMTT(30), <1>4 DEF InfoInv
<1>8. ASSUME NEW c \in Branches(info), ~SeesForkIn(event, id, info.creator[c])
      PROVE  EntryOf(event, On(event, br, id, c), GetBefore(be[id], c))
  <2>1. GetBefore(be[id], c) = MergedEntry(event[id], Me(id), c)
    BY <1>6, <1>8 DEF GetBefore
  <2>2. \A p \in event[id].parents : ~SeesForkIn(event, p, info.creator[c])
    BY <1>8, ParentFork
  <2> QED
    BY <2>1, <2>2, Merged
<1> HIDE DEF br, be, info
<1>9. ASSUME NEW a \in DOMAIN br
      PROVE  /\ 1..NumValidators \subseteq DOMAIN be[a]
             /\ DOMAIN be[a] \subseteq Branches(info)
             /\ \A c \in Branches(info) :
                   /\ On(event, br, a, c) # {} => c \in DOMAIN be[a]
                   /\ c \in DOMAIN be[a] /\ SeesForkIn(event, a, info.creator[c])
                         => be[a][c] = ForkDetected
                   /\ ~SeesForkIn(event, a, info.creator[c])
                         => EntryOf(event, On(event, br, a, c), GetBefore(be[a], c))
  <2>1. CASE a = id
    BY <1>6, <1>7, <1>8, <2>1
  <2>2. CASE a \in Indexed
    BY <1>2, <1>5, <2>2, OldEntry DEF info, br
  <2> QED
    BY <1>1, <2>1, <2>2
<1> QED
  BY <1>1, <1>9 DEF BeforeInv, br, be, info

-----------------------------------------------------------------------------
\* LowestAfter: an entry of the event's branch, which may be a new one.
LEMMA AfterMe ==
    ASSUME NEW id, MayAdd(id), NEW b \in Indexed
    PROVE  /\ GetAfter(after[b], Me(id)) \in Nat
           /\ GetAfter(after[b], Me(id)) # 0 =>
                \E i \in Indexed : /\ branch[i] = Me(id) /\ b \in event[i].anc
                                   /\ event[i].seq = GetAfter(after[b], Me(id))
           /\ \A i \in Indexed : (branch[i] = Me(id) /\ b \in event[i].anc) =>
                GetAfter(after[b], Me(id)) # 0 /\ GetAfter(after[b], Me(id)) <= event[i].seq
<1>1. AfterInv(event, branch, after, bi) /\ BranchInv(event, branch, bi)
  BY DEF MayAdd, TableInv
<1>2. CASE Me(id) \in Branches(bi)
  BY <1>1, <1>2 DEF AfterInv, Indexed
<1>3. CASE Me(id) \notin Branches(bi)
  <2>1. GetAfter(after[b], Me(id)) = 0
    BY <1>1, <1>3 DEF AfterInv, GetAfter, Indexed
  <2>2. \A i \in Indexed : branch[i] # Me(id)
    BY <1>1, <1>3 DEF BranchInv, Indexed
  <2> QED
    BY SMTT(30), <2>1, <2>2
<1> QED
  BY <1>2, <1>3

(***************************************************************************)
(* dfsSubgraph, which stops at what the branch observes already, still     *)
(* visits every event that the branch newly observes.                      *)
(***************************************************************************)
LEMMA WalkedAll ==
    ASSUME NEW id, MayAdd(id)
    PROVE  \A w : w \in Walked(event[id], Me(id)) <=>
              /\ w \in event[id].anc
              /\ w # id
              /\ GetAfter(after[w], Me(id)) = 0
<1> DEFINE e == event[id]
           me == Me(id)
           enters(w, W) == /\ GetAfter(after[w], me) = 0
                           /\ w \in e.parents \/ \E c \in W : w \in event[c].parents
           closed == {W \in SUBSET Indexed : \A w \in Indexed : enters(w, W) => w \in W}
           S == {w \in Indexed : w \in e.anc /\ GetAfter(after[w], me) = 0}
<1>1. Walked(e, me) = {w \in Indexed : \A W \in closed : w \in W}
  BY DEF Walked
<1>2. /\ \A i \in DOMAIN event : Header(event, i) /\ Ancestors(event, i)
      /\ DOMAIN event \subseteq Nat
  BY DEF MayAdd, Graph
<1>3. /\ Indexed \subseteq DOMAIN event
      /\ \A i \in Indexed : event[i].anc \subseteq Indexed
      /\ id \in DOMAIN event /\ id \notin Indexed
      /\ e.parents \subseteq Indexed
  BY DEF MayAdd, TableInv, BranchInv, Indexed
<1>4. \A i : i \in e.anc <=> i = id \/ \E p \in e.parents : i \in event[p].anc
  BY SMTT(30), <1>2, <1>3 DEF Header
<1>5. \A i \in DOMAIN event : event[i].parents \subseteq event[i].anc
  BY SMTT(30), <1>2 DEF Header, Ancestors
<1>6. \A w : w \in S <=> w \in e.anc /\ w # id /\ GetAfter(after[w], me) = 0
  BY <1>3, <1>4
<1>7. S \in closed
  <2>1. ASSUME NEW w \in Indexed, enters(w, S)
        PROVE  w \in S
    <3>1. CASE w \in e.parents
      BY <1>3, <1>5, <2>1, <3>1
    <3>2. ASSUME NEW c \in S, w \in event[c].parents
          PROVE  w \in S
      <4>1. c \in e.anc /\ w \in event[c].anc
        BY <1>3, <1>5, <3>2
      <4>2. w \in e.anc
        BY <1>2, <1>3, <4>1 DEF Ancestors
      <4> QED
        BY <2>1, <4>2
    <3> QED
      BY <2>1, <3>1, <3>2
  <2> QED
    BY <2>1
<1>8. ASSUME NEW W \in closed
      PROVE  S \subseteq W
  <2> DEFINE Left == S \ W
  <2>1. SUFFICES ASSUME Left # {}
                 PROVE  FALSE
    OBVIOUS
  <2>2. Left \in SUBSET Nat /\ id \in Nat
    BY <1>2, <1>3
  <2>3. \A w \in Left : w <= id
    BY <1>2, <1>3 DEF Ancestors
  <2>4. PICK w \in Left : \A x \in Left : x <= w
    BY <2>1, <2>2, <2>3, Largest
  <2>5. w \in e.anc /\ w # id /\ GetAfter(after[w], me) = 0 /\ w \in Indexed
    BY <1>6
  <2>6. PICK c \in e.anc : w \in event[c].parents
    BY <1>2, <1>3, <2>5 DEF Ancestors
  <2>7. CASE c = id
    <3>1. enters(w, W)
      BY <2>5, <2>6, <2>7
    <3> QED
      BY <2>5, <3>1
  <2>8. CASE c # id
    <3>1. c \in Indexed
      BY <1>3, <1>4, <2>6, <2>8
    <3>2. GetAfter(after[c], me) = 0
      <4>1. SUFFICES ASSUME GetAfter(after[c], me) # 0
                     PROVE  FALSE
        OBVIOUS
      <4>2. PICK i \in Indexed : branch[i] = me /\ c \in event[i].anc
        BY <3>1, <4>1, AfterMe
      <4>3. w \in event[i].anc
        <5>1. w \in event[c].anc
          BY <1>3, <1>5, <2>6, <3>1
        <5> QED
          BY <1>2, <1>3, <4>2, <5>1 DEF Ancestors
      <4> QED
        BY <2>5, <4>2, <4>3, AfterMe
    <3>3. c \in S
      BY <2>6, <3>1, <3>2
    <3>4. w < c
      BY <1>2, <1>3, <2>6, <3>1 DEF Header
    <3>5. w \in Nat /\ c \in Nat
      BY <1>2, <1>3, <2>5, <3>1
    <3>6. c \notin Left
      BY SMTT(30), <2>4, <3>4, <3>5
    <3>7. c \in W
      BY <3>3, <3>6
    <3>8. enters(w, W)
      BY <2>5, <2>6, <3>7
    <3> QED
      BY <2>5, <3>8
  <2> QED
    BY <2>7, <2>8
<1> HIDE DEF S, closed
<1>9. Walked(e, me) = S
  <2>1. S \subseteq Indexed
    BY DEF S
  <2> QED
    BY <1>1, <1>7, <1>8, <2>1
<1> QED
  BY <1>6, <1>9

\* SetLowestAfter changes one entry.
LEMMA SetAfterValue ==
    ASSUME NEW vec, NEW b \in Nat \ {0}, NEW seq, NEW c
    PROVE  GetAfter(SetAfter(vec, b, seq), c) = IF c = b THEN seq ELSE GetAfter(vec, c)
BY SMTT(30) DEF SetAfter, GetAfter

\* After Add, LowestAfter of every indexed event, the new one included, tells
\* which event of each branch is the first to observe it.
LEMMA AddAfter ==
    ASSUME NEW id, MayAdd(id)
    PROVE  AfterInv(event, NewBranch(id), NewAfter(id), NewInfo(id))
<1> DEFINE e == event[id]
           me == Me(id)
           br == NewBranch(id)
           af == NewAfter(id)
           info == NewInfo(id)
           I == Indexed \cup {id}
<1>1. /\ DOMAIN br = I /\ DOMAIN af = I /\ br[id] = me
      /\ \A i \in Indexed : br[i] = branch[i] /\ i # id
  BY DEF NewBranch, NewAfter, MayAdd
<1>2. me \in Nat \ {0} /\ e.seq \in Nat \ {0} /\ id \notin Indexed
  BY OwnOrNew DEF MayAdd, Graph, Header
<1>3. Branches(info) = Branches(bi) \cup {me}
  BY NewInfoValue
<1>4. 1..me \subseteq Branches(info)
  <2>1. Branches(bi) = 1..NumBranches(bi) /\ NumBranches(bi) \in Nat
    BY DEF MayAdd, TableInv, InfoInv
  <2> QED
    BY SMTT(30), <1>3, <2>1, OwnOrNew
<1>5. /\ DOMAIN af[id] = Branches(bi) \cup 1..me
      /\ \A c : GetAfter(af[id], c) = IF c = me THEN e.seq ELSE 0
  <2> DEFINE zero == [c \in Branches(bi) |-> 0]
  <2>1. af[id] = SetAfter(zero, me, e.seq)
    BY DEF NewAfter
  <2>2. DOMAIN zero = Branches(bi) /\ \A c : GetAfter(zero, c) = 0
    BY DEF GetAfter
  <2> HIDE DEF zero, af
  <2>3. DOMAIN SetAfter(zero, me, e.seq) = DOMAIN zero \cup 1..me
    BY DEF SetAfter
  <2>4. \A c : GetAfter(SetAfter(zero, me, e.seq), c) = IF c = me THEN e.seq ELSE GetAfter(zero, c)
    BY SMTT(30), <1>2, SetAfterValue
  <2> QED
    BY <2>1, <2>2, <2>3, <2>4
<1>6. ASSUME NEW b \in Indexed
      PROVE  /\ b \notin Walked(e, me) => af[b] = after[b]
             /\ b \in Walked(e, me) =>
                   /\ DOMAIN af[b] = DOMAIN after[b] \cup 1..me
                   /\ \A c : GetAfter(af[b], c) = IF c = me THEN e.seq ELSE GetAfter(after[b], c)
  <2>1. b \notin Walked(e, me) => af[b] = after[b]
    BY <1>2 DEF NewAfter
  <2>2. b \in Walked(e, me) => af[b] = SetAfter(after[b], me, e.seq)
    BY <1>2 DEF NewAfter
  <2> HIDE DEF af
  <2>3. DOMAIN SetAfter(after[b], me, e.seq) = DOMAIN after[b] \cup 1..me
    BY DEF SetAfter
  <2>4. \A c : GetAfter(SetAfter(after[b], me, e.seq), c)
                 = IF c = me THEN e.seq ELSE GetAfter(after[b], c)
    BY SMTT(30), <1>2, SetAfterValue
  <2> QED
    BY <2>1, <2>2, <2>3, <2>4
<1>7. BranchInv(event, branch, bi) /\ AfterInv(event, branch, after, bi)
  BY DEF MayAdd, TableInv
<1>8. /\ \A i \in Indexed : event[i].anc \subseteq Indexed /\ event[i].seq \in Nat \ {0}
      /\ id \in e.anc
  BY <1>7 DEF BranchInv, MayAdd, Graph, Header, Ancestors, Indexed
<1> HIDE DEF br, af, info
<1>9. ASSUME NEW b \in I
      PROVE  DOMAIN af[b] \subseteq Branches(info)
  <2>1. CASE b = id
    BY <1>3, <1>4, <1>5, <2>1
  <2>2. CASE b \in Indexed
    <3>1. DOMAIN after[b] \subseteq Branches(bi)
      BY <1>7, <2>2 DEF AfterInv, Indexed
    <3> QED
      BY <1>3, <1>4, <1>6, <2>2, <3>1
  <2> QED
    BY <2>1, <2>2
<1>10. ASSUME NEW b \in I, NEW c \in Branches(info)
       PROVE  /\ GetAfter(af[b], c) \in Nat
              /\ GetAfter(af[b], c) # 0 =>
                    \E i \in I : /\ br[i] = c /\ b \in event[i].anc
                                 /\ event[i].seq = GetAfter(af[b], c)
              /\ \A i \in I : (br[i] = c /\ b \in event[i].anc) =>
                    GetAfter(af[b], c) # 0 /\ GetAfter(af[b], c) <= event[i].seq
  <2>1. CASE b = id
    <3>1. GetAfter(af[b], c) = IF c = me THEN e.seq ELSE 0
      BY <1>5, <2>1
    <3>2. \A i \in I : b \in event[i].anc => i = id
      BY <1>2, <1>8, <2>1
    <3> QED
      BY SMTT(30), <1>1, <1>2, <1>8, <2>1, <3>1, <3>2
  <2>2. CASE b \in Indexed /\ c # me
    <3>1. c \in Branches(bi)
      BY <1>3, <2>2
    <3>2. GetAfter(af[b], c) = GetAfter(after[b], c)
      BY <1>6, <2>2
    <3>3. \A i \in I : br[i] = c => i \in Indexed /\ branch[i] = c
      BY <1>1, <2>2
    <3>4. /\ GetAfter(after[b], c) \in Nat
          /\ GetAfter(after[b], c) # 0 =>
                \E i \in Indexed : /\ branch[i] = c /\ b \in event[i].anc
                                   /\ event[i].seq = GetAfter(after[b], c)
          /\ \A i \in Indexed : (branch[i] = c /\ b \in event[i].anc) =>
                GetAfter(after[b], c) # 0 /\ GetAfter(after[b], c) <= event[i].seq
      BY <1>7, <2>2, <3>1 DEF AfterInv, Indexed
    <3> QED
      BY <1>1, <3>2, <3>3, <3>4
  <2>3. CASE b \in Indexed /\ c = me /\ b \in Walked(e, me)
    <3>1. GetAfter(af[b], c) = e.seq
      BY <1>6, <2>3
    <3>2. b \in e.anc /\ GetAfter(after[b], me) = 0
      BY <2>3, WalkedAll
    <3>3. \A i \in I : (br[i] = c /\ b \in event[i].anc) => i = id
      BY SMTT(30), <1>1, <2>3, <3>2, AfterMe
    <3> QED
      BY SMTT(30), <1>1, <1>2, <2>3, <3>1, <3>2, <3>3
  <2>4. CASE b \in Indexed /\ c = me /\ b \notin Walked(e, me)
    <3>1. GetAfter(af[b], c) = GetAfter(after[b], me)
      BY <1>6, <2>4
    <3>2. b \in e.anc => GetAfter(after[b], me) # 0
      BY <1>2, <2>4, WalkedAll
    <3>3. GetAfter(after[b], me) \in Nat
      BY <2>4, AfterMe
    <3>4. GetAfter(after[b], me) # 0 =>
            \E i \in Indexed : /\ branch[i] = me /\ b \in event[i].anc
                               /\ event[i].seq = GetAfter(after[b], me)
      BY <2>4, AfterMe
    <3>5. b \in e.anc => GetAfter(after[b], me) <= e.seq
      <4>1. SUFFICES ASSUME b \in e.anc
                     PROVE  GetAfter(after[b], me) <= e.seq
        OBVIOUS
      <4>2. PICK i \in Indexed : branch[i] = me /\ event[i].seq = GetAfter(after[b], me)
        BY <3>2, <3>4, <4>1
      <4>3. event[i].seq < e.seq
        BY <4>2, BelowMe
      <4> QED
        BY SMTT(30), <1>2, <1>8, <4>2, <4>3
    <3>6. \A i \in Indexed : (branch[i] = me /\ b \in event[i].anc) =>
            GetAfter(after[b], me) # 0 /\ GetAfter(after[b], me) <= event[i].seq
      BY <2>4, AfterMe
    <3> QED
      BY <1>1, <2>4, <3>1, <3>2, <3>3, <3>4, <3>5, <3>6
  <2> QED
    BY <2>1, <2>2, <2>3, <2>4
<1> QED
  BY SMTT(30), <1>1, <1>9, <1>10 DEF AfterInv, br, af, info

\* Add keeps the tables right.
LEMMA AddTables ==
    ASSUME NEW id, MayAdd(id)
    PROVE  TableInv(event, NewBranch(id), NewBefore(id), NewAfter(id), NewInfo(id))
BY AddInfo, AddBranch, AddBefore, AddAfter DEF TableInv

-----------------------------------------------------------------------------
(***************************************************************************)
(* forklessCause counts the validators that the graph's relation counts:   *)
(* the lowest event of a branch that observes b is not above the highest   *)
(* one that a observes exactly when a observes that b is observed there.   *)
(***************************************************************************)
LEMMA SameValidators ==
    ASSUME Graph(event), TableInv(event, branch, before, after, bi),
           NEW a \in Indexed, NEW b \in Indexed, NEW v \in Validators
    PROVE  (\E c \in BranchesOf(bi, v) :
              /\ GetAfter(after[b], c) <= GetBefore(before[a], c).seq
              /\ GetAfter(after[b], c) # 0
              /\ GetBefore(before[a], c) # ForkDetected)
           <=>
           /\ ~SeesForkIn(event, a, v)
           /\ \E x \in event[a].anc : event[x].creator = v /\ b \in event[x].anc
<1>1. /\ BranchInv(event, branch, bi) /\ BeforeInv(event, branch, before, bi)
      /\ AfterInv(event, branch, after, bi)
  BY DEF TableInv
<1>2. /\ Indexed \subseteq DOMAIN event
      /\ \A i \in Indexed : /\ event[i].anc \subseteq Indexed
                            /\ event[i].seq \in Nat \ {0}
                            /\ SelfParents(event, i) /\ Ancestors(event, i)
                            /\ branch[i] \in Branches(bi)
                            /\ bi.creator[branch[i]] = event[i].creator
  BY <1>1 DEF BranchInv, Indexed, Graph, Header
<1>3. ASSUME NEW c \in Branches(bi)
      PROVE  /\ c \in DOMAIN before[a] /\ SeesForkIn(event, a, bi.creator[c])
                   => before[a][c] = ForkDetected
             /\ ~SeesForkIn(event, a, bi.creator[c])
                   => EntryOf(event, On(event, branch, a, c), GetBefore(before[a], c))
  BY <1>1 DEF BeforeInv, Indexed
<1>4. ASSUME NEW c \in Branches(bi)
      PROVE  /\ GetAfter(after[b], c) \in Nat
             /\ GetAfter(after[b], c) # 0 =>
                   \E i \in Indexed : /\ branch[i] = c /\ b \in event[i].anc
                                      /\ event[i].seq = GetAfter(after[b], c)
             /\ \A i \in Indexed : (branch[i] = c /\ b \in event[i].anc) =>
                   GetAfter(after[b], c) # 0 /\ GetAfter(after[b], c) <= event[i].seq
  BY <1>1 DEF AfterInv, Indexed
<1>5. Zero.seq = 0 /\ ForkDetected.seq = 0
  BY SMTT(30) DEF Zero, ForkDetected
<1>6. ASSUME NEW c \in BranchesOf(bi, v),
             GetAfter(after[b], c) <= GetBefore(before[a], c).seq,
             GetAfter(after[b], c) # 0, GetBefore(before[a], c) # ForkDetected
      PROVE  /\ ~SeesForkIn(event, a, v)
             /\ \E x \in event[a].anc : event[x].creator = v /\ b \in event[x].anc
  <2>1. c \in Branches(bi) /\ bi.creator[c] = v
    BY DEF BranchesOf
  <2>2. GetAfter(after[b], c) \in Nat
    BY <1>4, <2>1
  <2>3. GetBefore(before[a], c) # Zero
    BY SMTT(30), <1>5, <1>6, <2>2
  <2>4. c \in DOMAIN before[a] /\ before[a][c] # ForkDetected
    BY <1>6, <2>3 DEF GetBefore
  <2>5. ~SeesForkIn(event, a, v)
    BY <1>3, <2>1, <2>4
  <2>6. EntryOf(event, On(event, branch, a, c), GetBefore(before[a], c))
    BY <1>3, <2>1, <2>5
  <2>7. PICK x \in On(event, branch, a, c) : GetBefore(before[a], c).seq = event[x].seq
    BY <2>3, <2>6 DEF EntryOf
  <2>8. x \in event[a].anc /\ branch[x] = c /\ x \in Indexed
    BY <1>2, <2>7 DEF On
  <2>9. PICK i \in Indexed : /\ branch[i] = c /\ b \in event[i].anc
                             /\ event[i].seq = GetAfter(after[b], c)
    BY <1>4, <1>6, <2>1
  <2>10. event[i].seq <= event[x].seq
    BY <1>6, <2>7, <2>9
  <2>11. i \in event[x].line
    BY <1>1, <2>8, <2>9, <2>10 DEF BranchInv, Indexed
  <2>12. i \in event[x].anc
    BY <1>2, <2>8, <2>11 DEF SelfParents
  <2>13. b \in event[x].anc
    BY <1>2, <2>8, <2>9, <2>12 DEF Ancestors
  <2>14. event[x].creator = v
    BY <1>2, <2>1, <2>8
  <2> QED
    BY <2>5, <2>8, <2>13, <2>14
<1>7. ASSUME ~SeesForkIn(event, a, v), NEW x \in event[a].anc,
             event[x].creator = v, b \in event[x].anc
      PROVE  \E c \in BranchesOf(bi, v) :
                /\ GetAfter(after[b], c) <= GetBefore(before[a], c).seq
                /\ GetAfter(after[b], c) # 0
                /\ GetBefore(before[a], c) # ForkDetected
  <2> DEFINE c == branch[x]
  <2>1. x \in Indexed /\ c \in Branches(bi) /\ bi.creator[c] = v
    BY <1>2, <1>7
  <2>2. EntryOf(event, On(event, branch, a, c), GetBefore(before[a], c))
    BY <1>3, <1>7, <2>1
  <2>3. x \in On(event, branch, a, c)
    BY DEF On
  <2>4. event[x].seq <= GetBefore(before[a], c).seq
    BY <2>2, <2>3 DEF EntryOf
  <2>5. GetAfter(after[b], c) # 0 /\ GetAfter(after[b], c) <= event[x].seq
    BY <1>4, <1>7, <2>1
  <2>6. \E i \in On(event, branch, a, c) : GetBefore(before[a], c).seq = event[i].seq
    BY <2>2, <2>3 DEF EntryOf
  <2>7. GetBefore(before[a], c).seq \in Nat \ {0}
    BY <1>2, <2>6 DEF On
  <2>8. GetAfter(after[b], c) <= GetBefore(before[a], c).seq
    BY SMTT(30), <1>2, <1>4, <2>1, <2>4, <2>5, <2>7
  <2>9. GetBefore(before[a], c) # ForkDetected
    BY <1>5, <2>7
  <2>10. c \in BranchesOf(bi, v)
    BY <2>1 DEF BranchesOf
  <2> HIDE DEF c
  <2> QED
    BY <2>5, <2>8, <2>9, <2>10
<1> QED
  BY <1>6, <1>7

\* forklessCause is the graph's relation.
LEMMA NowIsCauses ==
    ASSUME Graph(event), TableInv(event, branch, before, after, bi),
           NEW a \in Indexed, NEW b \in Indexed
    PROVE  ForklessCauseNow(a, b) <=> CausesIn(event, a, b)
<1> DEFINE now == {v \in Validators : \E c \in BranchesOf(bi, v) :
                      /\ GetAfter(after[b], c) <= GetBefore(before[a], c).seq
                      /\ GetAfter(after[b], c) # 0
                      /\ GetBefore(before[a], c) # ForkDetected}
           graph == {v \in Validators :
                      /\ ~SeesForkIn(event, a, v)
                      /\ \E x \in event[a].anc : event[x].creator = v /\ b \in event[x].anc}
           u == event[b].creator
<1>1. now = graph
  BY SMTT(30), SameValidators
<1>2. /\ ForklessCauseNow(a, b) <=>
            /\ AtLeastOneFork(bi) => GetBefore(before[a], branch[b]) # ForkDetected
            /\ HasQuorum(now)
      /\ CausesIn(event, a, b) <=> ~SeesForkIn(event, a, u) /\ HasQuorum(graph)
  BY DEF ForklessCauseNow, CausesIn
<1>3. /\ InfoInv(bi) /\ BranchInv(event, branch, bi) /\ BeforeInv(event, branch, before, bi)
  BY DEF TableInv
<1>4. /\ branch[b] \in Branches(bi) /\ bi.creator[branch[b]] = u
      /\ Indexed \subseteq DOMAIN event /\ event[a].anc \subseteq Indexed
  BY <1>3 DEF BranchInv, Indexed
<1>5. CASE ~SeesForkIn(event, a, u)
  <2>1. EntryOf(event, On(event, branch, a, branch[b]), GetBefore(before[a], branch[b]))
    BY <1>3, <1>4, <1>5 DEF BeforeInv, Indexed
  <2>2. \A i \in On(event, branch, a, branch[b]) : event[i].seq \in Nat \ {0}
    BY <1>4 DEF On, Graph, Header
  <2>3. ForkDetected.seq = 0 /\ ForkDetected # Zero
    BY SMTT(30) DEF ForkDetected, Zero
  <2>4. GetBefore(before[a], branch[b]) # ForkDetected
    BY <2>1, <2>2, <2>3 DEF EntryOf
  <2> QED
    BY <1>1, <1>2, <1>5, <2>4
<1>6. CASE SeesForkIn(event, a, u)
  <2>1. SUFFICES ASSUME AtLeastOneFork(bi) => GetBefore(before[a], branch[b]) # ForkDetected,
                        HasQuorum(graph)
                 PROVE  FALSE
    BY <1>1, <1>2, <1>6
  <2>2. PICK x \in event[a].anc, y \in event[a].anc :
           event[x].creator = u /\ event[y].creator = u /\ branch[x] # branch[y]
    BY SMTT(30), <1>3, <1>6, ForkSplits DEF Indexed
  <2>3. AtLeastOneFork(bi)
    <3>1. /\ branch[x] \in Branches(bi) /\ branch[y] \in Branches(bi)
          /\ bi.creator[branch[x]] = bi.creator[branch[y]]
      BY <1>3, <1>4, <2>2 DEF BranchInv, Indexed
    <3> QED
      BY <1>3, <2>2, <3>1, SecondBranch
  <2>4. branch[b] \notin DOMAIN before[a]
    BY <1>3, <1>4, <1>6, <2>1, <2>3 DEF BeforeInv, GetBefore, Indexed
  <2>5. PICK v \in graph : TRUE
    BY <2>1, QuorumNonEmpty
  <2>6. PICK w \in event[a].anc : b \in event[w].anc
    BY <2>5
  <2>7. b \in event[a].anc
    BY <1>4, <2>6 DEF Graph, Ancestors
  <2>8. On(event, branch, a, branch[b]) # {}
    BY <2>7 DEF On
  <2> QED
    BY <1>3, <1>4, <2>4, <2>8 DEF BeforeInv, Indexed
<1> QED
  BY <1>5, <1>6

-----------------------------------------------------------------------------
\* The empty index meets the invariant.
LEMMA InitInv == Init => IInv
<1> SUFFICES ASSUME Init
             PROVE  IInv
  OBVIOUS
<1>1. DOMAIN Empty = {}
  BY DEF Empty
<1>2. InfoInv(InitialBranches)
  <2> DEFINE N == NumValidators
             info == InitialBranches
  <2>1. N \in Nat
    BY FS_CardinalityType, PosAssumption DEF NumValidators
  <2>2. Cardinality(1..N) = N
    BY SMTT(30), <2>1, FS_Interval
  <2>3. /\ Branches(info) = 1..N
        /\ \A c \in 1..N : info.lastSeq[c] = 0 /\ info.creator[c] = SortedIDs[c]
    BY DEF InitialBranches, Branches, NumValidators
  <2>4. \A c \in 1..N : SortedIDs[c] \in Validators /\ GetIdx(SortedIDs[c]) = c
    BY IdxOnto DEF SortedIDs, NumValidators
  <2> HIDE DEF info
  <2>5. \A v \in Validators : info.creator[GetIdx(v)] = v
    BY <2>3, <2>4, IdxType, IdxOnce
  <2>6. NumBranches(info) = N
    BY <2>2, <2>3 DEF NumBranches
  <2> QED
    BY SMTT(30), <2>1, <2>3, <2>4, <2>5, <2>6 DEF InfoInv, info
<1>3. Graph(Empty)
  BY <1>1 DEF Graph, Honest
<1>4. TableInv(Empty, Empty, Empty, Empty, InitialBranches)
  <2>1. \A c \in Branches(InitialBranches) : InitialBranches.lastSeq[c] = 0
    BY DEF InitialBranches, Branches
  <2>2. BranchInv(Empty, Empty, InitialBranches)
    BY <1>1, <2>1 DEF BranchInv
  <2>3. BeforeInv(Empty, Empty, Empty, InitialBranches)
    BY <1>1 DEF BeforeInv
  <2>4. AfterInv(Empty, Empty, Empty, InitialBranches)
    BY <1>1 DEF AfterInv
  <2> QED
    BY <1>2, <2>2, <2>3, <2>4 DEF TableInv
<1>5. /\ event = Empty /\ branch = Empty /\ before = Empty /\ after = Empty
      /\ bi = InitialBranches /\ fcCache = Empty
      /\ disk.branch = Empty /\ disk.before = Empty /\ disk.after = Empty
      /\ disk.bi = InitialBranches
  BY DEF Init
<1> QED
  BY <1>1, <1>3, <1>4, <1>5 DEF IInv, CacheInv

\* An event can be created, dropped or forgotten without the tables noticing, as
\* long as the events of the tables stay.
LEMMA CacheStays ==
    ASSUME Graph(event), CacheInv, NEW ew, NEW D \in SUBSET DOMAIN fcCache,
           \A p \in D : p[1] \in DOMAIN ew /\ p[2] \in DOMAIN ew,
           \A i \in DOMAIN event \cap DOMAIN ew : ew[i] = event[i],
           \A i \in DOMAIN event \cap DOMAIN ew : event[i].anc \subseteq DOMAIN ew
    PROVE  \A p \in D : /\ p \in (DOMAIN ew) \X (DOMAIN ew)
                        /\ fcCache[p] <=> CausesIn(ew, p[1], p[2])
<1> SUFFICES ASSUME NEW p \in D
             PROVE  /\ p \in (DOMAIN ew) \X (DOMAIN ew)
                    /\ fcCache[p] <=> CausesIn(ew, p[1], p[2])
  OBVIOUS
<1>1. p \in (DOMAIN event) \X (DOMAIN event) /\ (fcCache[p] <=> CausesIn(event, p[1], p[2]))
  BY DEF CacheInv
<1>2. p[1] \in DOMAIN event /\ p[2] \in DOMAIN event /\ p = <<p[1], p[2]>>
  BY SMTT(30), <1>1
<1>3. p[1] \in DOMAIN ew /\ p[2] \in DOMAIN ew
  OBVIOUS
<1>4. \A i \in event[p[1]].anc : ew[i] = event[i]
  BY <1>2, <1>3 DEF Graph, Ancestors
<1>5. ew[p[1]] = event[p[1]] /\ ew[p[2]] = event[p[2]]
  BY <1>2, <1>3
<1>6. CausesIn(ew, p[1], p[2]) <=> CausesIn(event, p[1], p[2])
  BY <1>4, <1>5, CausesStays
<1> QED
  BY <1>1, <1>2, <1>3, <1>6

\* An event that is made but not added leaves the index as it was.
LEMMA CreateEventInv ==
    ASSUME IInv, NEW v \in Validators, CreateEvent(v)
    PROVE  IInv'
<1>1. PICK id \in 1..MaxEvents :
        /\ \A i \in DOMAIN event : i < id
        /\ \E sp \in {0} \cup OwnEvents(v) :
           \E others \in SUBSET (DOMAIN event \ OwnEvents(v)) :
              /\ v \in Cheater \/ \A i \in OwnEvents(v) : sp # 0 /\ i \in event[sp].anc
              /\ event' = [i \in DOMAIN event \cup {id} |->
                              IF i = id THEN Event(id, v, sp, others) ELSE event[i]]
        /\ UNCHANGED <<branch, before, after, bi, disk, fcCache>>
  BY DEF CreateEvent
<1>2. PICK sp \in {0} \cup OwnEvents(v), others \in SUBSET (DOMAIN event \ OwnEvents(v)) :
        /\ v \in Cheater \/ \A i \in OwnEvents(v) : sp # 0 /\ i \in event[sp].anc
        /\ event' = [i \in DOMAIN event \cup {id} |->
                        IF i = id THEN Event(id, v, sp, others) ELSE event[i]]
  BY <1>1
<1> DEFINE P == others \cup ({sp} \ {0})
<1>3. Graph(event) /\ TableInv(event, branch, before, after, bi) /\ CacheInv
        /\ TableInv(event, disk.branch, disk.before, disk.after, disk.bi)
  BY DEF IInv
<1>4. id \in Nat \ {0} /\ id \notin DOMAIN event /\ 0 \notin DOMAIN event
  BY SMTT(30), <1>1, <1>3, VectorIndexAssumption DEF Graph
<1>5. /\ DOMAIN event' = DOMAIN event \cup {id}
      /\ \A i \in DOMAIN event : event'[i] = event[i]
      /\ event'[id] = Event(id, v, sp, others)
  BY <1>2, <1>4
<1>6. P \in SUBSET DOMAIN event /\ (sp = 0 \/ (sp \in P /\ event[sp].creator = v))
  BY <1>4 DEF OwnEvents
<1>7. /\ event'[id].creator = v
      /\ event'[id].seq = (IF sp = 0 THEN 1 ELSE event[sp].seq + 1)
      /\ event'[id].selfParent = sp
      /\ event'[id].parents = P
      /\ event'[id].anc = {id} \cup UNION {event[p].anc : p \in P}
      /\ event'[id].line = {id} \cup (IF sp = 0 THEN {} ELSE event[sp].line)
  BY SMTT(30), <1>5 DEF Event
<1>8. \/ v \in Cheater
      \/ \A i \in DOMAIN event : event[i].creator = v => sp # 0 /\ i \in event[sp].anc
  BY <1>2 DEF OwnEvents
<1> HIDE DEF P
<1>9. Graph(event')
  BY SMTT(30), <1>1, <1>3, <1>4, <1>5, <1>6, <1>7, <1>8, GraphGrows
<1>10. TableInv(event', branch, before, after, bi)
  <2>1. DOMAIN branch \subseteq DOMAIN event
    BY <1>3 DEF TableInv, BranchInv
  <2> QED
    BY <1>3, <1>5, <2>1, TableStays
<1>11. TableInv(event', disk.branch, disk.before, disk.after, disk.bi)
  <2>1. DOMAIN disk.branch \subseteq DOMAIN event
    BY <1>3 DEF TableInv, BranchInv
  <2> QED
    BY <1>3, <1>5, <2>1, TableStays
<1>12. CacheInv'
  <2>1. \A p \in DOMAIN fcCache : p[1] \in DOMAIN event' /\ p[2] \in DOMAIN event'
    BY <1>3, <1>5 DEF CacheInv
  <2>2. \A i \in DOMAIN event : event[i].anc \subseteq DOMAIN event'
    BY <1>3, <1>5 DEF Graph, Ancestors
  <2>3. \A p \in DOMAIN fcCache : /\ p \in (DOMAIN event') \X (DOMAIN event')
                                  /\ fcCache[p] <=> CausesIn(event', p[1], p[2])
    BY <1>3, <1>5, <2>1, <2>2, CacheStays
  <2> QED
    BY <1>1, <2>3 DEF CacheInv
<1> QED
  BY <1>1, <1>9, <1>10, <1>11, <1>12 DEF IInv

\* Add keeps the invariant.
LEMMA AddInv ==
    ASSUME IInv, NEW id \in DOMAIN event, Add(id)
    PROVE  IInv'
<1>1. MayAdd(id)
  BY DEF IInv, MayAdd, Add
<1>2. /\ bi' = NewInfo(id)
      /\ branch' = NewBranch(id)
      /\ before' = NewBefore(id)
      /\ UNCHANGED <<event, disk, fcCache>>
  BY DEF Add, NewInfo, NewBranch, NewBefore, Me
<1>3. after' = NewAfter(id)
  <2> DEFINE e == event[id]
             me == Me(id)
             first == SetAfter([c \in Branches(bi) |-> 0], me, e.seq)
             walked == Walked(e, me)
             set(i) == SetAfter(after[i], me, e.seq)
  <2>1. after' = [i \in Indexed \cup {id} |-> CASE i = id -> first
                                               [] i \in walked -> set(i)
                                               [] OTHER -> after[i]]
    BY DEF Add, Me
  <2>2. NewAfter(id) = [i \in Indexed \cup {id} |-> IF i = id THEN first
                                                    ELSE IF i \in walked THEN set(i)
                                                    ELSE after[i]]
    BY DEF NewAfter
  <2>3. id \notin walked
    BY <1>1, WalkedAll
  <2> HIDE DEF first, walked, set
  <2> QED
    BY <2>1, <2>2, <2>3
<1>4. TableInv(event, NewBranch(id), NewBefore(id), NewAfter(id), NewInfo(id))
  BY <1>1, AddTables
<1>5. CacheInv'
  BY <1>2 DEF IInv, CacheInv
<1> QED
  BY <1>2, <1>3, <1>4, <1>5 DEF IInv

\* Flush keeps the invariant: the tables on disk are then those in memory.
LEMMA FlushInv ==
    ASSUME IInv, Flush
    PROVE  IInv'
<1>1. /\ disk'.branch = branch /\ disk'.before = before
      /\ disk'.after = after /\ disk'.bi = bi
      /\ UNCHANGED <<event, branch, before, after, bi, fcCache>>
  BY DEF Flush
<1>2. CacheInv'
  BY <1>1 DEF IInv, CacheInv
<1> QED
  BY <1>1, <1>2 DEF IInv

\* DropNotFlushed after a refused event keeps the invariant.
LEMMA DropFailedInv ==
    ASSUME IInv, DropFailed
    PROVE  IInv'
<1>1. /\ branch' = disk.branch /\ before' = disk.before
      /\ after' = disk.after /\ bi' = disk.bi
      /\ UNCHANGED <<event, disk, fcCache>>
  BY DEF DropFailed, DropNotFlushed
<1>2. CacheInv'
  BY <1>1 DEF IInv, CacheInv
<1> QED
  BY <1>1, <1>2 DEF IInv

\* DropNotFlushed after Prepare has indexed a draft keeps the invariant, though
\* it leaves the cache as it is.
LEMMA DropDraftInv ==
    ASSUME IInv, DropDraft
    PROVE  IInv'
<1> DEFINE D == {q \in DOMAIN fcCache : /\ q[1] \in DOMAIN disk.branch
                                        /\ q[2] \in DOMAIN disk.branch}
<1>1. /\ branch' = disk.branch /\ before' = disk.before
      /\ after' = disk.after /\ bi' = disk.bi /\ disk' = disk
      /\ event' = [i \in DOMAIN disk.branch |-> event[i]]
      /\ fcCache' = [p \in D |-> fcCache[p]]
  BY DEF DropDraft, DropNotFlushed
<1>2. Graph(event) /\ CacheInv
        /\ TableInv(event, disk.branch, disk.before, disk.after, disk.bi)
  BY DEF IInv
<1>3. /\ DOMAIN event' = DOMAIN disk.branch
      /\ DOMAIN disk.branch \subseteq DOMAIN event
      /\ \A i \in DOMAIN event' : /\ event'[i] = event[i]
                                  /\ event[i].anc \subseteq DOMAIN event'
                                  /\ event[i].parents \subseteq DOMAIN event'
  BY <1>1, <1>2 DEF TableInv, BranchInv
<1>4. Graph(event')
  BY <1>2, <1>3, GraphShrinks
<1>5. TableInv(event', disk.branch, disk.before, disk.after, disk.bi)
  BY <1>2, <1>3, TableStays
<1>6. CacheInv'
  <2>1. D \in SUBSET DOMAIN fcCache /\ \A p \in D : p[1] \in DOMAIN event' /\ p[2] \in DOMAIN event'
    BY <1>3
  <2>2. \A p \in D : /\ p \in (DOMAIN event') \X (DOMAIN event')
                     /\ fcCache[p] <=> CausesIn(event', p[1], p[2])
    BY <1>2, <1>3, <2>1, CacheStays
  <2>3. DOMAIN fcCache' = D /\ \A p \in D : fcCache'[p] = fcCache[p]
    BY <1>1
  <2> QED
    BY <2>2, <2>3 DEF CacheInv
<1> QED
  BY <1>1, <1>4, <1>5, <1>6 DEF IInv

\* ForklessCause keeps the invariant: what it puts into the cache is right.
LEMMA ForklessCauseInv ==
    ASSUME IInv, NEW a \in DOMAIN event, NEW b \in DOMAIN event, ForklessCause(a, b)
    PROVE  IInv'
<1> DEFINE q == <<a, b>>
           now == ForklessCauseNow(a, b)
<1>1. /\ fcCache' = [p \in DOMAIN fcCache \cup {q} |-> IF p = q THEN now ELSE fcCache[p]]
      /\ a \in Indexed /\ b \in Indexed
      /\ UNCHANGED <<event, branch, before, after, bi, disk>>
  BY DEF ForklessCause
<1>2. now <=> CausesIn(event, a, b)
  BY <1>1, NowIsCauses DEF IInv
<1> HIDE DEF now
<1>3. /\ DOMAIN fcCache' = DOMAIN fcCache \cup {q}
      /\ fcCache'[q] = now
      /\ \A p \in DOMAIN fcCache : p # q => fcCache'[p] = fcCache[p]
  BY <1>1
<1>4. CacheInv
  BY DEF IInv
<1>5. ASSUME NEW p \in DOMAIN fcCache'
      PROVE  /\ p \in (DOMAIN event) \X (DOMAIN event)
             /\ fcCache'[p] <=> CausesIn(event, p[1], p[2])
  <2>1. CASE p = q
    <3>1. p[1] = a /\ p[2] = b
      BY <2>1
    <3> QED
      BY <1>2, <1>3, <2>1, <3>1
  <2>2. CASE p # q
    BY <1>3, <1>4, <2>2 DEF CacheInv
  <2> QED
    BY <2>1, <2>2
<1>6. CacheInv'
  BY <1>1, <1>5 DEF CacheInv
<1> QED
  BY <1>1, <1>6 DEF IInv

\* Every step keeps the invariant.
LEMMA StepInv == IInv /\ [Next]_vars => IInv'
<1> SUFFICES ASSUME IInv, [Next]_vars
             PROVE  IInv'
  OBVIOUS
<1>1. ASSUME NEW v \in Validators, CreateEvent(v)
      PROVE  IInv'
  BY <1>1, CreateEventInv
<1>2. ASSUME NEW id \in DOMAIN event, Add(id)
      PROVE  IInv'
  BY <1>2, AddInv
<1>3. CASE Flush
  BY <1>3, FlushInv
<1>4. CASE DropFailed
  BY <1>4, DropFailedInv
<1>5. CASE DropDraft
  BY <1>5, DropDraftInv
<1>6. ASSUME NEW a \in DOMAIN event, NEW b \in DOMAIN event, ForklessCause(a, b)
      PROVE  IInv'
  BY <1>6, ForklessCauseInv
<1>7. CASE UNCHANGED vars
  BY <1>7 DEF vars, IInv, CacheInv
<1> QED
  BY <1>1, <1>2, <1>3, <1>4, <1>5, <1>6, <1>7 DEF Next

\* The graph, the tables in memory and on disk, and the cache always agree.
THEOREM IInvHolds == Spec => []IInv
<1>1. Init => IInv
  BY InitInv
<1>2. IInv /\ [Next]_vars => IInv'
  BY StepInv
<1> QED
  BY <1>1, <1>2, PTL DEF Spec

-----------------------------------------------------------------------------
\* The relations of VectorIndex are those of VectorGraph over the present graph.
LEMMA GraphNames ==
    /\ \A a, v : SeesFork(a, v) <=> SeesForkIn(event, a, v)
    /\ \A a, b : Causes(a, b) <=> CausesIn(event, a, b)
<1>1. ASSUME NEW a, NEW v
      PROVE  SeesFork(a, v) <=> SeesForkIn(event, a, v)
  BY DEF SeesFork, SeesForkIn, Fork, ForkIn
<1>2. ASSUME NEW a, NEW b
      PROVE  Causes(a, b) <=> CausesIn(event, a, b)
  <2>1. {v \in Validators :
          /\ ~SeesFork(a, v)
          /\ \E x \in event[a].anc : event[x].creator = v /\ Observes(x, b)}
        = {v \in Validators :
          /\ ~SeesForkIn(event, a, v)
          /\ \E x \in event[a].anc : event[x].creator = v /\ b \in event[x].anc}
    BY <1>1 DEF Observes
  <2> QED
    BY <1>1, <2>1 DEF Causes, CausesIn
<1> QED
  BY <1>1, <1>2

\* The invariant says that the vectors, the cache and NoCheaters tell the
\* graph's relations.
LEMMA IndexFromInv == IInv => IndexIsGraph
<1> SUFFICES ASSUME IInv
             PROVE  IndexIsGraph
  OBVIOUS
<1>1. /\ Graph(event) /\ TableInv(event, branch, before, after, bi) /\ CacheInv
  BY DEF IInv
<1>2. ASSUME NEW a \in Indexed, NEW b \in Indexed
      PROVE  ForklessCauseNow(a, b) <=> Causes(a, b)
  BY <1>1, NowIsCauses, GraphNames
<1>3. ASSUME NEW p \in DOMAIN fcCache
      PROVE  fcCache[p] <=> Causes(p[1], p[2])
  BY <1>1, GraphNames DEF CacheInv
<1>4. ASSUME NEW a \in Indexed
      PROVE  NoCheaters(a, Indexed) = {o \in Indexed : ~SeesFork(a, event[o].creator)}
  <2>1. a # 0
    BY <1>1 DEF Graph, TableInv, BranchInv, Indexed
  <2>2. ASSUME NEW o \in Indexed
        PROVE  GetBefore(before[a], GetIdx(event[o].creator)) # ForkDetected
                 <=> ~SeesForkIn(event, a, event[o].creator)
    <3> DEFINE v == event[o].creator
               c == GetIdx(v)
    <3>1. v \in Validators
      BY <1>1 DEF Graph, Header, TableInv, BranchInv, Indexed
    <3>2. c \in 1..NumValidators /\ bi.creator[c] = v
      BY <1>1, <3>1, IdxType DEF TableInv, InfoInv
    <3>3. /\ c \in DOMAIN before[a] /\ c \in Branches(bi)
          /\ GetBefore(before[a], c) = before[a][c]
      BY <1>1, <3>2 DEF TableInv, BeforeInv, Indexed, GetBefore
    <3>4. CASE SeesForkIn(event, a, v)
      BY <1>1, <3>2, <3>3, <3>4 DEF TableInv, BeforeInv, Indexed
    <3>5. CASE ~SeesForkIn(event, a, v)
      <4>1. EntryOf(event, On(event, branch, a, c), GetBefore(before[a], c))
        BY <1>1, <3>2, <3>3, <3>5 DEF TableInv, BeforeInv, Indexed
      <4>2. \A i \in On(event, branch, a, c) : event[i].seq \in Nat \ {0}
        BY <1>1 DEF On, Graph, Header, TableInv, BranchInv, Indexed
      <4>3. ForkDetected.seq = 0 /\ ForkDetected # Zero
        BY SMTT(30) DEF ForkDetected, Zero
      <4> QED
        BY <3>5, <4>1, <4>2, <4>3 DEF EntryOf
    <3> QED
      BY <3>4, <3>5
  <2> QED
    BY <2>1, <2>2, GraphNames DEF NoCheaters
<1> QED
  BY <1>2, <1>3, <1>4 DEF IndexIsGraph

(***************************************************************************)
(* For every group of validators, every graph and every order of arrival,  *)
(* flushes and drops, the vectors and the cache give exactly the graph's   *)
(* relation, and NoCheaters drops exactly the creators seen forking.       *)
(***************************************************************************)
THEOREM VectorsAreGraph == Spec => []IndexIsGraph
BY IInvHolds, IndexFromInv, PTL

-----------------------------------------------------------------------------
(***************************************************************************)
(* Two quorums share an honest validator, one of whose two events observes *)
(* both forks: who counts that event sees the fork.                        *)
(***************************************************************************)
LEMMA QuorumsShareHonest ==
    ASSUME NEW A \in SUBSET Validators, NEW B \in SUBSET Validators,
           HasQuorum(A), HasQuorum(B)
    PROVE  \E v \in A \cap B : v \notin Cheater
<1>1. SUFFICES ASSUME A \cap B \subseteq Cheater
               PROVE  FALSE
  OBVIOUS
<1>2. Sum(A) + Sum(B) <= Sum(A \cap B) + TotalStake
  BY SumOverlap
<1>3. Sum(A \cap B) <= Sum(Cheater)
  BY <1>1, SumMonotone, VectorIndexAssumption
<1>4. /\ Sum(A) \in Nat /\ Sum(B) \in Nat /\ Sum(Cheater) \in Nat
      /\ Sum(A \cap B) \in Nat
  BY SumType, VectorIndexAssumption
<1>5. Sum(A) >= Quorum /\ Sum(B) >= Quorum
  BY DEF HasQuorum
<1> QED
  BY SMTT(30), <1>2, <1>3, <1>4, <1>5, QuorumBound, VectorIndexAssumption

\* The invariant excludes two forks that both forkless-cause something: the two
\* quorums would share an honest validator, whose events observe both forks.
LEMMA ForksFromInv == IInv => ForksExclude
<1> SUFFICES ASSUME IInv, NEW b \in Indexed, NEW c \in Indexed, Fork(b, c),
                    NEW x \in Indexed, NEW y \in Indexed,
                    ForklessCauseNow(x, b), ForklessCauseNow(y, c)
             PROVE  FALSE
  BY DEF ForksExclude
<1>1. Graph(event) /\ TableInv(event, branch, before, after, bi)
  BY DEF IInv
<1>2. CausesIn(event, x, b) /\ CausesIn(event, y, c)
  BY <1>1, NowIsCauses
<1> DEFINE A(a, t) == {v \in Validators :
                         /\ ~SeesForkIn(event, a, v)
                         /\ \E w \in event[a].anc : event[w].creator = v /\ t \in event[w].anc}
<1>3. HasQuorum(A(x, b)) /\ HasQuorum(A(y, c))
  BY <1>2 DEF CausesIn
<1>4. PICK v \in A(x, b) \cap A(y, c) : v \notin Cheater
  BY <1>3, QuorumsShareHonest
<1>5. PICK xv \in event[x].anc : event[xv].creator = v /\ b \in event[xv].anc
  BY <1>4
<1>6. PICK yv \in event[y].anc : event[yv].creator = v /\ c \in event[yv].anc
  BY <1>4
<1>7. /\ x \in DOMAIN event /\ y \in DOMAIN event
      /\ xv \in DOMAIN event /\ yv \in DOMAIN event
      /\ \A i \in DOMAIN event : Ancestors(event, i) /\ SelfParents(event, i)
  BY <1>1 DEF Graph, TableInv, BranchInv, Indexed, Ancestors
<1>8. xv \in event[yv].line \/ yv \in event[xv].line
  BY <1>1, <1>4, <1>5, <1>6, <1>7 DEF Graph, Honest
<1>9. CASE xv \in event[yv].line
  <2>1. b \in event[y].anc /\ c \in event[y].anc
    <3>1. xv \in event[yv].anc
      BY <1>7, <1>9 DEF SelfParents
    <3>2. xv \in event[y].anc
      BY <1>6, <1>7, <3>1 DEF Ancestors
    <3> QED
      BY <1>5, <1>6, <1>7, <3>2 DEF Ancestors
  <2>2. SeesForkIn(event, y, event[c].creator)
    BY <2>1 DEF SeesForkIn, Fork, ForkIn
  <2> QED
    BY <1>2, <2>2 DEF CausesIn
<1>10. CASE yv \in event[xv].line
  <2>1. b \in event[x].anc /\ c \in event[x].anc
    <3>1. yv \in event[xv].anc
      BY <1>7, <1>10 DEF SelfParents
    <3>2. yv \in event[x].anc
      BY <1>5, <1>7, <3>1 DEF Ancestors
    <3> QED
      BY <1>5, <1>6, <1>7, <3>2 DEF Ancestors
  <2>2. SeesForkIn(event, x, event[b].creator)
    BY <2>1 DEF SeesForkIn, Fork, ForkIn
  <2> QED
    BY <1>2, <2>2 DEF CausesIn
<1> QED
  BY <1>8, <1>9, <1>10

(***************************************************************************)
(* While less than a third of the stake cheats, two forks never both       *)
(* forkless-cause an event, the same or another.                           *)
(***************************************************************************)
THEOREM ForksNeverBoth == Spec => []ForksExclude
BY IInvHolds, ForksFromInv, PTL
=============================================================================
