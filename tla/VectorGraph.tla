---------------------------- MODULE VectorGraph ----------------------------
(***************************************************************************)
(* The invariant of the vector index, and what Add does to the branches    *)
(* and to the merged HighestBefore vector.                                 *)
(*                                                                         *)
(* The invariant has three parts: what the events that exist look like as  *)
(* a graph, what the tables of the index say about the graph, for the      *)
(* tables in memory as for those on disk, and that the cache agrees with   *)
(* the graph.  Its operators take the graph and the tables as parameters,  *)
(* so that the same facts serve for the tables on disk and for the next    *)
(* state.                                                                  *)
(***************************************************************************)
EXTENDS VectorIndex, FiniteSetTheorems, TLAPS

\* Leaves are first-order; those that need arithmetic name SMT.
USE ZenonT(30)

-----------------------------------------------------------------------------
(***************************************************************************)
(* The order of the validators.                                            *)
(***************************************************************************)

\* The order in which chooseAtropos asks the validators is total.
LEMMA LessTotal ==
    ASSUME NEW v \in Validators, NEW w \in Validators
    PROVE  Less(v, w) \/ Less(w, v) \/ v = w
<1>1. v \in Nat /\ w \in Nat /\ Stake[v] \in Nat /\ Stake[w] \in Nat
  BY PosAssumption
<1> QED
  BY SMTT(30), <1>1 DEF Less

-----------------------------------------------------------------------------
\* The header of an event, as parentscheck lets it through.
Header(ev, i) ==
    /\ ev[i].creator \in Validators
    /\ ev[i].seq \in Nat \ {0}
    /\ ev[i].parents \subseteq DOMAIN ev
    /\ \A p \in ev[i].parents : p < i
    /\ ev[i].selfParent = 0 => ev[i].seq = 1 /\ ev[i].line = {i}
    /\ ev[i].selfParent # 0 =>
          /\ ev[i].selfParent \in ev[i].parents
          /\ ev[ev[i].selfParent].creator = ev[i].creator
          /\ ev[i].seq = ev[ev[i].selfParent].seq + 1
          /\ ev[i].line = {i} \cup ev[ev[i].selfParent].line
    /\ ev[i].anc = {i} \cup UNION {ev[p].anc : p \in ev[i].parents}

\* What an event observes is closed, and reached over parents.
Ancestors(ev, i) ==
    /\ i \in ev[i].anc
    /\ ev[i].anc \subseteq DOMAIN ev
    /\ \A j \in ev[i].anc : /\ j <= i
                            /\ ev[j].anc \subseteq ev[i].anc
                            /\ j # i => \E c \in ev[i].anc : j \in ev[c].parents

\* The self-parents of an event: one for every sequence number up to its own.
SelfParents(ev, i) ==
    /\ i \in ev[i].line
    /\ ev[i].line \subseteq ev[i].anc
    /\ \A j \in ev[i].line : /\ ev[j].creator = ev[i].creator
                             /\ ev[j].line \subseteq ev[i].line
                             /\ ev[j].seq <= ev[i].seq
    /\ \A s \in 1..ev[i].seq : \E j \in ev[i].line : ev[j].seq = s
    /\ \A j, k \in ev[i].line : ev[j].seq <= ev[k].seq => j \in ev[k].line
    /\ \A j, k \in ev[i].line : ev[j].seq = ev[k].seq => j = k

\* Honest validators do not fork.
Honest(ev) ==
    \A i, j \in DOMAIN ev :
        (ev[i].creator = ev[j].creator /\ ev[i].creator \notin Cheater) =>
            i \in ev[j].line \/ j \in ev[i].line

Graph(ev) ==
    /\ DOMAIN ev \subseteq Nat \ {0}
    /\ \A i \in DOMAIN ev : Header(ev, i) /\ Ancestors(ev, i) /\ SelfParents(ev, i)
    /\ Honest(ev)

-----------------------------------------------------------------------------
NumValidators == Cardinality(Validators)

NumBranches(info) == Cardinality(Branches(info))

\* The events that a observes on branch c.
On(ev, br, a, c) == {i \in ev[a].anc : br[i] = c}

ForkIn(ev, x, y) ==
    /\ ev[x].creator = ev[y].creator
    /\ x \notin ev[y].line /\ y \notin ev[x].line

SeesForkIn(ev, a, v) ==
    \E x, y \in ev[a].anc : ev[x].creator = v /\ ForkIn(ev, x, y)

\* branchesInfo: branches are numbered from 1, a validator's first by GetIdx.
InfoInv(info) ==
    /\ NumBranches(info) \in Nat
    /\ Branches(info) = 1..NumBranches(info)
    /\ NumBranches(info) >= NumValidators
    /\ \A c \in Branches(info) : /\ info.lastSeq[c] \in Nat
                                 /\ info.creator[c] \in Validators
    /\ \A v \in Validators : info.creator[GetIdx(v)] = v
    /\ \A c \in 1..NumValidators : c = GetIdx(info.creator[c])

\* A branch is a part of a line of self-parents without gaps, up to lastSeq.
BranchInv(ev, br, info) ==
    /\ DOMAIN br \subseteq DOMAIN ev
    /\ \A i \in DOMAIN br : /\ ev[i].parents \subseteq DOMAIN br
                            /\ ev[i].anc \subseteq DOMAIN br
                            /\ br[i] \in Branches(info)
                            /\ info.creator[br[i]] = ev[i].creator
                            /\ ev[i].seq <= info.lastSeq[br[i]]
    /\ \A c \in Branches(info) : info.lastSeq[c] # 0 =>
          \E i \in DOMAIN br : br[i] = c /\ ev[i].seq = info.lastSeq[c]
    /\ \A i, j \in DOMAIN br :
          (br[i] = br[j] /\ ev[i].seq <= ev[j].seq) => i \in ev[j].line
    /\ \A i, j \in DOMAIN br : \A k \in ev[j].line :
          (br[i] = br[j] /\ i \in ev[k].line) => br[k] = br[i]

\* A HighestBefore entry without a fork: the highest and the lowest of what is
\* observed on the branch.
EntryOf(ev, S, x) ==
    IF S = {} THEN x = Zero
    ELSE /\ \E i \in S : x.seq = ev[i].seq
         /\ \E i \in S : x.minSeq = ev[i].seq
         /\ \A i \in S : x.minSeq <= ev[i].seq /\ ev[i].seq <= x.seq

BeforeInv(ev, br, be, info) ==
    /\ DOMAIN be = DOMAIN br
    /\ \A a \in DOMAIN br :
          /\ 1..NumValidators \subseteq DOMAIN be[a]
          /\ DOMAIN be[a] \subseteq Branches(info)
          /\ \A c \in Branches(info) :
                /\ On(ev, br, a, c) # {} => c \in DOMAIN be[a]
                /\ c \in DOMAIN be[a] /\ SeesForkIn(ev, a, info.creator[c])
                      => be[a][c] = ForkDetected
                /\ ~SeesForkIn(ev, a, info.creator[c])
                      => EntryOf(ev, On(ev, br, a, c), GetBefore(be[a], c))

\* A LowestAfter entry: the lowest event of the branch that observes b.
AfterInv(ev, br, af, info) ==
    /\ DOMAIN af = DOMAIN br
    /\ \A b \in DOMAIN br : \A c \in Branches(info) :
          /\ GetAfter(af[b], c) \in Nat
          /\ GetAfter(af[b], c) # 0 =>
                \E i \in DOMAIN br : /\ br[i] = c /\ b \in ev[i].anc
                                     /\ ev[i].seq = GetAfter(af[b], c)
          /\ \A i \in DOMAIN br : (br[i] = c /\ b \in ev[i].anc) =>
                GetAfter(af[b], c) # 0 /\ GetAfter(af[b], c) <= ev[i].seq
    /\ \A b \in DOMAIN br : DOMAIN af[b] \subseteq Branches(info)

TableInv(ev, br, be, af, info) ==
    /\ InfoInv(info)
    /\ BranchInv(ev, br, info)
    /\ BeforeInv(ev, br, be, info)
    /\ AfterInv(ev, br, af, info)

CausesIn(ev, a, b) ==
    /\ ~SeesForkIn(ev, a, ev[b].creator)
    /\ HasQuorum({v \in Validators :
          /\ ~SeesForkIn(ev, a, v)
          /\ \E x \in ev[a].anc : ev[x].creator = v /\ b \in ev[x].anc})

CacheInv ==
    \A p \in DOMAIN fcCache :
        /\ p \in (DOMAIN event) \X (DOMAIN event)
        /\ fcCache[p] <=> CausesIn(event, p[1], p[2])

(***************************************************************************)
(* The inductive invariant.                                                *)
(***************************************************************************)
IInv ==
    /\ Graph(event)
    /\ TableInv(event, branch, before, after, bi)
    /\ TableInv(event, disk.branch, disk.before, disk.after, disk.bi)
    /\ CacheInv

-----------------------------------------------------------------------------
\* A nonempty set of numbers has a smallest one ...
LEMMA Smallest ==
    ASSUME NEW S \in SUBSET Nat, S # {}
    PROVE  \E m \in S : \A n \in S : m <= n
<1> DEFINE R == OpToRel(<, Nat)
<1>1. IsWellFoundedOn(R, Nat)
  BY NatLessThanWellFounded
<1>2. \A m, n \in Nat : m < n => <<m, n>> \in R
  BY DEF OpToRel
<1> HIDE DEF R
<1>3. PICK m \in S : \A n \in S : ~(<<n, m>> \in R)
  BY <1>1, WFMin
<1>4. ASSUME NEW n \in S
      PROVE  m <= n
  <2>1. m \in Nat /\ n \in Nat
    OBVIOUS
  <2>2. ~(n < m)
    BY <1>2, <1>3, <2>1
  <2> QED
    BY SMTT(30), <2>1, <2>2
<1> QED
  BY <1>4

\* ... and a bounded one also a largest one.
LEMMA Largest ==
    ASSUME NEW S \in SUBSET Nat, S # {}, NEW b \in Nat, \A n \in S : n <= b
    PROVE  \E m \in S : \A n \in S : n <= m
<1> DEFINE T == {b - n : n \in S}
<1>1. T \in SUBSET Nat
  <2>1. ASSUME NEW n \in S
        PROVE  b - n \in Nat
    <3>1. n \in Nat /\ n <= b
      OBVIOUS
    <3> QED
      BY SMTT(30), <3>1
  <2> QED
    BY <2>1
<1>0. T # {}
  OBVIOUS
<1>2. PICK k \in T : \A t \in T : k <= t
  BY <1>0, <1>1, Smallest
<1>3. PICK m \in S : k = b - m
  OBVIOUS
<1>4. ASSUME NEW n \in S
      PROVE  n <= m
  <2>1. k <= b - n
    BY <1>2
  <2> QED
    BY SMTT(30), <1>3, <2>1
<1> QED
  BY <1>4

-----------------------------------------------------------------------------
(***************************************************************************)
(* GetIdx numbers the validators in sort order, from 1 without gaps, so    *)
(* that sortedIDs gives every number its validator.                        *)
(***************************************************************************)
LEMMA IdxGrows ==
    ASSUME NEW v \in Validators, NEW w \in Validators, Less(v, w)
    PROVE  GetIdx(v) < GetIdx(w)
<1> DEFINE V == {u \in Validators : Less(u, v)}
           W == {u \in Validators : Less(u, w)}
<1>1. \A u \in Validators : u \in Nat /\ Stake[u] \in Nat
  BY PosAssumption
<1>2. V \subseteq W
  BY SMTT(30), <1>1 DEF Less
<1>3. v \in W /\ v \notin V
  BY SMTT(30), <1>1 DEF Less
<1>4. IsFiniteSet(W)
  BY FS_Subset, PosAssumption
<1>5. IsFiniteSet(V)
  BY FS_Subset, PosAssumption
<1>6. Cardinality(V) \in Nat /\ Cardinality(W) \in Nat
  BY <1>4, <1>5, FS_CardinalityType
<1>7. Cardinality(V) <= Cardinality(W) /\ (Cardinality(W) = Cardinality(V) => W = V)
  BY <1>2, <1>4, FS_Subset
<1>8. Cardinality(V) < Cardinality(W)
  BY SMTT(30), <1>3, <1>6, <1>7
<1> QED
  BY SMTT(30), <1>6, <1>8 DEF GetIdx

\* Every validator has a number between 1 and their count.
LEMMA IdxType ==
    ASSUME NEW v \in Validators
    PROVE  GetIdx(v) \in 1..NumValidators
<1> DEFINE V == {u \in Validators : Less(u, v)}
<1>1. v \in Nat /\ Stake[v] \in Nat
  BY PosAssumption
<1>2. v \notin V
  BY SMTT(30), <1>1 DEF Less
<1>3. IsFiniteSet(V) /\ Cardinality(V) <= NumValidators
         /\ (NumValidators = Cardinality(V) => Validators = V)
  BY FS_Subset, PosAssumption DEF NumValidators
<1>4. Cardinality(V) \in Nat /\ NumValidators \in Nat
  BY <1>3, FS_CardinalityType, PosAssumption DEF NumValidators
<1> QED
  BY SMTT(30), <1>2, <1>3, <1>4 DEF GetIdx

\* Different validators have different numbers.
LEMMA IdxOnce ==
    ASSUME NEW v \in Validators, NEW w \in Validators, GetIdx(v) = GetIdx(w)
    PROVE  v = w
<1>1. GetIdx(v) \in Nat /\ GetIdx(w) \in Nat
  BY SMTT(30), IdxType
<1> QED
  BY SMTT(30), <1>1, LessTotal, IdxGrows

\* Every number is that of a validator.
LEMMA IdxOnto ==
    ASSUME NEW c \in 1..NumValidators
    PROVE  \E v \in Validators : GetIdx(v) = c
<1> DEFINE f == [v \in Validators |-> GetIdx(v)]
<1>1. NumValidators \in Nat
  BY FS_CardinalityType, PosAssumption DEF NumValidators
<1>2. IsFiniteSet(1..NumValidators) /\ Cardinality(1..NumValidators) = NumValidators
  BY SMTT(30), <1>1, FS_Interval
<1>3. f \in Injection(Validators, 1..NumValidators)
  BY IdxType, IdxOnce DEF Injection, IsInjective
<1>4. f \in Surjection(Validators, 1..NumValidators)
  BY <1>2, <1>3, FS_Injection DEF NumValidators
<1> QED
  BY <1>4 DEF Surjection

-----------------------------------------------------------------------------
(***************************************************************************)
(* CreateEvent: a valid event added to a graph gives a graph.              *)
(***************************************************************************)
LEMMA GraphGrows ==
    ASSUME NEW ev, Graph(ev), NEW id \in Nat \ {0}, \A i \in DOMAIN ev : i < id,
           NEW v \in Validators, NEW sp, NEW P \in SUBSET DOMAIN ev,
           sp = 0 \/ (sp \in P /\ ev[sp].creator = v),
           \/ v \in Cheater
           \/ \A i \in DOMAIN ev : ev[i].creator = v => sp # 0 /\ i \in ev[sp].anc,
           NEW ew, DOMAIN ew = DOMAIN ev \cup {id},
           \A i \in DOMAIN ev : ew[i] = ev[i],
           ew[id].creator = v,
           ew[id].seq = (IF sp = 0 THEN 1 ELSE ev[sp].seq + 1),
           ew[id].selfParent = sp,
           ew[id].parents = P,
           ew[id].anc = {id} \cup UNION {ev[p].anc : p \in P},
           ew[id].line = {id} \cup (IF sp = 0 THEN {} ELSE ev[sp].line)
    PROVE  Graph(ew)
<1>1. id \notin DOMAIN ev /\ DOMAIN ev \subseteq Nat \ {0}
  BY SMTT(30) DEF Graph
<1>2. \A i \in DOMAIN ev : Header(ev, i) /\ Ancestors(ev, i) /\ SelfParents(ev, i)
  BY DEF Graph
<1>3. ASSUME NEW i \in DOMAIN ev
      PROVE  Header(ew, i) /\ Ancestors(ew, i) /\ SelfParents(ew, i)
  <2>0. Header(ev, i) /\ Ancestors(ev, i) /\ SelfParents(ev, i)
    BY <1>2
  <2>1. ew[i] = ev[i] /\ ev[i].anc \subseteq DOMAIN ev /\ ev[i].line \subseteq DOMAIN ev
    BY <2>0 DEF Ancestors, SelfParents
  <2>2. Header(ew, i)
    <3>1. \A p \in ev[i].parents : p \in DOMAIN ev /\ ew[p] = ev[p]
      BY <2>0 DEF Header
    <3>2. UNION {ew[p].anc : p \in ev[i].parents} = UNION {ev[p].anc : p \in ev[i].parents}
      BY SMTT(30), <3>1
    <3> QED
      BY SMTT(30), <2>0, <2>1, <3>1, <3>2 DEF Header
  <2>3. Ancestors(ew, i)
    BY <2>0, <2>1 DEF Ancestors
  <2>4. SelfParents(ew, i)
    BY SMTT(30), <2>0, <2>1 DEF SelfParents
  <2> QED
    BY <2>2, <2>3, <2>4
<1>4. Header(ew, id)
  <2>1. sp # 0 => ev[sp].seq \in Nat \ {0} /\ sp \in DOMAIN ev
    BY <1>2 DEF Header
  <2>2. UNION {ew[p].anc : p \in P} = UNION {ev[p].anc : p \in P}
    BY SMTT(30)
  <2>3. sp \in P => ew[sp] = ev[sp]
    OBVIOUS
  <2> QED
    BY SMTT(30), <2>1, <2>2, <2>3 DEF Header
<1>5. Ancestors(ew, id)
  <2>1. ew[id].anc \subseteq DOMAIN ew
    BY SMTT(30), <1>2 DEF Ancestors
  <2>2. ASSUME NEW j \in ew[id].anc, j # id
        PROVE  /\ j <= id
               /\ ew[j].anc \subseteq ew[id].anc
               /\ \E c \in ew[id].anc : j \in ew[c].parents
    <3>1. PICK p \in P : j \in ev[p].anc
      BY SMTT(30), <2>2
    <3>2. j \in DOMAIN ev /\ Ancestors(ev, p) /\ p \in DOMAIN ev
      BY <1>2, <3>1 DEF Ancestors
    <3>3. ew[j].anc \subseteq ew[id].anc
      BY SMTT(30), <3>1, <3>2 DEF Ancestors
    <3>4. j \in Nat /\ j < id
      BY <1>1, <3>2
    <3>5. CASE j = p
      BY SMTT(30), <3>3, <3>4, <3>5
    <3>6. CASE j # p
      <4>1. PICK c \in ev[p].anc : j \in ev[c].parents
        BY <3>1, <3>2, <3>6 DEF Ancestors
      <4>2. c \in ew[id].anc /\ ew[c] = ev[c]
        BY SMTT(30), <3>2, <4>1 DEF Ancestors
      <4> QED
        BY SMTT(30), <3>3, <3>4, <4>1, <4>2
    <3> QED
      BY <3>5, <3>6
  <2> QED
    BY SMTT(30), <2>1, <2>2 DEF Ancestors
<1>6. SelfParents(ew, id)
  <2>1. CASE sp = 0
    BY SMTT(30), <2>1 DEF SelfParents
  <2>2. CASE sp # 0
    <3>1. sp \in DOMAIN ev /\ Header(ev, sp) /\ SelfParents(ev, sp) /\ Ancestors(ev, sp)
      BY <1>2, <2>2
    <3>2. ew[id].line = {id} \cup ev[sp].line /\ ew[id].seq = ev[sp].seq + 1
      BY <2>2
    <3>3. \A j \in ev[sp].line : /\ j \in DOMAIN ev
                                 /\ ew[j] = ev[j]
                                 /\ j # id
                                 /\ ev[j].creator = v
                                 /\ ev[j].seq \in Nat
                                 /\ ev[j].seq <= ev[sp].seq
      BY SMTT(30), <1>1, <1>2, <2>2, <3>1 DEF SelfParents, Ancestors, Header
    <3>4. ev[sp].seq \in Nat \ {0}
      BY <3>1 DEF Header
    <3>5. ev[sp].line \subseteq ew[id].anc
      BY SMTT(30), <2>2, <3>1 DEF SelfParents
    <3>6. \A s \in 1..ew[id].seq : \E j \in ew[id].line : ew[j].seq = s
      <4> SUFFICES ASSUME NEW s \in 1..ew[id].seq
                   PROVE  \E j \in ew[id].line : ew[j].seq = s
        OBVIOUS
      <4>1. s = ew[id].seq \/ s \in 1..ev[sp].seq
        BY SMTT(30), <3>2, <3>4
      <4>2. CASE s = ew[id].seq
        BY <3>2, <4>2
      <4>3. CASE s \in 1..ev[sp].seq
        <5>1. PICK j \in ev[sp].line : ev[j].seq = s
          BY <3>1, <4>3 DEF SelfParents
        <5> QED
          BY <3>2, <3>3, <5>1
      <4> QED
        BY <4>1, <4>2, <4>3
    <3>7. \A j, k \in ew[id].line : ew[j].seq <= ew[k].seq => j \in ew[k].line
      BY SMTT(30), <3>1, <3>2, <3>3, <3>4 DEF SelfParents
    <3>8. \A j, k \in ew[id].line : ew[j].seq = ew[k].seq => j = k
      BY SMTT(30), <3>1, <3>2, <3>3, <3>4 DEF SelfParents
    <3>9. \A j \in ew[id].line : /\ ew[j].creator = ew[id].creator
                                 /\ ew[j].line \subseteq ew[id].line
                                 /\ ew[j].seq <= ew[id].seq
      BY SMTT(30), <3>1, <3>2, <3>3, <3>4 DEF SelfParents
    <3> QED
      BY <3>2, <3>5, <3>6, <3>7, <3>8, <3>9 DEF SelfParents
  <2> QED
    BY <2>1, <2>2
<1>7. Honest(ew)
  <2>1. SUFFICES ASSUME NEW i \in DOMAIN ew, NEW j \in DOMAIN ew,
                        ew[i].creator = ew[j].creator, ew[i].creator \notin Cheater
                 PROVE  i \in ew[j].line \/ j \in ew[i].line
    BY DEF Honest
  <2>2. ASSUME v \notin Cheater, NEW k \in DOMAIN ev, ev[k].creator = v
        PROVE  k \in ew[id].line
    <3>1. sp # 0 /\ k \in ev[sp].anc /\ sp \in DOMAIN ev
      BY <2>2
    <3>2. k \in ev[sp].line \/ sp \in ev[k].line
      BY SMTT(30), <2>2, <3>1 DEF Graph, Honest
    <3>3. ASSUME sp \in ev[k].line
          PROVE  k = sp
      <4>1. sp \in ev[k].anc
        BY <1>2, <3>3 DEF SelfParents
      <4>2. sp <= k /\ k <= sp
        BY <1>2, <3>1, <4>1 DEF Ancestors
      <4>3. sp \in Nat /\ k \in Nat
        BY <1>1, <3>1
      <4> QED
        BY SMTT(30), <4>2, <4>3
    <3>4. sp \in ev[sp].line
      BY <1>2, <3>1 DEF SelfParents
    <3> QED
      BY SMTT(30), <3>1, <3>2, <3>3, <3>4
  <2>3. CASE i = id /\ j = id
    BY <2>3
  <2>4. CASE i = id /\ j # id
    BY <2>1, <2>2, <2>4
  <2>5. CASE i # id /\ j = id
    BY <2>1, <2>2, <2>5
  <2>6. CASE i # id /\ j # id
    BY SMTT(30), <2>1, <2>6 DEF Graph, Honest
  <2> QED
    BY <2>3, <2>4, <2>5, <2>6
<1> QED
  BY <1>1, <1>3, <1>4, <1>5, <1>6, <1>7 DEF Graph

(***************************************************************************)
(* DropDraft: what is left of a graph, when with an event all that it      *)
(* observes is left, is a graph.                                           *)
(***************************************************************************)
LEMMA GraphShrinks ==
    ASSUME NEW ev, Graph(ev), NEW ew, DOMAIN ew \subseteq DOMAIN ev,
           \A i \in DOMAIN ew : /\ ew[i] = ev[i]
                                /\ ev[i].anc \subseteq DOMAIN ew
                                /\ ev[i].parents \subseteq DOMAIN ew
    PROVE  Graph(ew)
<1>1. ASSUME NEW i \in DOMAIN ew
      PROVE  Header(ew, i) /\ Ancestors(ew, i) /\ SelfParents(ew, i)
  <2>0. Header(ev, i) /\ Ancestors(ev, i) /\ SelfParents(ev, i)
    BY DEF Graph
  <2>1. ev[i].line \subseteq DOMAIN ew
    BY <2>0 DEF SelfParents
  <2>2. Header(ew, i)
    <3>1. UNION {ew[p].anc : p \in ev[i].parents} = UNION {ev[p].anc : p \in ev[i].parents}
      OBVIOUS
    <3> QED
      BY SMTT(30), <2>0, <3>1 DEF Header
  <2>3. Ancestors(ew, i)
    BY <2>0 DEF Ancestors
  <2>4. SelfParents(ew, i)
    BY SMTT(30), <2>0, <2>1 DEF SelfParents
  <2> QED
    BY <2>2, <2>3, <2>4
<1>2. Honest(ew)
  BY DEF Graph, Honest
<1>3. DOMAIN ew \subseteq Nat \ {0}
  BY DEF Graph
<1> QED
  BY <1>1, <1>2, <1>3 DEF Graph

\* What an event sees of forks, and what it causes, does not change as long as
\* the events that it observes stay.
LEMMA SeesForkStays ==
    ASSUME NEW ev, NEW ew, NEW a, ew[a] = ev[a], \A i \in ev[a].anc : ew[i] = ev[i],
           NEW v
    PROVE  SeesForkIn(ew, a, v) <=> SeesForkIn(ev, a, v)
BY DEF SeesForkIn, ForkIn

\* The forkless cause of two events stays as long as what the first observes
\* stays: it depends on nothing else of the graph.
LEMMA CausesStays ==
    ASSUME NEW ev, NEW ew, NEW a, NEW b, ew[a] = ev[a], ew[b] = ev[b],
           \A i \in ev[a].anc : ew[i] = ev[i]
    PROVE  CausesIn(ew, a, b) <=> CausesIn(ev, a, b)
<1> DEFINE S(e) == {v \in Validators :
                       /\ ~SeesForkIn(e, a, v)
                       /\ \E x \in e[a].anc : e[x].creator = v /\ b \in e[x].anc}
<1>1. S(ev) = S(ew)
  BY SeesForkStays
<1>2. SeesForkIn(ew, a, ew[b].creator) <=> SeesForkIn(ev, a, ev[b].creator)
  BY SeesForkStays
<1> QED
  BY <1>1, <1>2 DEF CausesIn

\* The tables say the same of every graph that has their events.
LEMMA TableStays ==
    ASSUME NEW ev, Graph(ev), NEW br, NEW be, NEW af, NEW info,
           TableInv(ev, br, be, af, info),
           NEW ew, DOMAIN br \subseteq DOMAIN ew, \A i \in DOMAIN br : ew[i] = ev[i]
    PROVE  TableInv(ew, br, be, af, info)
<1>1. ASSUME NEW i \in DOMAIN br
      PROVE  /\ i \in DOMAIN ev
             /\ ev[i].anc \subseteq DOMAIN br
             /\ ev[i].line \subseteq DOMAIN br
  <2>1. i \in DOMAIN ev /\ ev[i].anc \subseteq DOMAIN br
    BY DEF TableInv, BranchInv
  <2> QED
    BY <2>1 DEF Graph, SelfParents
<1>2. BranchInv(ew, br, info)
  <2>0. BranchInv(ev, br, info)
    BY DEF TableInv
  <2>1. \A i \in DOMAIN br : /\ ew[i].parents \subseteq DOMAIN br
                            /\ ew[i].anc \subseteq DOMAIN br
                            /\ br[i] \in Branches(info)
                            /\ info.creator[br[i]] = ew[i].creator
                            /\ ew[i].seq <= info.lastSeq[br[i]]
    BY <2>0 DEF BranchInv
  <2>2. \A c \in Branches(info) : info.lastSeq[c] # 0 =>
          \E i \in DOMAIN br : br[i] = c /\ ew[i].seq = info.lastSeq[c]
    BY SMTT(30), <2>0 DEF BranchInv
  <2>3. \A i, j \in DOMAIN br :
          (br[i] = br[j] /\ ew[i].seq <= ew[j].seq) => i \in ew[j].line
    BY <2>0 DEF BranchInv
  <2>4. ASSUME NEW i \in DOMAIN br, NEW j \in DOMAIN br, NEW k \in ew[j].line,
               br[i] = br[j], i \in ew[k].line
        PROVE  br[k] = br[i]
    <3>1. k \in ev[j].line /\ i \in ev[k].line
      BY <1>1, <2>4
    <3> QED
      BY SMTT(30), <2>0, <2>4, <3>1 DEF BranchInv
  <2> QED
    BY SMTT(30), <2>1, <2>2, <2>3, <2>4 DEF BranchInv
<1>3. BeforeInv(ew, br, be, info)
  <2>0. BeforeInv(ev, br, be, info)
    BY DEF TableInv
  <2>1. ASSUME NEW a \in DOMAIN br, NEW c \in Branches(info)
        PROVE  /\ On(ew, br, a, c) = On(ev, br, a, c)
               /\ SeesForkIn(ew, a, info.creator[c]) <=> SeesForkIn(ev, a, info.creator[c])
    <3>1. ew[a] = ev[a] /\ \A i \in ev[a].anc : ew[i] = ev[i]
      BY <1>1
    <3> QED
      BY <3>1, SeesForkStays DEF On
  <2>2. ASSUME NEW a \in DOMAIN br, NEW c \in Branches(info), NEW x,
               EntryOf(ev, On(ev, br, a, c), x)
        PROVE  EntryOf(ew, On(ew, br, a, c), x)
    <3>1. \A i \in On(ev, br, a, c) : ew[i] = ev[i]
      BY <1>1 DEF On
    <3> QED
      BY <2>1, <2>2, <3>1 DEF EntryOf
  <2> QED
    BY <2>0, <2>1, <2>2 DEF BeforeInv
<1>4. AfterInv(ew, br, af, info)
  BY SMTT(30) DEF TableInv, AfterInv
<1> QED
  BY <1>2, <1>3, <1>4 DEF TableInv

-----------------------------------------------------------------------------
(***************************************************************************)
(* Forks and branches.  A fork that is observed shows up as two events     *)
(* with the same sequence number on different branches ...                 *)
(***************************************************************************)
LEMMA ForkSplits ==
    ASSUME NEW ev, Graph(ev), NEW br, NEW info, BranchInv(ev, br, info),
           NEW a \in DOMAIN br, NEW v, SeesForkIn(ev, a, v)
    PROVE  \E x, y \in ev[a].anc : /\ ev[x].creator = v /\ ev[y].creator = v
                                   /\ ev[x].seq = ev[y].seq
                                   /\ br[x] # br[y]
<1>1. /\ ev[a].anc \subseteq DOMAIN br
      /\ DOMAIN br \subseteq DOMAIN ev
      /\ \A i, j \in DOMAIN br :
          (br[i] = br[j] /\ ev[i].seq <= ev[j].seq) => i \in ev[j].line
  BY DEF BranchInv
<1>2. \A i \in DOMAIN ev : /\ SelfParents(ev, i) /\ ev[i].seq \in Nat \ {0}
                           /\ \A j \in ev[i].anc : ev[j].anc \subseteq ev[i].anc
  BY DEF Graph, Header, Ancestors
<1>3. ASSUME NEW x \in ev[a].anc, NEW y \in ev[a].anc, ev[x].creator = v,
             ForkIn(ev, x, y), ev[x].seq <= ev[y].seq
      PROVE  \E z \in ev[a].anc : /\ ev[z].creator = v
                                  /\ ev[x].seq = ev[z].seq
                                  /\ br[x] # br[z]
  <2>1. x \in DOMAIN ev /\ y \in DOMAIN ev /\ a \in DOMAIN ev
    BY <1>1
  <2>2. ev[x].seq \in 1..ev[y].seq
    BY SMTT(30), <1>2, <1>3, <2>1
  <2>3. PICK z \in ev[y].line : ev[z].seq = ev[x].seq
    BY SMTT(30), <1>2, <2>1, <2>2 DEF SelfParents
  <2>4. z \in ev[a].anc /\ ev[z].creator = v
    BY SMTT(30), <1>2, <1>3, <2>1, <2>3 DEF SelfParents, ForkIn
  <2>5. z \in DOMAIN ev /\ z # x
    BY <1>1, <1>3, <2>3, <2>4 DEF ForkIn
  <2>6. br[x] # br[z]
    <3>1. SUFFICES ASSUME br[x] = br[z]
                   PROVE  FALSE
      OBVIOUS
    <3>2. x \in ev[z].line
      BY SMTT(30), <1>1, <1>2, <2>1, <2>3, <2>4, <2>5, <3>1
    <3>3. z \in ev[z].line
      BY <1>2, <2>5 DEF SelfParents
    <3> QED
      BY <1>2, <2>3, <2>5, <3>2, <3>3 DEF SelfParents
  <2> QED
    BY <2>3, <2>4, <2>6
<1>4. PICK x \in ev[a].anc, y \in ev[a].anc : ev[x].creator = v /\ ForkIn(ev, x, y)
  BY DEF SeesForkIn
<1>5. x \in DOMAIN ev /\ y \in DOMAIN ev
  BY <1>1
<1>6. ForkIn(ev, y, x) /\ ev[y].creator = v
  BY <1>4 DEF ForkIn
<1>7. ev[x].seq <= ev[y].seq \/ ev[y].seq <= ev[x].seq
  BY SMTT(30), <1>2, <1>5
<1>8. CASE ev[x].seq <= ev[y].seq
  BY <1>3, <1>4, <1>8
<1>9. CASE ev[y].seq <= ev[x].seq
  BY <1>3, <1>6, <1>9
<1> QED
  BY <1>7, <1>8, <1>9

(***************************************************************************)
(* ... and without a fork two branches of a creator do not overlap.        *)
(***************************************************************************)
LEMMA NoForkNoOverlap ==
    ASSUME NEW ev, Graph(ev), NEW br, NEW info, BranchInv(ev, br, info),
           NEW a \in DOMAIN br, NEW v, ~SeesForkIn(ev, a, v),
           NEW xlo \in ev[a].anc, NEW xhi \in ev[a].anc,
           NEW ylo \in ev[a].anc, NEW yhi \in ev[a].anc,
           ev[xlo].creator = v, ev[xhi].creator = v,
           ev[ylo].creator = v, ev[yhi].creator = v,
           br[xlo] = br[xhi], br[ylo] = br[yhi], br[xlo] # br[ylo],
           ev[xlo].seq <= ev[yhi].seq, ev[ylo].seq <= ev[xhi].seq
    PROVE  FALSE
<1>1. ev[a].anc \subseteq DOMAIN br /\ DOMAIN br \subseteq DOMAIN ev
  BY DEF BranchInv
<1>2. \A i \in DOMAIN ev : SelfParents(ev, i) /\ ev[i].seq \in Nat \ {0}
  BY DEF Graph, Header
<1>3. \A x, y \in ev[a].anc : (ev[x].creator = v /\ ev[y].creator = v) =>
        x \in ev[y].line \/ y \in ev[x].line
  BY DEF SeesForkIn, ForkIn
<1>4. ASSUME NEW x \in ev[a].anc, NEW y \in ev[a].anc,
             ev[x].creator = v, ev[y].creator = v,
             ev[x].seq <= ev[y].seq, br[x] # br[y]
      PROVE  x \in ev[y].line
  <2>1. SUFFICES ASSUME y \in ev[x].line
                 PROVE  FALSE
    BY <1>3, <1>4
  <2>2. x \in DOMAIN ev /\ SelfParents(ev, x) /\ ev[x].seq \in Nat /\ ev[y].seq \in Nat
    BY <1>1, <1>2
  <2>3. ev[y].seq = ev[x].seq
    BY SMTT(30), <1>4, <2>1, <2>2 DEF SelfParents
  <2>4. y = x
    BY <2>1, <2>2, <2>3 DEF SelfParents
  <2> QED
    BY <1>4, <2>4
<1>5. \A i, j \in DOMAIN br : \A k \in ev[j].line :
          (br[i] = br[j] /\ i \in ev[k].line) => br[k] = br[i]
  BY DEF BranchInv
<1>6. CASE xhi \in ev[yhi].line
  <2>1. ylo \in ev[xhi].line
    BY <1>4
  <2> QED
    BY <1>1, <1>5, <1>6, <2>1
<1>7. CASE yhi \in ev[xhi].line
  <2>1. xlo \in ev[yhi].line
    BY <1>4
  <2> QED
    BY <1>1, <1>5, <1>7, <2>1
<1> QED
  BY <1>3, <1>6, <1>7

\* With as many branches as validators, each has one.
LEMMA SecondBranch ==
    ASSUME NEW info, InfoInv(info), NEW c \in Branches(info), NEW d \in Branches(info),
           info.creator[c] = info.creator[d], c # d
    PROVE  AtLeastOneFork(info)
<1>1. NumValidators \in Nat
  BY FS_CardinalityType, PosAssumption DEF NumValidators
<1>2. SUFFICES ASSUME NumBranches(info) = NumValidators
               PROVE  FALSE
  BY SMTT(30), <1>1 DEF AtLeastOneFork, InfoInv, NumBranches, NumValidators
<1>3. c \in 1..NumValidators /\ d \in 1..NumValidators
  BY <1>2 DEF InfoInv
<1> QED
  BY <1>3 DEF InfoInv

-----------------------------------------------------------------------------
(***************************************************************************)
(* Add.  The tables after the event id has been added.                     *)
(***************************************************************************)
Me(id) == FillGlobalBranchID(event[id])

NewInfo(id) == UpdateBranches(event[id], Me(id))

NewBranch(id) ==
    [i \in Indexed \cup {id} |-> IF i = id THEN Me(id) ELSE branch[i]]

NewBefore(id) ==
    [i \in Indexed \cup {id} |->
        IF i = id THEN HighestBefore(event[id], Me(id), NewInfo(id)) ELSE before[i]]

NewAfter(id) ==
    [i \in Indexed \cup {id} |->
        IF i = id THEN SetAfter([c \in Branches(bi) |-> 0], Me(id), event[id].seq)
        ELSE IF i \in Walked(event[id], Me(id)) THEN SetAfter(after[i], Me(id), event[id].seq)
        ELSE after[i]]

\* What Add may rely on.
MayAdd(id) ==
    /\ Graph(event)
    /\ TableInv(event, branch, before, after, bi)
    /\ id \in DOMAIN event \ Indexed
    /\ event[id].parents \subseteq Indexed

\* fillGlobalBranchID: the event continues its self-parent's branch, or its
\* creator's first one, or begins a new one.
LEMMA OwnOrNew ==
    ASSUME NEW id, MayAdd(id)
    PROVE  /\ Me(id) \in Nat \ {0}
           /\ \/ Me(id) = NumBranches(bi) + 1
              \/ /\ Me(id) \in Branches(bi)
                 /\ bi.lastSeq[Me(id)] + 1 = event[id].seq
                 /\ bi.creator[Me(id)] = event[id].creator
                 /\ event[id].selfParent # 0 => branch[event[id].selfParent] = Me(id)
<1> DEFINE e == event[id]
           own == IF e.selfParent = 0 THEN GetIdx(e.creator) ELSE branch[e.selfParent]
<1>1. InfoInv(bi) /\ BranchInv(event, branch, bi) /\ Header(event, id)
  BY DEF MayAdd, TableInv, Graph
<1>2. NumValidators \in Nat
  BY FS_CardinalityType, PosAssumption DEF NumValidators
<1>3. own \in Branches(bi) /\ bi.creator[own] = e.creator
  <2>1. CASE e.selfParent = 0
    <3>1. e.creator \in Validators
      BY <1>1 DEF Header
    <3>2. GetIdx(e.creator) \in 1..NumValidators
      BY <3>1, IdxType
    <3> QED
      BY SMTT(30), <1>1, <1>2, <2>1, <3>1, <3>2 DEF InfoInv
  <2>2. CASE e.selfParent # 0
    <3>1. e.selfParent \in Indexed /\ event[e.selfParent].creator = e.creator
      BY <1>1, <2>2 DEF Header, MayAdd
    <3> QED
      BY <1>1, <2>2, <3>1 DEF BranchInv, Indexed
  <2> QED
    BY <2>1, <2>2
<1>4. Branches(bi) = 1..NumBranches(bi) /\ NumBranches(bi) \in Nat
  BY <1>1 DEF InfoInv
<1>5. Me(id) = IF bi.lastSeq[own] + 1 = e.seq THEN own ELSE NumBranches(bi) + 1
  BY DEF Me, FillGlobalBranchID, NumBranches
<1>6. CASE bi.lastSeq[own] + 1 = e.seq
  <2>1. Me(id) = own
    BY <1>5, <1>6
  <2>2. own \in 1..NumBranches(bi)
    BY <1>3, <1>4
  <2>3. Me(id) \in Nat \ {0}
    BY SMTT(30), <1>4, <2>1, <2>2
  <2>4. e.selfParent # 0 => branch[e.selfParent] = own
    OBVIOUS
  <2> HIDE DEF own
  <2> QED
    BY <1>3, <1>6, <2>1, <2>3, <2>4
<1>7. CASE bi.lastSeq[own] + 1 # e.seq
  <2>1. Me(id) = NumBranches(bi) + 1
    BY <1>5, <1>7
  <2>2. Me(id) \in Nat \ {0}
    BY SMTT(30), <1>4, <2>1
  <2> QED
    BY <2>1, <2>2
<1> QED
  BY <1>6, <1>7

\* branchesInfo afterwards: only the event's branch changes.
LEMMA NewInfoValue ==
    ASSUME NEW id, MayAdd(id)
    PROVE  /\ Branches(NewInfo(id)) = Branches(bi) \cup {Me(id)}
           /\ NewInfo(id).lastSeq[Me(id)] = event[id].seq
           /\ NewInfo(id).creator[Me(id)] = event[id].creator
           /\ \A c \in Branches(bi) : /\ NewInfo(id).creator[c] = bi.creator[c]
                                      /\ c # Me(id) => NewInfo(id).lastSeq[c] = bi.lastSeq[c]
<1>1. /\ Branches(NewInfo(id)) = Branches(bi) \cup {Me(id)}
      /\ NewInfo(id).lastSeq[Me(id)] = event[id].seq
      /\ NewInfo(id).creator[Me(id)] = event[id].creator
      /\ \A c \in Branches(bi) : c # Me(id) => /\ NewInfo(id).creator[c] = bi.creator[c]
                                               /\ NewInfo(id).lastSeq[c] = bi.lastSeq[c]
  BY DEF NewInfo, UpdateBranches, Branches
<1>2. Me(id) \in Branches(bi) => bi.creator[Me(id)] = event[id].creator
  <2>1. NumBranches(bi) + 1 \notin Branches(bi)
    BY SMTT(30) DEF MayAdd, TableInv, InfoInv
  <2> QED
    BY <2>1, OwnOrNew
<1> QED
  BY <1>1, <1>2

\* setForkDetected and fillGlobalBranchID leave branchesInfo well-formed: its
\* branches are numbered without gaps, and the first one of a validator has the
\* validator's number.
LEMMA AddInfo ==
    ASSUME NEW id, MayAdd(id)
    PROVE  InfoInv(NewInfo(id))
<1> DEFINE K == NumBranches(bi)
           new == NewInfo(id)
<1>1. /\ K \in Nat /\ Branches(bi) = 1..K /\ K >= NumValidators
      /\ \A c \in Branches(bi) : bi.lastSeq[c] \in Nat /\ bi.creator[c] \in Validators
      /\ \A v \in Validators : bi.creator[GetIdx(v)] = v
      /\ \A c \in 1..NumValidators : c = GetIdx(bi.creator[c])
  BY DEF MayAdd, TableInv, InfoInv
<1>2. event[id].creator \in Validators /\ event[id].seq \in Nat
  BY DEF MayAdd, Graph, Header
<1>3. NumValidators \in Nat
  BY FS_CardinalityType, PosAssumption DEF NumValidators
<1>4. /\ NumBranches(new) \in Nat
      /\ Branches(new) = 1..NumBranches(new)
      /\ NumBranches(new) >= NumValidators
  <2>1. CASE Me(id) = K + 1
    <3>0. Branches(new) = (1..K) \cup {K + 1}
      BY <1>1, <2>1, NewInfoValue
    <3>1. Branches(new) = 1..(K + 1)
      BY SMTT(30), <1>1, <3>0
    <3>2. Cardinality(1..(K + 1)) = K + 1
      BY SMTT(30), <1>1, FS_Interval
    <3> QED
      BY SMTT(30), <1>1, <1>3, <3>1, <3>2 DEF NumBranches
  <2>2. CASE Me(id) \in Branches(bi)
    <3>1. Branches(new) = Branches(bi)
      BY <2>2, NewInfoValue
    <3> QED
      BY <1>1, <3>1 DEF NumBranches
  <2> QED
    BY <2>1, <2>2, OwnOrNew
<1>5. \A c \in Branches(new) : new.lastSeq[c] \in Nat /\ new.creator[c] \in Validators
  BY SMTT(30), <1>1, <1>2, NewInfoValue
<1>6. 1..NumValidators \subseteq Branches(bi)
  BY SMTT(30), <1>1, <1>3
<1>7. \A c \in 1..NumValidators : new.creator[c] = bi.creator[c]
  BY <1>6, NewInfoValue
<1>8. \A v \in Validators : new.creator[GetIdx(v)] = v
  BY <1>1, <1>7, IdxType
<1>9. \A c \in 1..NumValidators : c = GetIdx(new.creator[c])
  BY <1>1, <1>7
<1> HIDE DEF new
<1> QED
  BY <1>4, <1>5, <1>8, <1>9 DEF InfoInv, new

(***************************************************************************)
(* The event's place on its branch: nothing there is as high, and all that *)
(* is there is below it in its line of self-parents.                       *)
(***************************************************************************)
LEMMA BelowMe ==
    ASSUME NEW id, MayAdd(id), NEW i \in Indexed, branch[i] = Me(id)
    PROVE  /\ Me(id) \in Branches(bi)
           /\ event[i].seq < event[id].seq
           /\ event[id].selfParent # 0
           /\ event[id].selfParent \in Indexed
           /\ branch[event[id].selfParent] = Me(id)
           /\ i \in event[event[id].selfParent].line
           /\ i \in event[id].line
<1> DEFINE e == event[id]
<1>1. InfoInv(bi) /\ BranchInv(event, branch, bi) /\ Header(event, id)
  BY DEF MayAdd, TableInv, Graph
<1>2. Me(id) \in Branches(bi) /\ event[i].seq <= bi.lastSeq[Me(id)]
  BY <1>1 DEF BranchInv, Indexed
<1>3. NumBranches(bi) + 1 \notin Branches(bi)
  BY SMTT(30), <1>1 DEF InfoInv
<1>4. /\ bi.lastSeq[Me(id)] + 1 = e.seq
      /\ e.selfParent # 0 => branch[e.selfParent] = Me(id)
  BY <1>2, <1>3, OwnOrNew
<1>5. bi.lastSeq[Me(id)] \in Nat /\ e.seq \in Nat
  BY <1>1, <1>2 DEF InfoInv, Header
<1>6. i \in DOMAIN event /\ event[i].seq \in Nat \ {0}
  BY <1>1 DEF BranchInv, MayAdd, Graph, Header, Indexed
<1>7. event[i].seq < e.seq /\ e.selfParent # 0
  BY SMTT(30), <1>1, <1>2, <1>4, <1>5, <1>6 DEF Header
<1>8. /\ e.selfParent \in Indexed
      /\ e.seq = event[e.selfParent].seq + 1
      /\ e.line = {id} \cup event[e.selfParent].line
  BY <1>1, <1>7 DEF Header, MayAdd
<1>9. e.selfParent \in DOMAIN event /\ event[e.selfParent].seq \in Nat
  BY <1>1, <1>8 DEF BranchInv, MayAdd, Graph, Header, Indexed
<1>10. event[i].seq <= event[e.selfParent].seq
  BY SMTT(30), <1>6, <1>7, <1>8, <1>9
<1>11. i \in event[e.selfParent].line
  BY SMTT(30), <1>1, <1>4, <1>7, <1>8, <1>10 DEF BranchInv, Indexed
<1> QED
  BY <1>2, <1>4, <1>7, <1>8, <1>11

\* After Add, the events of a branch form one line of self-parents, and two of
\* them never share a sequence number.
LEMMA AddBranch ==
    ASSUME NEW id, MayAdd(id)
    PROVE  BranchInv(event, NewBranch(id), NewInfo(id))
<1> DEFINE br == NewBranch(id)
           new == NewInfo(id)
           I == Indexed \cup {id}
<1>1. /\ DOMAIN br = I /\ br[id] = Me(id)
      /\ \A i \in Indexed : br[i] = branch[i] /\ i # id
  BY DEF NewBranch, MayAdd
<1>2. BranchInv(event, branch, bi) /\ InfoInv(bi)
  BY DEF MayAdd, TableInv
<1>3. /\ id \in DOMAIN event /\ Indexed \subseteq DOMAIN event
      /\ \A i \in DOMAIN event : Header(event, i) /\ Ancestors(event, i) /\ SelfParents(event, i)
  BY <1>2 DEF MayAdd, Graph, BranchInv, Indexed
<1>4. \A i \in Indexed : /\ event[i].anc \subseteq Indexed
                         /\ event[i].line \subseteq Indexed
                         /\ event[i].parents \subseteq Indexed
  BY <1>2, <1>3 DEF BranchInv, Indexed, SelfParents
<1>5. event[id].anc \subseteq I /\ event[id].parents \subseteq Indexed
  <2>1. /\ event[id].parents \subseteq Indexed
        /\ event[id].anc = {id} \cup UNION {event[p].anc : p \in event[id].parents}
    BY <1>3 DEF MayAdd, Header
  <2> QED
    BY ONLY ZenonT(30), <1>4, <2>1
<1> HIDE DEF br, new
<1>6. ASSUME NEW i \in I
      PROVE  /\ event[i].parents \subseteq I
             /\ event[i].anc \subseteq I
             /\ br[i] \in Branches(new)
             /\ new.creator[br[i]] = event[i].creator
             /\ event[i].seq <= new.lastSeq[br[i]]
  <2>1. CASE i = id
    <3>1. event[id].seq \in Nat
      BY <1>3 DEF Header
    <3> QED
      BY SMTT(30), <1>1, <1>5, <2>1, <3>1, NewInfoValue DEF new
  <2>2. CASE i \in Indexed /\ branch[i] # Me(id)
    <3>1. /\ branch[i] \in Branches(bi) /\ bi.creator[branch[i]] = event[i].creator
          /\ event[i].seq <= bi.lastSeq[branch[i]]
      BY <1>2, <2>2 DEF BranchInv, Indexed
    <3> QED
      BY SMTT(30), <1>1, <1>4, <2>2, <3>1, NewInfoValue DEF new
  <2>3. CASE i \in Indexed /\ branch[i] = Me(id)
    <3>1. branch[i] \in Branches(bi) /\ bi.creator[branch[i]] = event[i].creator
      BY <1>2, <2>3 DEF BranchInv, Indexed
    <3>2. event[i].seq <= event[id].seq
      <4>1. event[i].seq < event[id].seq
        BY <2>3, BelowMe
      <4>2. event[i].seq \in Nat /\ event[id].seq \in Nat
        BY <1>3 DEF Header
      <4> QED
        BY SMTT(30), <4>1, <4>2
    <3> QED
      BY SMTT(30), <1>1, <1>4, <2>3, <3>1, <3>2, NewInfoValue DEF new
  <2> QED
    BY <2>1, <2>2, <2>3
<1>7. ASSUME NEW c \in Branches(new), new.lastSeq[c] # 0
      PROVE  \E i \in I : br[i] = c /\ event[i].seq = new.lastSeq[c]
  <2>1. CASE c = Me(id)
    BY <1>1, <2>1, NewInfoValue DEF new
  <2>2. CASE c # Me(id)
    <3>1. c \in Branches(bi) /\ new.lastSeq[c] = bi.lastSeq[c]
      BY <2>2, NewInfoValue DEF new
    <3>2. PICK i \in Indexed : branch[i] = c /\ event[i].seq = bi.lastSeq[c]
      BY <1>2, <1>7, <3>1 DEF BranchInv, Indexed
    <3> QED
      BY <1>1, <3>1, <3>2
  <2> QED
    BY <2>1, <2>2
<1>8. ASSUME NEW i \in I, NEW j \in I, br[i] = br[j], event[i].seq <= event[j].seq
      PROVE  i \in event[j].line
  <2>1. CASE j = id /\ i = id
    BY <1>3, <2>1 DEF SelfParents
  <2>2. CASE j = id /\ i # id
    BY <1>1, <1>8, <2>2, BelowMe
  <2>3. CASE j # id /\ i = id
    <3>1. event[j].seq < event[id].seq
      BY <1>1, <1>8, <2>3, BelowMe
    <3>2. event[j].seq \in Nat /\ event[id].seq \in Nat
      BY <1>3, <2>3 DEF Header
    <3> QED
      BY SMTT(30), <1>8, <2>3, <3>1, <3>2
  <2>4. CASE j # id /\ i # id
    BY <1>1, <1>2, <1>8, <2>4 DEF BranchInv, Indexed
  <2> QED
    BY <2>1, <2>2, <2>3, <2>4
<1>9. ASSUME NEW i \in I, NEW j \in I, NEW k \in event[j].line,
             br[i] = br[j], i \in event[k].line
      PROVE  br[k] = br[i]
  <2>1. CASE j \in Indexed
    <3>1. k \in Indexed /\ i \in Indexed
      BY <1>4, <1>9, <2>1
    <3> QED
      BY SMTT(30), <1>1, <1>2, <1>9, <2>1, <3>1 DEF BranchInv, Indexed
  <2>2. CASE j = id /\ k = id
    BY <1>9, <2>2
  <2>3. CASE j = id /\ k # id
    <3>1. k \in Indexed
      BY <1>3, <1>5, <2>3 DEF SelfParents
    <3>2. i \in Indexed
      BY <1>4, <1>9, <3>1
    <3>3. branch[i] = Me(id)
      BY <1>1, <1>9, <2>3, <3>2
    <3>4. /\ event[id].selfParent # 0 /\ event[id].selfParent \in Indexed
          /\ branch[event[id].selfParent] = Me(id)
      BY <3>2, <3>3, BelowMe
    <3>5. k \in event[event[id].selfParent].line
      BY <1>3, <2>3, <3>4 DEF Header
    <3>6. branch[k] = branch[i]
      BY SMTT(30), <1>2, <1>9, <3>2, <3>3, <3>4, <3>5 DEF BranchInv, Indexed
    <3> QED
      BY <1>1, <3>1, <3>2, <3>6
  <2> QED
    BY <2>1, <2>2, <2>3
<1>10. I \subseteq DOMAIN event
  BY <1>3
<1> QED
  BY SMTT(30), <1>1, <1>6, <1>7, <1>8, <1>9, <1>10 DEF BranchInv, br, new

-----------------------------------------------------------------------------
\* The HighestBefore vectors that exist say the same of the new branches.
LEMMA OldEntry ==
    ASSUME NEW id, MayAdd(id), NEW a \in Indexed, NEW c \in Branches(NewInfo(id))
    PROVE  /\ On(event, NewBranch(id), a, c) # {} => c \in DOMAIN before[a]
           /\ c \in DOMAIN before[a] /\ SeesForkIn(event, a, NewInfo(id).creator[c])
                 => before[a][c] = ForkDetected
           /\ ~SeesForkIn(event, a, NewInfo(id).creator[c])
                 => EntryOf(event, On(event, NewBranch(id), a, c), GetBefore(before[a], c))
<1>1. BranchInv(event, branch, bi) /\ BeforeInv(event, branch, before, bi)
  BY DEF MayAdd, TableInv
<1>2. /\ event[a].anc \subseteq Indexed
      /\ \A i \in event[a].anc : branch[i] \in Branches(bi)
  BY <1>1 DEF BranchInv, Indexed
<1>3. \A i \in event[a].anc : NewBranch(id)[i] = branch[i]
  BY <1>2 DEF NewBranch, MayAdd
<1>4. On(event, NewBranch(id), a, c) = On(event, branch, a, c)
  BY <1>3 DEF On
<1>5. CASE c \in Branches(bi)
  <2>1. NewInfo(id).creator[c] = bi.creator[c]
    BY <1>5, NewInfoValue
  <2> QED
    BY <1>1, <1>4, <1>5, <2>1 DEF BeforeInv, Indexed
<1>6. CASE c \notin Branches(bi)
  <2>1. On(event, branch, a, c) = {}
    BY <1>2, <1>6 DEF On
  <2>2. c \notin DOMAIN before[a]
    BY <1>1, <1>6 DEF BeforeInv, Indexed
  <2> QED
    BY <1>4, <2>1, <2>2 DEF EntryOf, GetBefore
<1> QED
  BY <1>5, <1>6

\* What the event observes on a branch: what its parents do, and itself.
LEMMA OnMe ==
    ASSUME NEW id, MayAdd(id), NEW c
    PROVE  \A i : i \in On(event, NewBranch(id), id, c) <=>
              \/ i = id /\ c = Me(id)
              \/ \E p \in event[id].parents : i \in On(event, NewBranch(id), p, c)
<1>1. event[id].anc = {id} \cup UNION {event[p].anc : p \in event[id].parents}
  BY DEF MayAdd, Graph, Header
<1>2. NewBranch(id)[id] = Me(id)
  BY DEF NewBranch
<1>3. \A i : i \in event[id].anc <=> i = id \/ \E p \in event[id].parents : i \in event[p].anc
  BY <1>1
<1> QED
  BY <1>2, <1>3 DEF On

\* What an event observes on a branch is indexed, is of that branch's creator
\* and lies within the branch.
LEMMA OnIsEvent ==
    ASSUME NEW id, MayAdd(id), NEW c, NEW a \in Indexed \cup {id},
           NEW i \in On(event, NewBranch(id), a, c)
    PROVE  /\ i \in Indexed \cup {id}
           /\ NewBranch(id)[i] = c
           /\ i \in event[a].anc
           /\ event[i].seq \in Nat \ {0}
           /\ event[i].seq <= NewInfo(id).lastSeq[c]
           /\ event[i].creator = NewInfo(id).creator[c]
<1>1. i \in event[a].anc /\ NewBranch(id)[i] = c
  BY DEF On
<1>2. DOMAIN NewBranch(id) = Indexed \cup {id}
  BY DEF NewBranch
<1>3. BranchInv(event, NewBranch(id), NewInfo(id))
  BY AddBranch
<1>4. i \in DOMAIN NewBranch(id) /\ i \in DOMAIN event
  BY <1>1, <1>2, <1>3 DEF BranchInv
<1> QED
  BY <1>1, <1>2, <1>3, <1>4 DEF BranchInv, MayAdd, Graph, Header

(***************************************************************************)
(* As long as no parent saw a fork, the merged entry is the highest and    *)
(* the lowest of what the event observes on the branch.                    *)
(***************************************************************************)
LEMMA Merged ==
    ASSUME NEW id, MayAdd(id), NEW c \in Branches(NewInfo(id)),
           \A p \in event[id].parents : ~SeesForkIn(event, p, NewInfo(id).creator[c])
    PROVE  EntryOf(event, On(event, NewBranch(id), id, c), MergedEntry(event[id], Me(id), c))
<1> DEFINE e == event[id]
           me == Me(id)
           S == On(event, NewBranch(id), id, c)
           Sp(p) == On(event, NewBranch(id), p, c)
           own == [seq |-> e.seq, minSeq |-> e.seq]
           obs == Observed(e, me, c)
           seen == {s \in obs : s.seq # 0}
<1>1. \A p \in e.parents : p \in Indexed /\ EntryOf(event, Sp(p), GetBefore(before[p], c))
  BY OldEntry DEF MayAdd
<1>2. \A i : i \in S <=> (i = id /\ c = me) \/ (\E p \in e.parents : i \in Sp(p))
  BY OnMe
<1>3. \A i \in S : event[i].seq \in Nat \ {0} /\ event[i].seq <= NewInfo(id).lastSeq[c]
  BY OnIsEvent
<1>4. e.seq \in Nat \ {0}
  BY DEF MayAdd, Graph, Header
<1>5. \A s \in obs : \/ \E p \in e.parents : s = GetBefore(before[p], c)
                     \/ c = me /\ s = own
  BY DEF Observed
<1>6. (\A p \in e.parents : GetBefore(before[p], c) \in obs) /\ (c = me => own \in obs)
  BY DEF Observed
<1>7. MergedEntry(e, me, c) =
        IF seen = {} THEN Zero
        ELSE [seq |-> CHOOSE n \in {s.seq : s \in seen} : \A s \in seen : n >= s.seq,
              minSeq |-> CHOOSE n \in {s.minSeq : s \in seen} :
                            \A s \in seen : n <= s.minSeq]
  BY DEF MergedEntry
<1>8. ASSUME NEW s \in seen
      PROVE  (\E i \in S : s.seq = event[i].seq) /\ (\E i \in S : s.minSeq = event[i].seq)
  <2>1. CASE c = me /\ s = own
    <3>1. id \in S
      BY <1>2, <2>1
    <3> QED
      BY <2>1, <3>1
  <2>2. ASSUME NEW p \in e.parents, s = GetBefore(before[p], c)
        PROVE  (\E i \in S : s.seq = event[i].seq) /\ (\E i \in S : s.minSeq = event[i].seq)
    <3>1. EntryOf(event, Sp(p), s) /\ s.seq # 0
      BY <1>1, <2>2
    <3>2. Sp(p) # {}
      BY SMTT(30), <3>1 DEF EntryOf, Zero
    <3>3. (\E i \in Sp(p) : s.seq = event[i].seq) /\ (\E i \in Sp(p) : s.minSeq = event[i].seq)
      BY <3>1, <3>2 DEF EntryOf
    <3>4. Sp(p) \subseteq S
      BY <1>2
    <3> QED
      BY <3>3, <3>4
  <2> QED
    BY <1>5, <2>1, <2>2
<1>9. ASSUME NEW i \in S
      PROVE  \E s \in seen : s.minSeq <= event[i].seq /\ event[i].seq <= s.seq
  <2>1. CASE c = me /\ i = id
    <3>1. own \in seen /\ own.minSeq = e.seq /\ own.seq = e.seq
      BY <1>4, <1>6, <2>1
    <3> QED
      BY SMTT(30), <1>4, <2>1, <3>1
  <2>2. ASSUME NEW p \in e.parents, i \in Sp(p)
        PROVE  \E s \in seen : s.minSeq <= event[i].seq /\ event[i].seq <= s.seq
    <3> DEFINE s == GetBefore(before[p], c)
    <3>1. s.minSeq <= event[i].seq /\ event[i].seq <= s.seq
      BY <1>1, <2>2 DEF EntryOf
    <3>2. \E j \in Sp(p) : s.seq = event[j].seq
      BY <1>1, <2>2 DEF EntryOf
    <3>3. s.seq # 0
      BY <1>2, <1>3, <3>2
    <3>4. s \in seen
      BY <1>6, <3>3
    <3> QED
      BY <3>1, <3>4
  <2> QED
    BY <1>2, <2>1, <2>2
<1>10. CASE S = {}
  <2>1. seen = {}
    BY <1>8, <1>10
  <2> QED
    BY <1>7, <1>10, <2>1 DEF EntryOf
<1>11. CASE S # {}
  <2> DEFINE A == {s.seq : s \in seen}
             B == {s.minSeq : s \in seen}
             hi == CHOOSE n \in A : \A s \in seen : n >= s.seq
             lo == CHOOSE n \in B : \A s \in seen : n <= s.minSeq
  <2>1. seen # {}
    BY <1>9, <1>11
  <2>2. \A s \in seen : s.seq \in Nat /\ s.minSeq \in Nat
    BY <1>3, <1>8
  <2>3. A \in SUBSET Nat /\ A # {} /\ B \in SUBSET Nat /\ B # {}
    BY <2>1, <2>2
  <2>4. NewInfo(id).lastSeq[c] \in Nat
    BY AddInfo DEF InfoInv
  <2>5. \A n \in A : n <= NewInfo(id).lastSeq[c]
    BY SMTT(30), <1>3, <1>8
  <2>6. PICK m \in A : \A n \in A : n <= m
    BY <2>3, <2>4, <2>5, Largest
  <2>7. PICK l \in B : \A n \in B : l <= n
    BY <2>3, Smallest
  <2>8. hi \in A /\ \A s \in seen : hi >= s.seq
    <3>1. \A s \in seen : m >= s.seq
      BY <2>2, <2>3, <2>6
    <3> QED
      BY <3>1
  <2>9. lo \in B /\ \A s \in seen : lo <= s.minSeq
    <3>1. \A s \in seen : l <= s.minSeq
      BY <2>7
    <3> QED
      BY <3>1
  <2>10. MergedEntry(e, me, c) = [seq |-> hi, minSeq |-> lo]
    BY <1>7, <2>1
  <2> HIDE DEF hi, lo, S, seen
  <2>11. (\E i \in S : hi = event[i].seq) /\ (\E i \in S : lo = event[i].seq)
    BY ONLY SMTT(30), <1>8, <2>8, <2>9
  <2>12. ASSUME NEW i \in S
         PROVE  lo <= event[i].seq /\ event[i].seq <= hi
    <3>1. PICK s \in seen : s.minSeq <= event[i].seq /\ event[i].seq <= s.seq
      BY <1>9
    <3>2. lo <= s.minSeq /\ hi >= s.seq
      BY <2>8, <2>9
    <3>3. lo \in Nat /\ hi \in Nat /\ s.minSeq \in Nat /\ s.seq \in Nat /\ event[i].seq \in Nat
      BY <1>3, <2>2, <2>3, <2>8, <2>9
    <3> QED
      BY ONLY SMTT(30), <3>1, <3>2, <3>3
  <2>13. MergedEntry(e, me, c).seq = hi /\ MergedEntry(e, me, c).minSeq = lo
    BY ONLY SMTT(30), <2>10
  <2> QED
    BY <1>11, <2>11, <2>12, <2>13 DEF EntryOf, S
<1> QED
  BY <1>10, <1>11

\* An event sees the forks that its parents see.
LEMMA ParentFork ==
    ASSUME NEW id, MayAdd(id), NEW p \in event[id].parents, NEW v,
           SeesForkIn(event, p, v)
    PROVE  SeesForkIn(event, id, v)
<1>1. event[id].anc = {id} \cup UNION {event[q].anc : q \in event[id].parents}
  BY DEF MayAdd, Graph, Header
<1>2. event[p].anc \subseteq event[id].anc
  BY <1>1
<1> QED
  BY <1>2 DEF SeesForkIn
=============================================================================
