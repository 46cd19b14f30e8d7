---------------------------- MODULE PosetBlocks ----------------------------
(***************************************************************************)
(* All the nodes build one chain of blocks.                                *)
(*                                                                         *)
(* The argument: there is a chain C whose next block follows, by the       *)
(* graph alone, from the blocks before it; each store, in memory or on     *)
(* disk, is what the first blocks of C leave.  The Atropos that a node     *)
(* elects from the events it knows is the one that the graph elects, so    *)
(* the block that it applies is the next of C, or one that C has already.  *)
(***************************************************************************)
EXTENDS Poset, EventGraphProofs

\* Leaves are first-order; those that need arithmetic name SMT.
USE ZenonT(30)

-----------------------------------------------------------------------------
\* The time of block l of the first i of the chain C, or of the genesis.
TimeAt(C, i, l) == IF l \in 1..i THEN C[l].time ELSE GenesisTime

\* Block i seals its epoch, which began with the block C[i].frame blocks before it.
Seals(C, i) == LegacyShouldSealEpoch(TimeAt(C, i, i - C[i].frame), C[i])

\* What the first i blocks of the chain C leave.
EpochAt(C, i) ==
    IF i = 0 THEN 1
    ELSE IF Seals(C, i) THEN C[i].epoch + 1 ELSE C[i].epoch

FrameAt(C, i) ==
    IF i = 0 THEN 0
    ELSE IF Seals(C, i) THEN 0 ELSE C[i].frame

AtroposAt(C, i) == IF i = 0 THEN 0 ELSE C[i].atropos

GroupAt(C, i) == Validators \ UNION {C[j].cheaters : j \in 1..i}

SealsTo(C, i) == {j \in 1..i : Seals(C, j)}

\* The last block that sealed an epoch, or 0; its Atropos and its time.
LastOf(Z) == IF Z = {} THEN 0 ELSE CHOOSE j \in Z : \A l \in Z : j >= l

SealIndex(C, i) == LastOf(SealsTo(C, i))

SealAt(C, i) == AtroposAt(C, SealIndex(C, i))

StartAt(C, i) == TimeAt(C, i, SealIndex(C, i))

ConfirmedAt(E, C, i) == UNION {E[C[j].atropos].anc : j \in 1..i}

\* The Atropos after block i, and the block that it gives.
NextAtropoi(E, C, i) ==
    ChooseAtropos(E, Valid(E, EpochAt(C, i), GroupAt(C, i)), GroupAt(C, i), FrameAt(C, i) + 1)

NextBlock(E, C, i, a) ==
    LET cheaters == {v \in GroupAt(C, i) : SeesFork(E, a, v)}
    IN  [index |-> i + 1, epoch |-> EpochAt(C, i), frame |-> FrameAt(C, i) + 1,
         atropos |-> a, prev |-> AtroposAt(C, i), cheaters |-> cheaters,
         events |-> BlockEvents(E, cheaters, a, E[a].anc \ ConfirmedAt(E, C, i)),
         time |-> FareTimestamps(TimeAt(C, i, i), E[a].medianTime,
                                 {E[x].lamport : x \in E[a].anc \ ConfirmedAt(E, C, i)})]

\* A chain of m blocks.
Chain(E, C, m) ==
    /\ m \in Nat
    /\ \A i \in 1..m :
          /\ C[i].atropos \in DOMAIN E
          /\ C[i].atropos \in NextAtropoi(E, C, i - 1)
          /\ C[i] = NextBlock(E, C, i - 1, C[i].atropos)
          /\ C[i].epoch \in Nat \ {0} /\ C[i].frame \in 1..MaxEpochBlocks
          /\ C[i].cheaters \subseteq Cheater
          /\ SealIndex(C, i) + FrameAt(C, i) = i
          /\ \A j \in i+1..m : EpochAt(C, i) <= C[j].epoch

\* S is a store with the first blocks of the chain C.
StoreOK(E, C, m, S) ==
    /\ S = [events |-> S.events, epoch |-> S.epoch, validators |-> S.validators,
            prevEpoch |-> S.prevEpoch, lastDecidedFrame |-> S.lastDecidedFrame,
            lastAtropos |-> S.lastAtropos, confirmedOn |-> S.confirmedOn,
            blocks |-> S.blocks, lastVoting |-> S.lastVoting,
            prevTime |-> S.prevTime, epochStart |-> S.epochStart]
    /\ S.events \subseteq DOMAIN E
    /\ \A i \in S.events : E[i].epoch <= S.epoch
    /\ Slice(E, {i \in S.events : E[i].epoch = S.epoch}, S.validators, S.epoch)
    /\ S.blocks \in Seq({C[i] : i \in 1..m})
    /\ \A i \in 1..Len(S.blocks) : S.blocks[i] = C[i]
    /\ Len(S.blocks) <= m
    /\ S.epoch = EpochAt(C, Len(S.blocks))
    /\ S.lastDecidedFrame = FrameAt(C, Len(S.blocks))
    /\ S.lastAtropos = AtroposAt(C, Len(S.blocks))
    /\ S.validators = GroupAt(C, Len(S.blocks))
    /\ S.prevEpoch = SealAt(C, Len(S.blocks))
    /\ DOMAIN S.confirmedOn = ConfirmedAt(E, C, Len(S.blocks))
    /\ S.prevTime = StartAt(C, Len(S.blocks)) /\ S.epochStart = StartAt(C, Len(S.blocks))
    /\ S.lastVoting = [block |-> SealIndex(C, Len(S.blocks)), time |-> StartAt(C, Len(S.blocks))]

Stores(E, C, m, stores) ==
    /\ stores = [n \in Node |-> stores[n]]
    /\ \A n \in Node : StoreOK(E, C, m, stores[n])

\* What Prepare has made of an honest validator's event, after some blocks of the
\* chain.
Prepared(E, C, m, i) ==
    E[i].creator \notin Cheater =>
       \E j \in 0..m :
          /\ E[i].epoch = EpochAt(C, j) /\ E[i].creator \in GroupAt(C, j)
          /\ E[i].prevEpoch = IF E[i].seq = 1 THEN SealAt(C, j) ELSE 0
          /\ E[i].selfParent # 0 => \A p \in E[i].parents : ~SeesFork(E, E[i].selfParent, E[p].creator)
          /\ RootOK(E, GroupAt(C, j), i)
          /\ E[i].medianTime = MedianTime(E, GroupAt(C, j), i, StartAt(C, j))

\* All that there is follows one chain.
Common(E, C, m, A, inMemory, onDisk) ==
    /\ Chain(E, C, m)
    /\ A = {C[i] : i \in 1..m}
    /\ Stores(E, C, m, inMemory) /\ Stores(E, C, m, onDisk)
    /\ \A i \in DOMAIN E : Prepared(E, C, m, i)

IInv ==
    /\ Graph(event) /\ Lineage(event)
    /\ pc \in [Node -> {"idle", "electing", "sealed"}]
    /\ \E m \in Nat : \E C : Common(event, C, m, applied, store, disk)

-----------------------------------------------------------------------------
(***************************************************************************)
(* The order of the events of a block.                                     *)
(***************************************************************************)

\* Events with numbers as Lamport times.
Timed(X, lamport, k) ==
    k \in Nat /\ X \in SUBSET 1..k /\ \A x \in X : lamport[x] \in Nat

\* An event that comes before another has the lower rank.
LEMMA RankGrows ==
    ASSUME NEW X, NEW lamport, NEW k, Timed(X, lamport, k),
           NEW x \in X, NEW y \in X, Before(lamport, x, y)
    PROVE  Rank(X, lamport, x) < Rank(X, lamport, y)
<1> DEFINE A == {z \in X : Before(lamport, z, x)}
           B == {z \in X : Before(lamport, z, y)}
<1>1. IsFiniteSet(X)
  <2>1. IsFiniteSet(1..k)
    BY SMTT(30), FS_Interval DEF Timed
  <2> QED
    BY <2>1, FS_Subset DEF Timed
<1>2. /\ k \in Nat /\ \A z \in X : z \in 1..k /\ lamport[z] \in Nat
  BY DEF Timed
<1>3. A \in SUBSET B
  <2> SUFFICES ASSUME NEW z \in X, Before(lamport, z, x)
               PROVE  Before(lamport, z, y)
    OBVIOUS
  <2> QED
    BY SMTT(30), <1>2 DEF Before
<1>4. x \in B /\ x \notin A
  BY SMTT(30), <1>2 DEF Before
<1>5. B \in SUBSET X
  OBVIOUS
<1> HIDE DEF A, B
<1>6. IsFiniteSet(B) /\ Cardinality(B) \in Nat
  BY <1>1, <1>5, FS_Subset, FS_CardinalityType
<1>7. IsFiniteSet(A) /\ Cardinality(A) \in Nat /\ Cardinality(A) <= Cardinality(B)
  BY <1>3, <1>6, FS_Subset, FS_CardinalityType
<1>8. Cardinality(A) # Cardinality(B)
  BY <1>3, <1>4, <1>6, FS_Subset
<1>9. Cardinality(A) + 1 < Cardinality(B) + 1
  BY SMTT(30), <1>6, <1>7, <1>8
<1> QED
  BY <1>9 DEF Rank, A, B

\* Two events have different ranks, and the ranks are 1 up to the number of events.
LEMMA RankIs ==
    ASSUME NEW X, NEW lamport, NEW k, Timed(X, lamport, k)
    PROVE  [x \in X |-> Rank(X, lamport, x)] \in Injection(X, 1..Cardinality(X))
<1> DEFINE R == [x \in X |-> Rank(X, lamport, x)]
<1>1. IsFiniteSet(X) /\ Cardinality(X) \in Nat
  <2>1. IsFiniteSet(1..k)
    BY SMTT(30), FS_Interval DEF Timed
  <2> QED
    BY <2>1, FS_Subset, FS_CardinalityType DEF Timed
<1>2. /\ k \in Nat /\ \A z \in X : z \in 1..k /\ lamport[z] \in Nat
  BY DEF Timed
<1>3. ASSUME NEW x \in X
      PROVE  Rank(X, lamport, x) \in 1..Cardinality(X)
  <2> DEFINE A == {z \in X : Before(lamport, z, x)}
  <2>1. A \in SUBSET X /\ x \notin A
    BY SMTT(30), <1>2 DEF Before
  <2>2. Rank(X, lamport, x) = Cardinality(A) + 1
    BY DEF Rank
  <2> HIDE DEF A
  <2>3. IsFiniteSet(A) /\ Cardinality(A) \in Nat /\ Cardinality(A) <= Cardinality(X)
    BY <1>1, <2>1, FS_Subset, FS_CardinalityType
  <2>4. Cardinality(A) # Cardinality(X)
    BY <1>1, <2>1, FS_Subset
  <2> QED
    BY SMTT(30), <1>1, <2>2, <2>3, <2>4
<1>4. ASSUME NEW x \in X, NEW y \in X, x # y
      PROVE  Rank(X, lamport, x) # Rank(X, lamport, y)
  <2>1. Before(lamport, x, y) \/ Before(lamport, y, x)
    BY SMTT(30), <1>2, <1>4 DEF Before
  <2>2. Rank(X, lamport, x) < Rank(X, lamport, y) \/ Rank(X, lamport, y) < Rank(X, lamport, x)
    BY <2>1, RankGrows
  <2>3. Rank(X, lamport, x) \in Nat /\ Rank(X, lamport, y) \in Nat
    BY SMTT(30), <1>1, <1>3
  <2> QED
    BY SMTT(30), <2>2, <2>3
<1>5. R \in [X -> 1..Cardinality(X)]
  BY <1>3
<1>6. \A x, y \in X : R[x] = R[y] => x = y
  BY <1>4
<1> HIDE DEF R
<1>7. R \in Injection(X, 1..Cardinality(X))
  BY <1>5, <1>6 DEF Injection, IsInjective
<1> QED
  BY <1>7 DEF R

\* The event at place r of the order is the one of rank r.
LEMMA OrderIs ==
    ASSUME NEW X, NEW lamport, NEW k, Timed(X, lamport, k)
    PROVE  /\ DOMAIN FareOrdering(X, lamport) = 1..Cardinality(X)
           /\ \A r \in 1..Cardinality(X) : /\ FareOrdering(X, lamport)[r] \in X
                                           /\ Rank(X, lamport, FareOrdering(X, lamport)[r]) = r
<1> DEFINE R == [x \in X |-> Rank(X, lamport, x)]
           N == 1..Cardinality(X)
<1>1. R \in Injection(X, N)
  BY RankIs
<1>2. IsFiniteSet(X) /\ Cardinality(X) \in Nat
  <2>1. IsFiniteSet(1..k)
    BY SMTT(30), FS_Interval DEF Timed
  <2> QED
    BY <2>1, FS_Subset, FS_CardinalityType DEF Timed
<1>3. IsFiniteSet(N) /\ Cardinality(N) = Cardinality(X)
  BY SMTT(30), <1>2, FS_Interval
<1>4. R \in Surjection(X, N)
  <2> HIDE DEF R, N
  <2> QED
    BY <1>1, <1>3, FS_Injection
<1>5. \A r \in N : \E x \in X : R[x] = r
  <2> HIDE DEF R
  <2> QED
    BY <1>4 DEF Surjection
<1>6. ASSUME NEW r \in N
      PROVE  /\ FareOrdering(X, lamport)[r] \in X
             /\ Rank(X, lamport, FareOrdering(X, lamport)[r]) = r
  <2>1. \E x \in X : Rank(X, lamport, x) = r
    BY <1>5
  <2>2. FareOrdering(X, lamport)[r] = CHOOSE x \in X : Rank(X, lamport, x) = r
    BY DEF FareOrdering
  <2> QED
    BY <2>1, <2>2
<1>7. DOMAIN FareOrdering(X, lamport) = N
  BY DEF FareOrdering
<1> QED
  BY <1>6, <1>7

\* The events of a block are some of those that its Atropos confirms, and an event is
\* not before one that it observes.
LEMMA BlockInOrder ==
    ASSUME NEW E, Graph(E), Lineage(E), NEW cheaters, NEW a, NEW X \in SUBSET DOMAIN E,
           NEW events, events = BlockEvents(E, cheaters, a, X)
    PROVE  /\ \A p \in DOMAIN events : events[p] \in X
           /\ \A p, q \in DOMAIN events : p < q => events[q] \notin E[events[p]].anc
<1> DEFINE allowed == {x \in X : /\ E[x].creator \notin cheaters
                                 /\ IsEventAllowedIntoBlock(x,
                                       HighestSeq(E, a, E[x].creator) - E[x].seq)}
           lamport == [x \in allowed |-> E[x].lamport]
<1>1. events = FareOrdering(allowed, lamport)
  BY DEF BlockEvents
<1>2. allowed \in SUBSET X
  OBVIOUS
<1>3. PICK k \in Nat : DOMAIN E = 1..k
  BY DEF Graph
<1> HIDE DEF allowed
<1>4. \A x \in allowed : x \in 1..k /\ x \in DOMAIN E /\ lamport[x] = E[x].lamport /\ lamport[x] \in Nat
  BY SMTT(30), <1>2, <1>3 DEF Lineage
<1> HIDE DEF lamport
<1>5. Timed(allowed, lamport, k)
  BY <1>3, <1>4 DEF Timed
<1>6. /\ DOMAIN events = 1..Cardinality(allowed)
      /\ \A r \in DOMAIN events : events[r] \in allowed /\ Rank(allowed, lamport, events[r]) = r
  <2>1. /\ DOMAIN FareOrdering(allowed, lamport) = 1..Cardinality(allowed)
        /\ \A r \in 1..Cardinality(allowed) :
              /\ FareOrdering(allowed, lamport)[r] \in allowed
              /\ Rank(allowed, lamport, FareOrdering(allowed, lamport)[r]) = r
    BY <1>5, OrderIs
  <2> QED
    BY ONLY ZenonT(30), <1>1, <2>1
<1>7. ASSUME NEW p \in DOMAIN events, NEW q \in DOMAIN events, p < q,
             events[q] \in E[events[p]].anc
      PROVE  FALSE
  <2> DEFINE x == events[p]
             y == events[q]
  <2>1. /\ x \in allowed /\ y \in allowed
        /\ Rank(allowed, lamport, x) = p /\ Rank(allowed, lamport, y) = q
    BY <1>6
  <2>2. p \in Int /\ q \in Int
    BY SMTT(30), <1>6
  <2> HIDE DEF x, y
  <2>3. y \in E[x].anc
    BY <1>7 DEF x, y
  <2>4. x # y
    BY SMTT(30), <1>7, <2>1, <2>2
  <2>5. lamport[y] < lamport[x]
    BY <1>4, <2>1, <2>3, <2>4 DEF Lineage
  <2>6. Before(lamport, y, x)
    BY <2>5 DEF Before
  <2>7. q < p
    BY <1>5, <2>1, <2>6, RankGrows
  <2> QED
    BY SMTT(30), <1>7, <2>2, <2>7
<1> QED
  BY <1>2, <1>6, <1>7

-----------------------------------------------------------------------------
(***************************************************************************)
(* The chain.                                                              *)
(***************************************************************************)

\* The last block that sealed an epoch is one of them.
LEMMA SealIndexIs ==
    ASSUME NEW C, NEW i \in Nat
    PROVE  SealIndex(C, i) \in 0..i
<1> DEFINE Z == SealsTo(C, i)
<1>1. Z \in SUBSET 0..i
  BY SMTT(30) DEF SealsTo
<1>2. CASE Z = {}
  BY SMTT(30), <1>2 DEF SealIndex, LastOf
<1>3. CASE Z # {}
  <2>1. SealIndex(C, i) = CHOOSE j \in Z : \A l \in Z : j >= l
    BY <1>3 DEF SealIndex, LastOf
  <2> HIDE DEF Z
  <2>2. \E j \in Z : \A l \in Z : j >= l
    BY <1>1, <1>3, Largest
  <2> QED
    BY <1>1, <2>1, <2>2
<1> QED
  BY <1>2, <1>3

\* The block that seals an epoch is the last that did.
LEMMA SealIndexSeal ==
    ASSUME NEW C, NEW n \in Nat, Seals(C, n + 1)
    PROVE  SealIndex(C, n + 1) = n + 1
<1> DEFINE Z == SealsTo(C, n + 1)
<1>1. n + 1 \in Z /\ \A l \in Z : l \in Nat /\ n + 1 >= l
  BY SMTT(30) DEF SealsTo
<1>2. SealIndex(C, n + 1) = CHOOSE j \in Z : \A l \in Z : j >= l
  BY <1>1 DEF SealIndex, LastOf
<1> HIDE DEF Z
<1>3. \A j \in Z : (\A l \in Z : j >= l) => j = n + 1
  BY SMTT(30), <1>1
<1> QED
  BY <1>1, <1>2, <1>3

\* A block that seals no epoch leaves the last seal as it was.
LEMMA SealIndexNone ==
    ASSUME NEW C, NEW n \in Nat, ~Seals(C, n + 1)
    PROVE  SealIndex(C, n + 1) = SealIndex(C, n)
<1>1. \A j : j \in 1..(n + 1) <=> j \in 1..n \/ j = n + 1
  BY SMTT(30)
<1>2. SealsTo(C, n + 1) = SealsTo(C, n)
  BY <1>1 DEF SealsTo
<1> QED
  BY <1>2 DEF SealIndex

\* The validators that the cheaters' blocks leave still have few cheaters; epochs and
\* frames stay in their bounds, and a frame is a block of the epoch.
LEMMA ChainGroup ==
    ASSUME NEW E, NEW C, NEW m, Chain(E, C, m), NEW i \in 0..m
    PROVE  /\ FewCheaters(GroupAt(C, i)) /\ GroupAt(C, i) \in SUBSET Validators
           /\ EpochAt(C, i) \in Nat \ {0}
           /\ FrameAt(C, i) \in 0..(MaxEpochBlocks - 1)
           /\ SealIndex(C, i) \in 0..i /\ SealIndex(C, i) + FrameAt(C, i) = i
<1>1. m \in Nat /\ i \in Nat
  BY SMTT(30) DEF Chain
<1>2. UNION {C[j].cheaters : j \in 1..i} \in SUBSET Cheater
  BY SMTT(30), <1>1 DEF Chain
<1>3. FewCheaters(GroupAt(C, i))
  BY <1>2, FewerCheaters DEF GroupAt
<1>4. MaxEpochBlocks \in Nat \ {0}
  BY PosetAssumption
<1>7. SealIndex(C, i) \in 0..i
  BY <1>1, SealIndexIs
<1>5. CASE i = 0
  <2>1. SealIndex(C, i) + FrameAt(C, i) = i
    BY SMTT(30), <1>5, <1>7 DEF FrameAt
  <2> QED
    BY SMTT(30), <1>3, <1>4, <1>5, <1>7, <2>1 DEF EpochAt, FrameAt, GroupAt
<1>6. CASE i # 0
  <2>1. C[i].epoch \in Nat \ {0} /\ C[i].frame \in 1..MaxEpochBlocks
    BY SMTT(30), <1>1, <1>6 DEF Chain
  <2>2. ~Seals(C, i) => ~(C[i].frame >= MaxEpochBlocks)
    BY DEF Seals, LegacyShouldSealEpoch
  <2>3. SealIndex(C, i) + FrameAt(C, i) = i
    <3>1. i \in 1..m
      BY SMTT(30), <1>1, <1>6
    <3> QED
      BY <3>1 DEF Chain
  <2> QED
    BY SMTT(30), <1>3, <1>4, <1>6, <1>7, <2>1, <2>2, <2>3 DEF EpochAt, FrameAt, GroupAt
<1> QED
  BY <1>5, <1>6

\* Whether the next block seals the epoch depends on the time that the epoch began.
LEMMA NextSeals ==
    ASSUME NEW E, NEW C, NEW m, Chain(E, C, m), NEW i \in 0..m,
           NEW D, \A j \in 1..i : D[j] = C[j], D[i + 1].frame = FrameAt(C, i) + 1
    PROVE  /\ TimeAt(D, i + 1, SealIndex(C, i)) = StartAt(C, i)
           /\ Seals(D, i + 1) <=> LegacyShouldSealEpoch(StartAt(C, i), D[i + 1])
<1> DEFINE l == SealIndex(C, i)
<1>1. m \in Nat /\ i \in Nat
  BY SMTT(30) DEF Chain
<1>2. l \in 0..i /\ l + FrameAt(C, i) = i /\ FrameAt(C, i) \in Nat
  BY SMTT(30), ChainGroup, PosetAssumption
<1> HIDE DEF l
<1>3. (i + 1) - D[i + 1].frame = l
  BY SMTT(30), <1>1, <1>2
<1>4. l \in 1..(i + 1) <=> l \in 1..i
  BY SMTT(30), <1>1, <1>2
<1>5. TimeAt(D, i + 1, l) = TimeAt(C, i, l)
  BY <1>4 DEF TimeAt
<1> QED
  BY <1>3, <1>5 DEF Seals, StartAt, l

\* A block has one Atropos: the graph elects no other after the same blocks.
LEMMA NextAtroposOnce ==
    ASSUME NEW E, Graph(E), NEW C, NEW m, Chain(E, C, m), NEW i \in 0..m,
           NEW a \in NextAtropoi(E, C, i), NEW b \in NextAtropoi(E, C, i)
    PROVE  a = b
<1> DEFINE G == GroupAt(C, i)
           k == EpochAt(C, i)
           f == FrameAt(C, i) + 1
<1>1. FewCheaters(G) /\ f \in Nat
  BY SMTT(30), ChainGroup, PosetAssumption
<1>2. Slice(E, Valid(E, k, G), G, k)
  BY ValidSlice
<1>3. a \in ChooseAtropos(E, Valid(E, k, G), G, f) /\ b \in ChooseAtropos(E, Valid(E, k, G), G, f)
  BY DEF NextAtropoi
<1> HIDE DEF G, k, f
<1> QED
  BY <1>1, <1>2, <1>3, OneAtropos

\* The events of a block follow from what its Atropos observes.
LEMMA BlockEventsStable ==
    ASSUME NEW E, Graph(E), NEW F, Extends(E, F), NEW a \in DOMAIN E, NEW cheaters,
           NEW X \in SUBSET DOMAIN E
    PROVE  BlockEvents(F, cheaters, a, X) = BlockEvents(E, cheaters, a, X)
<1> DEFINE Allowed(D) == {x \in X : /\ D[x].creator \notin cheaters
                                    /\ IsEventAllowedIntoBlock(x,
                                          HighestSeq(D, a, D[x].creator) - D[x].seq)}
<1>1. /\ \A x \in DOMAIN E : F[x] = E[x]
      /\ F[a].anc = E[a].anc /\ E[a].anc \subseteq DOMAIN E
  BY DEF Extends, Graph, Ancestors
<1>2. ASSUME NEW v
      PROVE  HighestSeq(F, a, v) = HighestSeq(E, a, v)
  <2>1. {y \in F[a].anc : F[y].creator = v} = {y \in E[a].anc : E[y].creator = v}
    BY <1>1
  <2>2. {F[x].seq : x \in {y \in F[a].anc : F[y].creator = v}}
          = {E[x].seq : x \in {y \in E[a].anc : E[y].creator = v}}
    BY <1>1, <2>1
  <2> QED
    BY <2>2 DEF HighestSeq
<1>3. Allowed(F) = Allowed(E)
  BY <1>1, <1>2
<1>4. [x \in Allowed(F) |-> F[x].lamport] = [x \in Allowed(E) |-> E[x].lamport]
  BY <1>1, <1>3
<1>5. /\ BlockEvents(F, cheaters, a, X) = FareOrdering(Allowed(F), [x \in Allowed(F) |-> F[x].lamport])
      /\ BlockEvents(E, cheaters, a, X) = FareOrdering(Allowed(E), [x \in Allowed(E) |-> E[x].lamport])
  BY DEF BlockEvents
<1> HIDE DEF Allowed
<1> QED
  BY <1>3, <1>4, <1>5

\* The block of an Atropos is the same when the graph has grown.
LEMMA NextBlockStable ==
    ASSUME NEW E, Graph(E), NEW F, Extends(E, F), NEW C, NEW i,
           \A j \in 1..i : C[j].atropos \in DOMAIN E, NEW a \in DOMAIN E
    PROVE  /\ ConfirmedAt(F, C, i) = ConfirmedAt(E, C, i)
           /\ NextBlock(F, C, i, a) = NextBlock(E, C, i, a)
<1> DEFINE X == E[a].anc \ ConfirmedAt(E, C, i)
           cheaters == {v \in GroupAt(C, i) : SeesFork(E, a, v)}
<1>1. /\ \A x \in DOMAIN E : F[x] = E[x]
      /\ F[a].anc = E[a].anc /\ E[a].anc \subseteq DOMAIN E
  BY DEF Extends, Graph, Ancestors
<1>2. ConfirmedAt(F, C, i) = ConfirmedAt(E, C, i)
  BY <1>1 DEF ConfirmedAt
<1>3. {v \in GroupAt(C, i) : SeesFork(F, a, v)} = cheaters
  BY CauseStable
<1>4. BlockEvents(F, cheaters, a, X) = BlockEvents(E, cheaters, a, X)
  <2>1. X \in SUBSET DOMAIN E
    BY <1>1
  <2> HIDE DEF X, cheaters
  <2> QED
    BY SMTT(30), <2>1, BlockEventsStable
<1>5. {F[x].lamport : x \in X} = {E[x].lamport : x \in X}
  BY <1>1
<1>6. F[a].medianTime = E[a].medianTime
  BY <1>1
<1> QED
  BY <1>1, <1>2, <1>3, <1>4, <1>5, <1>6 DEF NextBlock

\* What the graph has elected it elects when it has grown.
LEMMA NextAtropoiStable ==
    ASSUME NEW E, Graph(E), NEW F, Graph(F), Extends(E, F), NEW C, NEW m, Chain(E, C, m),
           NEW i \in 0..m
    PROVE  NextAtropoi(E, C, i) \subseteq NextAtropoi(F, C, i)
<1> DEFINE G == GroupAt(C, i)
           k == EpochAt(C, i)
           f == FrameAt(C, i) + 1
<1>1. G \in SUBSET Validators /\ f \in Nat
  BY SMTT(30), ChainGroup, PosetAssumption
<1>2. Slice(E, Valid(E, k, G), G, k) /\ Slice(F, Valid(F, k, G), G, k)
  BY ValidSlice
<1>3. Valid(E, k, G) \subseteq Valid(F, k, G)
  BY ValidStable
<1>4. ChooseAtropos(E, Valid(E, k, G), G, f) \subseteq ChooseAtropos(F, Valid(F, k, G), G, f)
  <2> HIDE DEF G, k, f
  <2> QED
    BY <1>1, <1>2, <1>3, AtroposStable
<1> QED
  BY <1>4 DEF NextAtropoi

\* A chain of a graph is one of every graph that extends it.
LEMMA ChainStable ==
    ASSUME NEW E, Graph(E), NEW F, Graph(F), Extends(E, F), NEW C, NEW m, Chain(E, C, m)
    PROVE  Chain(F, C, m)
<1>1. m \in Nat
  BY DEF Chain
<1>2. ASSUME NEW i \in 1..m
      PROVE  /\ C[i].atropos \in DOMAIN F
             /\ C[i].atropos \in NextAtropoi(F, C, i - 1)
             /\ C[i] = NextBlock(F, C, i - 1, C[i].atropos)
  <2>1. /\ C[i].atropos \in DOMAIN E
        /\ C[i].atropos \in NextAtropoi(E, C, i - 1)
        /\ C[i] = NextBlock(E, C, i - 1, C[i].atropos)
    BY <1>1 DEF Chain
  <2>2. i - 1 \in 0..m
    BY SMTT(30), <1>1
  <2>3. NextAtropoi(E, C, i - 1) \subseteq NextAtropoi(F, C, i - 1)
    BY <2>2, NextAtropoiStable
  <2>4. NextBlock(F, C, i - 1, C[i].atropos) = NextBlock(E, C, i - 1, C[i].atropos)
    <3>1. C[i].atropos \in DOMAIN E /\ \A j \in 1..(i - 1) : C[j].atropos \in DOMAIN E
      BY SMTT(30), <1>1 DEF Chain
    <3> QED
      BY ONLY SMTT(30), <3>1, NextBlockStable, Graph(E), Extends(E, F)
  <2> QED
    BY <2>1, <2>3, <2>4 DEF Extends
<1> QED
  BY <1>1, <1>2 DEF Chain

\* The state after i blocks depends on these blocks only.
LEMMA SameBlocks ==
    ASSUME NEW E, NEW C, NEW D, NEW i \in Nat, \A j \in 1..i : D[j] = C[j]
    PROVE  /\ EpochAt(D, i) = EpochAt(C, i)
           /\ FrameAt(D, i) = FrameAt(C, i)
           /\ AtroposAt(D, i) = AtroposAt(C, i)
           /\ GroupAt(D, i) = GroupAt(C, i)
           /\ SealIndex(D, i) = SealIndex(C, i)
           /\ SealAt(D, i) = SealAt(C, i)
           /\ StartAt(D, i) = StartAt(C, i)
           /\ ConfirmedAt(E, D, i) = ConfirmedAt(E, C, i)
           /\ NextAtropoi(E, D, i) = NextAtropoi(E, C, i)
           /\ \A a : NextBlock(E, D, i, a) = NextBlock(E, C, i, a)
<1>1. i # 0 => i \in 1..i
  BY SMTT(30)
<1>2. ASSUME NEW j \in 1..i
      PROVE  \A l : TimeAt(D, j, l) = TimeAt(C, j, l)
  <2>1. \A l \in 1..j : l \in 1..i
    BY SMTT(30)
  <2> QED
    BY <2>1 DEF TimeAt
<1>3. \A l : TimeAt(D, i, l) = TimeAt(C, i, l)
  BY DEF TimeAt
<1>4. \A j \in 1..i : Seals(D, j) <=> Seals(C, j)
  BY <1>2 DEF Seals
<1>5. EpochAt(D, i) = EpochAt(C, i)
  BY <1>1, <1>4 DEF EpochAt
<1>6. FrameAt(D, i) = FrameAt(C, i)
  BY <1>1, <1>4 DEF FrameAt
<1>7. AtroposAt(D, i) = AtroposAt(C, i)
  BY <1>1 DEF AtroposAt
<1>8. GroupAt(D, i) = GroupAt(C, i)
  BY DEF GroupAt
<1>9. SealIndex(D, i) = SealIndex(C, i)
  <2>1. SealsTo(D, i) = SealsTo(C, i)
    BY <1>4 DEF SealsTo
  <2> QED
    BY <2>1 DEF SealIndex
<1>10. SealAt(D, i) = SealAt(C, i)
  <2> DEFINE l == SealIndex(C, i)
  <2>1. l \in 0..i
    BY SealIndexIs
  <2> HIDE DEF l
  <2>2. l = 0 \/ l \in 1..i
    BY SMTT(30), <2>1
  <2>3. AtroposAt(D, l) = AtroposAt(C, l)
    BY <2>2 DEF AtroposAt
  <2> QED
    BY <1>9, <2>3 DEF SealAt, l
<1>11. StartAt(D, i) = StartAt(C, i)
  BY <1>3, <1>9 DEF StartAt
<1>12. ConfirmedAt(E, D, i) = ConfirmedAt(E, C, i)
  BY DEF ConfirmedAt
<1>13. NextAtropoi(E, D, i) = NextAtropoi(E, C, i)
  BY <1>5, <1>6, <1>8 DEF NextAtropoi
<1>14. \A a : NextBlock(E, D, i, a) = NextBlock(E, C, i, a)
  BY <1>3, <1>5, <1>6, <1>7, <1>8, <1>12 DEF NextBlock
<1> QED
  BY <1>5, <1>6, <1>7, <1>8, <1>9, <1>10, <1>11, <1>12, <1>13, <1>14

\* What the blocks have confirmed is closed: with an event, all that it observes.
LEMMA ConfirmedClosed ==
    ASSUME NEW E, Graph(E), NEW C, NEW m, Chain(E, C, m), NEW i \in 0..m
    PROVE  /\ ConfirmedAt(E, C, i) \subseteq DOMAIN E
           /\ \A x \in ConfirmedAt(E, C, i) : E[x].anc \subseteq ConfirmedAt(E, C, i)
<1>1. ASSUME NEW x \in ConfirmedAt(E, C, i)
      PROVE  x \in DOMAIN E /\ E[x].anc \subseteq ConfirmedAt(E, C, i)
  <2>1. PICK j \in 1..i : x \in E[C[j].atropos].anc
    BY DEF ConfirmedAt
  <2>2. j \in 1..m
    BY SMTT(30) DEF Chain
  <2>3. C[j].atropos \in DOMAIN E
    BY <2>2 DEF Chain
  <2>4. x \in DOMAIN E /\ E[x].anc \subseteq E[C[j].atropos].anc
    BY <2>1, <2>3 DEF Graph, Ancestors
  <2> QED
    BY <2>1, <2>4 DEF ConfirmedAt
<1> QED
  BY <1>1

\* The graph elects one of its events.
LEMMA NextInGraph ==
    ASSUME NEW E, NEW C, NEW i, NEW a \in NextAtropoi(E, C, i)
    PROVE  /\ a \in DOMAIN E /\ E[a].epoch = EpochAt(C, i)
           /\ a \in Valid(E, EpochAt(C, i), GroupAt(C, i))
<1>1. a \in Valid(E, EpochAt(C, i), GroupAt(C, i))
  BY DEF NextAtropoi, ChooseAtropos, Roots
<1> QED
  BY <1>1 DEF Valid

\* A chain with the next block is a chain.
LEMMA ChainNext ==
    ASSUME NEW E, Graph(E), NEW C, NEW m, Chain(E, C, m), NEW a \in NextAtropoi(E, C, m),
           NEW D, \A i \in 1..m : D[i] = C[i], D[m + 1] = NextBlock(E, C, m, a)
    PROVE  Chain(E, D, m + 1)
<1>1. m \in Nat /\ m \in 0..m
  BY SMTT(30) DEF Chain
<1>2. ASSUME NEW i \in 0..m
      PROVE  /\ EpochAt(D, i) = EpochAt(C, i)
             /\ FrameAt(D, i) = FrameAt(C, i) /\ SealIndex(D, i) = SealIndex(C, i)
             /\ NextAtropoi(E, D, i) = NextAtropoi(E, C, i)
             /\ \A c : NextBlock(E, D, i, c) = NextBlock(E, C, i, c)
  <2>1. i \in Nat /\ \A j \in 1..i : D[j] = C[j]
    BY SMTT(30), <1>1
  <2> QED
    BY ONLY SMTT(30), <2>1, SameBlocks
<1>3. /\ EpochAt(C, m) \in Nat \ {0} /\ FrameAt(C, m) \in 0..(MaxEpochBlocks - 1)
      /\ MaxEpochBlocks \in Nat \ {0}
  BY <1>1, ChainGroup, PosetAssumption
<1>4. a \in DOMAIN E
  BY NextInGraph
<1>5. /\ D[m + 1].atropos = a /\ D[m + 1].epoch = EpochAt(C, m)
      /\ D[m + 1].frame = FrameAt(C, m) + 1
      /\ D[m + 1].cheaters = {v \in GroupAt(C, m) : SeesFork(E, a, v)}
  BY SMTT(30) DEF NextBlock
<1>6. ASSUME NEW i \in 1..m
      PROVE  /\ D[i].atropos \in DOMAIN E
             /\ D[i].atropos \in NextAtropoi(E, D, i - 1)
             /\ D[i] = NextBlock(E, D, i - 1, D[i].atropos)
             /\ D[i].epoch \in Nat \ {0} /\ D[i].frame \in 1..MaxEpochBlocks
             /\ D[i].cheaters \subseteq Cheater
             /\ SealIndex(D, i) + FrameAt(D, i) = i
             /\ \A j \in i+1..m+1 : EpochAt(D, i) <= D[j].epoch
  <2>1. /\ C[i].atropos \in DOMAIN E
        /\ C[i].atropos \in NextAtropoi(E, C, i - 1)
        /\ C[i] = NextBlock(E, C, i - 1, C[i].atropos)
        /\ C[i].epoch \in Nat \ {0} /\ C[i].frame \in 1..MaxEpochBlocks
        /\ C[i].cheaters \subseteq Cheater
        /\ \A j \in i+1..m : EpochAt(C, i) <= C[j].epoch
    BY DEF Chain
  <2>2. D[i] = C[i] /\ i - 1 \in 0..m /\ i \in 0..m
    BY SMTT(30), <1>1
  <2>3. D[i].atropos \in NextAtropoi(E, D, i - 1)
    BY <1>2, <2>1, <2>2
  <2>4. D[i] = NextBlock(E, D, i - 1, D[i].atropos)
    BY SMTT(30), <1>2, <2>1, <2>2
  <2>5. EpochAt(C, i) <= EpochAt(C, m)
    <3>1. CASE i = m
      <4>1. EpochAt(C, i) = EpochAt(C, m)
        BY <3>1
      <4> QED
        BY SMTT(30), <1>3, <4>1
    <3>2. CASE i # m
      <4>1. m \in i+1..m /\ m \in 1..m
        BY SMTT(30), <1>1, <3>2
      <4>2. EpochAt(C, i) <= C[m].epoch /\ C[m].epoch \in Nat
        BY <2>1, <4>1 DEF Chain
      <4>3. EpochAt(C, m) = C[m].epoch \/ EpochAt(C, m) = C[m].epoch + 1
        BY SMTT(30), <4>1 DEF EpochAt
      <4>4. EpochAt(C, i) \in Nat
        BY <2>2, ChainGroup
      <4> QED
        BY SMTT(30), <4>2, <4>3, <4>4
    <3> QED
      BY <3>1, <3>2
  <2>6. \A j \in i+1..m+1 : EpochAt(D, i) <= D[j].epoch
    <3> SUFFICES ASSUME NEW j \in i+1..m+1
                 PROVE  EpochAt(D, i) <= D[j].epoch
      OBVIOUS
    <3>1. EpochAt(D, i) = EpochAt(C, i)
      BY <1>2, <2>2
    <3>2. CASE j = m + 1
      BY <1>5, <2>5, <3>1, <3>2
    <3>3. CASE j # m + 1
      <4>1. j \in i+1..m /\ j \in 1..m
        BY SMTT(30), <1>1, <3>3
      <4> QED
        BY <2>1, <3>1, <4>1
    <3> QED
      BY <3>2, <3>3
  <2>7. SealIndex(D, i) + FrameAt(D, i) = i
    <3>1. SealIndex(C, i) + FrameAt(C, i) = i
      BY DEF Chain
    <3> QED
      BY <1>2, <2>2, <3>1
  <2> QED
    BY <2>1, <2>2, <2>3, <2>4, <2>6, <2>7
<1>7. D[m + 1].cheaters \subseteq Cheater
  BY <1>4, <1>5, ForkIsCheat
<1>8. /\ D[m + 1].atropos \in NextAtropoi(E, D, m)
      /\ D[m + 1] = NextBlock(E, D, m, a)
  BY <1>1, <1>2, <1>5
<1>9. /\ m + 1 \in Nat /\ (m + 1) - 1 = m /\ \A j : ~(j \in (m+1)+1..m+1)
      /\ \A i \in 1..m+1 : i \in 1..m \/ i = m + 1
  BY SMTT(30), <1>1
<1>10. SealIndex(D, m + 1) + FrameAt(D, m + 1) = m + 1
  <2>1. /\ SealIndex(D, m) = SealIndex(C, m)
        /\ SealIndex(C, m) \in 0..m /\ SealIndex(C, m) + FrameAt(C, m) = m
    <3>1. SealIndex(D, m) = SealIndex(C, m)
      BY <1>1, <1>2
    <3>2. SealIndex(C, m) \in 0..m /\ SealIndex(C, m) + FrameAt(C, m) = m
      BY <1>1, ChainGroup
    <3> QED
      BY <3>1, <3>2
  <2>2. CASE Seals(D, m + 1)
    <3>1. SealIndex(D, m + 1) = m + 1
      BY <1>1, <2>2, SealIndexSeal
    <3>2. FrameAt(D, m + 1) = 0
      BY SMTT(30), <1>1, <2>2 DEF FrameAt
    <3> QED
      BY SMTT(30), <1>1, <3>1, <3>2
  <2>3. CASE ~Seals(D, m + 1)
    <3>1. SealIndex(D, m + 1) = SealIndex(C, m)
      BY <1>1, <2>1, <2>3, SealIndexNone
    <3>2. FrameAt(D, m + 1) = FrameAt(C, m) + 1
      BY SMTT(30), <1>1, <1>5, <2>3 DEF FrameAt
    <3> QED
      BY SMTT(30), <1>1, <1>3, <2>1, <3>1, <3>2
  <2> QED
    BY <2>2, <2>3
<1> QED
  BY SMTT(30), <1>3, <1>4, <1>5, <1>6, <1>7, <1>8, <1>9, <1>10 DEF Chain

\* Along the chain epochs grow,
LEMMA EpochsGrow ==
    ASSUME NEW E, NEW C, NEW m, Chain(E, C, m), NEW i \in 0..m, NEW l \in i+1..m
    PROVE  /\ EpochAt(C, i) <= C[l].epoch /\ C[l].epoch <= EpochAt(C, l)
           /\ Seals(C, l) => EpochAt(C, l) = C[l].epoch + 1
           /\ C[l].epoch \in Nat /\ EpochAt(C, l) \in Nat /\ EpochAt(C, i) \in Nat
<1>1. m \in Nat /\ l \in 1..m /\ l \in 0..m /\ l # 0
  BY SMTT(30) DEF Chain
<1>2. C[l].epoch \in Nat \ {0}
  BY <1>1 DEF Chain
<1>3. /\ C[l].epoch <= EpochAt(C, l)
      /\ Seals(C, l) => EpochAt(C, l) = C[l].epoch + 1
  BY SMTT(30), <1>1, <1>2 DEF EpochAt
<1>4. EpochAt(C, i) <= C[l].epoch
  <2>1. CASE i = 0
    BY SMTT(30), <1>2, <2>1 DEF EpochAt
  <2>2. CASE i # 0
    <3>1. i \in 1..m
      BY SMTT(30), <1>1, <2>2
    <3> QED
      BY <3>1 DEF Chain
  <2> QED
    BY <2>1, <2>2
<1>5. EpochAt(C, l) \in Nat /\ EpochAt(C, i) \in Nat
  BY <1>1, ChainGroup
<1> QED
  BY <1>2, <1>3, <1>4, <1>5

\* and an epoch has one group of validators, one start and one end of the epoch before.
LEMMA SameEpoch ==
    ASSUME NEW E, NEW C, NEW m, Chain(E, C, m), NEW i \in 0..m, NEW j \in i..m,
           EpochAt(C, i) = EpochAt(C, j)
    PROVE  /\ GroupAt(C, i) = GroupAt(C, j) /\ SealAt(C, i) = SealAt(C, j)
           /\ StartAt(C, i) = StartAt(C, j)
<1>0. m \in Nat /\ i \in Nat /\ j \in Nat
  BY SMTT(30) DEF Chain
<1>1. ASSUME NEW l \in i+1..j
      PROVE  ~Seals(C, l)
  <2> SUFFICES ASSUME Seals(C, l) PROVE FALSE
    OBVIOUS
  <2>1. l \in i+1..m /\ l \in 0..m
    BY SMTT(30), <1>0
  <2>2. /\ EpochAt(C, i) <= C[l].epoch /\ EpochAt(C, l) = C[l].epoch + 1
        /\ C[l].epoch \in Nat /\ EpochAt(C, i) \in Nat
    BY <2>1, EpochsGrow
  <2>3. CASE l = j
    BY SMTT(30), <2>2, <2>3
  <2>4. CASE l # j
    <3>1. j \in l+1..m
      BY SMTT(30), <1>0, <2>1, <2>4
    <3>2. EpochAt(C, l) <= C[j].epoch /\ C[j].epoch <= EpochAt(C, j) /\ C[j].epoch \in Nat
      BY <2>1, <3>1, EpochsGrow
    <3> QED
      BY SMTT(30), <2>2, <3>2
  <2> QED
    BY <2>3, <2>4
<1>2. \A l : l \in 1..j <=> l \in 1..i \/ l \in i+1..j
  BY SMTT(30), <1>0
<1>3. \A l \in i+1..j : C[l].cheaters = {}
  BY <1>1 DEF Seals, LegacyShouldSealEpoch
<1>4. GroupAt(C, i) = GroupAt(C, j)
  BY SMTT(30), <1>2, <1>3 DEF GroupAt
<1>5. SealsTo(C, i) = SealsTo(C, j)
  BY <1>1, <1>2 DEF SealsTo
<1>6. SealIndex(C, i) = SealIndex(C, j)
  BY <1>5 DEF SealIndex
<1>7. SealIndex(C, i) \in 0..i
  BY <1>0, SealIndexIs
<1> DEFINE l == SealIndex(C, i)
<1> HIDE DEF l
<1>8. l \in 1..i <=> l \in 1..j
  BY SMTT(30), <1>0, <1>7 DEF l
<1>9. StartAt(C, i) = TimeAt(C, i, l) /\ StartAt(C, j) = TimeAt(C, j, l)
  BY <1>6 DEF StartAt, l
<1>10. TimeAt(C, i, l) = TimeAt(C, j, l)
  BY <1>8 DEF TimeAt
<1>11. SealAt(C, i) = SealAt(C, j)
  BY <1>6 DEF SealAt
<1> QED
  BY <1>4, <1>9, <1>10, <1>11

-----------------------------------------------------------------------------
(***************************************************************************)
(* A node's step along the chain.                                          *)
(***************************************************************************)

\* The walk from the Atropos meets all that it observes and no block before has.
LEMMA WalkedIs ==
    ASSUME Graph(event), NEW S, NEW a \in DOMAIN event, event[a].anc \subseteq EpochEvents(S),
           \A x \in DOMAIN S.confirmedOn : event[x].anc \subseteq DOMAIN S.confirmedOn
    PROVE  Walked(S, a) = event[a].anc \ DOMAIN S.confirmedOn
<1> DEFINE left == EpochEvents(S) \ DOMAIN S.confirmedOn
           W0 == event[a].anc \ DOMAIN S.confirmedOn
           Closed(W) == \A x \in left :
                           (x = a \/ \E y \in W : x \in event[y].parents) => x \in W
<1>1. Ancestors(event, a)
  BY DEF Graph
<1>2. \A y \in event[a].anc : Ancestors(event, y) /\ Header(event, y) /\ y \in DOMAIN event
  BY <1>1 DEF Graph, Ancestors
<1>3. W0 \in SUBSET left
  OBVIOUS
<1>4. Closed(W0)
  <2> SUFFICES ASSUME NEW x \in left, x = a \/ \E y \in W0 : x \in event[y].parents
               PROVE  x \in event[a].anc
    OBVIOUS
  <2>1. CASE x = a
    BY <1>1, <2>1 DEF Ancestors
  <2>2. CASE \E y \in W0 : x \in event[y].parents
    BY <1>1, <1>2, <2>2 DEF Ancestors
  <2> QED
    BY <2>1, <2>2
<1>5. ASSUME NEW W \in SUBSET left, Closed(W), NEW z \in W0, z \notin W
      PROVE  FALSE
  <2> DEFINE Missed == W0 \ W
  <2>1. PICK k \in Nat : DOMAIN event = 1..k
    BY DEF Graph
  <2>2. Missed \in SUBSET 0..k /\ Missed # {}
    BY SMTT(30), <1>2, <1>5, <2>1
  <2>3. PICK x \in Missed : \A y \in Missed : x >= y
    BY <2>1, <2>2, Largest
  <2>4. x \in left /\ x # a
    BY <1>5
  <2>5. PICK y \in event[a].anc : x \in event[y].parents
    BY <1>1, <2>4 DEF Ancestors
  <2>6. x < y /\ x \in event[y].anc /\ x \in Nat /\ y \in Nat
    BY SMTT(30), <1>2, <2>1, <2>5 DEF Ancestors, Header
  <2>7. y \notin DOMAIN S.confirmedOn
    BY <2>6
  <2>8. y \notin W
    BY <1>5, <2>4, <2>5
  <2>9. y \in Missed
    BY <2>5, <2>7, <2>8
  <2> QED
    BY SMTT(30), <2>3, <2>6, <2>9
<1>6. Walked(S, a) = {x \in left : \A W \in {V \in SUBSET left : Closed(V)} : x \in W}
  BY DEF Walked
<1> HIDE DEF Closed, W0, left
<1>7. ASSUME NEW x
      PROVE  x \in Walked(S, a) <=> x \in W0
  BY <1>3, <1>4, <1>5, <1>6
<1> QED
  BY <1>7 DEF W0

\* A store is what its fields are.
LEMMA EventsField ==
    ASSUME NEW E, NEW C, NEW m, NEW S, StoreOK(E, C, m, S), NEW id
    PROVE  [S EXCEPT !.events = @ \cup {id}] =
                [events |-> S.events \cup {id}, epoch |-> S.epoch, validators |-> S.validators,
                 prevEpoch |-> S.prevEpoch, lastDecidedFrame |-> S.lastDecidedFrame,
                 lastAtropos |-> S.lastAtropos, confirmedOn |-> S.confirmedOn,
                 blocks |-> S.blocks, lastVoting |-> S.lastVoting,
                 prevTime |-> S.prevTime, epochStart |-> S.epochStart]
<1>1. S = [events |-> S.events, epoch |-> S.epoch, validators |-> S.validators,
           prevEpoch |-> S.prevEpoch, lastDecidedFrame |-> S.lastDecidedFrame,
           lastAtropos |-> S.lastAtropos, confirmedOn |-> S.confirmedOn,
           blocks |-> S.blocks, lastVoting |-> S.lastVoting,
           prevTime |-> S.prevTime, epochStart |-> S.epochStart]
  BY DEF StoreOK
<1> QED
  BY ONLY SMTT(30), <1>1

Confirmations(S, b) ==
    [x \in DOMAIN S.confirmedOn \cup Walked(S, b.atropos) |->
        IF x \in DOMAIN S.confirmedOn THEN S.confirmedOn[x] ELSE b.frame]

AfterDecide(S, b) ==
    [events |-> S.events, epoch |-> S.epoch, validators |-> S.validators,
     prevEpoch |-> S.prevEpoch, lastDecidedFrame |-> b.frame, lastAtropos |-> b.atropos,
     confirmedOn |-> Confirmations(S, b), blocks |-> Append(S.blocks, b),
     lastVoting |-> S.lastVoting,
     prevTime |-> S.prevTime, epochStart |-> S.epochStart]

AfterSeal(S, b) ==
    [events |-> S.events, epoch |-> S.epoch + 1, validators |-> S.validators \ b.cheaters,
     prevEpoch |-> b.atropos, lastDecidedFrame |-> 0, lastAtropos |-> b.atropos,
     confirmedOn |-> Confirmations(S, b), blocks |-> Append(S.blocks, b),
     lastVoting |-> [block |-> b.index, time |-> b.time],
     prevTime |-> b.time, epochStart |-> b.time]

\* The record that onFrameDecided leaves, field by field.
LEMMA StoreFields ==
    ASSUME NEW E, NEW C, NEW m, NEW S, StoreOK(E, C, m, S), NEW b
    PROVE  Decide(S, b) = AfterDecide(S, b) /\ SealEpoch(Decide(S, b), b) = AfterSeal(S, b)
<1>1. S = [events |-> S.events, epoch |-> S.epoch, validators |-> S.validators,
           prevEpoch |-> S.prevEpoch, lastDecidedFrame |-> S.lastDecidedFrame,
           lastAtropos |-> S.lastAtropos, confirmedOn |-> S.confirmedOn,
           blocks |-> S.blocks, lastVoting |-> S.lastVoting,
           prevTime |-> S.prevTime, epochStart |-> S.epochStart]
  BY DEF StoreOK
<1> DEFINE D == Decide(S, b)
           conf == Confirmations(S, b)
           chain == Append(S.blocks, b)
           voting == [block |-> b.index, time |-> b.time]
<1>2. D = [S EXCEPT !.lastDecidedFrame = b.frame, !.lastAtropos = b.atropos,
                    !.confirmedOn = conf, !.blocks = chain]
  BY DEF Decide, Confirmations
<1> HIDE DEF D, conf, chain, voting
<1>3. D = [events |-> S.events, epoch |-> S.epoch, validators |-> S.validators,
           prevEpoch |-> S.prevEpoch, lastDecidedFrame |-> b.frame,
           lastAtropos |-> b.atropos, confirmedOn |-> conf, blocks |-> chain,
           lastVoting |-> S.lastVoting,
           prevTime |-> S.prevTime, epochStart |-> S.epochStart]
  BY ONLY ZenonT(30), <1>1, <1>2
<1>4. SealEpoch(D, b) = [D EXCEPT !.epoch = D.epoch + 1, !.prevEpoch = b.atropos,
                                  !.validators = D.validators \ b.cheaters,
                                  !.lastDecidedFrame = 0, !.lastVoting = voting,
                                  !.prevTime = b.time, !.epochStart = b.time]
  <2> DEFINE new == D.epoch + 1
             group == D.validators \ b.cheaters
  <2>1. SealEpoch(D, b) = [D EXCEPT !.epoch = new, !.prevEpoch = b.atropos, !.prevTime = b.time,
                                    !.validators = group, !.lastDecidedFrame = 0,
                                    !.lastVoting = voting, !.epochStart = b.time]
    BY DEF SealEpoch, SelectValidatorsGroup, voting
  <2> HIDE DEF new, group
  <2>2. SealEpoch(D, b) = [D EXCEPT !.epoch = new, !.prevEpoch = b.atropos,
                                    !.validators = group, !.lastDecidedFrame = 0,
                                    !.lastVoting = voting,
                                    !.prevTime = b.time, !.epochStart = b.time]
    BY ONLY ZenonT(30), <1>3, <2>1
  <2> QED
    BY <2>2 DEF new, group
<1>5. SealEpoch(D, b) =
          [events |-> S.events, epoch |-> S.epoch + 1, validators |-> S.validators \ b.cheaters,
           prevEpoch |-> b.atropos, lastDecidedFrame |-> 0,
           lastAtropos |-> b.atropos, confirmedOn |-> conf, blocks |-> chain,
           lastVoting |-> voting, prevTime |-> b.time, epochStart |-> b.time]
  <2> DEFINE next == S.epoch + 1
             group == S.validators \ b.cheaters
  <2>1. D.epoch = S.epoch /\ D.validators = S.validators
    BY ONLY ZenonT(30), <1>3
  <2>2. SealEpoch(D, b) = [D EXCEPT !.epoch = next, !.prevEpoch = b.atropos,
                                    !.validators = group, !.lastDecidedFrame = 0,
                                    !.lastVoting = voting,
                                    !.prevTime = b.time, !.epochStart = b.time]
    BY ONLY ZenonT(30), <1>4, <2>1
  <2> HIDE DEF next, group
  <2>3. SealEpoch(D, b) =
            [events |-> S.events, epoch |-> next, validators |-> group,
             prevEpoch |-> b.atropos, lastDecidedFrame |-> 0,
             lastAtropos |-> b.atropos, confirmedOn |-> conf, blocks |-> chain,
             lastVoting |-> voting, prevTime |-> b.time, epochStart |-> b.time]
    BY ONLY ZenonT(90), <1>3, <2>2
  <2> QED
    BY <2>3 DEF next, group
<1> QED
  BY <1>3, <1>5 DEF AfterDecide, AfterSeal, D, conf, chain, voting

\* The Atropos that a node elects is the one that the graph elects.
LEMMA ElectedNext ==
    ASSUME Graph(event), NEW C, NEW m, Chain(event, C, m), NEW S, StoreOK(event, C, m, S),
           NEW a \in Elected(S)
    PROVE  /\ a \in NextAtropoi(event, C, Len(S.blocks))
           /\ a \in EpochEvents(S) /\ event[a].anc \subseteq EpochEvents(S)
<1> DEFINE n == Len(S.blocks)
           X == {i \in S.events : event[i].epoch = S.epoch}
           G == GroupAt(C, n)
           k == EpochAt(C, n)
           f == FrameAt(C, n) + 1
<1>1. n \in Nat /\ n \in 0..m
  BY SMTT(30) DEF StoreOK, Chain
<1>2. /\ S.epoch = k /\ S.validators = G /\ S.lastDecidedFrame + 1 = f
      /\ Slice(event, X, G, k)
  BY DEF StoreOK
<1>3. EpochEvents(S) = X
  BY DEF EpochEvents
<1>4. a \in ChooseAtropos(event, X, G, f)
  BY <1>2, <1>3 DEF Elected
<1>5. G \in SUBSET Validators /\ f \in Nat
  BY SMTT(30), <1>1, ChainGroup, PosetAssumption
<1>6. Slice(event, Valid(event, k, G), G, k)
  BY ValidSlice
<1>7. X \subseteq Valid(event, k, G)
  BY <1>2, SliceValid
<1>8. Extends(event, event)
  BY DEF Extends
<1>9. a \in X
  BY <1>4 DEF ChooseAtropos, Roots
<1>10. event[a].anc \subseteq X
  BY <1>2, <1>9 DEF Slice
<1>11. ChooseAtropos(event, X, G, f) \subseteq ChooseAtropos(event, Valid(event, k, G), G, f)
  <2> HIDE DEF X, G, k, f
  <2> QED
    BY SMTT(30), <1>2, <1>5, <1>6, <1>7, <1>8, AtroposStable
<1> QED
  BY <1>3, <1>4, <1>9, <1>10, <1>11 DEF NextAtropoi

\* The block that a node builds is the next of the chain.
LEMMA ConfirmedNext ==
    ASSUME Graph(event), NEW C, NEW m, Chain(event, C, m), NEW S, StoreOK(event, C, m, S),
           NEW a \in Elected(S)
    PROVE  /\ Walked(S, a) = event[a].anc \ ConfirmedAt(event, C, Len(S.blocks))
           /\ ConfirmBlock(S, a) = NextBlock(event, C, Len(S.blocks), a)
<1> DEFINE n == Len(S.blocks)
<1>1. n \in Nat /\ n \in 0..m
  BY SMTT(30) DEF StoreOK, Chain
<1>2. a \in EpochEvents(S) /\ event[a].anc \subseteq EpochEvents(S)
  BY ElectedNext
<1>3. a \in DOMAIN event
  BY <1>2 DEF EpochEvents, StoreOK
<1>4. /\ DOMAIN S.confirmedOn = ConfirmedAt(event, C, n)
      /\ S.epoch = EpochAt(C, n) /\ S.lastDecidedFrame = FrameAt(C, n)
      /\ S.lastAtropos = AtroposAt(C, n) /\ S.validators = GroupAt(C, n)
  BY DEF StoreOK
<1>5. \A x \in DOMAIN S.confirmedOn : event[x].anc \subseteq DOMAIN S.confirmedOn
  BY <1>1, <1>4, ConfirmedClosed
<1>6. Walked(S, a) = event[a].anc \ DOMAIN S.confirmedOn
  BY <1>2, <1>3, <1>5, WalkedIs
<1>7. Cheaters(S, a) = {v \in GroupAt(C, n) : SeesFork(event, a, v)}
  BY <1>4 DEF Cheaters
<1>8. FrameConsensusTime(S) = TimeAt(C, n, n)
  <2>1. SealIndex(C, n) \in 0..n /\ SealIndex(C, n) + FrameAt(C, n) = n
    BY <1>1, ChainGroup
  <2>2. CASE S.lastDecidedFrame = 0
    <3>1. SealIndex(C, n) = n
      BY SMTT(30), <1>1, <1>4, <2>1, <2>2
    <3>2. FrameConsensusTime(S) = StartAt(C, n)
      BY <2>2 DEF FrameConsensusTime, StoreOK
    <3> QED
      BY <3>1, <3>2 DEF StartAt
  <2>3. CASE S.lastDecidedFrame # 0
    <3>1. n # 0
      BY <1>4, <2>3 DEF FrameAt
    <3>2. n \in 1..n
      BY SMTT(30), <1>1, <3>1
    <3>3. S.blocks[n] = C[n]
      BY <3>2 DEF StoreOK
    <3> QED
      BY <2>3, <3>2, <3>3 DEF FrameConsensusTime, TimeAt
  <2> QED
    BY <2>2, <2>3
<1> DEFINE T == FrameConsensusTime(S)
<1> HIDE DEF T
<1>9. ConfirmBlock(S, a) =
          [index |-> n + 1, epoch |-> S.epoch, frame |-> S.lastDecidedFrame + 1,
           atropos |-> a, prev |-> S.lastAtropos, cheaters |-> Cheaters(S, a),
           events |-> BlockEvents(event, Cheaters(S, a), a, Walked(S, a)),
           time |-> FareTimestamps(T, event[a].medianTime,
                                   {event[x].lamport : x \in Walked(S, a)})]
  BY DEF ConfirmBlock, T
<1>10. T = TimeAt(C, n, n)
  BY <1>8 DEF T
<1> QED
  BY <1>4, <1>6, <1>7, <1>9, <1>10 DEF NextBlock

\* app and gossip agree on when an epoch is sealed.
LEMMA SealsAlike ==
    ASSUME Graph(event), NEW C, NEW m, Chain(event, C, m), NEW S, StoreOK(event, C, m, S), NEW a
    PROVE  ShouldSealEpoch(S.lastVoting, ConfirmBlock(S, a))
             <=> LegacyShouldSealEpoch(S.epochStart, ConfirmBlock(S, a))
<1> DEFINE n == Len(S.blocks)
           b == ConfirmBlock(S, a)
<1>1. n \in Nat /\ n \in 0..m
  BY SMTT(30) DEF StoreOK, Chain
<1>2. S.lastVoting = [block |-> SealIndex(C, n), time |-> S.epochStart]
  BY DEF StoreOK
<1>3. S.lastVoting.block = SealIndex(C, n) /\ S.lastVoting.time = S.epochStart
  <2> DEFINE k == SealIndex(C, n)
             v == S.lastVoting
             t == S.epochStart
  <2> HIDE DEF k, v, t
  <2>1. v = [block |-> k, time |-> t]
    BY <1>2 DEF k, v, t
  <2>2. v.block = k /\ v.time = t
    BY ONLY SMTT(30), <2>1
  <2> QED
    BY <2>2 DEF k, v, t
<1>4. /\ SealIndex(C, n) \in 0..n /\ SealIndex(C, n) + FrameAt(C, n) = n
      /\ S.lastDecidedFrame = FrameAt(C, n) /\ FrameAt(C, n) \in 0..(MaxEpochBlocks - 1)
  <2>1. S.lastDecidedFrame = FrameAt(C, n)
    BY DEF StoreOK
  <2>2. /\ SealIndex(C, n) \in 0..n /\ SealIndex(C, n) + FrameAt(C, n) = n
        /\ FrameAt(C, n) \in 0..(MaxEpochBlocks - 1)
    <3> HIDE DEF n
    <3> QED
      BY <1>1, ChainGroup
  <2> QED
    BY <2>1, <2>2
<1>5. b.index = n + 1 /\ b.frame = S.lastDecidedFrame + 1
  BY DEF ConfirmBlock
<1> HIDE DEF b, n
<1>6. b.index - S.lastVoting.block = b.frame
  BY SMTT(30), <1>1, <1>3, <1>4, <1>5, PosetAssumption
<1> QED
  BY <1>3, <1>6 DEF ShouldSealEpoch, LegacyShouldSealEpoch, b

\* A sequence over a set is one over every larger set.
LEMMA SeqSubset ==
    ASSUME NEW A, NEW B, A \subseteq B, NEW s \in Seq(A)
    PROVE  s \in Seq(B)
<1>1. Len(s) \in Nat /\ s \in [1..Len(s) -> A]
  BY SMTT(30)
<1>2. s \in [1..Len(s) -> B]
  BY <1>1
<1> QED
  BY SMTT(30), <1>1, <1>2

\* A store stays right when other nodes add blocks to the chain,
LEMMA StoreExtends ==
    ASSUME NEW E, NEW C, NEW m \in Nat, NEW S, StoreOK(E, C, m, S),
           NEW D, NEW p \in Nat, m <= p, \A i \in 1..m : D[i] = C[i]
    PROVE  StoreOK(E, D, p, S)
<1> DEFINE n == Len(S.blocks)
<1>1. S.blocks \in Seq({C[i] : i \in 1..m}) /\ n <= m
  BY DEF StoreOK
<1>2. n \in Nat /\ n <= p /\ \A i \in 1..n : i \in 1..m /\ D[i] = C[i]
  BY SMTT(30), <1>1
<1>3. {C[i] : i \in 1..m} \subseteq {D[i] : i \in 1..p}
  <2> SUFFICES ASSUME NEW i \in 1..m PROVE \E j \in 1..p : C[i] = D[j]
    OBVIOUS
  <2> QED
    BY SMTT(30)
<1>4. S.blocks \in Seq({D[i] : i \in 1..p})
  BY <1>1, <1>3, SeqSubset
<1>5. \A i \in 1..n : S.blocks[i] = D[i]
  BY <1>2 DEF StoreOK
<1>6. /\ EpochAt(D, n) = EpochAt(C, n) /\ FrameAt(D, n) = FrameAt(C, n)
      /\ AtroposAt(D, n) = AtroposAt(C, n) /\ GroupAt(D, n) = GroupAt(C, n)
      /\ SealAt(D, n) = SealAt(C, n)
      /\ SealIndex(D, n) = SealIndex(C, n) /\ StartAt(D, n) = StartAt(C, n)
      /\ ConfirmedAt(E, D, n) = ConfirmedAt(E, C, n)
  BY <1>2, SameBlocks
<1> HIDE DEF n
<1> QED
  BY <1>2, <1>4, <1>5, <1>6 DEF StoreOK, n

\* and when the graph grows.
LEMMA StoreGrows ==
    ASSUME NEW E, Graph(E), NEW F, Extends(E, F), NEW C, NEW m, Chain(E, C, m),
           NEW S, StoreOK(E, C, m, S)
    PROVE  StoreOK(F, C, m, S)
<1> DEFINE n == Len(S.blocks)
           X == {i \in S.events : E[i].epoch = S.epoch}
<1>1. n \in Nat /\ n <= m /\ m \in Nat
  BY SMTT(30) DEF StoreOK, Chain
<1>2. S.events \subseteq DOMAIN E
  BY DEF StoreOK
<1>3. S.events \subseteq DOMAIN F /\ \A i \in S.events : F[i] = E[i]
  BY <1>2 DEF Extends
<1>4. {i \in S.events : F[i].epoch = S.epoch} = X
  BY <1>3
<1>5. Slice(F, X, S.validators, S.epoch)
  BY SliceStable DEF StoreOK
<1>6. \A j \in 1..n : C[j].atropos \in DOMAIN E
  BY SMTT(30), <1>1 DEF Chain
<1>7. ConfirmedAt(F, C, n) = ConfirmedAt(E, C, n)
  BY SMTT(30), <1>6 DEF ConfirmedAt, Extends
<1>8. \A i \in S.events : F[i].epoch <= S.epoch
  BY <1>3 DEF StoreOK
<1> HIDE DEF n, X
<1> QED
  BY <1>3, <1>4, <1>5, <1>7, <1>8 DEF StoreOK, n

\* A node that has what an event observes connects it.
LEMMA StoreConnects ==
    ASSUME NEW E, Graph(E), NEW C, NEW m, NEW S, StoreOK(E, C, m, S),
           NEW id \in DOMAIN E, E[id].epoch = S.epoch, E[id].anc \subseteq S.events \cup {id},
           E[id].creator \in S.validators, RootOK(E, S.validators, id)
    PROVE  StoreOK(E, C, m, [S EXCEPT !.events = @ \cup {id}])
<1> DEFINE T == [events |-> S.events \cup {id}, epoch |-> S.epoch, validators |-> S.validators,
                 prevEpoch |-> S.prevEpoch, lastDecidedFrame |-> S.lastDecidedFrame,
                 lastAtropos |-> S.lastAtropos, confirmedOn |-> S.confirmedOn,
                 blocks |-> S.blocks, lastVoting |-> S.lastVoting,
                 prevTime |-> S.prevTime, epochStart |-> S.epochStart]
           X == {i \in S.events : E[i].epoch = S.epoch}
           Y == {i \in T.events : E[i].epoch = T.epoch}
<1>1. [S EXCEPT !.events = @ \cup {id}] = T
  BY EventsField
<1>2. Slice(E, X, S.validators, S.epoch) /\ S.events \subseteq DOMAIN E
  BY DEF StoreOK
<1>3. Y = X \cup {id}
  OBVIOUS
<1>4. E[id].anc \subseteq X \cup {id}
  BY DEF Graph, Ancestors
<1>5. Slice(E, Y, S.validators, S.epoch)
  <2> SUFFICES ASSUME NEW i \in Y
               PROVE  /\ i \in DOMAIN E /\ E[i].epoch = S.epoch
                      /\ E[i].anc \subseteq Y
                      /\ E[i].creator \in S.validators
                      /\ RootOK(E, S.validators, i)
    BY DEF Slice
  <2>1. CASE i \in X
    BY <1>2, <1>3, <2>1 DEF Slice
  <2>2. CASE i = id
    BY <1>3, <1>4, <2>2
  <2> QED
    BY <1>3, <2>1, <2>2
<1>6. \A i \in T.events : E[i].epoch <= S.epoch
  <2>1. E[id].epoch \in Nat
    BY DEF Graph, Header
  <2> QED
    BY SMTT(30), <2>1 DEF StoreOK
<1>7. /\ T = [events |-> T.events, epoch |-> T.epoch, validators |-> T.validators,
              prevEpoch |-> T.prevEpoch, lastDecidedFrame |-> T.lastDecidedFrame,
              lastAtropos |-> T.lastAtropos, confirmedOn |-> T.confirmedOn,
              blocks |-> T.blocks, lastVoting |-> T.lastVoting,
              prevTime |-> T.prevTime, epochStart |-> T.epochStart]
      /\ T.events = S.events \cup {id} /\ T.epoch = S.epoch /\ T.validators = S.validators
      /\ T.lastDecidedFrame = S.lastDecidedFrame /\ T.lastAtropos = S.lastAtropos
      /\ T.confirmedOn = S.confirmedOn /\ T.blocks = S.blocks /\ T.lastVoting = S.lastVoting
      /\ T.prevEpoch = S.prevEpoch /\ T.prevTime = S.prevTime /\ T.epochStart = S.epochStart
  OBVIOUS
<1>8. Slice(E, {i \in T.events : E[i].epoch = T.epoch}, T.validators, T.epoch)
  BY <1>5
<1> HIDE DEF T, X, Y
<1>9. StoreOK(E, C, m, T)
  BY <1>2, <1>6, <1>7, <1>8 DEF StoreOK
<1> QED
  BY <1>1, <1>9

\* A node that has decided a frame has the next block of the chain.
LEMMA StoreDecides ==
    ASSUME Graph(event), NEW C, NEW m, Chain(event, C, m), NEW S, StoreOK(event, C, m, S),
           NEW a \in Elected(S), NEW b, b = ConfirmBlock(S, a),
           Len(S.blocks) + 1 <= m, C[Len(S.blocks) + 1] = b
    PROVE  StoreOK(event, C, m,
                   IF LegacyShouldSealEpoch(S.epochStart, b) THEN SealEpoch(Decide(S, b), b)
                                                             ELSE Decide(S, b))
<1> DEFINE n == Len(S.blocks)
           seal == LegacyShouldSealEpoch(S.epochStart, b)
           conf == Confirmations(S, b)
           epoch == IF seal THEN S.epoch + 1 ELSE S.epoch
           group == S.validators \ b.cheaters
           prev == IF seal THEN b.atropos ELSE S.prevEpoch
           frame == IF seal THEN 0 ELSE b.frame
           last == [block |-> b.index, time |-> b.time]
           voting == IF seal THEN last ELSE S.lastVoting
           since == IF seal THEN b.time ELSE S.prevTime
           start == IF seal THEN b.time ELSE S.epochStart
           chain == Append(S.blocks, b)
           T == [events |-> S.events, epoch |-> epoch, validators |-> group,
                 prevEpoch |-> prev, lastDecidedFrame |-> frame,
                 lastAtropos |-> b.atropos, confirmedOn |-> conf,
                 blocks |-> chain, lastVoting |-> voting,
                 prevTime |-> since, epochStart |-> start]
<1>1. /\ b.index = n + 1 /\ b.frame = S.lastDecidedFrame + 1 /\ b.epoch = S.epoch
      /\ b.atropos = a
  BY SMTT(30) DEF ConfirmBlock
<1>2. ~seal => b.cheaters = {}
  BY DEF LegacyShouldSealEpoch
<1>3. (IF seal THEN SealEpoch(Decide(S, b), b) ELSE Decide(S, b)) = T
  <2>1. Decide(S, b) = AfterDecide(S, b) /\ SealEpoch(Decide(S, b), b) = AfterSeal(S, b)
    BY StoreFields
  <2>2. /\ seal => /\ epoch = S.epoch + 1 /\ prev = b.atropos /\ frame = 0 /\ voting = last
                   /\ since = b.time /\ start = b.time
        /\ ~seal => /\ epoch = S.epoch /\ prev = S.prevEpoch /\ frame = b.frame
                    /\ voting = S.lastVoting /\ group = S.validators
                    /\ since = S.prevTime /\ start = S.epochStart
    BY <1>2
  <2>3. /\ AfterDecide(S, b) =
              [events |-> S.events, epoch |-> S.epoch, validators |-> S.validators,
               prevEpoch |-> S.prevEpoch, lastDecidedFrame |-> b.frame,
               lastAtropos |-> b.atropos, confirmedOn |-> conf,
               blocks |-> chain, lastVoting |-> S.lastVoting,
               prevTime |-> S.prevTime, epochStart |-> S.epochStart]
        /\ AfterSeal(S, b) =
              [events |-> S.events, epoch |-> S.epoch + 1, validators |-> group,
               prevEpoch |-> b.atropos, lastDecidedFrame |-> 0,
               lastAtropos |-> b.atropos, confirmedOn |-> conf,
               blocks |-> chain, lastVoting |-> last,
               prevTime |-> b.time, epochStart |-> b.time]
    BY DEF AfterDecide, AfterSeal
  <2> HIDE DEF seal, conf, epoch, group, prev, frame, last, voting, since, start, chain
  <2> QED
    BY ONLY <2>1, <2>2, <2>3, ZenonT(30) DEF T
<1>4. /\ n \in Nat /\ m \in Nat /\ n \in 0..m /\ n + 1 \in 0..m
      /\ S.epoch \in Nat /\ S.lastDecidedFrame \in Nat /\ MaxEpochBlocks \in Nat
  <2>1. n \in Nat /\ m \in Nat /\ n \in 0..m /\ n + 1 \in 0..m
    BY SMTT(30) DEF StoreOK, Chain
  <2>2. EpochAt(C, n) \in Nat /\ FrameAt(C, n) \in Nat /\ MaxEpochBlocks \in Nat
    BY SMTT(30), <2>1, ChainGroup, PosetAssumption
  <2> QED
    BY <2>1, <2>2 DEF StoreOK
<1>5. /\ chain \in Seq({C[i] : i \in 1..m})
      /\ Len(chain) = n + 1
      /\ \A i \in 1..(n + 1) : chain[i] = C[i]
  <2>1. n + 1 \in 1..m
    BY SMTT(30), <1>4
  <2>2. b \in {C[i] : i \in 1..m}
    BY <2>1
  <2> QED
    BY SMTT(30), <1>4, <2>2 DEF StoreOK
<1>20. /\ TimeAt(C, n + 1, SealIndex(C, n)) = StartAt(C, n)
       /\ Seals(C, n + 1) <=> seal
  <2>1. C[n + 1].frame = FrameAt(C, n) + 1 /\ S.epochStart = StartAt(C, n)
    BY <1>1 DEF StoreOK
  <2> QED
    BY <1>4, <2>1, NextSeals
<1>6. epoch = EpochAt(C, n + 1)
  <2> HIDE DEF seal
  <2> QED
    BY SMTT(30), <1>1, <1>4, <1>20 DEF EpochAt
<1>7. frame = FrameAt(C, n + 1)
  <2> HIDE DEF seal
  <2> QED
    BY SMTT(30), <1>1, <1>4, <1>20 DEF FrameAt
<1>8. b.atropos = AtroposAt(C, n + 1)
  BY SMTT(30), <1>4 DEF AtroposAt
<1>9. \A j : j \in 1..(n + 1) <=> j \in 1..n \/ j = n + 1
  BY SMTT(30), <1>4
<1>10. group = GroupAt(C, n + 1)
  <2>1. S.validators = Validators \ UNION {C[j].cheaters : j \in 1..n}
    BY DEF StoreOK, GroupAt
  <2> QED
    BY SMTT(30), <1>9, <2>1 DEF GroupAt
<1>11. DOMAIN conf = ConfirmedAt(event, C, n + 1)
  <2>1. Walked(S, a) = event[a].anc \ ConfirmedAt(event, C, n)
    BY ConfirmedNext
  <2>2. DOMAIN S.confirmedOn = ConfirmedAt(event, C, n)
    BY DEF StoreOK
  <2>3. DOMAIN conf = ConfirmedAt(event, C, n) \cup event[a].anc
    BY <1>1, <2>1, <2>2 DEF Confirmations
  <2>4. ConfirmedAt(event, C, n + 1) = ConfirmedAt(event, C, n) \cup event[a].anc
    BY <1>1, <1>9 DEF ConfirmedAt
  <2> QED
    BY <2>3, <2>4
<1>12. Slice(event, {i \in S.events : event[i].epoch = epoch}, group, epoch)
  <2>1. CASE seal
    <3>1. \A i \in S.events : event[i].epoch \in Nat /\ event[i].epoch <= S.epoch
      BY DEF StoreOK, Graph, Header
    <3>2. {i \in S.events : event[i].epoch = epoch} = {}
      BY SMTT(30), <1>4, <2>1, <3>1
    <3> QED
      BY <3>2 DEF Slice
  <2>2. CASE ~seal
    <3>1. group = S.validators /\ epoch = S.epoch
      BY <1>2, <2>2
    <3> QED
      BY <3>1 DEF StoreOK
  <2> QED
    BY <2>1, <2>2
<1>13. \A i \in S.events : event[i].epoch <= epoch
  <2>1. \A i \in S.events : event[i].epoch \in Nat /\ event[i].epoch <= S.epoch
    BY DEF StoreOK, Graph, Header
  <2> QED
    BY SMTT(30), <1>4, <2>1
<1>14. /\ prev = SealAt(C, n + 1) /\ since = StartAt(C, n + 1) /\ start = StartAt(C, n + 1)
       /\ voting = [block |-> SealIndex(C, n + 1), time |-> StartAt(C, n + 1)]
  <2>1. CASE seal
    <3>1. SealIndex(C, n + 1) = n + 1
      BY <1>4, <1>20, <2>1, SealIndexSeal
    <3>2. n + 1 \in 1..(n + 1)
      BY SMTT(30), <1>4
    <3>3. StartAt(C, n + 1) = b.time
      BY <3>1, <3>2 DEF StartAt, TimeAt
    <3>4. voting = [block |-> n + 1, time |-> b.time]
      BY <1>1, <2>1
    <3> HIDE DEF seal
    <3> QED
      BY <1>8, <2>1, <3>1, <3>3, <3>4 DEF SealAt
  <2>2. CASE ~seal
    <3>1. SealIndex(C, n + 1) = SealIndex(C, n)
      BY <1>4, <1>20, <2>2, SealIndexNone
    <3>2. StartAt(C, n + 1) = StartAt(C, n)
      BY <1>20, <3>1 DEF StartAt
    <3>3. SealAt(C, n + 1) = SealAt(C, n)
      BY <3>1 DEF SealAt
    <3>4. /\ S.prevEpoch = SealAt(C, n) /\ S.prevTime = StartAt(C, n) /\ S.epochStart = StartAt(C, n)
          /\ S.lastVoting = [block |-> SealIndex(C, n), time |-> StartAt(C, n)]
      BY DEF StoreOK
    <3> HIDE DEF seal
    <3> QED
      BY <2>2, <3>1, <3>2, <3>3, <3>4
  <2> QED
    BY <2>1, <2>2
<1>15. /\ T = [events |-> T.events, epoch |-> T.epoch, validators |-> T.validators,
               prevEpoch |-> T.prevEpoch, lastDecidedFrame |-> T.lastDecidedFrame,
               lastAtropos |-> T.lastAtropos, confirmedOn |-> T.confirmedOn,
               blocks |-> T.blocks, lastVoting |-> T.lastVoting,
               prevTime |-> T.prevTime, epochStart |-> T.epochStart]
       /\ T.events = S.events /\ T.epoch = epoch /\ T.validators = group
       /\ T.lastDecidedFrame = frame /\ T.lastVoting = voting /\ T.prevEpoch = prev
       /\ T.lastAtropos = b.atropos /\ T.confirmedOn = conf /\ T.blocks = chain
       /\ T.prevTime = since /\ T.epochStart = start
  <2> HIDE DEF conf, epoch, group, prev, frame, voting, since, start, chain
  <2> QED
    BY DEF T
<1>16. S.events \subseteq DOMAIN event
  BY DEF StoreOK
<1> HIDE DEF n, seal, conf, epoch, group, prev, frame, last, voting, since, start, chain, T
<1>17. /\ T.blocks \in Seq({C[i] : i \in 1..m})
       /\ Len(T.blocks) = n + 1 /\ n + 1 <= m
       /\ \A i \in 1..Len(T.blocks) : T.blocks[i] = C[i]
  BY <1>5, <1>15 DEF n
<1>18. StoreOK(event, C, m, T)
  BY <1>6, <1>7, <1>8, <1>10, <1>11, <1>12, <1>13, <1>14, <1>15, <1>16, <1>17 DEF StoreOK
<1> QED
  BY <1>3, <1>18 DEF seal

-----------------------------------------------------------------------------
(***************************************************************************)
(* The actions that add no event keep the invariant.                       *)
(***************************************************************************)

\* What Prepare has made of an event stays when the chain grows.
LEMMA PreparedExtends ==
    ASSUME NEW E, NEW C, NEW m \in Nat, NEW D, NEW p \in Nat, m <= p,
           \A j \in 1..m : D[j] = C[j], NEW i, Prepared(E, C, m, i)
    PROVE  Prepared(E, D, p, i)
<1> SUFFICES ASSUME E[i].creator \notin Cheater PROVE Prepared(E, D, p, i)
  BY DEF Prepared
<1>1. PICK j \in 0..m :
          /\ E[i].epoch = EpochAt(C, j) /\ E[i].creator \in GroupAt(C, j)
          /\ E[i].prevEpoch = IF E[i].seq = 1 THEN SealAt(C, j) ELSE 0
          /\ E[i].selfParent # 0 => \A q \in E[i].parents : ~SeesFork(E, E[i].selfParent, E[q].creator)
          /\ RootOK(E, GroupAt(C, j), i)
          /\ E[i].medianTime = MedianTime(E, GroupAt(C, j), i, StartAt(C, j))
  BY DEF Prepared
<1>2. j \in Nat /\ j \in 0..p /\ \A l \in 1..j : D[l] = C[l]
  BY SMTT(30)
<1>3. /\ EpochAt(D, j) = EpochAt(C, j) /\ GroupAt(D, j) = GroupAt(C, j)
      /\ SealAt(D, j) = SealAt(C, j) /\ StartAt(D, j) = StartAt(C, j)
  BY <1>2, SameBlocks
<1> QED
  BY <1>1, <1>2, <1>3 DEF Prepared

\* The bounds of what a store holds.
LEMMA StoreTypes ==
    ASSUME NEW E, NEW C, NEW m, Chain(E, C, m), NEW S, StoreOK(E, C, m, S)
    PROVE  /\ Len(S.blocks) \in Nat /\ Len(S.blocks) \in 0..m
           /\ S.epoch \in Nat /\ S.lastDecidedFrame \in 0..(MaxEpochBlocks - 1)
           /\ S.validators \in SUBSET Validators /\ FewCheaters(S.validators)
<1>1. Len(S.blocks) \in Nat /\ Len(S.blocks) \in 0..m
  BY SMTT(30) DEF StoreOK, Chain
<1> QED
  BY SMTT(30), <1>1, ChainGroup DEF StoreOK

\* The chain may be extended by the block that the graph elects.
LEMMA CommonExtends ==
    ASSUME NEW E, Graph(E), NEW C, NEW m, NEW A, NEW st, NEW dk, Common(E, C, m, A, st, dk),
           NEW a \in NextAtropoi(E, C, m), NEW b, b = NextBlock(E, C, m, a)
    PROVE  \E D : Common(E, D, m + 1, A \cup {b}, st, dk)
<1> DEFINE D == [i \in 1..m+1 |-> IF i <= m THEN C[i] ELSE b]
<1>1. Chain(E, C, m) /\ m \in Nat /\ A = {C[i] : i \in 1..m}
  BY DEF Common, Chain
<1>2. (\A i \in 1..m : D[i] = C[i]) /\ D[m + 1] = b
  BY SMTT(30), <1>1
<1> HIDE DEF D
<1>3. Chain(E, D, m + 1)
  BY <1>1, <1>2, ChainNext
<1>4. A \cup {b} = {D[i] : i \in 1..m+1}
  <2>1. \A i \in 1..m+1 : i \in 1..m \/ i = m + 1
    BY SMTT(30), <1>1
  <2>2. \A i \in 1..m : i \in 1..m+1
    BY SMTT(30), <1>1
  <2>3. m + 1 \in 1..m+1
    BY SMTT(30), <1>1
  <2> QED
    BY <1>1, <1>2, <2>1, <2>2, <2>3
<1>5. m + 1 \in Nat /\ m <= m + 1
  BY SMTT(30), <1>1
<1>6. ASSUME NEW T, StoreOK(E, C, m, T)
      PROVE  StoreOK(E, D, m + 1, T)
  BY <1>1, <1>2, <1>5, <1>6, StoreExtends
<1>7. Stores(E, D, m + 1, st) /\ Stores(E, D, m + 1, dk)
  BY <1>6 DEF Common, Stores
<1>8. \A i \in DOMAIN E : Prepared(E, D, m + 1, i)
  <2> SUFFICES ASSUME NEW i \in DOMAIN E
               PROVE  Prepared(E, D, m + 1, i)
    OBVIOUS
  <2>1. Prepared(E, C, m, i)
    BY DEF Common
  <2> QED
    BY <1>1, <1>2, <1>5, <2>1, PreparedExtends
<1>9. Common(E, D, m + 1, A \cup {b}, st, dk)
  BY <1>3, <1>4, <1>7, <1>8 DEF Common
<1> QED
  BY <1>9

\* What a node's store is after the block b.
AfterBlock(S, b) ==
    IF LegacyShouldSealEpoch(S.epochStart, b) THEN SealEpoch(Decide(S, b), b) ELSE Decide(S, b)

\* A block that the chain has already changes one store.
LEMMA CommonApplies ==
    ASSUME Graph(event), NEW C, NEW m, NEW A, NEW dk, Common(event, C, m, A, store, dk),
           NEW n \in Node, NEW a \in Elected(store[n]), NEW b, b = ConfirmBlock(store[n], a),
           Len(store[n].blocks) + 1 <= m,
           store' = [store EXCEPT ![n] = AfterBlock(store[n], b)]
    PROVE  Common(event, C, m, A \cup {b}, store', dk)
<1> DEFINE S == store[n]
           l == Len(S.blocks)
           T == AfterBlock(S, b)
<1>1. /\ Chain(event, C, m) /\ m \in Nat /\ A = {C[i] : i \in 1..m}
      /\ Stores(event, C, m, store)
  BY DEF Common, Chain
<1>2. StoreOK(event, C, m, S) /\ store = [i \in Node |-> store[i]]
  BY <1>1 DEF Stores
<1>3. l \in Nat /\ l \in 0..m
  BY <1>1, <1>2, StoreTypes
<1>4. a \in NextAtropoi(event, C, l) /\ b = NextBlock(event, C, l, a)
  BY SMTT(30), <1>1, <1>2, ElectedNext, ConfirmedNext
<1>5. l + 1 \in 1..m /\ (l + 1) - 1 = l
  BY SMTT(30), <1>1, <1>3
<1>6. /\ C[l + 1].atropos \in NextAtropoi(event, C, (l + 1) - 1)
      /\ C[l + 1] = NextBlock(event, C, (l + 1) - 1, C[l + 1].atropos)
  BY <1>1, <1>5 DEF Chain
<1>7. C[l + 1].atropos \in NextAtropoi(event, C, l)
      /\ C[l + 1] = NextBlock(event, C, l, C[l + 1].atropos)
  BY <1>5, <1>6
<1>8. C[l + 1].atropos = a
  BY SMTT(30), <1>1, <1>3, <1>4, <1>7, NextAtroposOnce
<1>9. C[l + 1] = b
  BY <1>4, <1>7, <1>8
<1>10. A \cup {b} = A
  BY <1>1, <1>5, <1>9
<1>11. StoreOK(event, C, m, T)
  BY <1>1, <1>2, <1>9, StoreDecides DEF AfterBlock
<1> HIDE DEF T
<1>12. store' = [i \in Node |-> IF i = n THEN T ELSE store[i]]
  BY <1>2 DEF T
<1>13. Stores(event, C, m, store')
  BY <1>1, <1>11, <1>12 DEF Stores
<1> QED
  BY <1>10, <1>13 DEF Common

\* HandleElection keeps the invariant: a decided frame gives the next block of the
\* chain, or one that another node has applied.
LEMMA ElectionStep ==
    ASSUME IInv, NEW n \in Node, HandleElection(n)
    PROVE  IInv'
<1> DEFINE S == store[n]
           Block(a) == ConfirmBlock(S, a)
           Seal(a) == ShouldSealEpoch(S.lastVoting, Block(a))
           Legacy(a) == LegacyShouldSealEpoch(S.epochStart, Block(a))
           Applied(a) ==
              /\ store' = [store EXCEPT ![n] = IF Seal(a) THEN SealEpoch(Decide(S, Block(a)), Block(a))
                                                          ELSE Decide(S, Block(a))]
              /\ pc' = [pc EXCEPT ![n] = CASE Seal(a) # Legacy(a) -> "panic"
                                           [] Seal(a) = Legacy(a) /\ Seal(a) -> "sealed"
                                           [] OTHER -> "electing"]
              /\ applied' = applied \cup {Block(a)}
<1>1. Graph(event) /\ Lineage(event) /\ pc \in [Node -> {"idle", "electing", "sealed"}]
  BY DEF IInv
<1>2. PICK m \in Nat : \E C : Common(event, C, m, applied, store, disk)
  BY DEF IInv
<1>3. PICK C : Common(event, C, m, applied, store, disk)
  BY <1>2
<1>4. Chain(event, C, m) /\ StoreOK(event, C, m, S)
  BY <1>3 DEF Common, Stores
<1>5. UNCHANGED <<event, disk>>
  BY DEF HandleElection
<1>6. \/ pc' = [pc EXCEPT ![n] = "idle"] /\ UNCHANGED <<store, applied>>
      \/ \E a \in Elected(S) : Applied(a)
  BY ZenonT(60) DEF HandleElection
<1>7. CASE pc' = [pc EXCEPT ![n] = "idle"] /\ UNCHANGED <<store, applied>>
  <2>1. pc' \in [Node -> {"idle", "electing", "sealed"}]
    BY <1>1, <1>7
  <2> QED
    BY <1>1, <1>3, <1>5, <1>7, <2>1 DEF IInv
<1> HIDE DEF Applied
<1>8. ASSUME NEW a \in Elected(S), Applied(a)
      PROVE  IInv'
  <2> DEFINE b == Block(a)
  <2>1. Seal(a) <=> Legacy(a)
    BY <1>1, <1>4, SealsAlike
  <2>2. store' = [store EXCEPT ![n] = AfterBlock(S, b)] /\ applied' = applied \cup {b}
    BY <1>8, <2>1 DEF Applied, AfterBlock
  <2>3. pc' \in [Node -> {"idle", "electing", "sealed"}]
    <3> DEFINE legacy == Legacy(a)
    <3>1. Seal(a) \in BOOLEAN /\ legacy \in BOOLEAN
      BY DEF ShouldSealEpoch, LegacyShouldSealEpoch
    <3>2. pc' = [pc EXCEPT ![n] = CASE Seal(a) # legacy -> "panic"
                                    [] Seal(a) = legacy /\ Seal(a) -> "sealed"
                                    [] OTHER -> "electing"]
      BY <1>8 DEF Applied
    <3> HIDE DEF Seal, Legacy, b, legacy
    <3>3. Seal(a) = legacy
      BY ONLY <2>1, <3>1, SMTT(30) DEF legacy
    <3>4. pc' = [pc EXCEPT ![n] = "sealed"] \/ pc' = [pc EXCEPT ![n] = "electing"]
      BY ONLY ZenonT(30), <3>2, <3>3
    <3> QED
      BY <1>1, <3>4
  <2> HIDE DEF b
  <2>4. b = ConfirmBlock(store[n], a)
    BY DEF b
  <2>5. Len(S.blocks) \in 0..m
    BY <1>4, StoreTypes
  <2>6. CASE Len(S.blocks) + 1 <= m
    <3>1. Common(event, C, m, applied', store', disk)
      BY <1>1, <1>3, <1>8, <2>2, <2>4, <2>6, CommonApplies
    <3> QED
      BY <1>1, <1>5, <2>3, <3>1 DEF IInv
  <2>7. CASE Len(S.blocks) = m
    <3>1. a \in NextAtropoi(event, C, m) /\ b = NextBlock(event, C, m, a)
      BY SMTT(30), <1>1, <1>4, <1>8, <2>4, <2>7, ElectedNext, ConfirmedNext
    <3>2. PICK D : Common(event, D, m + 1, applied \cup {b}, store, disk)
      BY <1>1, <1>3, <3>1, CommonExtends
    <3>3. Common(event, D, m + 1, (applied \cup {b}) \cup {b}, store', disk)
      <4>1. Len(store[n].blocks) + 1 <= m + 1
        BY SMTT(30), <2>7
      <4> QED
        BY <1>1, <1>8, <2>2, <2>4, <3>2, <4>1, CommonApplies
    <3>4. (applied \cup {b}) \cup {b} = applied' /\ m + 1 \in Nat
      BY SMTT(30), <2>2
    <3>5. Common(event, D, m + 1, applied', store', disk)
      BY <3>3, <3>4
    <3> QED
      BY <1>1, <1>5, <2>3, <3>4, <3>5 DEF IInv
  <2> QED
    BY SMTT(30), <2>5, <2>6, <2>7
<1> QED
  BY <1>6, <1>7, <1>8

\* Commit and Bootstrap keep the invariant: what is on disk is a store of the chain.
LEMMA RestartStep ==
    ASSUME IInv, NEW n \in Node, Commit(n) \/ Bootstrap(n)
    PROVE  IInv'
<1>1. Graph(event) /\ Lineage(event) /\ pc \in [Node -> {"idle", "electing", "sealed"}]
  BY DEF IInv
<1>2. PICK m \in Nat : \E C : Common(event, C, m, applied, store, disk)
  BY DEF IInv
<1>3. PICK C : Common(event, C, m, applied, store, disk)
  BY <1>2
<1>4. Stores(event, C, m, store) /\ Stores(event, C, m, disk)
  BY <1>3 DEF Common
<1>5. CASE Commit(n)
  <2>1. /\ disk' = [disk EXCEPT ![n] = store[n]] /\ pc' = [pc EXCEPT ![n] = "idle"]
        /\ UNCHANGED <<event, store, applied>>
    BY <1>5 DEF Commit
  <2>2. disk' = [i \in Node |-> IF i = n THEN store[n] ELSE disk[i]]
    BY <1>4, <2>1 DEF Stores
  <2>3. Stores(event, C, m, disk')
    BY <1>4, <2>2 DEF Stores
  <2>4. Common(event, C, m, applied, store, disk')
    BY <1>3, <2>3 DEF Common
  <2>5. pc' \in [Node -> {"idle", "electing", "sealed"}]
    BY <1>1, <2>1
  <2> QED
    BY <1>1, <2>1, <2>4, <2>5 DEF IInv
<1>6. CASE Bootstrap(n)
  <2>1. /\ store' = [store EXCEPT ![n] = disk[n]] /\ pc' = [pc EXCEPT ![n] = "electing"]
        /\ UNCHANGED <<event, disk, applied>>
    BY <1>6 DEF Bootstrap
  <2>2. store' = [i \in Node |-> IF i = n THEN disk[n] ELSE store[i]]
    BY <1>4, <2>1 DEF Stores
  <2>3. Stores(event, C, m, store')
    BY <1>4, <2>2 DEF Stores
  <2>4. Common(event, C, m, applied, store', disk)
    BY <1>3, <2>3 DEF Common
  <2>5. pc' \in [Node -> {"idle", "electing", "sealed"}]
    BY <1>1, <2>1
  <2> QED
    BY <1>1, <2>1, <2>4, <2>5 DEF IInv
<1> QED
  BY <1>5, <1>6

\* The nodes start from the genesis, and a chain of no blocks.
LEMMA GenesisInv == Init => IInv
<1> SUFFICES ASSUME Init PROVE IInv
  OBVIOUS
<1>1. /\ event = [i \in {} |-> 0] /\ applied = {}
      /\ store = [n \in Node |-> Genesis] /\ disk = [n \in Node |-> Genesis]
      /\ pc = [n \in Node |-> "idle"]
  BY DEF Init
<1>2. DOMAIN event = 1..0 /\ DOMAIN event = {}
  BY SMTT(30), <1>1
<1>3. Graph(event) /\ Lineage(event)
  BY <1>2 DEF Graph, Lineage, Honest
<1> DEFINE C == <<>>
<1>4. 1..0 = {}
  BY SMTT(30)
<1>5. Chain(event, C, 0)
  BY <1>4 DEF Chain
<1>6. /\ EpochAt(C, 0) = 1 /\ FrameAt(C, 0) = 0 /\ AtroposAt(C, 0) = 0
      /\ GroupAt(C, 0) = Validators /\ SealAt(C, 0) = 0 /\ ConfirmedAt(event, C, 0) = {}
      /\ SealIndex(C, 0) = 0 /\ StartAt(C, 0) = GenesisTime
  BY <1>4 DEF EpochAt, FrameAt, AtroposAt, GroupAt, SealAt, StartAt, TimeAt, SealIndex, LastOf, SealsTo,
              ConfirmedAt
<1>7. /\ Genesis.events = {} /\ Genesis.epoch = 1 /\ Genesis.validators = Validators
      /\ Genesis.prevEpoch = 0 /\ Genesis.lastDecidedFrame = 0 /\ Genesis.lastAtropos = 0
      /\ DOMAIN Genesis.confirmedOn = {} /\ Genesis.blocks = <<>>
      /\ Genesis.prevTime = GenesisTime /\ Genesis.epochStart = GenesisTime
      /\ Genesis.lastVoting = [block |-> 0, time |-> GenesisTime]
  BY DEF Genesis
<1>8. Genesis = [events |-> Genesis.events, epoch |-> Genesis.epoch,
                 validators |-> Genesis.validators, prevEpoch |-> Genesis.prevEpoch,
                 lastDecidedFrame |-> Genesis.lastDecidedFrame,
                 lastAtropos |-> Genesis.lastAtropos, confirmedOn |-> Genesis.confirmedOn,
                 blocks |-> Genesis.blocks, lastVoting |-> Genesis.lastVoting,
                 prevTime |-> Genesis.prevTime, epochStart |-> Genesis.epochStart]
  BY DEF Genesis
<1>9. Len(Genesis.blocks) = 0 /\ Genesis.blocks \in Seq({C[i] : i \in 1..0})
  BY SMTT(30), <1>7
<1> HIDE DEF C
<1>10. StoreOK(event, C, 0, Genesis)
  BY SMTT(30), <1>4, <1>6, <1>7, <1>8, <1>9 DEF StoreOK, Slice
<1>11. Stores(event, C, 0, store) /\ Stores(event, C, 0, disk)
  BY <1>1, <1>10 DEF Stores
<1>12. Common(event, C, 0, applied, store, disk)
  BY <1>1, <1>2, <1>4, <1>5, <1>11 DEF Common
<1>13. pc \in [Node -> {"idle", "electing", "sealed"}]
  BY <1>1
<1> QED
  BY <1>3, <1>12, <1>13 DEF IInv

=============================================================================
