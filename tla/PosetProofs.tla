---------------------------- MODULE PosetProofs ----------------------------
(***************************************************************************)
(* Proofs about the poset of every node, for every group of validators,    *)
(* every stake and every set of cheaters of less than a third of it: all   *)
(* the nodes build one chain of blocks (the invariant of PosetBlocks), and *)
(* the properties of Poset follow from it.                                 *)
(***************************************************************************)
EXTENDS PosetBlocks

\* Leaves are first-order; those that need arithmetic name SMT.
USE ZenonT(30)

-----------------------------------------------------------------------------
(***************************************************************************)
(* A new event.                                                            *)
(***************************************************************************)

\* The event that NewEvent drafts, with its frame and its median time.
Drafted(id, v, ep, sp, others, prev, now, frame, root, median) ==
    [NewEvent(id, v, ep, sp, others, prev, now) EXCEPT
        !.frame = frame, !.isRoot = root, !.medianTime = median]

FrameOn(sp, root) == (IF sp = 0 THEN 0 ELSE event[sp].frame) + (IF root THEN 1 ELSE 0)

\* What the parts of a draft have to be, when there are k events.
DraftParts(k, v, ep, sp, others, frame, root) ==
    /\ Graph(event) /\ Lineage(event)
    /\ k \in Nat /\ DOMAIN event = 1..k
    /\ v \in Validators /\ ep \in Nat
    /\ sp \in OwnEvents(v, ep) \cup {0}
    /\ others \in SUBSET {i \in DOMAIN event : event[i].epoch = ep}
    /\ root \in BOOLEAN /\ frame \in Nat \ {0}
    /\ frame = FrameOn(sp, root)
    /\ v \notin Cheater => \A j \in OwnEvents(v, ep) : sp # 0 /\ j \in event[sp].line

\* What the draft then is.
DraftFields(e, k, v, ep, sp, others, prev, frame, root, median) ==
    /\ NextEvent(event, k + 1, e)
    /\ e.creator = v /\ e.epoch = ep /\ e.selfParent = sp /\ e.frame = frame
    /\ e.isRoot = root /\ e.parents = others \cup ({sp} \ {0})
    /\ e.seq = (IF sp = 0 THEN 1 ELSE event[sp].seq + 1)
    /\ e.prevEpoch = (IF sp = 0 THEN prev ELSE 0) /\ e.medianTime = median
    /\ e.anc = {k + 1} \cup UNION {event[p].anc : p \in others \cup ({sp} \ {0})}

\* The event that NewEvent drafts, with its frame, may be the next of the graph.
LEMMA DraftOK ==
    ASSUME NEW k, NEW v, NEW ep, NEW sp, NEW others, NEW prev, NEW now, NEW frame, NEW root,
           NEW median, DraftParts(k, v, ep, sp, others, frame, root),
           NEW e, e = Drafted(k + 1, v, ep, sp, others, prev, now, frame, root, median)
    PROVE  DraftFields(e, k, v, ep, sp, others, prev, frame, root, median)
<1> USE DEF DraftParts
<1> DEFINE id == k + 1
           P == others \cup ({sp} \ {0})
           lamports == {event[p].lamport : p \in P} \cup {0}
           top == CHOOSE m \in lamports : \A l \in lamports : m >= l
           anc == {id} \cup UNION {event[p].anc : p \in P}
           line == {id} \cup (IF sp = 0 THEN {} ELSE event[sp].line)
           seq == IF sp = 0 THEN 1 ELSE event[sp].seq + 1
           prv == IF sp = 0 THEN prev ELSE 0
           claimed == MaxTimestamp(now, IF sp = 0 THEN 1 ELSE event[sp].claimedTime + 1)
<1>1. NewEvent(id, v, ep, sp, others, prev, now) =
        [creator |-> v, epoch |-> ep, selfParent |-> sp, parents |-> P, seq |-> seq,
         lamport |-> 1 + top, prevEpoch |-> prv, anc |-> anc, line |-> line,
         claimedTime |-> claimed, frame |-> 0, isRoot |-> FALSE, medianTime |-> 0]
  BY DEF NewEvent
<1>2. 0 \notin DOMAIN event
  BY SMTT(30)
<1>3. sp # 0 => sp \in DOMAIN event /\ event[sp].creator = v /\ event[sp].epoch = ep
  BY DEF OwnEvents
<1>4. P \subseteq DOMAIN event /\ \A p \in P : event[p].epoch = ep
  BY <1>3
<1>5. \A p \in P : event[p].lamport \in 0..k
  <2> SUFFICES ASSUME NEW p \in P PROVE event[p].lamport \in 0..k
    OBVIOUS
  <2>1. p \in 1..k /\ event[p].lamport \in 1..p
    BY <1>4 DEF Lineage
  <2> QED
    BY SMTT(30), <2>1
<1>6. lamports \in SUBSET 0..k /\ lamports # {}
  BY SMTT(30), <1>5
<1>7. \E m \in lamports : \A l \in lamports : m >= l
  <2> HIDE DEF lamports
  <2> QED
    BY <1>6, Largest
<1>8. top \in lamports /\ \A l \in lamports : top >= l
  <2> HIDE DEF lamports
  <2> QED
    BY <1>7
<1>9. top \in 0..k /\ \A p \in P : event[p].lamport <= top
  <2>1. \A p \in P : event[p].lamport \in lamports
    OBVIOUS
  <2> HIDE DEF lamports, top, P
  <2> QED
    BY <1>6, <1>8, <2>1
<1> HIDE DEF top, lamports, P, anc, line, seq, prv, claimed
<1>10. /\ e.creator = v /\ e.epoch = ep /\ e.selfParent = sp /\ e.parents = P /\ e.seq = seq
       /\ e.lamport = 1 + top /\ e.prevEpoch = prv /\ e.anc = anc /\ e.line = line
       /\ e.frame = frame /\ e.isRoot = root /\ e.medianTime = median
  BY ONLY <1>1, e = Drafted(k + 1, v, ep, sp, others, prev, now, frame, root, median), SMTT(30)
     DEF Drafted
<1>11. \A p \in e.parents : event[p].epoch = e.epoch /\ event[p].lamport < e.lamport
  BY SMTT(30), <1>4, <1>5, <1>9, <1>10
<1>12. e.lamport \in 1..id
  BY SMTT(30), <1>9, <1>10
<1>13. e.anc = {id} \cup UNION {event[p].anc : p \in e.parents}
  BY <1>10 DEF anc
<1>14. e.line = {id} \cup (IF e.selfParent = 0 THEN {} ELSE event[e.selfParent].line)
  BY <1>10 DEF line
<1>15. e.selfParent \in e.parents \cup {0}
  BY <1>10 DEF P
<1>16. e.creator \notin Cheater =>
          \A j \in DOMAIN event : (event[j].creator = e.creator /\ event[j].epoch = e.epoch) =>
                                     e.selfParent # 0 /\ j \in event[e.selfParent].line
  BY <1>10 DEF OwnEvents
<1>17. e.frame = (IF e.selfParent = 0 THEN 0 ELSE event[e.selfParent].frame)
                    + (IF e.isRoot THEN 1 ELSE 0)
  BY <1>10 DEF FrameOn
<1>19. e.seq \in Nat \ {0}
  <2>1. sp # 0 => event[sp].seq \in Nat
    BY <1>3 DEF Lineage
  <2> QED
    BY SMTT(30), <1>10, <2>1 DEF seq
<1>18. NextEvent(event, id, e)
  BY <1>19, <1>3, <1>4, <1>10, <1>11, <1>12, <1>13, <1>14, <1>15, <1>16, <1>17 DEF NextEvent
<1> QED
  BY <1>10, <1>18 DEF P, seq, prv, anc, DraftFields

\* The number of events names the next one.
LEMMA NextId ==
    ASSUME Graph(event)
    PROVE  \E k \in Nat : DOMAIN event = 1..k /\ Cardinality(DOMAIN event) + 1 = k + 1
<1>1. PICK k \in Nat : DOMAIN event = 1..k
  BY DEF Graph
<1>2. Cardinality(1..k) = k
  BY SMTT(30), FS_Interval
<1> QED
  BY <1>1, <1>2

-----------------------------------------------------------------------------
(***************************************************************************)
(* Frames.                                                                 *)
(***************************************************************************)

\* Forkless cause does not look at frames.
LEMMA CauseFrameless ==
    ASSUME NEW D, NEW F, NEW N,
           \A x \in N : D[x].creator = F[x].creator /\ D[x].anc = F[x].anc /\ D[x].line = F[x].line,
           NEW G, NEW a \in N, F[a].anc \subseteq N, NEW b \in N
    PROVE  ForklessCause(D, G, a, b) <=> ForklessCause(F, G, a, b)
<1>1. \A x, y \in F[a].anc : Fork(D, x, y) <=> Fork(F, x, y)
  BY DEF Fork
<1>2. \A v : SeesFork(D, a, v) <=> SeesFork(F, a, v)
  BY <1>1 DEF SeesFork
<1>3. Observers(D, G, a, b) = Observers(F, G, a, b)
  BY <1>2 DEF Observers
<1>4. /\ ForklessCause(D, G, a, b) <=> ~SeesFork(D, a, D[b].creator) /\ HasQuorumOf(G, Observers(D, G, a, b))
      /\ ForklessCause(F, G, a, b) <=> ~SeesFork(F, a, F[b].creator) /\ HasQuorumOf(G, Observers(F, G, a, b))
  BY DEF ForklessCause, Observers
<1> QED
  BY <1>2, <1>3, <1>4

\* Event a observes the same in D as in F, and all of it with the same claims, whatever
\* the frames.
SameClaims(D, F, a) ==
    /\ D[a].anc = F[a].anc
    /\ \A x \in F[a].anc : /\ D[x].creator = F[x].creator /\ D[x].line = F[x].line
                           /\ D[x].seq = F[x].seq /\ D[x].claimedTime = F[x].claimedTime

\* The median time depends on what the event observes, and not on frames.
LEMMA MedianLocal ==
    ASSUME NEW D, NEW F, NEW a, SameClaims(D, F, a), NEW G, NEW prev
    PROVE  MedianTime(D, G, a, prev) = MedianTime(F, G, a, prev)
<1> DEFINE Honests(E) == {v \in G : ~SeesFork(E, a, v)}
           Claims(E) == {<<v, ObservedTime(E, a, v, prev)>> : v \in Honests(E)}
           Median(honest, claims) ==
              LET times == {c[2] : c \in claims} \cup {0 : v \in G \ honest}
                  halfStake == Sum(honest) \div 2
                  reached == {t \in times : Sum({c[1] : c \in {d \in claims : d[2] <= t}}) >= halfStake}
              IN  CHOOSE t \in reached : \A u \in reached : t <= u
<1>1. /\ MedianTime(D, G, a, prev) = Median(Honests(D), Claims(D))
      /\ MedianTime(F, G, a, prev) = Median(Honests(F), Claims(F))
  BY DEF MedianTime
<1>7. /\ D[a].anc = F[a].anc
      /\ \A x \in F[a].anc : /\ D[x].creator = F[x].creator /\ D[x].line = F[x].line
                             /\ D[x].seq = F[x].seq /\ D[x].claimedTime = F[x].claimedTime
  BY DEF SameClaims
<1>2. \A x, y \in F[a].anc : Fork(D, x, y) <=> Fork(F, x, y)
  BY <1>7 DEF Fork
<1>3. \A v : SeesFork(D, a, v) <=> SeesFork(F, a, v)
  BY <1>2, <1>7 DEF SeesFork
<1>4. Honests(D) = Honests(F)
  BY <1>3
<1>5. ASSUME NEW v
      PROVE  ObservedTime(D, a, v, prev) = ObservedTime(F, a, v, prev)
  <2> DEFINE Own(E) == {y \in E[a].anc : E[y].creator = v}
             At(E, h) == {y \in E[a].anc : E[y].creator = v /\ E[y].seq = h}
             Seqs(E) == {E[x].seq : x \in Own(E)} \cup {0}
             Highest(seqs) == CHOOSE m \in seqs : \A q \in seqs : m >= q
             Times(E, h) == {E[x].claimedTime : x \in At(E, h)}
             First(times) == IF times = {} THEN prev ELSE CHOOSE t \in times : TRUE
             hd == HighestSeq(D, a, v)
             hf == HighestSeq(F, a, v)
  <2>1. hd = Highest(Seqs(D)) /\ hf = Highest(Seqs(F))
    BY DEF HighestSeq
  <2>2. /\ ObservedTime(D, a, v, prev) = First(Times(D, hd))
        /\ ObservedTime(F, a, v, prev) = First(Times(F, hf))
    BY DEF ObservedTime
  <2>5. Own(D) = Own(F) /\ \A x \in Own(F) : D[x].seq = F[x].seq
    BY <1>7
  <2>6. ASSUME NEW h
        PROVE  At(D, h) = At(F, h) /\ \A x \in At(F, h) : D[x].claimedTime = F[x].claimedTime
    BY <1>7
  <2> HIDE DEF Own, At
  <2>3. Seqs(D) = Seqs(F)
    <3>1. {D[x].seq : x \in Own(F)} = {F[x].seq : x \in Own(F)}
      BY <2>5
    <3> QED
      BY <2>5, <3>1
  <2>4. ASSUME NEW h
        PROVE  Times(D, h) = Times(F, h)
    <3>1. {D[x].claimedTime : x \in At(F, h)} = {F[x].claimedTime : x \in At(F, h)}
      BY <2>6
    <3> QED
      BY <2>6, <3>1
  <2> HIDE DEF Seqs, Highest, Times, First, hd, hf
  <2> QED
    BY <2>1, <2>2, <2>3, <2>4
<1>6. Claims(D) = Claims(F)
  <2> HIDE DEF Honests
  <2> QED
    BY <1>4, <1>5
<1> HIDE DEF Honests, Claims, Median
<1> QED
  BY <1>1, <1>4, <1>6

\* A node that has what an event observes knows the roots that it observes.
LEMMA KnownRoots ==
    ASSUME NEW E, Graph(E), NEW G \in SUBSET Validators, NEW X, NEW k, Slice(E, X, G, k),
           NEW id \in DOMAIN E, E[id].epoch = k, E[id].anc \subseteq X \cup {id}
    PROVE  {q \in Roots(E, X, E[id].frame - 1) : ForklessCause(E, G, id, q)} = Seen(E, G, id)
<1>1. E[id].frame \in Nat
  BY SMTT(30) DEF Graph, SelfParents
<1>2. E[id].frame # E[id].frame - 1
  BY SMTT(30), <1>1
<1>3. ASSUME NEW q
      PROVE  q \in {r \in Roots(E, X, E[id].frame - 1) : ForklessCause(E, G, id, r)}
                <=> q \in Seen(E, G, id)
  <2>1. ASSUME q \in Roots(E, X, E[id].frame - 1), ForklessCause(E, G, id, q)
        PROVE  q \in Seen(E, G, id)
    <3>1. q \in E[id].anc
      BY <2>1, CauseIsAncestor
    <3> QED
      BY <2>1, <3>1 DEF Roots, Seen
  <2>2. ASSUME q \in Seen(E, G, id)
        PROVE  q \in Roots(E, X, E[id].frame - 1) /\ ForklessCause(E, G, id, q)
    BY <1>2, <2>2 DEF Roots, Seen
  <2> QED
    BY <2>1, <2>2
<1> QED
  BY <1>3

\* An event observes a quorum of the roots below it.
QuorumSeen(E, G, r) == HasQuorumOf(G, {E[s].creator : s \in Seen(E, G, r)})

\* The quorum of roots that Prepare has counted is what the new event observes.
LEMMA PreparedRoot ==
    ASSUME Graph(event), NEW C, NEW m, Chain(event, C, m), NEW S, StoreOK(event, C, m, S),
           NEW id, id \notin DOMAIN event, NEW e, NEW draft,
           draft.creator = e.creator, draft.anc = e.anc, draft.line = e.line,
           NEW F, F = With(event, id, e), NEW D, D = With(event, id, draft),
           Graph(F), Extends(event, F),
           e.epoch = S.epoch, e.anc \subseteq EpochEvents(S) \cup {id},
           NEW f, e.frame - 1 = f, ForklessCausedByQuorumOn(D, S, id, f)
    PROVE  QuorumSeen(F, S.validators, id)
<1> DEFINE X == EpochEvents(S)
           G == S.validators
           N == DOMAIN event \cup {id}
<1>1. /\ DOMAIN F = N /\ F[id] = e /\ D[id] = draft
      /\ \A x \in DOMAIN event : F[x] = event[x] /\ D[x] = event[x]
  BY DEF With
<1>2. /\ Slice(event, X, G, S.epoch) /\ X \subseteq DOMAIN event
  BY DEF StoreOK, EpochEvents
<1>3. G \in SUBSET Validators
  BY DEF StoreOK, GroupAt
<1> HIDE DEF X, G
<1>4. Slice(F, X, G, S.epoch)
  BY <1>2, SliceStable
<1>5. /\ \A x \in N : D[x].creator = F[x].creator /\ D[x].anc = F[x].anc /\ D[x].line = F[x].line
      /\ F[id].anc \subseteq N /\ id \in N /\ X \subseteq N
  BY <1>1, <1>2 DEF X
<1>6. \A q \in X : ForklessCause(D, G, id, q) <=> ForklessCause(F, G, id, q)
  BY <1>5, CauseFrameless
<1>7. Roots(event, X, f) = Roots(F, X, f)
  BY <1>1, <1>2 DEF Roots
<1>8. Roots(F, X, f) \subseteq X
  BY DEF Roots
<1>9. {q \in Roots(event, X, f) : ForklessCause(D, G, id, q)}
        = {q \in Roots(F, X, f) : ForklessCause(F, G, id, q)}
  BY <1>6, <1>7, <1>8
<1>10. {q \in Roots(F, X, f) : ForklessCause(F, G, id, q)} = Seen(F, G, id)
  <2>1. id \in DOMAIN F /\ F[id].epoch = S.epoch /\ F[id].anc \subseteq X \cup {id} /\ Graph(F)
    BY <1>1 DEF X
  <2>2. f = F[id].frame - 1
    BY <1>1
  <2> QED
    BY SMTT(30), <1>3, <1>4, <2>1, <2>2, KnownRoots
<1>11. {D[r].creator : r \in Seen(F, G, id)} = {F[r].creator : r \in Seen(F, G, id)}
  BY SMTT(30), <1>5, <1>8, <1>10
<1>12. HasQuorumOf(G, {D[r].creator : r \in {q \in Roots(event, X, f) : ForklessCause(D, G, id, q)}})
  BY DEF ForklessCausedByQuorumOn, GetFrameRoots, X, G
<1> QED
  BY <1>9, <1>10, <1>11, <1>12 DEF G, QuorumSeen

\* What Prepare has made of an event stays when the graph grows.
LEMMA PreparedGrows ==
    ASSUME NEW E, Graph(E), NEW F, Extends(E, F), NEW C, NEW m, NEW i \in DOMAIN E,
           Prepared(E, C, m, i)
    PROVE  Prepared(F, C, m, i)
<1>1. F[i] = E[i] /\ \A x \in DOMAIN E : F[x] = E[x]
  BY DEF Extends
<1>2. E[i].parents \subseteq DOMAIN E /\ (E[i].selfParent # 0 => E[i].selfParent \in DOMAIN E)
  BY DEF Graph, Header
<1> SUFFICES ASSUME E[i].creator \notin Cheater PROVE Prepared(F, C, m, i)
  BY <1>1 DEF Prepared
<1>3. PICK j \in 0..m :
          /\ E[i].epoch = EpochAt(C, j) /\ E[i].creator \in GroupAt(C, j)
          /\ E[i].prevEpoch = IF E[i].seq = 1 THEN SealAt(C, j) ELSE 0
          /\ E[i].selfParent # 0 => \A p \in E[i].parents : ~SeesFork(E, E[i].selfParent, E[p].creator)
          /\ RootOK(E, GroupAt(C, j), i)
          /\ E[i].medianTime = MedianTime(E, GroupAt(C, j), i, StartAt(C, j))
  BY DEF Prepared
<1>4. RootOK(F, GroupAt(C, j), i)
  BY <1>3, RootStable
<1>5. ASSUME F[i].selfParent # 0, NEW p \in F[i].parents
      PROVE  ~SeesFork(F, F[i].selfParent, F[p].creator)
  <2>1. E[i].selfParent \in DOMAIN E /\ F[p] = E[p] /\ F[i].selfParent = E[i].selfParent
    BY <1>1, <1>2, <1>5
  <2>2. ~SeesFork(E, E[i].selfParent, E[p].creator)
    BY <1>1, <1>3, <1>5
  <2> QED
    BY <2>1, <2>2, CauseStable
<1>6. MedianTime(F, GroupAt(C, j), i, StartAt(C, j)) = MedianTime(E, GroupAt(C, j), i, StartAt(C, j))
  <2>1. E[i].anc \subseteq DOMAIN E
    BY DEF Graph, Ancestors
  <2>2. SameClaims(F, E, i)
    BY <1>1, <2>1 DEF SameClaims
  <2> QED
    BY ONLY SMTT(30), <2>2, MedianLocal
<1> QED
  BY <1>1, <1>3, <1>4, <1>5, <1>6 DEF Prepared

\* With a new event the chain and the stores are what they were.
LEMMA CommonGrows ==
    ASSUME NEW E, Graph(E), NEW F, Graph(F), Extends(E, F), NEW C, NEW m,
           NEW A, NEW st, NEW dk, Common(E, C, m, A, st, dk),
           \A i \in DOMAIN F \ DOMAIN E : Prepared(F, C, m, i)
    PROVE  Common(F, C, m, A, st, dk)
<1>1. Chain(F, C, m)
  BY ChainStable DEF Common
<1>2. Stores(F, C, m, st) /\ Stores(F, C, m, dk)
  BY StoreGrows DEF Common, Stores
<1>3. \A i \in DOMAIN F : Prepared(F, C, m, i)
  BY PreparedGrows DEF Common
<1> QED
  BY <1>1, <1>2, <1>3 DEF Common

\* The frame of a draft's self-parent.
LEMMA DraftSelfParent ==
    ASSUME NEW id, id \notin DOMAIN event, NEW v, NEW ep, NEW sp \in DOMAIN event \cup {0},
           NEW others, NEW prev, NEW now
    PROVE  LET D == With(event, id, NewEvent(id, v, ep, sp, others, prev, now))
           IN  /\ D[id].selfParent = sp
               /\ SelfParentFrame(D, id) = IF sp = 0 THEN 0 ELSE event[sp].frame
<1> DEFINE draft == NewEvent(id, v, ep, sp, others, prev, now)
           D == With(event, id, draft)
<1>1. D[id] = draft /\ \A x \in DOMAIN event : D[x] = event[x]
  BY DEF With
<1>2. draft.selfParent = sp
  BY DEF NewEvent
<1> HIDE DEF draft, D
<1>3. SelfParentFrame(D, id) = IF sp = 0 THEN 0 ELSE event[sp].frame
  BY <1>1, <1>2 DEF SelfParentFrame
<1> QED
  BY <1>1, <1>2, <1>3 DEF D, draft

-----------------------------------------------------------------------------
(***************************************************************************)
(* The actions that add or connect an event keep the invariant.            *)
(***************************************************************************)

\* Cheat keeps the invariant: a cheater's event extends the graph, and no store moves.
LEMMA CheatStep ==
    ASSUME IInv, NEW v \in Cheater, Cheat(v)
    PROVE  IInv'
<1>1. Graph(event) /\ Lineage(event)
  BY DEF IInv
<1>2. PICK m \in Nat : \E C : Common(event, C, m, applied, store, disk)
  BY DEF IInv
<1>3. PICK C : Common(event, C, m, applied, store, disk)
  BY <1>2
<1>4. PICK k \in Nat : DOMAIN event = 1..k /\ Cardinality(DOMAIN event) + 1 = k + 1
  BY <1>1, NextId
<1> DEFINE Draft(id, n, now, sp, others) ==
              NewEvent(id, v, store[n].epoch, sp, others, store[n].prevEpoch, now)
           Below(id, n, now, sp, others) ==
              SelfParentFrame(With(event, id, Draft(id, n, now, sp, others)), id)
           Medians(id, n, now, sp, others) ==
              Clock \cup {MedianTime(With(event, id, Draft(id, n, now, sp, others)),
                                    store[n].validators, id, store[n].prevTime)}
           Others(n) == SUBSET ({i \in DOMAIN event : event[i].epoch = store[n].epoch}
                                   \ OwnEvents(v, store[n].epoch))
           Made(id, n, root, now, sp, others) ==
              /\ root \/ Below(id, n, now, sp, others) > 0
              /\ \E median \in Medians(id, n, now, sp, others) :
                    event' = With(event, id, [Draft(id, n, now, sp, others) EXCEPT
                       !.frame = IF root THEN Below(id, n, now, sp, others) + 1
                                         ELSE Below(id, n, now, sp, others),
                       !.isRoot = root, !.medianTime = median])
           Body(n, root, now) ==
              LET S == store[n]
                  id == Cardinality(DOMAIN event) + 1
              IN  /\ S.epoch <= MaxEpoch /\ v \in S.validators
                  /\ \E sp \in {0} \cup OwnEvents(v, S.epoch) :
                     \E others \in SUBSET ({i \in DOMAIN event : event[i].epoch = S.epoch}
                                              \ OwnEvents(v, S.epoch)) :
                        LET draft == NewEvent(id, v, S.epoch, sp, others, S.prevEpoch, now)
                            D == With(event, id, draft)
                            f == SelfParentFrame(D, id)
                        IN  /\ root \/ f > 0
                            /\ \E median \in Clock \cup {MedianTime(D, S.validators, id, S.prevTime)} :
                                  event' = With(event, id, [draft EXCEPT
                                              !.frame = IF root THEN f + 1 ELSE f,
                                              !.isRoot = root, !.medianTime = median])
<1>5. \E n \in Node, root \in BOOLEAN, now \in Clock : Body(n, root, now)
  BY DEF Cheat
<1>22. ASSUME NEW n, NEW root, NEW now, Body(n, root, now)
       PROVE  \E sp \in {0} \cup OwnEvents(v, store[n].epoch) : \E others \in Others(n) :
                 Made(Cardinality(DOMAIN event) + 1, n, root, now, sp, others)
  BY <1>22
<1> HIDE DEF Made, Body
<1>6. PICK n \in Node, root \in BOOLEAN, now \in Clock : Body(n, root, now)
  BY <1>5
<1>7. PICK sp \in {0} \cup OwnEvents(v, store[n].epoch), others \in Others(n) :
      Made(k + 1, n, root, now, sp, others)
  <2>1. \E sp \in {0} \cup OwnEvents(v, store[n].epoch) : \E others \in Others(n) :
           Made(Cardinality(DOMAIN event) + 1, n, root, now, sp, others)
    <3> HIDE DEF Others
    <3> QED
      BY <1>6, <1>22
  <2> HIDE DEF Others
  <2> QED
    BY <1>4, <2>1
<1> DEFINE ep == store[n].epoch
           draft == Draft(k + 1, n, now, sp, others)
           f == Below(k + 1, n, now, sp, others)
           frame == IF root THEN f + 1 ELSE f
<1>21. PICK median : event' = With(event, k + 1, [draft EXCEPT !.frame = frame, !.isRoot = root,
                                                              !.medianTime = median])
  BY <1>7 DEF Made
<1> DEFINE e == [draft EXCEPT !.frame = frame, !.isRoot = root, !.medianTime = median]
<1>8. (root \/ f > 0) /\ event' = With(event, k + 1, e)
  BY <1>7, <1>21 DEF Made
<1>9. f = IF sp = 0 THEN 0 ELSE event[sp].frame
  <2>1. k + 1 \notin DOMAIN event /\ sp \in DOMAIN event \cup {0}
    BY SMTT(30), <1>4 DEF OwnEvents
  <2> QED
    BY SMTT(30), <2>1, DraftSelfParent
<1>10. sp # 0 => event[sp].frame \in Nat \ {0}
  BY SMTT(30), <1>1, <1>4 DEF OwnEvents, Graph, SelfParents
<1> HIDE DEF f, e
<1>11. /\ frame \in Nat \ {0}
       /\ frame = FrameOn(sp, root)
  BY SMTT(30), <1>8, <1>9, <1>10 DEF FrameOn
<1>12. ep \in Nat
  BY <1>3, StoreTypes DEF Common, Stores
<1>13. v \in Validators
  BY CheaterAssumption
<1>14. sp \in OwnEvents(v, ep) \cup {0}
       /\ others \in SUBSET {i \in DOMAIN event : event[i].epoch = ep}
  OBVIOUS
<1>15. e = Drafted(k + 1, v, ep, sp, others, store[n].prevEpoch, now, frame, root, median)
  BY DEF e, Drafted
<1> HIDE DEF ep, frame
<1>16. NextEvent(event, k + 1, e) /\ e.creator = v
  <2>1. DraftParts(k, v, ep, sp, others, frame, root)
    BY <1>1, <1>4, <1>11, <1>12, <1>13, <1>14 DEF DraftParts
  <2>2. DraftFields(e, k, v, ep, sp, others, store[n].prevEpoch, frame, root, median)
    BY ONLY ZenonT(30), <1>15, <2>1, DraftOK
  <2> QED
    BY <2>2 DEF DraftFields
<1>17. /\ Graph(event') /\ Lineage(event') /\ Extends(event, event') /\ event'[k + 1] = e
  BY SMTT(30), <1>1, <1>4, <1>8, <1>16, GraphGrows
<1>18. \A i \in DOMAIN event' \ DOMAIN event : Prepared(event', C, m, i)
  <2>1. \A i \in DOMAIN event' \ DOMAIN event : i = k + 1
    BY <1>8 DEF With
  <2> QED
    BY <1>16, <1>17, <2>1 DEF Prepared
<1>19. Common(event', C, m, applied, store, disk)
  BY <1>1, <1>3, <1>17, <1>18, CommonGrows
<1>20. UNCHANGED <<store, disk, pc, applied>>
  BY DEF Cheat
<1> QED
  BY <1>17, <1>19, <1>20 DEF IInv

\* The last of an honest validator's own events follows all the others.
LEMMA LastOwn ==
    ASSUME Graph(event), NEW k \in Nat, DOMAIN event = 1..k, NEW v, v \notin Cheater, NEW ep,
           OwnEvents(v, ep) # {}, NEW sp,
           sp = CHOOSE i \in OwnEvents(v, ep) : \A j \in OwnEvents(v, ep) : i >= j
    PROVE  sp \in OwnEvents(v, ep) /\ \A j \in OwnEvents(v, ep) : j \in event[sp].line
<1> DEFINE own == OwnEvents(v, ep)
<1>1. own \in SUBSET 0..k /\ own # {}
  BY SMTT(30) DEF OwnEvents
<1>2. \A j \in own : j \in DOMAIN event /\ event[j].creator = v /\ event[j].epoch = ep
  BY DEF OwnEvents
<1> HIDE DEF own
<1>3. \E i \in own : \A j \in own : i >= j
  BY <1>1, Largest
<1>4. sp \in own /\ \A j \in own : sp >= j
  BY <1>3 DEF own
<1>5. ASSUME NEW j \in own
      PROVE  j \in event[sp].line
  <2>1. sp \in event[j].line \/ j \in event[sp].line
    BY <1>2, <1>4 DEF Graph, Honest
  <2>2. ASSUME sp \in event[j].line
        PROVE  j \in event[sp].line
    <3>1. sp <= j
      <4>1. Ancestors(event, j) /\ SelfParents(event, j)
        BY <1>2 DEF Graph
      <4>2. sp \in event[j].anc
        BY <2>2, <4>1 DEF SelfParents
      <4> QED
        BY <4>1, <4>2 DEF Ancestors
    <3>2. sp = j
      <4>1. sp \in 0..k /\ j \in 0..k /\ sp >= j
        BY <1>1, <1>4
      <4> QED
        BY ONLY SMTT(30), <3>1, <4>1, k \in Nat
    <3> QED
      BY <1>2, <3>2 DEF Graph, SelfParents
  <2> QED
    BY <2>1, <2>2
<1> QED
  BY <1>4, <1>5 DEF own

\* What calcFrameIdx makes of a draft.
LEMMA CalcIs ==
    ASSUME NEW D, NEW S, NEW id, NEW sp, D[id].selfParent = sp,
           SelfParentFrame(D, id) = (IF sp = 0 THEN 0 ELSE event[sp].frame),
           sp # 0 => event[sp].frame \in Nat \ {0},
           NEW frame, frame = CalcFrameIdx(D, S, id).frame,
           NEW root, root = CalcFrameIdx(D, S, id).isRoot
    PROVE  /\ root \in BOOLEAN /\ frame \in Nat \ {0} /\ frame = FrameOn(sp, root)
           /\ root /\ frame > 1 => ForklessCausedByQuorumOn(D, S, id, frame - 1)
<1> DEFINE f == SelfParentFrame(D, id)
           Q == ForklessCausedByQuorumOn(D, S, id, f)
<1>1. CASE sp = 0
  <2>1. CalcFrameIdx(D, S, id) = [frame |-> 1, isRoot |-> TRUE]
    BY SMTT(30), <1>1 DEF CalcFrameIdx
  <2> QED
    BY SMTT(30), <1>1, <2>1 DEF FrameOn
<1>2. CASE sp # 0 /\ Q
  <2>1. CalcFrameIdx(D, S, id) = [frame |-> f + 1, isRoot |-> TRUE]
    BY <1>2 DEF CalcFrameIdx
  <2>2. f = event[sp].frame /\ f \in Nat \ {0}
    BY <1>2
  <2>3. frame = f + 1 /\ root = TRUE /\ frame - 1 = f
    BY SMTT(30), <2>1, <2>2
  <2>4. ForklessCausedByQuorumOn(D, S, id, frame - 1)
    BY <1>2, <2>3
  <2>5. frame = event[sp].frame + 1
    BY <2>2, <2>3
  <2>6. FrameOn(sp, TRUE) = event[sp].frame + 1
    BY <1>2 DEF FrameOn
  <2>7. frame \in Nat \ {0}
    BY SMTT(30), <2>2, <2>3
  <2> QED
    BY ONLY ZenonT(30), <2>3, <2>4, <2>5, <2>6, <2>7
<1>3. CASE sp # 0 /\ (~Q)
  <2>1. CalcFrameIdx(D, S, id) = [frame |-> f, isRoot |-> FALSE]
    BY <1>3 DEF CalcFrameIdx
  <2>2. f = event[sp].frame /\ f \in Nat \ {0}
    BY <1>3
  <2> QED
    BY SMTT(30), <1>3, <2>1, <2>2 DEF FrameOn
<1> QED
  BY <1>1, <1>2, <1>3

\* What an honest validator emits is an event that all nodes will accept.
LEMMA EmittedPrepared ==
    ASSUME Graph(event), Lineage(event), NEW C, NEW m, Chain(event, C, m),
           NEW S, StoreOK(event, C, m, S), NEW F, Extends(event, F),
           NEW k, NEW v, v \notin Cheater, v \in S.validators, NEW sp, NEW others, NEW frame, NEW root,
           NEW median, DraftParts(k, v, S.epoch, sp, others, frame, root),
           DraftFields(F[k + 1], k, v, S.epoch, sp, others, S.prevEpoch, frame, root, median),
           median = MedianTime(F, S.validators, k + 1, S.prevTime),
           NoCheaters(event, sp, others) = others,
           RootOK(F, S.validators, k + 1)
    PROVE  Prepared(F, C, m, k + 1)
<1> DEFINE id == k + 1
           e == F[id]
           j == Len(S.blocks)
<1>1. j \in 0..m
  BY StoreTypes
<1>2. e.epoch = EpochAt(C, j) /\ e.creator \in GroupAt(C, j) /\ S.validators = GroupAt(C, j)
      /\ S.prevEpoch = SealAt(C, j) /\ S.prevTime = StartAt(C, j)
  BY DEF DraftFields, StoreOK
<1>3. sp # 0 => sp \in DOMAIN event /\ event[sp].creator = v /\ event[sp].seq \in Nat \ {0}
  BY DEF DraftParts, OwnEvents, Lineage
<1>4. e.prevEpoch = IF e.seq = 1 THEN SealAt(C, j) ELSE 0
  <2>1. CASE sp = 0
    BY <1>2, <2>1 DEF DraftFields
  <2>2. CASE sp # 0
    <3>1. e.seq = event[sp].seq + 1 /\ e.prevEpoch = 0
      BY <2>2 DEF DraftFields
    <3>2. e.seq # 1
      BY SMTT(30), <1>3, <2>2, <3>1
    <3> QED
      BY <3>1, <3>2
  <2> QED
    BY <2>1, <2>2
<1>5. ASSUME e.selfParent # 0, NEW p \in e.parents
      PROVE  ~SeesFork(F, e.selfParent, F[p].creator)
  <2>1. e.selfParent = sp /\ p \in others \cup {sp}
    BY <1>5 DEF DraftFields
  <2>2. sp # 0 /\ sp \in DOMAIN event
    BY <1>3, <1>5, <2>1
  <2>3. p \in DOMAIN event
    BY <2>1, <2>2 DEF DraftParts
  <2>4. F[p] = event[p]
    BY <2>3 DEF Extends
  <2>5. ~SeesFork(event, sp, event[p].creator)
    <3>1. CASE p = sp
      BY <1>3, <2>2, <3>1, ForkIsCheat
    <3>2. CASE p \in others
      BY <2>2, <3>2 DEF NoCheaters
    <3> QED
      BY <2>1, <3>1, <3>2
  <2>6. SeesFork(F, sp, event[p].creator) <=> SeesFork(event, sp, event[p].creator)
    BY <2>2, CauseStable
  <2> QED
    BY <2>1, <2>4, <2>5, <2>6
<1>7. e.medianTime = median
  BY DEF DraftFields
<1> HIDE DEF e, j, id
<1>6. RootOK(F, GroupAt(C, j), id) /\ e.medianTime = MedianTime(F, GroupAt(C, j), id, StartAt(C, j))
  BY <1>2, <1>7 DEF id
<1> QED
  BY <1>1, <1>2, <1>4, <1>5, <1>6 DEF Prepared, e, id

\* The events that a draft observes are known to its node.
LEMMA DraftObserves ==
    ASSUME NEW C, NEW m, NEW S, StoreOK(event, C, m, S), NEW k, NEW v, NEW sp, NEW others,
           NEW frame, NEW root, NEW median, NEW e, NEW prev,
           DraftFields(e, k, v, S.epoch, sp, others, prev, frame, root, median),
           sp \in EpochEvents(S) \cup {0}, others \in SUBSET EpochEvents(S)
    PROVE  e.anc \subseteq EpochEvents(S) \cup {k + 1}
<1>1. \A p \in EpochEvents(S) : event[p].anc \subseteq EpochEvents(S)
  BY DEF StoreOK, Slice, EpochEvents
<1>2. \A p \in others \cup ({sp} \ {0}) : p \in EpochEvents(S)
  OBVIOUS
<1>3. e.anc = {k + 1} \cup UNION {event[p].anc : p \in others \cup ({sp} \ {0})}
  BY DEF DraftFields
<1> QED
  BY <1>1, <1>2, <1>3

\* Connecting an event keeps the stores.
LEMMA Connected ==
    ASSUME NEW E, Graph(E), NEW C, NEW m, NEW A, NEW dk, Common(E, C, m, A, store, dk),
           NEW n \in Node, NEW id \in DOMAIN E, E[id].epoch = store[n].epoch,
           E[id].anc \subseteq store[n].events \cup {id},
           E[id].creator \in store[n].validators, RootOK(E, store[n].validators, id),
           store' = [store EXCEPT ![n].events = @ \cup {id}]
    PROVE  Common(E, C, m, A, store', dk)
<1> DEFINE T == [store[n] EXCEPT !.events = @ \cup {id}]
<1>1. Stores(E, C, m, store)
  BY DEF Common
<1>2. StoreOK(E, C, m, store[n]) /\ store = [i \in Node |-> store[i]]
  BY <1>1 DEF Stores
<1>3. StoreOK(E, C, m, T)
  BY <1>2, StoreConnects
<1>4. store' = [store EXCEPT ![n] = T]
  OBVIOUS
<1> HIDE DEF T
<1>5. /\ store' = [i \in Node |-> IF i = n THEN T ELSE store[i]]
  BY <1>2, <1>4
<1>6. Stores(E, C, m, store')
  BY <1>1, <1>3, <1>5 DEF Stores
<1> QED
  BY <1>6 DEF Common

\* EmitEvent keeps the invariant: Prepare's event extends the graph, and its node
\* connects it.
LEMMA EmitStep ==
    ASSUME IInv, NEW v \in Validators \ Cheater, EmitEvent(v)
    PROVE  IInv'
<1> DEFINE n == Home[v]
           S == store[n]
           own == OwnEvents(v, S.epoch)
           sp == IF own = {} THEN 0 ELSE CHOOSE i \in own : \A j \in own : i >= j
           Draft(id, others, now) == NewEvent(id, v, S.epoch, sp, others, S.prevEpoch, now)
           Idx(id, others, now) == CalcFrameIdx(With(event, id, Draft(id, others, now)), S, id)
           Median(id, others, now) ==
              MedianTime(With(event, id, Draft(id, others, now)), S.validators, id, S.prevTime)
           Made(id, others, now) ==
              /\ NoCheaters(event, sp, others) = others
              /\ event' = With(event, id, [Draft(id, others, now) EXCEPT
                                              !.frame = Idx(id, others, now).frame,
                                              !.isRoot = Idx(id, others, now).isRoot,
                                              !.medianTime = Median(id, others, now)])
<1>1. Graph(event) /\ Lineage(event) /\ pc \in [Node -> {"idle", "electing", "sealed"}]
  BY DEF IInv
<1>2. PICK m \in Nat : \E C : Common(event, C, m, applied, store, disk)
  BY DEF IInv
<1>3. PICK C : Common(event, C, m, applied, store, disk)
  BY <1>2
<1>4. PICK k \in Nat : DOMAIN event = 1..k /\ Cardinality(DOMAIN event) + 1 = k + 1
  BY <1>1, NextId
<1>5. /\ v \in S.validators /\ own \subseteq S.events
      /\ Connect(n, Cardinality(DOMAIN event) + 1)
      /\ UNCHANGED <<disk, applied>>
  BY DEF EmitEvent
<1>6. \E others \in SUBSET Candidates(S, own), now \in Clock :
         Made(Cardinality(DOMAIN event) + 1, others, now)
  BY ZenonT(60) DEF EmitEvent
<1> HIDE DEF Made
<1>7. PICK others \in SUBSET Candidates(S, own), now \in Clock : Made(k + 1, others, now)
  BY <1>4, <1>6
<1>8. n \in Node
  BY PosetAssumption
<1>9. Chain(event, C, m) /\ StoreOK(event, C, m, S)
  BY <1>3, <1>8 DEF Common, Stores
<1>10. S.epoch \in Nat /\ S.validators \in SUBSET Validators
  BY <1>9, StoreTypes
<1> DEFINE draft == Draft(k + 1, others, now)
           frame == Idx(k + 1, others, now).frame
           root == Idx(k + 1, others, now).isRoot
           median == Median(k + 1, others, now)
           e == Drafted(k + 1, v, S.epoch, sp, others, S.prevEpoch, now, frame, root, median)
<1>11. NoCheaters(event, sp, others) = others /\ event' = With(event, k + 1, e)
  BY <1>7 DEF Made, Drafted
<1>12. /\ sp \in own \cup {0} /\ \A j \in own : sp # 0 /\ j \in event[sp].line
  <2>1. CASE own = {}
    BY <2>1
  <2>2. CASE own # {}
    <3>1. sp \in own /\ \A j \in own : j \in event[sp].line
      BY <1>1, <1>4, <2>2, LastOwn
    <3>2. 0 \notin own
      BY SMTT(30), <1>4 DEF OwnEvents
    <3> QED
      BY <3>1, <3>2
  <2> QED
    BY <2>1, <2>2
<1> HIDE DEF sp
<1>13. others \in SUBSET EpochEvents(S) /\ sp \in EpochEvents(S) \cup {0}
  BY <1>5, <1>12 DEF Candidates, EpochEvents, OwnEvents
<1>14. EpochEvents(S) \subseteq {i \in DOMAIN event : event[i].epoch = S.epoch}
  BY <1>9 DEF StoreOK, EpochEvents
<1>15. /\ root \in BOOLEAN /\ frame \in Nat \ {0} /\ frame = FrameOn(sp, root)
       /\ root /\ frame > 1 => ForklessCausedByQuorumOn(With(event, k + 1, draft), S, k + 1, frame - 1)
  <2> DEFINE D == With(event, k + 1, draft)
  <2>1. k + 1 \notin DOMAIN event /\ sp \in DOMAIN event \cup {0}
    BY SMTT(30), <1>4, <1>13, <1>14
  <2>2. D[k + 1].selfParent = sp /\ SelfParentFrame(D, k + 1) = IF sp = 0 THEN 0 ELSE event[sp].frame
    BY SMTT(30), <2>1, DraftSelfParent
  <2>3. sp # 0 => event[sp].frame \in Nat \ {0}
    BY SMTT(30), <1>1, <1>4, <2>1 DEF Graph, SelfParents
  <2>4. frame = CalcFrameIdx(D, S, k + 1).frame /\ root = CalcFrameIdx(D, S, k + 1).isRoot
    OBVIOUS
  <2> HIDE DEF D, frame, root
  <2>5. /\ root \in BOOLEAN /\ frame \in Nat \ {0} /\ frame = FrameOn(sp, root)
        /\ root /\ frame > 1 => ForklessCausedByQuorumOn(D, S, k + 1, frame - 1)
    BY ONLY SMTT(30), <2>2, <2>3, <2>4, CalcIs
  <2> QED
    BY <2>5 DEF D
<1>27. median = MedianTime(With(event, k + 1, draft), S.validators, k + 1, S.prevTime)
  OBVIOUS
<1> HIDE DEF frame, root, median
<1>16. DraftParts(k, v, S.epoch, sp, others, frame, root)
  BY <1>1, <1>4, <1>10, <1>12, <1>13, <1>14, <1>15 DEF DraftParts
<1>17. DraftFields(e, k, v, S.epoch, sp, others, S.prevEpoch, frame, root, median)
  BY ONLY ZenonT(30), <1>16, DraftOK
<1>18. /\ draft.creator = e.creator /\ draft.anc = e.anc /\ draft.line = e.line
       /\ draft.seq = e.seq /\ draft.claimedTime = e.claimedTime
  BY DEF Drafted, NewEvent
<1> HIDE DEF e, draft
<1>19. /\ Graph(event') /\ Lineage(event') /\ Extends(event, event') /\ event'[k + 1] = e
       /\ k + 1 \in DOMAIN event' /\ \A i \in DOMAIN event' \ DOMAIN event : i = k + 1
  <2>1. NextEvent(event, k + 1, e)
    BY <1>17 DEF DraftFields
  <2>2. /\ Graph(event') /\ Lineage(event') /\ Extends(event, event') /\ event'[k + 1] = e
    BY SMTT(30), <1>1, <1>4, <1>11, <2>1, GraphGrows
  <2> QED
    BY <1>11, <2>2 DEF With
<1>20. e.anc \subseteq EpochEvents(S) \cup {k + 1} /\ e.creator = v /\ e.epoch = S.epoch
       /\ e.frame = frame /\ e.isRoot = root
  BY <1>9, <1>13, <1>17, DraftObserves DEF DraftFields
<1>21. RootOK(event', S.validators, k + 1)
  <2> SUFFICES ASSUME root, frame > 1
               PROVE  QuorumSeen(event', S.validators, k + 1)
    BY <1>19, <1>20 DEF RootOK, QuorumSeen
  <2> DEFINE D == With(event, k + 1, draft)
             f == frame - 1
  <2>1. ForklessCausedByQuorumOn(D, S, k + 1, f)
    BY <1>15
  <2>2. k + 1 \notin DOMAIN event /\ e.frame - 1 = f
    BY SMTT(30), <1>4, <1>20
  <2>3. D = With(event, k + 1, draft)
    OBVIOUS
  <2> HIDE DEF D, f
  <2> QED
    BY <1>1, <1>9, <1>11, <1>18, <1>19, <1>20, <2>1, <2>2, <2>3, PreparedRoot
<1>28. median = MedianTime(event', S.validators, k + 1, S.prevTime)
  <2> DEFINE D == With(event, k + 1, draft)
             F == With(event, k + 1, e)
  <2>1. /\ D[k + 1] = draft /\ F[k + 1] = e
        /\ \A x \in DOMAIN event : (x # k + 1) => D[x] = event[x] /\ F[x] = event[x]
    BY DEF With
  <2> HIDE DEF D, F
  <2>3. F[k + 1].anc \subseteq DOMAIN event \cup {k + 1} /\ D[k + 1].anc = F[k + 1].anc
    BY <1>14, <1>18, <1>20, <2>1
  <2>2. SameClaims(D, F, k + 1)
    BY <1>18, <2>1, <2>3 DEF SameClaims
  <2>4. MedianTime(D, S.validators, k + 1, S.prevTime) = MedianTime(F, S.validators, k + 1, S.prevTime)
    BY ONLY SMTT(30), <2>2, MedianLocal
  <2> QED
    BY <1>11, <1>27, <2>4 DEF D, F
<1>22. Prepared(event', C, m, k + 1)
  BY <1>1, <1>5, <1>9, <1>11, <1>16, <1>17, <1>19, <1>21, <1>28, EmittedPrepared
<1>23. Common(event', C, m, applied, store, disk)
  BY <1>1, <1>3, <1>19, <1>22, CommonGrows
<1>24. store' = [store EXCEPT ![n].events = @ \cup {k + 1}]
       /\ pc' = [pc EXCEPT ![n] = IF event'[k + 1].isRoot THEN "electing" ELSE "idle"]
  BY <1>4, <1>5 DEF Connect
<1>25. Common(event', C, m, applied, store', disk)
  <2>1. EpochEvents(S) \subseteq S.events
    BY DEF EpochEvents
  <2>2. event'[k + 1].anc \subseteq S.events \cup {k + 1}
    BY <1>19, <1>20, <2>1
  <2> QED
    BY <1>5, <1>8, <1>19, <1>20, <1>21, <1>23, <1>24, <2>2, Connected
<1>26. pc' \in [Node -> {"idle", "electing", "sealed"}]
  BY <1>1, <1>24
<1> QED
  BY <1>2, <1>5, <1>19, <1>25, <1>26 DEF IInv

\* Of an event that has its parents, a node knows all that it observes.
LEMMA KnownAncestors ==
    ASSUME Graph(event), Lineage(event), NEW C, NEW m, NEW S, StoreOK(event, C, m, S),
           NEW id \in DOMAIN event, event[id].epoch = S.epoch, event[id].parents \subseteq S.events
    PROVE  event[id].anc \subseteq EpochEvents(S) \cup {id}
<1>1. event[id].anc = {id} \cup UNION {event[p].anc : p \in event[id].parents}
  BY DEF Lineage
<1>2. \A p \in event[id].parents : p \in EpochEvents(S)
  BY DEF Graph, Header, EpochEvents
<1>3. \A p \in EpochEvents(S) : event[p].anc \subseteq EpochEvents(S)
  BY DEF StoreOK, Slice, EpochEvents
<1> QED
  BY <1>1, <1>2, <1>3

\* The quorum of roots that a node counts for an event is what the event observes.
LEMMA CountedQuorum ==
    ASSUME Graph(event), Lineage(event), NEW C, NEW m, Chain(event, C, m),
           NEW S, StoreOK(event, C, m, S),
           NEW id \in DOMAIN event, event[id].epoch = S.epoch, event[id].parents \subseteq S.events
    PROVE  ForklessCausedByQuorumOn(event, S, id, event[id].frame - 1)
              <=> QuorumSeen(event, S.validators, id)
<1> DEFINE X == EpochEvents(S)
           G == S.validators
           f == event[id].frame - 1
<1>1. G \in SUBSET Validators
  BY StoreTypes
<1>2. Slice(event, X, G, S.epoch)
  BY DEF StoreOK, EpochEvents
<1>3. event[id].anc \subseteq X \cup {id}
  BY KnownAncestors
<1> HIDE DEF X, G
<1>4. {q \in Roots(event, X, f) : ForklessCause(event, G, id, q)} = Seen(event, G, id)
  BY SMTT(30), <1>1, <1>2, <1>3, KnownRoots
<1>5. ForklessCausedByQuorumOn(event, S, id, f) <=>
        HasQuorumOf(G, {event[r].creator : r \in {q \in Roots(event, X, f) : ForklessCause(event, G, id, q)}})
  BY DEF ForklessCausedByQuorumOn, GetFrameRoots, X, G
<1> QED
  BY <1>4, <1>5 DEF QuorumSeen, G

\* An accepted root observes a quorum of the roots below it.
LEMMA CheckedRoot ==
    ASSUME Graph(event), Lineage(event), NEW C, NEW m, Chain(event, C, m),
           NEW S, StoreOK(event, C, m, S),
           NEW id \in DOMAIN event, event[id].parents \subseteq S.events, CheckEvent(S, id)
    PROVE  RootOK(event, S.validators, id)
<1> DEFINE e == event[id]
           f == SelfParentFrame(event, id)
           Q == ForklessCausedByQuorumOn(event, S, id, e.frame - 1)
           is == e.frame = f + 1 /\ (e.frame <= 1 \/ Q)
<1> SUFFICES ASSUME e.isRoot, e.frame > 1
             PROVE  QuorumSeen(event, S.validators, id)
  BY DEF RootOK, QuorumSeen
<1>1. /\ CheckFrameIdx(event, S, id) = [frame |-> e.frame, isRoot |-> e.isRoot]
      /\ e.epoch = S.epoch
  BY DEF CheckEvent
<1>2. e.frame \in Nat
  BY SMTT(30) DEF Graph, SelfParents
<1>3. e.parents # {}
  <2> SUFFICES ASSUME e.parents = {} PROVE FALSE
    OBVIOUS
  <2>1. CheckFrameIdx(event, S, id) = [frame |-> 1, isRoot |-> TRUE]
    BY DEF CheckFrameIdx
  <2>2. e.frame = 1
    BY SMTT(30), <1>1, <2>1
  <2> QED
    BY SMTT(30), <2>2
<1>4. is
  <2> SUFFICES ASSUME ~is PROVE FALSE
    OBVIOUS
  <2>1. CheckFrameIdx(event, S, id) = [frame |-> f + 1, isRoot |-> FALSE]
    BY <1>3 DEF CheckFrameIdx
  <2>2. e.isRoot = TRUE
    BY DEF Graph, SelfParents
  <2> HIDE DEF is, e, f
  <2>3. CheckFrameIdx(event, S, id).isRoot = FALSE /\ CheckFrameIdx(event, S, id).isRoot = TRUE
    BY ONLY SMTT(30), <1>1, <2>1, <2>2
  <2> QED
    BY ONLY ZenonT(30), <2>3
<1>5. Q
  <2>1. e.frame <= 1 \/ Q
    BY <1>4
  <2> HIDE DEF Q
  <2> QED
    BY SMTT(30), <1>2, <2>1
<1> QED
  BY <1>1, <1>5, CountedQuorum

\* ProcessEvent keeps the invariant.
LEMMA ProcessStep ==
    ASSUME IInv, NEW n \in Node, NEW id \in DOMAIN event, ProcessEvent(n, id)
    PROVE  IInv'
<1> DEFINE S == store[n]
<1>1. Graph(event) /\ Lineage(event) /\ pc \in [Node -> {"idle", "electing", "sealed"}]
  BY DEF IInv
<1>2. PICK m \in Nat : \E C : Common(event, C, m, applied, store, disk)
  BY DEF IInv
<1>3. PICK C : Common(event, C, m, applied, store, disk)
  BY <1>2
<1>4. Chain(event, C, m) /\ StoreOK(event, C, m, S)
  BY <1>3 DEF Common, Stores
<1>5. /\ event[id].parents \subseteq S.events /\ CheckEvent(S, id) /\ UNCHANGED <<event, disk, applied>>
      /\ store' = [store EXCEPT ![n].events = @ \cup {id}]
      /\ pc' = [pc EXCEPT ![n] = IF event'[id].isRoot THEN "electing" ELSE "idle"]
  BY DEF ProcessEvent, Connect
<1>6. event[id].epoch = S.epoch /\ event[id].creator \in S.validators
  BY <1>5 DEF CheckEvent
<1>7. RootOK(event, S.validators, id)
  BY <1>1, <1>4, <1>5, CheckedRoot
<1>8. event[id].anc \subseteq EpochEvents(S) \cup {id} /\ EpochEvents(S) \subseteq S.events
  BY SMTT(30), <1>1, <1>4, <1>5, <1>6, KnownAncestors DEF EpochEvents
<1>9. Common(event, C, m, applied, store', disk)
  <2>1. event[id].anc \subseteq S.events \cup {id}
    BY <1>8
  <2> QED
    BY <1>1, <1>3, <1>5, <1>6, <1>7, <2>1, Connected
<1>10. pc' \in [Node -> {"idle", "electing", "sealed"}]
  BY <1>1, <1>5
<1> QED
  BY <1>1, <1>2, <1>5, <1>9, <1>10 DEF IInv

\* All the stores, in memory and on disk, follow one chain of blocks, whatever the
\* events, their order at each node, and the crashes.
THEOREM IInvHolds == Spec => []IInv
<1>1. IInv /\ [Next]_vars => IInv'
  <2> SUFFICES ASSUME IInv, [Next]_vars PROVE IInv'
    OBVIOUS
  <2>1. ASSUME NEW v \in Validators \ Cheater, EmitEvent(v)
        PROVE  IInv'
    BY <2>1, EmitStep
  <2>2. ASSUME NEW v \in Cheater, Cheat(v)
        PROVE  IInv'
    BY <2>2, CheatStep
  <2>3. ASSUME NEW n \in Node, NEW id \in DOMAIN event, ProcessEvent(n, id)
        PROVE  IInv'
    BY <2>3, ProcessStep
  <2>4. ASSUME NEW n \in Node, HandleElection(n)
        PROVE  IInv'
    BY <2>4, ElectionStep
  <2>5. ASSUME NEW n \in Node, Commit(n) \/ Bootstrap(n)
        PROVE  IInv'
    BY <2>5, RestartStep
  <2>6. CASE UNCHANGED vars
    BY <2>6 DEF vars, IInv
  <2> QED
    BY <2>1, <2>2, <2>3, <2>4, <2>5, <2>6 DEF Next
<1> QED
  BY <1>1, GenesisInv, PTL DEF Spec

\* A block number has one block, on all nodes, before and after crashes: the blocks
\* that nodes have applied are those of the chain, and the chain has one of each
\* number.
THEOREM BlocksAgreeHolds == Spec => []BlocksAgree
<1>1. IInv => BlocksAgree
  <2> SUFFICES ASSUME IInv, NEW b \in applied, NEW c \in applied, b.index = c.index
               PROVE  b = c
    BY DEF BlocksAgree
  <2>1. PICK m \in Nat : \E C : Common(event, C, m, applied, store, disk)
    BY DEF IInv
  <2>2. PICK C : Common(event, C, m, applied, store, disk)
    BY <2>1
  <2>3. Chain(event, C, m) /\ applied = {C[i] : i \in 1..m}
    BY <2>2 DEF Common
  <2>4. ASSUME NEW i \in 1..m
        PROVE  C[i].index = i
    <3>1. C[i] = NextBlock(event, C, i - 1, C[i].atropos)
      BY <2>3 DEF Chain
    <3>2. NextBlock(event, C, i - 1, C[i].atropos).index = (i - 1) + 1
      BY DEF NextBlock
    <3> QED
      BY SMTT(30), <3>1, <3>2
  <2>5. PICK i \in 1..m : b = C[i]
    BY <2>3
  <2>6. PICK j \in 1..m : c = C[j]
    BY <2>3
  <2> QED
    BY <2>4, <2>5, <2>6
<1> QED
  BY <1>1, IInvHolds, PTL

\* gossip never finds that the app seals an epoch at another block than it would
\* itself: the panic in applyBlock is not reached.  app counts blocks and time from
\* its last voting, gossip counts frames, and time from the start of its EpochStats;
\* after every block, and every crash, both began with the block that sealed last.
THEOREM SealsAgree == Spec => [](\A n \in Node : pc[n] # "panic")
<1>1. IInv => \A n \in Node : pc[n] # "panic"
  <2> SUFFICES ASSUME IInv, NEW n \in Node PROVE pc[n] # "panic"
    OBVIOUS
  <2>1. pc[n] \in {"idle", "electing", "sealed"}
    BY DEF IInv
  <2> QED
    BY <2>1
<1> QED
  BY <1>1, IInvHolds, PTL

\* An event is in at most one block, and in none before an event that it observes: what
\* a block confirms is closed under observation, later blocks leave it out, and within
\* a block an event comes after all that it observes.
THEOREM ConfirmedInOrderHolds == Spec => []ConfirmedInOrder
<1>1. IInv => ConfirmedInOrder
  <2> SUFFICES ASSUME IInv, NEW n \in Node,
                      NEW i \in DOMAIN store[n].blocks, NEW j \in DOMAIN store[n].blocks,
                      NEW p \in DOMAIN store[n].blocks[i].events,
                      NEW q \in DOMAIN store[n].blocks[j].events,
                      i < j \/ (i = j /\ p < q)
               PROVE  store[n].blocks[j].events[q] \notin event[store[n].blocks[i].events[p]].anc
    BY DEF ConfirmedInOrder
  <2>1. Graph(event) /\ Lineage(event)
    BY DEF IInv
  <2>2. PICK m \in Nat : \E C : Common(event, C, m, applied, store, disk)
    BY DEF IInv
  <2>3. PICK C : Common(event, C, m, applied, store, disk)
    BY <2>2
  <2>4. Chain(event, C, m) /\ StoreOK(event, C, m, store[n])
    BY <2>3 DEF Common, Stores
  <2>5. /\ i \in 1..m /\ store[n].blocks[i] = C[i]
        /\ j \in 1..m /\ store[n].blocks[j] = C[j]
    <3> DEFINE B == store[n].blocks
    <3>1. Len(B) <= m
      BY <2>4 DEF StoreOK
    <3>2. \A l \in 1..Len(B) : B[l] = C[l]
      BY <2>4 DEF StoreOK
    <3>3. Len(B) \in Nat
      BY <2>4, StoreTypes
    <3>4. B \in Seq({C[l] : l \in 1..m})
      BY <2>4 DEF StoreOK
    <3>5. DOMAIN B = 1..Len(B)
      BY ONLY SMTT(30), <3>4
    <3>6. 1..Len(B) \subseteq 1..m
      BY ONLY SMTT(30), <3>1, <3>3, m \in Nat
    <3> QED
      BY <3>2, <3>5, <3>6
  <2> DEFINE New(l) == event[C[l].atropos].anc \ ConfirmedAt(event, C, l - 1)
  <2>6. ASSUME NEW l \in 1..m
        PROVE  /\ \A r \in DOMAIN C[l].events : C[l].events[r] \in New(l)
               /\ \A r, s \in DOMAIN C[l].events : r < s => C[l].events[s] \notin event[C[l].events[r]].anc
    <3> DEFINE a == C[l].atropos
               cheaters == {v \in GroupAt(C, l - 1) : SeesFork(event, a, v)}
    <3>1. a \in DOMAIN event /\ C[l] = NextBlock(event, C, l - 1, a)
      BY <2>4 DEF Chain
    <3>2. C[l].events = BlockEvents(event, cheaters, a, New(l))
      <4>1. NextBlock(event, C, l - 1, a).events = BlockEvents(event, cheaters, a, New(l))
        BY DEF NextBlock
      <4> QED
        BY ONLY ZenonT(30), <3>1, <4>1
    <3>3. New(l) \in SUBSET DOMAIN event
      BY <2>1, <3>1 DEF Graph, Ancestors
    <3> HIDE DEF New, cheaters
    <3> QED
      BY <2>1, <3>2, <3>3, BlockInOrder
  <2>7. CASE i = j /\ p < q
    BY <2>5, <2>6, <2>7
  <2>8. CASE i < j
    <3> DEFINE x == C[i].events[p]
               y == C[j].events[q]
    <3>1. x \in event[C[i].atropos].anc /\ y \notin ConfirmedAt(event, C, j - 1)
      BY <2>5, <2>6
    <3>2. C[i].atropos \in DOMAIN event
      BY <2>4, <2>5 DEF Chain
    <3>3. event[x].anc \subseteq event[C[i].atropos].anc
      <4>1. \A z \in event[C[i].atropos].anc : event[z].anc \subseteq event[C[i].atropos].anc
        BY <2>1, <3>2 DEF Graph, Ancestors
      <4> QED
        BY <3>1, <4>1
    <3>4. i \in 1..(j - 1)
      BY SMTT(30), <2>5, <2>8
    <3>5. event[C[i].atropos].anc \subseteq ConfirmedAt(event, C, j - 1)
      BY <3>4 DEF ConfirmedAt
    <3> QED
      BY <2>5, <3>1, <3>3, <3>5
  <2> QED
    BY <2>7, <2>8
<1> QED
  BY <1>1, IInvHolds, PTL

\* calcFrameIdx finds of an event what Prepare has found, when the event observes a
\* quorum of the roots below it.
LEMMA CheckIs ==
    ASSUME Graph(event), NEW S, NEW id \in DOMAIN event,
           (event[id].isRoot /\ event[id].frame > 1) =>
              ForklessCausedByQuorumOn(event, S, id, event[id].frame - 1)
    PROVE  CheckFrameIdx(event, S, id) = [frame |-> event[id].frame, isRoot |-> event[id].isRoot]
<1> DEFINE e == event[id]
           f == SelfParentFrame(event, id)
           Q == ForklessCausedByQuorumOn(event, S, id, e.frame - 1)
           is == e.frame = f + 1 /\ (e.frame <= 1 \/ Q)
<1>1. /\ e.isRoot \in BOOLEAN /\ e.frame \in Nat \ {0} /\ e.frame = f + (IF e.isRoot THEN 1 ELSE 0)
      /\ e.selfParent \in e.parents \cup {0}
  BY SMTT(30) DEF Graph, SelfParents, Header
<1>2. CASE e.parents = {}
  <2>1. CheckFrameIdx(event, S, id) = [frame |-> 1, isRoot |-> TRUE]
    BY <1>2 DEF CheckFrameIdx
  <2>2. f = 0
    BY <1>1, <1>2 DEF SelfParentFrame
  <2>3. e.isRoot = TRUE /\ e.frame = 1
    BY SMTT(30), <1>1, <2>2
  <2> QED
    BY <2>1, <2>3
<1>3. CASE e.parents # {} /\ e.isRoot = FALSE
  <2>1. CheckFrameIdx(event, S, id) = [frame |-> f, isRoot |-> FALSE]
    BY <1>3 DEF CheckFrameIdx
  <2>2. e.frame = f + 0
    BY <1>1, <1>3
  <2>3. f \in Nat
    <3>1. CASE e.selfParent = 0
      BY <3>1 DEF SelfParentFrame
    <3>2. CASE e.selfParent # 0
      <4>1. e.selfParent \in DOMAIN event
        BY <3>2 DEF Graph, Header
      <4>2. event[e.selfParent].frame \in 1..e.selfParent
        BY <4>1 DEF Graph, SelfParents
      <4>3. event[e.selfParent].frame \in Nat
        BY SMTT(30), <4>1, <4>2 DEF Graph
      <4> QED
        BY <3>2, <4>3 DEF SelfParentFrame
    <3> QED
      BY <3>1, <3>2
  <2>4. e.frame = f
    BY SMTT(30), <2>2, <2>3
  <2> QED
    BY <1>3, <2>1, <2>4
<1>4. CASE e.parents # {} /\ e.isRoot = TRUE
  <2>1. CheckFrameIdx(event, S, id) = [frame |-> f + 1, isRoot |-> is]
    BY <1>4 DEF CheckFrameIdx
  <2>2. e.frame = f + 1
    BY <1>1, <1>4
  <2>3. e.frame > 1 => Q
    BY <1>4
  <2>4. e.frame <= 1 \/ Q
    <3> HIDE DEF Q
    <3> QED
      BY SMTT(30), <1>1, <2>3
  <2>5. is = TRUE
    BY <2>2, <2>4
  <2> HIDE DEF is, f
  <2> QED
    BY <1>4, <2>1, <2>2, <2>5
<1> QED
  BY <1>1, <1>2, <1>3, <1>4

\* The event of an honest validator passes the checks of every node that is in its
\* epoch and has its parents, whatever roots the node knows and whichever it misses.
THEOREM HonestPasses == Spec => []HonestAccepted
<1>1. IInv => HonestAccepted
  <2> SUFFICES ASSUME IInv, NEW n \in Node, NEW i \in DOMAIN event,
                      event[i].creator \notin Cheater,
                      event[i].epoch = store[n].epoch,
                      event[i].parents \subseteq store[n].events
               PROVE  CheckEvent(store[n], i)
    BY DEF HonestAccepted
  <2> DEFINE S == store[n]
             e == event[i]
             l == Len(S.blocks)
  <2>1. Graph(event) /\ Lineage(event)
    BY DEF IInv
  <2>2. PICK m \in Nat : \E C : Common(event, C, m, applied, store, disk)
    BY DEF IInv
  <2>3. PICK C : Common(event, C, m, applied, store, disk)
    BY <2>2
  <2>4. Chain(event, C, m) /\ StoreOK(event, C, m, S) /\ Prepared(event, C, m, i)
    BY <2>3 DEF Common, Stores
  <2>5. PICK j \in 0..m :
          /\ e.epoch = EpochAt(C, j) /\ e.creator \in GroupAt(C, j)
          /\ e.prevEpoch = IF e.seq = 1 THEN SealAt(C, j) ELSE 0
          /\ e.selfParent # 0 => \A p \in e.parents : ~SeesFork(event, e.selfParent, event[p].creator)
          /\ RootOK(event, GroupAt(C, j), i)
          /\ e.medianTime = MedianTime(event, GroupAt(C, j), i, StartAt(C, j))
    BY <2>4 DEF Prepared
  <2>6. /\ l \in 0..m /\ S.epoch = EpochAt(C, l)
        /\ S.validators = GroupAt(C, l) /\ S.prevEpoch = SealAt(C, l)
        /\ S.prevTime = StartAt(C, l)
    BY <2>4, StoreTypes DEF StoreOK
  <2> HIDE DEF l
  <2>7. /\ GroupAt(C, l) = GroupAt(C, j) /\ SealAt(C, l) = SealAt(C, j)
        /\ StartAt(C, l) = StartAt(C, j)
    <3>1. EpochAt(C, l) = EpochAt(C, j)
      BY <2>5, <2>6
    <3>2. CASE l <= j
      <4>1. j \in l..m
        BY SMTT(30), <2>5, <2>6, <3>2
      <4> QED
        BY SMTT(30), <2>4, <2>6, <3>1, <4>1, SameEpoch
    <3>3. CASE j <= l
      <4>1. l \in j..m
        BY SMTT(30), <2>5, <2>6, <3>3
      <4> QED
        BY SMTT(30), <2>4, <2>5, <3>1, <4>1, SameEpoch
    <3> QED
      BY SMTT(30), <2>5, <2>6, <3>2, <3>3
  <2>8. e.creator \in S.validators /\ e.prevEpoch = IF e.seq = 1 THEN S.prevEpoch ELSE 0
    BY <2>5, <2>6, <2>7
  <2>9. NoCheaters(event, e.selfParent, e.parents) = e.parents
    BY <2>5 DEF NoCheaters
  <2>10. RootOK(event, S.validators, i)
    BY <2>5, <2>6, <2>7
  <2>11. (e.isRoot /\ e.frame > 1) => ForklessCausedByQuorumOn(event, S, i, e.frame - 1)
    <3> SUFFICES ASSUME e.isRoot, e.frame > 1
                 PROVE  ForklessCausedByQuorumOn(event, S, i, e.frame - 1)
      OBVIOUS
    <3>1. QuorumSeen(event, S.validators, i)
      BY <2>10 DEF RootOK, QuorumSeen
    <3> QED
      BY <2>1, <2>4, <3>1, CountedQuorum
  <2>12. CheckFrameIdx(event, S, i) = [frame |-> e.frame, isRoot |-> e.isRoot]
    BY <2>1, <2>11, CheckIs
  <2>13. e.medianTime = MedianTime(event, S.validators, i, S.prevTime)
    BY <2>5, <2>6, <2>7
  <2> QED
    BY <2>8, <2>9, <2>12, <2>13 DEF CheckEvent
<1> QED
  BY <1>1, IInvHolds, PTL

=============================================================================
