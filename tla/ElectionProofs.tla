--------------------------- MODULE ElectionProofs ---------------------------
(***************************************************************************)
(* Proofs about poset/election for every group of validators, every stake, *)
(* every number of nodes and of restarts: the invariant of ElectionInv is  *)
(* inductive, and the properties of Election follow from it.               *)
(***************************************************************************)
EXTENDS ElectionVotes

\* Leaves are first-order; those that need arithmetic name SMT.
USE ZenonT(30)

\* A new root keeps the invariant: what older roots observe does not change.
LEMMA AddRootStep ==
    ASSUME IInv, NEW r \in Root, AddRoot(r)
    PROVE  IInv'
<1>1. PICK S \in SUBSET {s \in roots : s.frame = r.frame - 1} :
          /\ \/ r.frame = 1
             \/ HasQuorum(Creators(S)) /\ ObservableTogether(S)
          /\ obs' = [q \in roots \cup {r} |-> IF q = r THEN S ELSE obs[q]]
  BY DEF AddRoot
<1>2. /\ r \notin roots /\ roots' = roots \cup {r}
      /\ UNCHANGED <<known, frameToDecide, votes, decidedRoots, pc, todo, disk,
                     restarts, cast, decisions>>
  BY DEF AddRoot
<1>3. TypeOK /\ RootsInv
  BY DEF IInv
<1>4. obs'[r] = S /\ \A q \in roots : obs'[q] = obs[q]
  BY <1>1, <1>2
<1>5. obs' \in [roots' -> SUBSET roots']
  <2>1. \A q \in roots' : obs'[q] \in SUBSET roots'
    BY <1>1, <1>2, <1>3, <1>4 DEF TypeOK
  <2>2. obs' = [q \in roots' |-> obs'[q]]
    BY <1>1, <1>2
  <2> QED
    BY <2>1, <2>2
<1>6. TypeOK'
  BY SMTT(30), <1>2, <1>3, <1>5 DEF TypeOK
<1>7. RootsInv'
  <2>1. r.frame = 1 => S = {}
    <3>1. ASSUME r.frame = 1, NEW s \in S
          PROVE  FALSE
      BY SMTT(30), <1>1, <1>3, <3>1 DEF TypeOK, Root
    <3> QED
      BY <3>1
  <2>2. ASSUME NEW q \in roots'
        PROVE  /\ \A s \in obs'[q] : s.frame = q.frame - 1
               /\ q.frame > 1 => HasQuorum(Creators(obs'[q]))
    <3>1. CASE q = r
      BY SMTT(30), <1>1, <1>4, <3>1
    <3>2. CASE q \in roots
      BY <1>3, <1>4, <3>2 DEF RootsInv
    <3> QED
      BY <1>2, <3>1, <3>2
  <2>3. ASSUME NEW s \in S, NEW q \in roots, NEW t \in obs[q] \cup S,
               s.frame = t.frame, s.validator = t.validator
        PROVE  s = t
    <3>1. ObservableTogether(S)
      BY <1>1, <2>1
    <3> QED
      BY <2>3, <3>1 DEF ObservableTogether
  <2>4. ASSUME NEW p \in roots', NEW q \in roots',
               NEW s \in obs'[p], NEW t \in obs'[q],
               s.frame = t.frame, s.validator = t.validator
        PROVE  s = t
    <3>1. CASE p \in roots /\ q \in roots
      BY SMTT(30), <1>3, <1>4, <2>4, <3>1 DEF RootsInv
    <3>2. CASE p = r /\ q \in roots
      BY <1>4, <2>3, <2>4, <3>2
    <3>3. CASE p \in roots /\ q = r
      BY <1>4, <2>3, <2>4, <3>3
    <3>4. CASE p = r /\ q = r
      <4>1. s \in S /\ t \in S /\ s \in roots
        BY <1>1, <1>4, <3>4
      <4> QED
        BY <2>3, <2>4, <4>1
    <3> QED
      BY <1>2, <3>1, <3>2, <3>3, <3>4
  <2> QED
    BY SMTT(30), <2>2, <2>4 DEF RootsInv
<1>8. ASSUME NEW c \in cast
      PROVE  c \in Vote /\ VoteRule(c) /\ c.from \in roots /\ Basis(c)' = Basis(c)
  <2>1. c \in Vote /\ VoteRule(c) /\ c.from \in roots
    BY DEF IInv, TypeOK, CastInv, VoteRule
  <2> QED
    BY <1>2, <1>4, <2>1 DEF Basis, SameBallot
<1>9. CastInv'
  <2>1. SUFFICES ASSUME NEW c \in cast
                 PROVE  VoteRule(c)'
    BY <1>2 DEF CastInv
  <2>2. ObservedRootRule(c)'
    BY <1>2, <1>4, <1>8 DEF VoteRule, ObservedRootRule
  <2>3. (c.from \in roots)' /\ obs'[c.from] = obs[c.from]
    BY <1>2, <1>4, <1>8
  <2> QED
    BY SMTT(30), <1>8, <2>2, <2>3 DEF VoteRule
<1>10. CastFunctional' /\ CastContiguous' /\ Unanimity'
  BY SMTT(30), <1>2 DEF IInv, CastFunctional, CastContiguous, Unanimity, SameBallot
<1>11. \A m \in Node : LocalInv(m)'
  BY <1>2, <1>3, <1>4, OtherNode DEF IInv
<1>12. DecisionsInv'
  BY <1>2, OldDecisions DEF IInv, DecisionsInv
<1> QED
  BY <1>6, <1>7, <1>9, <1>10, <1>11, <1>12 DEF IInv

\* The history is untouched by steps that change no root and cast no vote.
LEMMA SameHistory ==
    ASSUME IInv, UNCHANGED <<roots, obs, cast, decisions>>
    PROVE  /\ RootsInv' /\ CastInv' /\ CastFunctional'
           /\ CastContiguous' /\ Unanimity' /\ DecisionsInv'
<1>1. RootsInv'
  BY SMTT(30) DEF IInv, RootsInv
<1>2. CastInv'
  BY SMTT(30) DEF IInv, CastInv, VoteRule, ObservedRootRule, Basis, SameBallot
<1>3. CastFunctional' /\ CastContiguous' /\ Unanimity'
  BY SMTT(30) DEF IInv, CastFunctional, CastContiguous, Unanimity, SameBallot
<1>4. DecisionsInv'
  BY OldDecisions DEF IInv, DecisionsInv
<1> QED
  BY <1>1, <1>2, <1>3, <1>4

\* A commit keeps the invariant.
LEMMA CommitStep ==
    ASSUME IInv, NEW n \in Node, Commit(n)
    PROVE  IInv'
<1>1. TypeOK /\ LocalInv(n)
  BY DEF IInv
<1>2. TypeOK'
  BY <1>1 DEF TypeOK, Commit
<1>3. ASSUME NEW m \in Node, m # n
      PROVE  LocalInv(m)'
  <2>1. LocalInv(m) /\ disk'[m] = disk[m]
    BY <1>1, <1>3 DEF IInv, Commit, TypeOK
  <2> QED
    BY <1>1, <2>1, OtherNode DEF Commit
<1>4. LocalInv(n)'
  <2>1. disk'[n] = [known |-> known[n], frameToDecide |-> frameToDecide[n]]
    BY <1>1 DEF Commit, TypeOK
  <2>2. disk'[n].known = known[n] /\ disk'[n].frameToDecide = frameToDecide[n]
    BY SMTT(30), <2>1
  <2>3. /\ UNCHANGED <<known, frameToDecide, votes, decidedRoots, pc, todo, cast,
                       decisions, obs>>
    BY DEF Commit
  <2>4. Closed(known[n])' /\ Closed(disk[n].known)'
    BY SMTT(30), <1>1, <2>2, <2>3 DEF LocalInv, Closed
  <2>5. /\ DecidedBelow(frameToDecide[n], known[n])'
        /\ DecidedBelow(disk[n].frameToDecide, disk[n].known)'
    BY SMTT(30), <1>1, <2>2, <2>3 DEF LocalInv, DecidedBelow
  <2>6. NotDecided(n)' = NotDecided(n)
    BY <2>3 DEF NotDecided
  <2>7. (ChooseAtropos(decidedRoots[n]) = {})'
    BY SMTT(30), <1>1, <2>3 DEF LocalInv, ChooseAtropos
  <2> QED
    BY SMTT(30), <1>1, <2>3, <2>4, <2>5, <2>6, <2>7 DEF LocalInv
<1>5. /\ RootsInv' /\ CastInv' /\ CastFunctional'
      /\ CastContiguous' /\ Unanimity' /\ DecisionsInv'
  BY SameHistory DEF Commit
<1> QED
  BY <1>2, <1>3, <1>4, <1>5 DEF IInv

\* A restart keeps the invariant: the new election starts from scratch, and
\* all known roots above the decided frames are processed again.
LEMMA BootstrapStep ==
    ASSUME IInv, NEW n \in Node, Bootstrap(n)
    PROVE  IInv'
<1> DEFINE K == disk[n].known
           f == disk[n].frameToDecide
<1>1. TypeOK /\ LocalInv(n)
  BY DEF IInv
<1>2. K \in SUBSET roots /\ f \in 1..MaxFrame /\ Closed(K)
  BY <1>1 DEF TypeOK, LocalInv
<1>3. f \in Nat \ {0}
  BY SMTT(30), <1>2, ElectionAssumption
<1>4. RootsFrom(K, f) = {q \in K : q.frame >= f}
  BY <1>1, <1>2, <1>3, RootsFromAll
<1>5. /\ known' = [known EXCEPT ![n] = K]
      /\ frameToDecide' = [frameToDecide EXCEPT ![n] = f]
      /\ votes' = [votes EXCEPT ![n] = {}]
      /\ decidedRoots' = [decidedRoots EXCEPT ![n] = {}]
      /\ todo' = [todo EXCEPT ![n] = RootsFrom(K, f)]
      /\ pc' = [pc EXCEPT ![n] = IF todo'[n] = {} THEN "idle" ELSE "known"]
      /\ UNCHANGED <<roots, obs, disk, cast, decisions>>
  BY DEF Bootstrap
<1>6. TypeOK'
  <2>1. restarts' \in 0..MaxRestarts
    BY SMTT(30), <1>1, ElectionAssumption DEF TypeOK, Bootstrap
  <2>2. RootsFrom(K, f) \in SUBSET roots
    BY <1>2, <1>4
  <2> QED
    BY <1>1, <1>2, <1>5, <2>1, <2>2 DEF TypeOK
<1>7. ASSUME NEW m \in Node, m # n
      PROVE  LocalInv(m)'
  <2>1. LocalInv(m)
    BY DEF IInv
  <2>2. /\ known'[m] = known[m] /\ frameToDecide'[m] = frameToDecide[m]
        /\ votes'[m] = votes[m] /\ decidedRoots'[m] = decidedRoots[m]
        /\ pc'[m] = pc[m] /\ todo'[m] = todo[m] /\ disk'[m] = disk[m]
    BY <1>1, <1>5, <1>7 DEF TypeOK
  <2> QED
    BY <1>1, <1>5, <2>1, <2>2, OtherNode
<1>8. LocalInv(n)'
  <2>1. /\ known'[n] = K /\ frameToDecide'[n] = f
        /\ votes'[n] = {} /\ decidedRoots'[n] = {}
        /\ todo'[n] = RootsFrom(K, f)
        /\ pc'[n] = "idle" => todo'[n] = {}
        /\ disk'[n].known = K /\ disk'[n].frameToDecide = f
    BY <1>1, <1>5 DEF TypeOK
  <2>2. Closed(known[n])' /\ Closed(disk[n].known)'
    BY SMTT(30), <1>2, <1>5, <2>1 DEF Closed
  <2>3. /\ DecidedBelow(frameToDecide[n], known[n])'
        /\ DecidedBelow(disk[n].frameToDecide, disk[n].known)'
    BY SMTT(30), <1>1, <1>5, <2>1 DEF LocalInv, DecidedBelow
  <2>4. todo'[n] \subseteq known'[n]
    BY <1>4, <2>1
  <2>5. ASSUME NEW q \in known'[n] \ todo'[n], q.frame > frameToDecide'[n]
        PROVE  FALSE
    <3>1. q \in K /\ q.frame \in Int /\ q.frame > f
      BY SMTT(30), <1>1, <1>2, <2>1, <2>5 DEF TypeOK, Root
    <3>2. q.frame >= f
      BY SMTT(30), <1>3, <3>1
    <3> QED
      BY <1>4, <2>1, <2>5, <3>1, <3>2
  <2>6. (ChooseAtropos(decidedRoots[n]) = {})'
    BY <2>1 DEF ChooseAtropos
  <2> QED
    BY <2>1, <2>2, <2>3, <2>4, <2>5, <2>6 DEF LocalInv
<1>9. /\ RootsInv' /\ CastInv' /\ CastFunctional'
      /\ CastContiguous' /\ Unanimity' /\ DecisionsInv'
  BY SameHistory DEF Bootstrap
<1> QED
  BY <1>6, <1>7, <1>8, <1>9 DEF IInv

\* The initial state satisfies the invariant.
LEMMA InitIInv == Init => IInv
<1> SUFFICES ASSUME Init
             PROVE  IInv
  OBVIOUS
<1> USE DEF Init
<1>1. 1 \in 1..MaxFrame /\ 0 \in 0..MaxRestarts
  BY SMTT(30), ElectionAssumption
<1>2. TypeOK
  BY <1>1 DEF TypeOK
<1>3. RootsInv /\ CastInv /\ CastFunctional /\ CastContiguous /\ Unanimity
  BY DEF RootsInv, CastInv, CastFunctional, CastContiguous, Unanimity
<1>4. DecisionsInv
  BY DEF DecisionsInv
<1>5. ASSUME NEW n \in Node
      PROVE  LocalInv(n)
  <2>1. DecidedBelow(1, {})
    BY SMTT(30) DEF DecidedBelow
  <2>2. Closed({})
    BY DEF Closed
  <2> QED
    BY <2>1, <2>2 DEF LocalInv, ChooseAtropos
<1> QED
  BY <1>2, <1>3, <1>4, <1>5 DEF IInv

\* The lowest root of processKnownRoots is ready: what it observes is done.
LEMMA TodoReady ==
    ASSUME IInv, NEW n \in Node, NEW r \in todo[n],
           \A s \in todo[n] : r.frame <= s.frame
    PROVE  Ready(n, r) /\ r \in known[n]
<1>1. TypeOK /\ RootsInv /\ LocalInv(n)
  BY DEF IInv
<1>2. r \in known[n] /\ r \in roots /\ obs[r] \subseteq known[n]
  BY <1>1 DEF LocalInv, TypeOK, Closed
<1>3. ASSUME NEW s \in obs[r], s \in todo[n]
      PROVE  FALSE
  <2>1. s.frame = r.frame - 1 /\ r.frame \in Int
    BY SMTT(30), <1>1, <1>2 DEF RootsInv, TypeOK, Root
  <2>2. r.frame <= s.frame
    BY <1>3
  <2> QED
    BY SMTT(30), <2>1, <2>2
<1> QED
  BY <1>2, <1>3 DEF Ready

\* Every step keeps the invariant.
LEMMA NextIInv == IInv /\ [Next]_vars => IInv'
<1> SUFFICES ASSUME IInv, [Next]_vars
             PROVE  IInv'
  OBVIOUS
<1>1. ASSUME NEW r \in Root, AddRoot(r)
      PROVE  IInv'
  BY <1>1, AddRootStep
<1>2. ASSUME NEW n \in Node, HandleElection(n)
      PROVE  IInv'
  <2>1. PICK r \in roots \ known[n] :
            /\ obs[r] \subseteq known[n]
            /\ ProcessRoot(n, r, known[n] \cup {r}, {})
    BY <1>2 DEF HandleElection
  <2>2. todo[n] = {}
    BY <1>2 DEF HandleElection, IInv, LocalInv
  <2>3. Ready(n, r) /\ {} = todo[n] \ {r}
    BY <2>1, <2>2 DEF Ready
  <2> QED
    BY <2>1, <2>3, ProcessRootStep
<1>3. ASSUME NEW n \in Node, ProcessKnownRoots(n)
      PROVE  IInv'
  <2>1. PICK r \in todo[n] :
            /\ \A s \in todo[n] : r.frame <= s.frame
            /\ ProcessRoot(n, r, known[n], todo[n] \ {r})
    BY <1>3 DEF ProcessKnownRoots
  <2>2. Ready(n, r) /\ known[n] = known[n] \cup {r}
    BY <2>1, TodoReady
  <2> QED
    BY <2>1, <2>2, ProcessRootStep
<1>4. ASSUME NEW n \in Node, Commit(n)
      PROVE  IInv'
  BY <1>4, CommitStep
<1>5. ASSUME NEW n \in Node, Bootstrap(n)
      PROVE  IInv'
  BY <1>5, BootstrapStep
<1>6. CASE UNCHANGED vars
  <2>1. UNCHANGED <<roots, obs, known, frameToDecide, votes, decidedRoots, pc, todo,
                    disk, restarts, cast, decisions>>
    BY <1>6 DEF vars
  <2>2. TypeOK'
    BY <2>1 DEF IInv, TypeOK
  <2>3. \A m \in Node : LocalInv(m)'
    BY <2>1, OtherNode DEF IInv
  <2> QED
    BY <2>1, <2>2, <2>3, SameHistory DEF IInv
<1> QED
  BY <1>1, <1>2, <1>3, <1>4, <1>5, <1>6 DEF Next

(***************************************************************************)
(* The invariant of ElectionInv holds in every reachable state.            *)
(***************************************************************************)
THEOREM IInvHolds == Spec => []IInv
BY InitIInv, NextIInv, PTL DEF Spec

(***************************************************************************)
(* The election's state keeps its types; in particular frameToDecide never *)
(* runs past the frames that have roots.                                   *)
(***************************************************************************)
THEOREM TypeCorrect == Spec => []TypeOK
<1>1. IInv => TypeOK
  BY DEF IInv
<1> QED
  BY <1>1, IInvHolds, PTL

\* The invariant implies agreement.
LEMMA IInvAgreement == IInv => Agreement
<1>1. SUFFICES ASSUME IInv, NEW d \in decisions, NEW e \in decisions,
                      d.frame = e.frame
               PROVE  d.atropos = e.atropos
  BY DEF Agreement
<1>2. TypeOK /\ RootsInv /\ CastInv /\ CastFunctional /\ Unanimity
  BY <1>1 DEF IInv
<1>3. DecisionBasis(d) /\ DecisionBasis(e)
  BY <1>1 DEF IInv, DecisionsInv
<1>4. PICK b \in cast :
        /\ b.election = d.frame /\ b.decided /\ b.yes
        /\ b.observedRoot = d.atropos
        /\ \A w \in Validators : Less(w, b.for) =>
              \E a \in cast : /\ a.election = d.frame /\ a.for = w
                              /\ a.decided /\ ~a.yes
  BY <1>3 DEF DecisionBasis
<1>5. PICK c \in cast :
        /\ c.election = e.frame /\ c.decided /\ c.yes
        /\ c.observedRoot = e.atropos
        /\ \A w \in Validators : Less(w, c.for) =>
              \E a \in cast : /\ a.election = e.frame /\ a.for = w
                              /\ a.decided /\ ~a.yes
  BY SMTT(30), <1>3 DEF DecisionBasis
<1>6. b \in Vote /\ c \in Vote /\ b.for \in Validators /\ c.for \in Validators
  BY <1>2 DEF TypeOK, Vote
<1>7. ~Less(b.for, c.for)
  <2>1. SUFFICES ASSUME Less(b.for, c.for)
                 PROVE  FALSE
    OBVIOUS
  <2>2. PICK a \in cast : /\ a.election = e.frame /\ a.for = b.for
                          /\ a.decided /\ ~a.yes
    BY <1>5, <1>6, <2>1
  <2>3. SameBallot(a, b)
    BY <1>1, <1>4, <2>2 DEF SameBallot
  <2>4. a.yes = b.yes
    BY <1>2, <1>4, <2>2, <2>3, DecidedAgree
  <2> QED
    BY <1>4, <2>2, <2>4
<1>8. ~Less(c.for, b.for)
  <2>1. SUFFICES ASSUME Less(c.for, b.for)
                 PROVE  FALSE
    OBVIOUS
  <2>2. PICK a \in cast : /\ a.election = d.frame /\ a.for = c.for
                          /\ a.decided /\ ~a.yes
    BY <1>4, <1>6, <2>1
  <2>3. SameBallot(a, c)
    BY <1>1, <1>5, <2>2 DEF SameBallot
  <2>4. a.yes = c.yes
    BY <1>2, <1>5, <2>2, <2>3, DecidedAgree
  <2> QED
    BY <1>5, <2>2, <2>4
<1>9. SameBallot(b, c)
  BY <1>1, <1>4, <1>5, <1>6, <1>7, <1>8, LessTotal DEF SameBallot
<1>10. VoteRule(b) /\ VoteRule(c)
  BY <1>2 DEF CastInv
<1>11. b.observedRoot = c.observedRoot
  BY <1>2, <1>4, <1>5, <1>6, <1>9, <1>10, SameObservedRoot
<1> QED
  BY <1>4, <1>5, <1>11

(***************************************************************************)
(* For any validators and stakes of which less than a third cheats, any    *)
(* number of nodes, orders of arrival, commits and restarts: two Atropoi   *)
(* chosen for the same frame are the same root.                            *)
(***************************************************************************)
THEOREM AtroposAgreement == Spec => []Agreement
BY IInvHolds, IInvAgreement, PTL

(***************************************************************************)
(* A node that is done with a root above a deciding vote has decided that  *)
(* subject too, the same way.                                              *)
(***************************************************************************)
LEMMA DecidedOneFrameLater ==
    ASSUME IInv, NEW n \in Node, pc[n] = "idle",
           NEW u \in cast, u.decided, u.election = frameToDecide[n],
           NEW r \in known[n], u.from.frame < r.frame
    PROVE  \E x \in decidedRoots[n] : x.for = u.for /\ x.yes = u.yes
<1>1. /\ TypeOK /\ RootsInv /\ CastInv /\ CastFunctional /\ Unanimity
      /\ LocalInv(n) /\ todo[n] = {}
  BY DEF IInv, LocalInv
<1>2. u \in Vote /\ VoteRule(u) /\ r \in Root /\ r.frame \in Int /\ u.from.frame \in Int
      /\ u.election \in Int /\ u.from.frame > 0 /\ u.for \in Validators
  BY SMTT(30), <1>1 DEF TypeOK, CastInv, Vote, Root
<1>3. u.from.frame > u.election + 1
  BY <1>2, DecidedRound
<1>4. PICK q \in known[n] : q.frame = u.from.frame + 1
  <2>1. u.from.frame + 1 \in 1..r.frame
    BY SMTT(30), <1>2
  <2> QED
    BY SMTT(30), <1>1, <2>1 DEF LocalInv, Closed
<1>5. CASE u.for \notin NotDecided(n)
  <2>1. PICK x \in decidedRoots[n] : x.for = u.for
    BY <1>2, <1>5 DEF NotDecided
  <2>2. x \in cast /\ x.decided /\ SameBallot(x, u)
    BY <1>1, <2>1 DEF LocalInv, SameBallot
  <2> QED
    BY <1>1, <2>1, <2>2, DecidedAgree
<1>6. CASE u.for \in NotDecided(n)
  <2>1. q \in known[n] \ todo[n] /\ q.frame > frameToDecide[n]
    BY SMTT(30), <1>1, <1>2, <1>3, <1>4
  <2>2. PICK b \in votes[n] : b.from = q /\ b.for = u.for
    BY SMTT(30), <1>1, <1>6, <2>1 DEF LocalInv
  <2>3. b \in cast /\ b \in Vote /\ VoteRule(b) /\ b.election = u.election
    BY <1>1 DEF LocalInv, TypeOK, CastInv
  <2>4. b.from.frame > b.election + 1
    BY SMTT(30), <1>2, <1>3, <1>4, <2>2, <2>3
  <2>5. ASSUME NEW y \in Basis(b)
        PROVE  y.yes = u.yes
    <3>1. y \in cast /\ SameBallot(y, u) /\ y.from \in obs[q] /\ q \in roots
      BY <1>1, <2>2, <2>3 DEF Basis, SameBallot, TypeOK
    <3>2. y.from.frame = u.from.frame
      BY SMTT(30), <1>1, <1>2, <1>4, <3>1 DEF RootsInv
    <3> QED
      BY <1>1, <3>1, <3>2, DecidedFinal
  <2>6. u.yes \in BOOLEAN
    BY <1>2 DEF Vote
  <2>7. b.yes = u.yes /\ b.decided
    BY <1>1, <2>3, <2>4, <2>5, <2>6, UnanimousBasis
  <2>8. b \in decidedRoots[n]
    BY <1>1, <2>7 DEF LocalInv
  <2> QED
    BY <2>2, <2>7, <2>8
<1> QED
  BY <1>5, <1>6

\* The invariant implies that decisions come in time.
LEMMA IInvDecidedInTime == IInv => DecidedInTime
<1>1. SUFFICES ASSUME IInv, NEW d \in decisions, NEW n \in Node,
                      pc[n] = "idle", frameToDecide[n] <= d.frame,
                      NEW r \in known[n],
                      \A s \in d.seen : ~(r.frame <= s.frame)
               PROVE  FALSE
  BY DEF DecidedInTime
<1>2. TypeOK /\ LocalInv(n)
  BY <1>1 DEF IInv
<1>3. /\ d.frame \in 1..MaxFrame /\ frameToDecide[n] \in 1..MaxFrame
      /\ d.seen \subseteq roots /\ r \in roots
  BY <1>2 DEF TypeOK
<1>4. PICK e \in decisions : e.frame = frameToDecide[n] /\ e.seen \subseteq d.seen
  <2>1. CASE frameToDecide[n] = d.frame
    BY <2>1
  <2>2. CASE frameToDecide[n] # d.frame
    <3>1. frameToDecide[n] \in 1..(d.frame - 1)
      BY SMTT(30), <1>1, <1>3, <2>2, ElectionAssumption
    <3>2. DecidedBelow(d.frame, d.seen)
      BY <1>1 DEF IInv, DecisionsInv
    <3> QED
      BY <3>1, <3>2 DEF DecidedBelow
  <2> QED
    BY <2>1, <2>2
<1>5. \A s \in d.seen : s.frame < r.frame
  <2>1. ASSUME NEW s \in d.seen
        PROVE  s.frame \in Int /\ r.frame \in Int
    BY SMTT(30), <1>2, <1>3 DEF TypeOK, Root
  <2> QED
    BY SMTT(30), <1>1, <2>1
<1>6. PICK c \in cast :
        /\ c.election = e.frame /\ c.decided /\ c.yes
        /\ c.from \in e.seen
        /\ \A w \in Validators : Less(w, c.for) =>
              \E a \in cast : /\ a.election = e.frame /\ a.for = w
                              /\ a.decided /\ ~a.yes
                              /\ a.from \in e.seen
  <2>1. DecisionBasis(e)
    BY <1>1 DEF IInv, DecisionsInv
  <2> QED
    BY <2>1 DEF DecisionBasis
<1>7. PICK x \in decidedRoots[n] : x.for = c.for /\ x.yes = c.yes
  <2>1. c.from.frame < r.frame /\ c.election = frameToDecide[n]
    BY <1>4, <1>5, <1>6
  <2> QED
    BY <1>1, <1>6, <2>1, DecidedOneFrameLater
<1>8. ASSUME NEW w \in Validators, Less(w, x.for)
      PROVE  \E y \in decidedRoots[n] : y.for = w /\ ~y.yes
  <2>1. PICK a \in cast : /\ a.election = e.frame /\ a.for = w
                          /\ a.decided /\ ~a.yes
                          /\ a.from \in e.seen
    BY <1>6, <1>7, <1>8
  <2>2. PICK y \in decidedRoots[n] : y.for = a.for /\ y.yes = a.yes
    <3>1. a.from.frame < r.frame /\ a.election = frameToDecide[n]
      BY <1>4, <1>5, <2>1
    <3> QED
      BY <1>1, <2>1, <3>1, DecidedOneFrameLater
  <2> QED
    BY <2>1, <2>2
<1>9. x \in ChooseAtropos(decidedRoots[n])
  BY <1>6, <1>7, <1>8 DEF ChooseAtropos
<1> QED
  BY <1>2, <1>9 DEF LocalInv

(***************************************************************************)
(* "Other validators will come to the same Atropos not later than current  *)
(* highest frame + 2": a node that is done with a root one frame above all *)
(* that a deciding node knew has decided the frame too.                    *)
(***************************************************************************)
THEOREM AtroposInTime == Spec => []DecidedInTime
BY IInvHolds, IInvDecidedInTime, PTL

(***************************************************************************)
(* A root whose observed roots are done meets none of the errors of a      *)
(* round: every observed root has voted, once, and "yes" votes agree.      *)
(***************************************************************************)
LEMMA CritNever ==
    ASSUME IInv, NEW n \in Node, NEW r, Ready(n, r)
    PROVE  ~Crit(n, r)
<1>1. /\ TypeOK /\ RootsInv /\ CastInv /\ CastFunctional /\ LocalInv(n)
  BY DEF IInv
<1>2. SUFFICES ASSUME r.frame > frameToDecide[n] + 1, NEW v \in NotDecided(n)
               PROVE  ~BadBallots(n, r, v)
  BY DEF Crit
<1>3. /\ r \in roots /\ r.frame \in Int /\ obs[r] \subseteq Root
      /\ frameToDecide[n] \in 1..MaxFrame
  BY SMTT(30), <1>1 DEF TypeOK, Ready, Root
<1> DEFINE B == Ballots(n, r, v)
<1>4. ObservedRoots(n, r) = obs[r]
  BY <1>1, ObservedRootsAll
<1>5. PICK c : c = [election |-> frameToDecide[n], from |-> r, for |-> v]
  OBVIOUS
<1>6. c.election = frameToDecide[n] /\ c.from = r /\ c.for = v
  BY <1>5
<1>7. \A s \in obs[r] : \E b \in B : b.from = s
  <2>1. Ready(n, r) /\ v \in NotDecided(n) /\ r.frame > frameToDecide[n] + 1
    BY <1>2
  <2>2. Ballots(n, r, v) = Basis(c) /\ \A s \in obs[r] : \E b \in Basis(c) : b.from = s
    BY ONLY n \in Node, <1>1, <1>6, <2>1, BallotsAreBasis, SMTT(30)
  <2> QED
    BY <2>2
<1>8. ASSUME NEW b \in B
      PROVE  /\ b \in cast /\ b \in Vote /\ VoteRule(b)
             /\ b.election = frameToDecide[n] /\ b.for = v /\ b.from \in obs[r]
  BY <1>1, <1>4 DEF Ballots, LocalInv, TypeOK, CastInv
<1>9. ASSUME NEW a \in B, NEW b \in B, a.yes, b.yes
      PROVE  a.observedRoot = b.observedRoot
  <2>1. SameBallot(a, b)
    BY <1>8 DEF SameBallot
  <2> QED
    BY <1>1, <1>8, <1>9, <2>1, SameObservedRoot
<1>10. ASSUME NEW a \in B, NEW b \in B, a.from.validator = b.from.validator
       PROVE  a.from = b.from
  <2>1. a.from.frame = b.from.frame
    BY SMTT(30), <1>1, <1>3, <1>8 DEF RootsInv
  <2> QED
    BY <1>1, <1>3, <1>8, <1>10, <2>1 DEF RootsInv
<1>11. HasQuorum(Creators({b.from : b \in B}))
  <2>1. {b.from : b \in B} = obs[r]
    BY SMTT(30), <1>7, <1>8
  <2>2. HasQuorum(Creators(obs[r]))
    BY SMTT(30), <1>1, <1>2, <1>3 DEF RootsInv
  <2> QED
    BY <2>1, <2>2
<1> QED
  BY <1>4, <1>7, <1>9, <1>10, <1>11 DEF BadBallots

(***************************************************************************)
(* A subject that is decided "no" has a "no" vote in the second round: if  *)
(* all the votes of that round were "yes", so would be the deciding one.   *)
(***************************************************************************)
LEMMA SecondRoundNo ==
    ASSUME IInv, NEW e \in cast, e.decided, ~e.yes
    PROVE  \E q \in cast : /\ SameBallot(q, e) /\ ~q.yes
                           /\ q.from.frame = e.election + 2
<1>1. TypeOK /\ CastInv /\ CastContiguous /\ Unanimity
  BY DEF IInv
<1>2. /\ \A c \in cast : /\ c \in Vote /\ VoteRule(c) /\ c.from.frame \in Int
                         /\ c.yes \in BOOLEAN
      /\ e.election \in Int
  BY SMTT(30), <1>1 DEF TypeOK, CastInv, Vote, Root
<1>3. e.from.frame > e.election + 1
  BY <1>2, DecidedRound
<1>4. e.election + 2 \in (e.election + 1)..e.from.frame
  BY SMTT(30), <1>2, <1>3
<1>5. PICK a \in cast : SameBallot(a, e) /\ a.from.frame = e.election + 2
  BY <1>1, <1>4 DEF CastContiguous
<1>6. CASE ~a.yes
  BY <1>5, <1>6
<1>7. CASE a.yes /\ a.from.frame = e.from.frame
  <2>1. SameBallot(e, e)
    BY DEF SameBallot
  <2> QED
    BY <1>5, <1>7, <2>1
<1>8. CASE a.yes /\ a.from.frame # e.from.frame
  <2>1. a.from.frame < e.from.frame
    BY SMTT(30), <1>2, <1>3, <1>5, <1>8
  <2>2. SameBallot(e, a) /\ e.yes # a.yes
    BY <1>2, <1>5, <1>8 DEF SameBallot
  <2>3. PICK q \in cast : /\ SameBallot(q, a) /\ q.from.frame = a.from.frame
                          /\ q.yes # a.yes
    BY <1>1, <2>1, <2>2 DEF Unanimity
  <2>4. SameBallot(q, e) /\ ~q.yes /\ q.from.frame = e.election + 2
    BY <1>2, <1>5, <1>8, <2>3 DEF SameBallot
  <2> QED
    BY <2>4
<1> QED
  BY <1>6, <1>7, <1>8

(***************************************************************************)
(* The subjects of a frame are never all decided "no".  In the first round *)
(* every root votes "no" on less than a third of the stake, while a        *)
(* subject that is decided "no" was voted down in the second round, by     *)
(* more than a third of the stake; for all subjects at once that is        *)
(* impossible by double counting.                                          *)
(***************************************************************************)
LEMMA NotAllNo ==
    ASSUME IInv, NEW n \in Node
    PROVE  ~AllDecidedNo(decidedRoots[n])
<1>1. TypeOK /\ RootsInv /\ CastInv /\ CastFunctional /\ LocalInv(n)
  BY DEF IInv
<1>2. SUFFICES ASSUME \A v \in Validators : \E d \in decidedRoots[n] : d.for = v /\ ~d.yes
               PROVE  FALSE
  BY DEF AllDecidedNo
<1> DEFINE f == frameToDecide[n]
           Seen(s) == \E p \in roots : s \in obs[p]
           R == {p \in Validators \X Validators :
                    \E s \in roots : /\ Seen(s) /\ s.frame = f + 1
                                     /\ s.validator = p[1]
                                     /\ p[2] \notin Creators(obs[s])}
           k == TotalStake - Quorum
<1>3. f \in Int /\ f > 0
  BY SMTT(30), <1>1, ElectionAssumption DEF TypeOK
<1>4. ASSUME NEW s \in roots, s.frame > 1
      PROVE  /\ Creators(obs[s]) \in SUBSET Validators
             /\ HasQuorum(Creators(obs[s]))
  BY SMTT(30), <1>1, <1>4 DEF TypeOK, RootsInv, Creators, Root
<1>5. k \in Nat
  <2>1. PICK v \in Validators : TRUE
    BY PosAssumption
  <2>2. PICK d \in decidedRoots[n] : d.for = v
    BY <1>2
  <2>3. d \in Vote /\ VoteRule(d) /\ d.decided
    BY <1>1 DEF LocalInv, CastInv, TypeOK
  <2>4. d.from \in roots /\ d.from.frame > 1
    <3>1. d.from.frame > d.election + 1 /\ d.election \in 1..MaxFrame
      BY <2>3, DecidedRound DEF Vote
    <3>2. d.from \in roots /\ d.from.frame \in Int
      BY SMTT(30), <2>3 DEF VoteRule, Vote, Root
    <3> QED
      BY SMTT(30), <3>1, <3>2
  <2>5. Sum(Creators(obs[d.from])) >= Quorum
    BY <1>4, <2>4 DEF HasQuorum
  <2>6. Sum(Creators(obs[d.from])) <= TotalStake /\ Sum(Creators(obs[d.from])) \in Nat
    BY <1>4, <2>4, SumMonotone, SumType DEF TotalStake
  <2> QED
    BY SMTT(30), <2>5, <2>6, QuorumBound
<1>6. ASSUME NEW u \in Validators
      PROVE  Sum({v \in Validators : <<u, v>> \in R}) <= k
  <2> DEFINE No == {v \in Validators : <<u, v>> \in R}
  <2>1. CASE No = {}
    <3>1. StakeUnits(No) = {}
      BY <2>1 DEF StakeUnits
    <3>2. Sum(No) = 0
      BY <3>1, FS_EmptySet DEF Sum
    <3> QED
      BY SMTT(30), <1>5, <3>2
  <2>2. CASE No # {}
    <3>1. PICK s \in roots : Seen(s) /\ s.frame = f + 1 /\ s.validator = u
      BY <2>2
    <3>2. ASSUME NEW v \in No
          PROVE  v \notin Creators(obs[s])
      <4>1. PICK t \in roots : /\ Seen(t) /\ t.frame = f + 1 /\ t.validator = u
                               /\ v \notin Creators(obs[t])
        OBVIOUS
      <4>2. s = t
        BY SMTT(30), <1>1, <3>1, <4>1 DEF RootsInv
      <4> QED
        BY <4>1, <4>2
    <3> DEFINE C == Creators(obs[s])
    <3>3. C \in SUBSET Validators /\ HasQuorum(C)
      BY SMTT(30), <1>3, <1>4, <3>1
    <3>4. Sum(No \cup C) = Sum(No) + Sum(C)
      BY <3>2, <3>3, SumDisjoint
    <3>5. Sum(No \cup C) <= TotalStake
      BY <3>3, SumMonotone DEF TotalStake
    <3>6. Sum(No) \in Nat /\ Sum(C) \in Nat /\ Sum(No \cup C) \in Nat
      BY <3>3, SumType
    <3> QED
      BY SMTT(30), <3>3, <3>4, <3>5, <3>6, QuorumBound DEF HasQuorum
  <2> QED
    BY <2>1, <2>2
<1>7. ASSUME NEW v \in Validators
      PROVE  Sum({u \in Validators : <<u, v>> \in R}) > k
  <2> DEFINE Against == {u \in Validators : <<u, v>> \in R}
  <2>1. PICK e \in decidedRoots[n] : e.for = v /\ ~e.yes
    BY <1>2
  <2>2. e \in cast /\ e.decided /\ e.election = f
    BY <1>1 DEF LocalInv
  <2>3. PICK q \in cast : SameBallot(q, e) /\ ~q.yes /\ q.from.frame = f + 2
    BY <2>1, <2>2, SecondRoundNo
  <2>4. /\ q \in Vote /\ VoteRule(q) /\ q.election = f /\ q.for = v
        /\ q.from.frame > q.election + 1 /\ q.from \in roots
    <3>1. q \in Vote /\ VoteRule(q)
      BY <1>1 DEF TypeOK, CastInv
    <3>2. q.election = f /\ q.for = v
      BY <2>1, <2>2, <2>3 DEF SameBallot
    <3>3. q.from.frame > f + 1
      BY SMTT(30), <1>3, <2>3
    <3> QED
      BY <3>1, <3>2, <3>3 DEF VoteRule
  <2> DEFINE Yes == YesVotes(Basis(q))
             No == NoVotes(Basis(q))
             C == Creators(obs[q.from])
  <2>5. /\ Yes \cup No = C /\ Yes \cap No = {}
        /\ C \in SUBSET Validators /\ HasQuorum(C)
        /\ Yes \in SUBSET Validators /\ No \in SUBSET Validators
    BY <1>1, <2>4, BasisVoters
  <2>6. ~(Sum(Yes) >= Sum(No))
    BY <2>3, <2>4 DEF VoteRule
  <2>7. ASSUME NEW u \in No
        PROVE  u \in Against
    <3>1. PICK b \in Basis(q) : ~b.yes /\ b.from.validator = u
      BY DEF NoVotes
    <3>2. /\ b \in cast /\ b \in Vote /\ VoteRule(b) /\ b.election = f /\ b.for = v
          /\ b.from \in obs[q.from] /\ b.from \in roots
      BY <1>1, <2>4 DEF Basis, SameBallot, TypeOK, CastInv, VoteRule
    <3>3. b.from.frame = f + 1
      <4>1. b.from.frame = q.from.frame - 1
        BY ONLY <1>1, <2>4, <3>2, ZenonT(30) DEF RootsInv
      <4> QED
        BY SMTT(30), <1>3, <2>3, <4>1
    <3>4. v \notin Creators(obs[b.from])
      BY <3>1, <3>2, <3>3 DEF VoteRule
    <3>5. u \in Validators
      BY <2>5
    <3> QED
      BY <2>4, <3>1, <3>2, <3>3, <3>4, <3>5
  <2>8. Sum(No) <= Sum(Against)
    BY <2>7, SumMonotone
  <2>9. Sum(Yes \cup No) = Sum(Yes) + Sum(No)
    BY <2>5, SumDisjoint
  <2>10. Sum(Yes) + Sum(No) >= Quorum
    BY <2>5, <2>9 DEF HasQuorum
  <2>11. /\ Sum(Yes) \in Nat /\ Sum(No) \in Nat /\ Sum(Against) \in Nat
    BY <2>5, SumType
  <2> HIDE DEF Yes, No, Against
  <2>12. Sum(Against) > k
    BY SMTT(30), <2>6, <2>8, <2>10, <2>11, QuorumBound
  <2> QED
    BY <2>12 DEF Against
<1> HIDE DEF R, k
<1> QED
  BY <1>5, <1>6, <1>7, StakeDoubleCounting

\* No step makes ProcessRoot fail.
LEMMA NoCritStep ==
    ASSUME IInv, NoCrit, [Next]_vars, IInv',
           \A n \in Node : ~AllDecidedNo(decidedRoots'[n])
    PROVE  NoCrit'
<1>1. TypeOK /\ TypeOK'
  BY DEF IInv
<1>2. ASSUME NEW n \in Node, NEW r, Ready(n, r), NEW K, NEW rest,
             ProcessRoot(n, r, K, rest)
      PROVE  NoCrit'
  <2>1. ~Crit(n, r)
    BY <1>2, CritNever
  <2> DEFINE D == decidedRoots[n] \cup {b \in NewVotes(n, r) : b.decided}
  <2>2. CASE /\ decidedRoots' = [decidedRoots EXCEPT ![n] = D]
             /\ pc' = [pc EXCEPT ![n] =
                          IF Crit(n, r) \/ AllDecidedNo(D) THEN "crit"
                          ELSE IF rest = {} THEN "idle" ELSE "known"]
    <3>1. decidedRoots'[n] = D
      BY <1>1, <2>2 DEF TypeOK
    <3>2. ~AllDecidedNo(D)
      BY <3>1
    <3>3. pc' = [pc EXCEPT ![n] = IF rest = {} THEN "idle" ELSE "known"]
      BY <2>1, <2>2, <3>2
    <3> QED
      BY <1>1, <3>3 DEF NoCrit, TypeOK
  <2>3. CASE pc' = [pc EXCEPT ![n] =
                       IF Crit(n, r) THEN "crit"
                       ELSE IF todo'[n] = {} THEN "idle" ELSE "known"]
    BY <1>1, <2>1, <2>3 DEF NoCrit, TypeOK
  <2> QED
    BY <1>2, <2>2, <2>3 DEF ProcessRoot
<1>3. ASSUME NEW n \in Node, HandleElection(n)
      PROVE  NoCrit'
  <2>1. PICK r \in roots \ known[n] :
            /\ obs[r] \subseteq known[n]
            /\ ProcessRoot(n, r, known[n] \cup {r}, {})
    BY <1>3 DEF HandleElection
  <2>2. Ready(n, r)
    BY <1>3, <2>1 DEF HandleElection, IInv, LocalInv, Ready
  <2> QED
    BY <1>2, <2>1, <2>2
<1>4. ASSUME NEW n \in Node, ProcessKnownRoots(n)
      PROVE  NoCrit'
  <2>1. PICK r \in todo[n] :
            /\ \A s \in todo[n] : r.frame <= s.frame
            /\ ProcessRoot(n, r, known[n], todo[n] \ {r})
    BY <1>4 DEF ProcessKnownRoots
  <2> QED
    BY <1>2, <2>1, TodoReady
<1>5. ASSUME NEW n \in Node, Bootstrap(n)
      PROVE  NoCrit'
  BY <1>1, <1>5 DEF NoCrit, TypeOK, Bootstrap
<1>6. ASSUME UNCHANGED pc
      PROVE  NoCrit'
  BY <1>6 DEF NoCrit
<1>7. (\E r \in Root : AddRoot(r)) \/ (\E n \in Node : Commit(n)) \/ UNCHANGED vars
         => UNCHANGED pc
  BY DEF AddRoot, Commit, vars
<1> QED
  BY <1>3, <1>4, <1>5, <1>6, <1>7 DEF Next

(***************************************************************************)
(* ProcessRoot never fails, for any stakes, nodes, orders of arrival and   *)
(* restarts: no vote is missing, no two forks of a slot are counted, and   *)
(* the subjects are never all decided "no" (the error that "is possible    *)
(* only if >1/3W are Byzantine").                                          *)
(***************************************************************************)
THEOREM ProcessRootNeverFails == Spec => []NoCrit
<1> DEFINE NoneAllNo == \A n \in Node : ~AllDecidedNo(decidedRoots[n])
<1>1. IInv => NoneAllNo
  BY NotAllNo
<1>2. Init => NoCrit
  BY DEF Init, NoCrit
<1>3. IInv /\ NoCrit /\ [Next]_vars /\ IInv' /\ NoneAllNo' => NoCrit'
  BY NoCritStep
<1> HIDE DEF NoneAllNo
<1> QED
  BY <1>1, <1>2, <1>3, IInvHolds, PTL DEF Spec
=============================================================================
