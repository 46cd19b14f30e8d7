--------------------------- MODULE ElectionVotes ---------------------------
(***************************************************************************)
(* Lemmas about the votes of poset/election: a vote is a function of the   *)
(* votes of the roots it observes, a decided vote binds all later ones,    *)
(* and ProcessRoot adds votes that keep the history that way.              *)
(***************************************************************************)
EXTENDS ElectionInv, FiniteSetTheorems, TLAPS

\* Leaves are first-order; those that need arithmetic name SMT.
USE ZenonT(30)

-----------------------------------------------------------------------------
(***************************************************************************)
(* The stakes of sets of validators: StakeCounter.Sum is a number, grows   *)
(* with the set, is additive over disjoint sets, and two quorums overlap   *)
(* in more stake than what either of them leaves out.                      *)
(***************************************************************************)

\* The stake units of a set of validators are finitely many.
LEMMA StakeUnitsFinite ==
    ASSUME NEW S \in SUBSET Validators
    PROVE  IsFiniteSet(StakeUnits(S))
<1> DEFINE Units(v) == {v} \X (1..Stake[v])
           f == [v \in S |-> Units(v)]
           Image == {Units(v) : v \in S}
<1>1. IsFiniteSet(S)
  BY FS_Subset, PosAssumption
<1>2. f \in Surjection(S, Image)
  BY DEF Surjection
<1>3. IsFiniteSet(Image)
  BY <1>1, <1>2, FS_Surjection
<1>4. ASSUME NEW v \in S
      PROVE  IsFiniteSet(Units(v))
  <2>1. Stake[v] \in Int
    BY SMTT(30), PosAssumption
  <2>2. IsFiniteSet(1..Stake[v])
    BY SMTT(30), <2>1, FS_Interval
  <2>3. IsFiniteSet({v})
    BY FS_Singleton
  <2> QED
    BY <2>2, <2>3, FS_Product
<1>5. \A T \in Image : IsFiniteSet(T)
  BY <1>4
<1>6. IsFiniteSet(UNION Image)
  BY <1>3, <1>5, FS_UNION
<1> QED
  BY <1>6 DEF StakeUnits

\* A stake counter's sum is a natural number.
LEMMA SumType ==
    ASSUME NEW S \in SUBSET Validators
    PROVE  Sum(S) \in Nat
BY StakeUnitsFinite, FS_CardinalityType DEF Sum

\* Counting more validators never lowers the sum.
LEMMA SumMonotone ==
    ASSUME NEW S \in SUBSET Validators, NEW R \in SUBSET S
    PROVE  Sum(R) <= Sum(S)
<1>1. StakeUnits(R) \in SUBSET StakeUnits(S)
  BY DEF StakeUnits
<1> QED
  BY <1>1, StakeUnitsFinite, FS_Subset DEF Sum

\* Validators are counted once, so sums of disjoint sets add up.
LEMMA SumDisjoint ==
    ASSUME NEW S \in SUBSET Validators, NEW R \in SUBSET Validators,
           S \cap R = {}
    PROVE  Sum(S \cup R) = Sum(S) + Sum(R)
<1>1. StakeUnits(S \cup R) = StakeUnits(S) \cup StakeUnits(R)
  BY DEF StakeUnits
<1>2. StakeUnits(S) \cap StakeUnits(R) = {}
  BY SMTT(30) DEF StakeUnits
<1>3. Cardinality(StakeUnits(S) \cap StakeUnits(R)) = 0
  BY <1>2, FS_EmptySet
<1>4. Cardinality(StakeUnits(S) \cup StakeUnits(R))
        = Cardinality(StakeUnits(S)) + Cardinality(StakeUnits(R)) - 0
  BY <1>3, StakeUnitsFinite, FS_Union
<1>5. Cardinality(StakeUnits(S)) \in Nat /\ Cardinality(StakeUnits(R)) \in Nat
  BY StakeUnitsFinite, FS_CardinalityType
<1>6. Sum(S \cup R) = Cardinality(StakeUnits(S) \cup StakeUnits(R))
  BY <1>1 DEF Sum
<1>7. Sum(S) = Cardinality(StakeUnits(S)) /\ Sum(R) = Cardinality(StakeUnits(R))
  BY DEF Sum
<1> QED
  BY SMTT(30), <1>4, <1>5, <1>6, <1>7

\* Two sets of validators overlap in at least their excess over the total.
LEMMA SumOverlap ==
    ASSUME NEW S \in SUBSET Validators, NEW R \in SUBSET Validators
    PROVE  Sum(S) + Sum(R) <= Sum(S \cap R) + TotalStake
<1>1. Sum(S) = Sum(S \cap R) + Sum(S \ R)
  <2>1. Sum((S \cap R) \cup (S \ R)) = Sum(S \cap R) + Sum(S \ R)
    BY SumDisjoint
  <2>2. (S \cap R) \cup (S \ R) = S
    OBVIOUS
  <2> QED
    BY <2>1, <2>2
<1>2. Sum((S \ R) \cup R) = Sum(S \ R) + Sum(R)
  BY SumDisjoint
<1>3. Sum((S \ R) \cup R) <= TotalStake
  BY SumMonotone DEF TotalStake
<1>4. /\ Sum(S \cap R) \in Nat
      /\ Sum(S \ R) \in Nat
      /\ Sum(R) \in Nat
      /\ TotalStake \in Nat
      /\ Sum((S \ R) \cup R) \in Nat
  BY SumType DEF TotalStake
<1> QED
  BY SMTT(30), <1>1, <1>2, <1>3, <1>4

\* Quorum() is more than two thirds of the total stake.
LEMMA QuorumBound ==
    /\ TotalStake \in Nat
    /\ Quorum \in Nat
    /\ Quorum > 0
    /\ 3 * Quorum > 2 * TotalStake
<1>1. TotalStake \in Nat
  BY SumType DEF TotalStake
<1>2. ASSUME NEW t \in Nat
      PROVE  /\ (t * 2) \div 3 + 1 \in Nat
             /\ (t * 2) \div 3 + 1 > 0
             /\ 3 * ((t * 2) \div 3 + 1) > 2 * t
  BY SMTT(30)
<1> QED
  BY <1>1, <1>2 DEF Quorum

\* A set with a quorum is not empty.
LEMMA QuorumNonEmpty ==
    ASSUME NEW S \in SUBSET Validators, HasQuorum(S)
    PROVE  S # {}
<1>1. SUFFICES ASSUME S = {}
               PROVE  FALSE
  OBVIOUS
<1>2. StakeUnits(S) = {}
  BY <1>1 DEF StakeUnits
<1>3. Sum(S) = 0
  BY <1>2, FS_EmptySet DEF Sum
<1> QED
  BY SMTT(30), <1>3, QuorumBound DEF HasQuorum

(***************************************************************************)
(* If a quorum of stake says one thing, then in any quorum of voters those *)
(* who say it outweigh all who could say the opposite.  This is what makes *)
(* a decided vote in ProcessRoot final.                                    *)
(***************************************************************************)
LEMMA QuorumMajority ==
    ASSUME NEW Agree \in SUBSET Validators, HasQuorum(Agree),
           NEW Voters \in SUBSET Validators, HasQuorum(Voters),
           NEW Same \in SUBSET Validators, Agree \cap Voters \subseteq Same,
           NEW Opposite \in SUBSET Validators, Opposite \cap Agree = {}
    PROVE  Sum(Same) > Sum(Opposite)
<1>1. Sum(Agree) + Sum(Voters) <= Sum(Agree \cap Voters) + TotalStake
  BY SumOverlap
<1>2. Sum(Agree \cap Voters) <= Sum(Same)
  BY SumMonotone
<1>3. Sum(Opposite \cup Agree) = Sum(Opposite) + Sum(Agree)
  BY SumDisjoint
<1>4. Sum(Opposite \cup Agree) <= TotalStake
  BY SumMonotone DEF TotalStake
<1>5. /\ Sum(Agree) \in Nat
      /\ Sum(Voters) \in Nat
      /\ Sum(Same) \in Nat
      /\ Sum(Opposite) \in Nat
      /\ Sum(Agree \cap Voters) \in Nat
      /\ Sum(Opposite \cup Agree) \in Nat
  BY SumType
<1> QED
  BY SMTT(30), <1>1, <1>2, <1>3, <1>4, <1>5, QuorumBound DEF HasQuorum

\* The order in which chooseAtropos asks the validators is total.
LEMMA LessTotal ==
    ASSUME NEW v \in Validators, NEW w \in Validators
    PROVE  Less(v, w) \/ Less(w, v) \/ v = w
<1>1. v \in Nat /\ w \in Nat /\ Stake[v] \in Nat /\ Stake[w] \in Nat
  BY PosAssumption
<1> QED
  BY SMTT(30), <1>1 DEF Less

\* A finite set of at least m elements has m of them in a row.
LEMMA EnumerateSome ==
    ASSUME NEW S, IsFiniteSet(S), NEW m \in Nat, m <= Cardinality(S)
    PROVE  \E g \in [1..m -> S] : \A i, j \in 1..m : g[i] = g[j] => i = j
<1>1. Cardinality(S) \in Nat /\ ExistsBijection(1..Cardinality(S), S)
  BY FS_CardinalityType
<1>2. PICK f : f \in Bijection(1..Cardinality(S), S)
  BY <1>1 DEF ExistsBijection
<1>3. /\ f \in [1..Cardinality(S) -> S]
      /\ \A i, j \in 1..Cardinality(S) : f[i] = f[j] => i = j
  BY <1>2 DEF Bijection, Injection, IsInjective
<1>4. 1..m \subseteq 1..Cardinality(S)
  BY SMTT(30), <1>1
<1>5. [i \in 1..m |-> f[i]] \in [1..m -> S]
  BY <1>3, <1>4
<1>6. \A i, j \in 1..m : f[i] = f[j] => i = j
  BY <1>3, <1>4
<1> QED
  BY <1>5, <1>6

\* A finite set of at most m elements can be numbered by 1..m.
LEMMA NumberAll ==
    ASSUME NEW S, IsFiniteSet(S), NEW m \in Nat, Cardinality(S) <= m
    PROVE  \E g \in [S -> 1..m] : \A x, y \in S : g[x] = g[y] => x = y
<1>1. Cardinality(S) \in Nat /\ ExistsBijection(1..Cardinality(S), S)
  BY FS_CardinalityType
<1>2. PICK f : f \in Bijection(1..Cardinality(S), S)
  BY <1>1 DEF ExistsBijection
<1>3. /\ \A x \in S : \E i \in 1..Cardinality(S) : f[i] = x
      /\ 1..Cardinality(S) \subseteq 1..m
  BY SMTT(30), <1>1, <1>2 DEF Bijection, Surjection
<1> DEFINE g == [x \in S |-> CHOOSE i \in 1..Cardinality(S) : f[i] = x]
<1>4. \A x \in S : g[x] \in 1..Cardinality(S) /\ f[g[x]] = x
  BY <1>3
<1>5. g \in [S -> 1..m]
  BY <1>3, <1>4
<1>6. \A x, y \in S : g[x] = g[y] => x = y
  BY <1>4
<1> QED
  BY <1>5, <1>6

(***************************************************************************)
(* Double counting: the pairs of a relation on a finite set cannot be at   *)
(* most k in every row and more than k in every column.                    *)
(***************************************************************************)
LEMMA DoubleCounting ==
    ASSUME NEW U, IsFiniteSet(U), U # {}, NEW P, NEW k \in Nat,
           \A x \in U : Cardinality({y \in U : <<x, y>> \in P}) <= k,
           \A y \in U : Cardinality({x \in U : <<x, y>> \in P}) > k
    PROVE  FALSE
<1> DEFINE Row(x) == {y \in U : <<x, y>> \in P}
           Col(y) == {x \in U : <<x, y>> \in P}
           Up(x) == {g \in [Row(x) -> 1..k] :
                        \A y, z \in Row(x) : g[y] = g[z] => y = z}
           Down(y) == {g \in [1..(k + 1) -> Col(y)] :
                          \A i, j \in 1..(k + 1) : g[i] = g[j] => i = j}
           up == [x \in U |-> CHOOSE g \in Up(x) : TRUE]
           down == [y \in U |-> CHOOSE g \in Down(y) : TRUE]
<1>1. ASSUME NEW x \in U
      PROVE  up[x] \in Up(x)
  <2>1. IsFiniteSet(Row(x))
    BY FS_Subset
  <2>2. Up(x) # {}
    BY <2>1, NumberAll
  <2> QED
    BY <2>2
<1>2. ASSUME NEW y \in U
      PROVE  down[y] \in Down(y)
  <2>1. IsFiniteSet(Col(y))
    BY FS_Subset
  <2>2. Cardinality(Col(y)) \in Nat /\ Cardinality(Col(y)) > k
    BY <2>1, FS_CardinalityType
  <2>3. k + 1 <= Cardinality(Col(y)) /\ k + 1 \in Nat
    BY SMTT(30), <2>2
  <2>4. Down(y) # {}
    BY SMTT(30), <2>1, <2>3, EnumerateSome
  <2> QED
    BY <2>4
<1> HIDE DEF up, down
<1> DEFINE S == U \X (1..(k + 1))
           T == U \X (1..k)
           h == [p \in S |-> <<down[p[1]][p[2]], up[down[p[1]][p[2]]][p[1]]>>]
<1>3. ASSUME NEW y \in U, NEW i \in 1..(k + 1)
      PROVE  /\ down[y][i] \in U
             /\ y \in Row(down[y][i])
             /\ up[down[y][i]][y] \in 1..k
  <2>1. down[y][i] \in Col(y)
    BY <1>2
  <2>2. down[y][i] \in U /\ y \in Row(down[y][i])
    BY <2>1
  <2>3. up[down[y][i]] \in [Row(down[y][i]) -> 1..k]
    BY <1>1, <2>2
  <2> QED
    BY <2>2, <2>3
<1>4. h \in [S -> T]
  BY <1>3
<1>5. ASSUME NEW p \in S, NEW q \in S, h[p] = h[q]
      PROVE  p = q
  <2>1. /\ p[1] \in U /\ q[1] \in U
        /\ p[2] \in 1..(k + 1) /\ q[2] \in 1..(k + 1)
        /\ p = <<p[1], p[2]>> /\ q = <<q[1], q[2]>>
    BY SMTT(30)
  <2>2. /\ down[p[1]][p[2]] = down[q[1]][q[2]]
        /\ up[down[p[1]][p[2]]][p[1]] = up[down[q[1]][q[2]]][q[1]]
    BY <1>5
  <2>3. p[1] = q[1]
    <3> DEFINE x == down[p[1]][p[2]]
    <3>1. x \in U /\ p[1] \in Row(x) /\ q[1] \in Row(x)
      BY <1>3, <2>1, <2>2
    <3>2. up[x] \in Up(x) /\ up[x][p[1]] = up[x][q[1]]
      BY <1>1, <2>2, <3>1
    <3> QED
      BY <3>1, <3>2
  <2>4. p[2] = q[2]
    BY <1>2, <2>1, <2>2, <2>3
  <2> QED
    BY <2>1, <2>3, <2>4
<1>6. h \in Injection(S, T)
  <2>1. h \in [S -> T]
    BY <1>4
  <2>2. \A p, q \in S : h[p] = h[q] => p = q
    BY <1>5
  <2> HIDE DEF S, T, h
  <2> QED
    BY SMTT(30), <2>1, <2>2 DEF Injection, IsInjective
<1>7. /\ IsFiniteSet(1..(k + 1)) /\ Cardinality(1..(k + 1)) = k + 1
      /\ IsFiniteSet(1..k) /\ Cardinality(1..k) = k
  BY SMTT(30), FS_Interval
<1>8. /\ IsFiniteSet(T)
      /\ Cardinality(S) = Cardinality(U) * (k + 1)
      /\ Cardinality(T) = Cardinality(U) * k
  BY <1>7, FS_Product
<1>9. Cardinality(S) <= Cardinality(T)
  BY <1>6, <1>8, FS_Injection
<1>10. Cardinality(U) \in Nat /\ Cardinality(U) # 0
  BY FS_CardinalityType, FS_EmptySet
<1>11. ASSUME NEW c \in Nat
       PROVE  c * (k + 1) = c * k + c /\ c * k \in Nat
  BY SMTT(30)
<1> QED
  BY SMTT(30), <1>8, <1>9, <1>10, <1>11

(***************************************************************************)
(* The same for stakes: when every validator is related to validators of   *)
(* at most k stake, some validator has at most k stake related to it.      *)
(***************************************************************************)
LEMMA StakeDoubleCounting ==
    ASSUME NEW R, NEW k \in Nat,
           \A u \in Validators : Sum({v \in Validators : <<u, v>> \in R}) <= k,
           \A v \in Validators : Sum({u \in Validators : <<u, v>> \in R}) > k
    PROVE  FALSE
<1> DEFINE U == StakeUnits(Validators)
           P == {p \in U \X U : <<p[1][1], p[2][1]>> \in R}
<1>1. IsFiniteSet(U)
  BY StakeUnitsFinite
<1>2. \A x \in U : x[1] \in Validators
  BY SMTT(30) DEF StakeUnits
<1>3. U # {}
  <2>1. PICK v \in Validators : TRUE
    BY PosAssumption
  <2>2. <<v, 1>> \in {v} \X (1..Stake[v])
    BY SMTT(30), PosAssumption
  <2> QED
    BY <2>2 DEF StakeUnits
<1>4. ASSUME NEW S \in SUBSET Validators
      PROVE  StakeUnits(S) = {x \in U : x[1] \in S}
  BY SMTT(30) DEF StakeUnits
<1>5. ASSUME NEW x \in U
      PROVE  Cardinality({y \in U : <<x, y>> \in P}) <= k
  <2> DEFINE S == {v \in Validators : <<x[1], v>> \in R}
  <2>1. {y \in U : <<x, y>> \in P} = {y \in U : y[1] \in S}
    BY <1>2
  <2>2. {y \in U : <<x, y>> \in P} = StakeUnits(S)
    BY <1>4, <2>1
  <2> QED
    BY <1>2, <2>2 DEF Sum
<1>6. ASSUME NEW y \in U
      PROVE  Cardinality({x \in U : <<x, y>> \in P}) > k
  <2> DEFINE S == {u \in Validators : <<u, y[1]>> \in R}
  <2>1. {x \in U : <<x, y>> \in P} = {x \in U : x[1] \in S}
    BY <1>2
  <2>2. {x \in U : <<x, y>> \in P} = StakeUnits(S)
    BY <1>4, <2>1
  <2> QED
    BY <1>2, <2>2 DEF Sum
<1> HIDE DEF U, P
<1> QED
  BY <1>1, <1>3, <1>5, <1>6, DoubleCounting

-----------------------------------------------------------------------------
\* The counted validators of votes are validators.
LEMMA VotersType ==
    ASSUME NEW B \in SUBSET Vote
    PROVE  /\ YesVotes(B) \in SUBSET Validators
           /\ NoVotes(B) \in SUBSET Validators
BY DEF YesVotes, NoVotes, Vote, Root

\* A first-round vote never decides.
LEMMA DecidedRound ==
    ASSUME NEW c \in Vote, VoteRule(c), c.decided
    PROVE  c.from.frame > c.election + 1
<1>1. c.from.frame \in Int /\ c.election \in Int
  BY SMTT(30) DEF Vote, Root
<1> QED
  BY SMTT(30), <1>1 DEF VoteRule

(***************************************************************************)
(* What a root of a round after the first counts: one vote from every root *)
(* it observes, so each observed creator is counted on exactly one side.   *)
(***************************************************************************)
LEMMA BasisVoters ==
    ASSUME TypeOK, RootsInv, CastFunctional,
           NEW c \in Vote, VoteRule(c), c.from.frame > c.election + 1
    PROVE  /\ Basis(c) \in SUBSET Vote
           /\ Creators(obs[c.from]) \in SUBSET Validators
           /\ HasQuorum(Creators(obs[c.from]))
           /\ YesVotes(Basis(c)) \cup NoVotes(Basis(c)) = Creators(obs[c.from])
           /\ YesVotes(Basis(c)) \cap NoVotes(Basis(c)) = {}
<1> USE DEF SameBallot
<1>1. Basis(c) \in SUBSET Vote
  BY DEF Basis, TypeOK
<1>2. /\ c.from \in roots
      /\ obs[c.from] \subseteq roots
      /\ obs[c.from] \subseteq Root
      /\ c.from.frame > 1
  BY SMTT(30) DEF VoteRule, TypeOK, Vote, Root
<1>3. Creators(obs[c.from]) \in SUBSET Validators
  BY <1>2 DEF Creators, Root
<1>4. HasQuorum(Creators(obs[c.from]))
  BY <1>2 DEF RootsInv
<1>5. YesVotes(Basis(c)) \cup NoVotes(Basis(c)) \subseteq Creators(obs[c.from])
  BY DEF YesVotes, NoVotes, Creators, Basis
<1>6. ASSUME NEW s \in obs[c.from]
      PROVE  s.validator \in YesVotes(Basis(c)) \cup NoVotes(Basis(c))
  <2>1. PICK b \in Basis(c) : b.from = s
    BY DEF VoteRule
  <2> QED
    BY <2>1 DEF YesVotes, NoVotes
<1>7. Creators(obs[c.from]) \subseteq YesVotes(Basis(c)) \cup NoVotes(Basis(c))
  BY <1>6 DEF Creators
<1>8. ASSUME NEW x \in YesVotes(Basis(c)), x \in NoVotes(Basis(c))
      PROVE  FALSE
  <2>1. PICK a \in Basis(c) : a.yes /\ a.from.validator = x
    BY DEF YesVotes
  <2>2. PICK b \in Basis(c) : ~b.yes /\ b.from.validator = x
    BY <1>8 DEF NoVotes
  <2>3. a.from = b.from
    <3>1. a.from \in obs[c.from] /\ b.from \in obs[c.from]
      BY <2>1, <2>2 DEF Basis
    <3>2. a.from.frame = c.from.frame - 1 /\ b.from.frame = c.from.frame - 1
      BY <3>1, <1>2 DEF RootsInv
    <3> QED
      BY SMTT(30), <3>1, <3>2, <1>2, <2>1, <2>2 DEF RootsInv
  <2>4. a = b
    BY <2>3 DEF Basis, CastFunctional
  <2> QED
    BY <2>1, <2>2, <2>4
<1>9. YesVotes(Basis(c)) \cap NoVotes(Basis(c)) = {}
  BY <1>8
<1> QED
  BY <1>1, <1>3, <1>4, <1>5, <1>7, <1>9

\* When all the observed roots vote alike, the root votes like them and decides.
LEMMA UnanimousBasis ==
    ASSUME TypeOK, RootsInv, CastFunctional,
           NEW c \in Vote, VoteRule(c), c.from.frame > c.election + 1,
           NEW y \in BOOLEAN, \A b \in Basis(c) : b.yes = y
    PROVE  c.yes = y /\ c.decided
<1> DEFINE Yes == YesVotes(Basis(c))
           No == NoVotes(Basis(c))
           Seen == Creators(obs[c.from])
<1>1. /\ Yes \in SUBSET Validators /\ No \in SUBSET Validators
      /\ Seen \in SUBSET Validators
      /\ HasQuorum(Seen)
      /\ Yes \cup No = Seen
  BY BasisVoters, VotersType
<1>2. /\ c.yes <=> Sum(Yes) >= Sum(No)
      /\ c.decided <=> HasQuorum(Yes) \/ HasQuorum(No)
  BY DEF VoteRule
<1>3. c.yes \in BOOLEAN
  BY DEF Vote
<1>4. CASE y = TRUE
  <2>1. No = {}
    BY <1>4 DEF NoVotes
  <2>2. Yes = Seen
    BY <1>1, <2>1
  <2>3. HasQuorum(Yes)
    BY <1>1, <2>2
  <2>4. Sum(No) <= Sum(Yes)
    BY <1>1, <2>1, SumMonotone
  <2>5. Sum(No) \in Nat /\ Sum(Yes) \in Nat
    BY <1>1, SumType
  <2>6. Sum(Yes) >= Sum(No)
    BY <2>4, <2>5
  <2> QED
    BY <1>2, <1>3, <1>4, <2>3, <2>6
<1>5. CASE y = FALSE
  <2>1. Yes = {}
    BY <1>5 DEF YesVotes
  <2>2. No = Seen
    BY <1>1, <2>1
  <2>3. HasQuorum(No)
    BY <1>1, <2>2
  <2>4. Sum(No) > Sum(Yes)
    BY <1>1, <2>1, <2>3, QuorumMajority
  <2>5. Sum(No) \in Nat /\ Sum(Yes) \in Nat
    BY <1>1, SumType
  <2>6. ~(Sum(Yes) >= Sum(No))
    BY SMTT(30), <2>4, <2>5
  <2> QED
    BY <1>2, <1>3, <1>5, <2>3, <2>6
<1> QED
  BY <1>4, <1>5

(***************************************************************************)
(* A deciding vote is final within its frame: every vote of that frame, by *)
(* any root and at any node, has the same value (the quorum rule of        *)
(* ProcessRoot, rounds after the first).                                   *)
(***************************************************************************)
LEMMA DecidedFinal ==
    ASSUME TypeOK, RootsInv, CastInv, CastFunctional,
           NEW c \in cast, c.decided,
           NEW a \in cast, SameBallot(a, c), a.from.frame = c.from.frame
    PROVE  a.yes = c.yes
<1> DEFINE Yes(x) == YesVotes(Basis(x))
           No(x) == NoVotes(Basis(x))
           Seen(x) == Creators(obs[x.from])
<1>1. /\ a \in Vote /\ c \in Vote
      /\ VoteRule(a) /\ VoteRule(c)
      /\ a.election = c.election
  BY DEF TypeOK, CastInv, SameBallot
<1>2. c.from.frame > c.election + 1 /\ a.from.frame > a.election + 1
  BY <1>1, DecidedRound
<1>3. /\ Yes(a) \cup No(a) = Seen(a) /\ Yes(a) \cap No(a) = {}
      /\ Yes(c) \cup No(c) = Seen(c) /\ Yes(c) \cap No(c) = {}
      /\ HasQuorum(Seen(a)) /\ HasQuorum(Seen(c))
      /\ Seen(a) \in SUBSET Validators /\ Seen(c) \in SUBSET Validators
  BY <1>1, <1>2, BasisVoters
<1>4. /\ Yes(a) \in SUBSET Validators /\ No(a) \in SUBSET Validators
      /\ Yes(c) \in SUBSET Validators /\ No(c) \in SUBSET Validators
  BY <1>3
<1>5. ASSUME NEW x \in Basis(a), NEW y \in Basis(c),
             x.from.validator = y.from.validator
      PROVE  x = y
  <2>1. /\ x.from \in obs[a.from] /\ y.from \in obs[c.from]
        /\ a.from \in roots /\ c.from \in roots
    BY <1>1 DEF Basis, VoteRule
  <2>2. x.from.frame = y.from.frame
    BY SMTT(30), <2>1 DEF RootsInv
  <2>3. x.from = y.from
    BY SMTT(30), <2>1, <2>2, <1>5 DEF RootsInv
  <2>4. SameBallot(x, y) /\ x \in cast /\ y \in cast
    BY <1>1 DEF Basis, SameBallot
  <2> QED
    BY <2>3, <2>4 DEF CastFunctional
<1>6. Yes(c) \cap No(a) = {} /\ No(c) \cap Yes(a) = {}
  BY <1>5 DEF YesVotes, NoVotes
<1>7. /\ a.yes <=> Sum(Yes(a)) >= Sum(No(a))
      /\ c.yes <=> Sum(Yes(c)) >= Sum(No(c))
      /\ HasQuorum(Yes(c)) \/ HasQuorum(No(c))
  BY <1>1, <1>2 DEF VoteRule
<1>8. /\ Sum(Yes(a)) \in Nat /\ Sum(No(a)) \in Nat
      /\ Sum(Yes(c)) \in Nat /\ Sum(No(c)) \in Nat
  BY <1>4, SumType
<1>9. a.yes \in BOOLEAN /\ c.yes \in BOOLEAN
  BY <1>1 DEF Vote
<1>10. CASE HasQuorum(Yes(c))
  <2>1. Yes(c) \cap Seen(a) \subseteq Yes(a)
    BY <1>3, <1>6
  <2>2. Sum(Yes(a)) > Sum(No(a))
    <3>1. No(a) \cap Yes(c) = {}
      BY <1>6
    <3> QED
      BY <1>10, <1>3, <1>4, <2>1, <3>1, QuorumMajority
  <2>3. Sum(Yes(c)) > Sum(No(c))
    <3>1. Yes(c) \cap Seen(c) \subseteq Yes(c) /\ No(c) \cap Yes(c) = {}
      BY <1>3
    <3> QED
      BY <1>10, <1>3, <1>4, <3>1, QuorumMajority
  <2>4. Sum(Yes(a)) >= Sum(No(a)) /\ Sum(Yes(c)) >= Sum(No(c))
    BY SMTT(30), <1>8, <2>2, <2>3
  <2> QED
    BY <1>7, <1>9, <2>4
<1>11. CASE HasQuorum(No(c))
  <2>1. No(c) \cap Seen(a) \subseteq No(a)
    BY <1>3, <1>6
  <2>2. Sum(No(a)) > Sum(Yes(a))
    <3>1. Yes(a) \cap No(c) = {}
      BY <1>6
    <3> QED
      BY <1>11, <1>3, <1>4, <2>1, <3>1, QuorumMajority
  <2>3. Sum(No(c)) > Sum(Yes(c))
    <3>1. No(c) \cap Seen(c) \subseteq No(c) /\ Yes(c) \cap No(c) = {}
      BY <1>3
    <3> QED
      BY <1>11, <1>3, <1>4, <3>1, QuorumMajority
  <2>4. ~(Sum(Yes(a)) >= Sum(No(a))) /\ ~(Sum(Yes(c)) >= Sum(No(c)))
    BY SMTT(30), <1>8, <2>2, <2>3
  <2> QED
    BY <1>7, <1>9, <2>4
<1> QED
  BY <1>7, <1>10, <1>11

\* A deciding vote is final for all later frames too.
LEMMA DecidedForever ==
    ASSUME TypeOK, RootsInv, CastInv, CastFunctional, Unanimity,
           NEW c \in cast, c.decided,
           NEW b \in cast, SameBallot(b, c), c.from.frame <= b.from.frame
    PROVE  b.yes = c.yes
<1>1. c.from.frame \in Int /\ b.from.frame \in Int
  BY SMTT(30) DEF TypeOK, Vote, Root
<1>2. CASE c.from.frame = b.from.frame
  BY <1>2, DecidedFinal
<1>3. CASE c.from.frame < b.from.frame
  <2>1. SUFFICES ASSUME b.yes # c.yes
                 PROVE  FALSE
    OBVIOUS
  <2>2. PICK a \in cast : /\ SameBallot(a, c)
                          /\ a.from.frame = c.from.frame
                          /\ a.yes # c.yes
    BY <1>3, <2>1 DEF Unanimity
  <2> QED
    BY <2>2, DecidedFinal
<1> QED
  BY SMTT(30), <1>1, <1>2, <1>3

\* Two deciding votes on a subject agree, whoever cast them and whenever.
LEMMA DecidedAgree ==
    ASSUME TypeOK, RootsInv, CastInv, CastFunctional, Unanimity,
           NEW c \in cast, c.decided,
           NEW b \in cast, b.decided, SameBallot(b, c)
    PROVE  b.yes = c.yes
<1>1. c.from.frame \in Int /\ b.from.frame \in Int
  BY SMTT(30) DEF TypeOK, Vote, Root
<1>2. SameBallot(c, b)
  BY DEF SameBallot
<1>3. CASE c.from.frame <= b.from.frame
  BY <1>3, DecidedForever
<1>4. CASE b.from.frame <= c.from.frame
  BY <1>2, <1>4, DecidedForever
<1> QED
  BY SMTT(30), <1>1, <1>3, <1>4

\* "Yes" votes on a subject carry the same root.
LEMMA SameObservedRoot ==
    ASSUME TypeOK, RootsInv,
           NEW b \in Vote, VoteRule(b), b.yes,
           NEW c \in Vote, VoteRule(c), c.yes, SameBallot(b, c)
    PROVE  b.observedRoot = c.observedRoot
<1>1. PICK p \in roots : b.observedRoot \in obs[p]
  BY DEF VoteRule, ObservedRootRule
<1>2. PICK q \in roots : c.observedRoot \in obs[q]
  BY DEF VoteRule, ObservedRootRule
<1>3. /\ b.observedRoot.frame = c.observedRoot.frame
      /\ b.observedRoot.validator = c.observedRoot.validator
  BY DEF VoteRule, ObservedRootRule, SameBallot
<1> QED
  BY SMTT(30), <1>1, <1>2, <1>3 DEF RootsInv

\* The rule determines the vote: nodes do not matter, only the graph does.
LEMMA RuleDeterminesVote ==
    ASSUME TypeOK, RootsInv,
           NEW b \in Vote, VoteRule(b), NEW c \in Vote, VoteRule(c),
           SameBallot(b, c), b.from = c.from
    PROVE  b = c
<1>1. Basis(b) = Basis(c)
  BY DEF Basis, SameBallot
<1>2. b.election = c.election /\ b.for = c.for
  BY DEF SameBallot
<1>3. /\ b.yes \in BOOLEAN /\ c.yes \in BOOLEAN
      /\ b.decided \in BOOLEAN /\ c.decided \in BOOLEAN
      /\ b.from.frame \in Int /\ b.election \in Int
  BY SMTT(30) DEF Vote, Root
<1>4. b.yes = c.yes /\ b.decided = c.decided
  <2>1. CASE b.from.frame = b.election + 1
    <3>1. b.yes <=> c.yes
      BY <1>2, <2>1 DEF VoteRule
    <3>2. ~b.decided /\ ~c.decided
      BY <1>2, <2>1 DEF VoteRule
    <3> QED
      BY <1>3, <3>1, <3>2
  <2>2. CASE b.from.frame > b.election + 1
    <3>1. b.yes <=> c.yes
      BY <1>1, <1>2, <2>2 DEF VoteRule
    <3>2. b.decided <=> c.decided
      BY <1>1, <1>2, <2>2 DEF VoteRule
    <3> QED
      BY <1>3, <3>1, <3>2
  <2> QED
    BY SMTT(30), <1>3, <2>1, <2>2 DEF VoteRule
<1>5. b.observedRoot = c.observedRoot
  <2>1. CASE b.yes
    BY <1>4, <2>1, SameObservedRoot
  <2>2. CASE ~b.yes
    BY <1>4, <2>2 DEF VoteRule, ObservedRootRule
  <2> QED
    BY <2>1, <2>2
<1> QED
  BY SMTT(30), <1>2, <1>4, <1>5 DEF Vote

(***************************************************************************)
(* ProcessRoot's inputs: r is a root whose observed roots the node knows   *)
(* and is done with.                                                       *)
(***************************************************************************)
Ready(n, r) ==
    /\ r \in roots
    /\ obs[r] \subseteq known[n]
    /\ obs[r] \cap todo[n] = {}

\* The roots observedRoots returns are those that forkless-cause r.
LEMMA ObservedRootsAll ==
    ASSUME TypeOK, RootsInv, NEW n \in Node, NEW r, Ready(n, r)
    PROVE  ObservedRoots(n, r) = obs[r]
BY DEF Ready, RootsInv, ObservedRoots

(***************************************************************************)
(* The ballots a node counts for a subject are all the votes that any node *)
(* cast on it for the observed roots: none is missing, whatever order the  *)
(* roots arrived in.                                                       *)
(***************************************************************************)
LEMMA BallotsAreBasis ==
    ASSUME TypeOK, RootsInv, CastFunctional,
           NEW n \in Node, LocalInv(n), NEW r, Ready(n, r),
           r.frame > frameToDecide[n] + 1,
           NEW v \in NotDecided(n),
           NEW c, c.election = frameToDecide[n], c.from = r, c.for = v
    PROVE  /\ Ballots(n, r, v) = Basis(c)
           /\ \A s \in obs[r] : \E b \in Basis(c) : b.from = s
<1> USE DEF SameBallot
<1>1. ObservedRoots(n, r) = obs[r]
  BY ObservedRootsAll
<1>2. Ballots(n, r, v) \subseteq Basis(c)
  BY <1>1 DEF Ballots, Basis, LocalInv
<1>3. ASSUME NEW s \in obs[r]
      PROVE  \E b \in Ballots(n, r, v) : b.from = s
  <2>1. s \in known[n] \ todo[n]
    BY DEF Ready
  <2>2. s.frame > frameToDecide[n]
    <3>1. s.frame = r.frame - 1
      BY DEF RootsInv, Ready
    <3>2. r.frame \in Int /\ frameToDecide[n] \in Int
      BY SMTT(30) DEF TypeOK, Ready, Root
    <3> QED
      BY SMTT(30), <3>1, <3>2
  <2>3. PICK b \in votes[n] : b.from = s /\ b.for = v
    BY SMTT(30), <2>1, <2>2 DEF LocalInv
  <2> QED
    BY <1>1, <2>3 DEF Ballots
<1>4. ASSUME NEW b \in Basis(c)
      PROVE  b \in Ballots(n, r, v)
  <2>1. b \in cast /\ b.election = frameToDecide[n] /\ b.for = v /\ b.from \in obs[r]
    BY DEF Basis
  <2>2. PICK a \in Ballots(n, r, v) : a.from = b.from
    BY <1>3, <2>1
  <2>3. a \in cast /\ a.election = frameToDecide[n] /\ a.for = v
    BY <2>2 DEF Ballots, LocalInv
  <2>4. a = b
    BY <2>1, <2>2, <2>3 DEF CastFunctional
  <2> QED
    BY <2>2, <2>4
<1> QED
  BY <1>2, <1>3, <1>4

\* A first-round vote obeys the rule.
LEMMA FirstVoteRule ==
    ASSUME TypeOK, RootsInv,
           NEW n \in Node, NEW r, Ready(n, r),
           r.frame = frameToDecide[n] + 1,
           NEW v \in NotDecided(n)
    PROVE  /\ FirstVote(n, r, v) \in Vote
           /\ VoteRule(FirstVote(n, r, v))
<1> DEFINE c == FirstVote(n, r, v)
           seen == {s \in obs[r] : s.validator = v}
<1>1. /\ r \in Root /\ obs[r] \subseteq Root /\ r.frame \in Int
      /\ v \in Validators
      /\ frameToDecide[n] \in 1..MaxFrame
  BY SMTT(30) DEF TypeOK, Ready, NotDecided, Root
<1>2. c = [election |-> frameToDecide[n], from |-> r, for |-> v,
           yes |-> seen # {},
           observedRoot |-> IF seen # {} THEN CHOOSE s \in seen : TRUE ELSE NoRoot,
           decided |-> FALSE]
  BY ObservedRootsAll DEF FirstVote
<1> HIDE DEF c
<1>3. /\ c.election = frameToDecide[n] /\ c.from = r /\ c.for = v
      /\ c.yes <=> seen # {}
      /\ c.decided = FALSE
      /\ c.yes \in BOOLEAN
      /\ c.observedRoot = IF seen # {} THEN CHOOSE s \in seen : TRUE ELSE NoRoot
  BY <1>2
<1>4. c.yes => c.observedRoot \in obs[r] /\ c.observedRoot.validator = v
  BY <1>3
<1>5. ObservedRootRule(c)
  <2>1. CASE c.yes
    <3>1. c.observedRoot.frame = r.frame - 1
      BY <1>4, <2>1 DEF RootsInv, Ready
    <3>2. r.frame - 1 = frameToDecide[n]
      BY SMTT(30), <1>1
    <3>3. r \in roots
      BY DEF Ready
    <3> QED
      BY <1>3, <1>4, <2>1, <3>1, <3>2, <3>3 DEF ObservedRootRule
  <2>2. CASE ~c.yes
    BY <1>3, <2>2 DEF ObservedRootRule
  <2> QED
    BY <2>1, <2>2
<1>6. c.yes <=> c.for \in Creators(obs[c.from])
  BY <1>3 DEF Creators
<1>7. c.observedRoot \in Root \cup {NoRoot}
  BY <1>1, <1>3, <1>4, <1>5 DEF ObservedRootRule
<1>8. c \in Vote
  BY <1>1, <1>2, <1>3, <1>7 DEF Vote
<1>9. VoteRule(c)
  BY SMTT(30), <1>1, <1>3, <1>5, <1>6 DEF VoteRule, Ready
<1> QED
  BY <1>8, <1>9 DEF c

\* A vote of a later round obeys the rule.
LEMMA NextVoteRule ==
    ASSUME TypeOK, RootsInv, CastInv, CastFunctional,
           NEW n \in Node, LocalInv(n), NEW r, Ready(n, r),
           r.frame > frameToDecide[n] + 1,
           NEW v \in NotDecided(n)
    PROVE  /\ NextVote(n, r, v) \in Vote
           /\ VoteRule(NextVote(n, r, v))
<1> DEFINE c == NextVote(n, r, v)
           B == Ballots(n, r, v)
           wins == Sum(YesVotes(B)) >= Sum(NoVotes(B))
           agreed == HasQuorum(YesVotes(B)) \/ HasQuorum(NoVotes(B))
           subject == {b.observedRoot : b \in {x \in B : x.yes}}
<1>1. /\ r \in Root /\ obs[r] \subseteq Root /\ r.frame \in Int
      /\ v \in Validators
      /\ frameToDecide[n] \in 1..MaxFrame
  BY SMTT(30) DEF TypeOK, Ready, NotDecided, Root
<1>2. c = [election |-> frameToDecide[n], from |-> r, for |-> v,
           yes |-> wins,
           observedRoot |-> IF wins /\ subject # {}
                            THEN CHOOSE s \in subject : TRUE ELSE NoRoot,
           decided |-> agreed]
  BY DEF NextVote
<1>b. wins \in BOOLEAN /\ agreed \in BOOLEAN
  <2>1. B \in SUBSET Vote
    BY DEF Ballots, TypeOK
  <2>2. Sum(YesVotes(B)) \in Nat /\ Sum(NoVotes(B)) \in Nat
    BY <2>1, VotersType, SumType
  <2> QED
    BY SMTT(30), <2>2
<1> HIDE DEF c, wins, agreed, subject
<1>a. /\ c.election = frameToDecide[n] /\ c.from = r /\ c.for = v
      /\ c.yes = wins
      /\ c.decided = agreed
      /\ c.yes \in BOOLEAN /\ c.decided \in BOOLEAN
      /\ c.observedRoot = IF c.yes /\ subject # {}
                          THEN CHOOSE s \in subject : TRUE ELSE NoRoot
  BY SMTT(30), <1>2, <1>b
<1> USE DEF subject
<1>3. /\ c.election = frameToDecide[n] /\ c.from = r /\ c.for = v
      /\ c.yes <=> Sum(YesVotes(B)) >= Sum(NoVotes(B))
      /\ c.decided <=> HasQuorum(YesVotes(B)) \/ HasQuorum(NoVotes(B))
      /\ c.yes \in BOOLEAN /\ c.decided \in BOOLEAN
      /\ c.observedRoot = IF c.yes /\ subject # {}
                          THEN CHOOSE s \in subject : TRUE ELSE NoRoot
  BY <1>a DEF wins, agreed
<1>4. /\ B = Basis(c)
      /\ \A s \in obs[r] : \E b \in Basis(c) : b.from = s
  BY SMTT(30), <1>3, BallotsAreBasis
<1>5. B \in SUBSET Vote /\ B \subseteq cast
  BY DEF Ballots, TypeOK, LocalInv
<1>6. c.yes => subject # {}
  <2>1. SUFFICES ASSUME subject = {}
                 PROVE  ~c.yes
    OBVIOUS
  <2>2. YesVotes(B) = {}
    BY <2>1 DEF YesVotes
  <2>3. NoVotes(B) \in SUBSET Validators
    BY <1>5, VotersType
  <2>4. Creators(obs[r]) \subseteq NoVotes(B)
    BY SMTT(30), <1>4, <2>1 DEF Creators, NoVotes
  <2>5. HasQuorum(Creators(obs[r])) /\ Creators(obs[r]) \in SUBSET Validators
    <3>1. r.frame > 1 /\ r \in roots
      BY SMTT(30), <1>1 DEF Ready
    <3> QED
      BY SMTT(30), <1>1, <3>1 DEF RootsInv, Creators, Root
  <2>6. Sum(NoVotes(B)) > Sum(YesVotes(B))
    BY <2>2, <2>3, <2>4, <2>5, QuorumMajority
  <2>7. Sum(NoVotes(B)) \in Nat /\ Sum(YesVotes(B)) \in Nat
    BY <2>2, <2>3, SumType
  <2> QED
    BY SMTT(30), <1>3, <2>6, <2>7
<1>7. ASSUME c.yes
      PROVE  \E b \in B : b.yes /\ b.observedRoot = c.observedRoot
  BY <1>3, <1>6, <1>7
<1>8. ObservedRootRule(c)
  <2>1. CASE c.yes
    <3>1. PICK b \in B : b.yes /\ b.observedRoot = c.observedRoot
      BY <1>7, <2>1
    <3>2. b.election = c.election /\ b.for = c.for
      BY <1>3, <1>4 DEF Basis, SameBallot
    <3>3. VoteRule(b)
      BY <1>5 DEF CastInv
    <3> QED
      BY <2>1, <3>1, <3>2, <3>3 DEF VoteRule, ObservedRootRule
  <2>2. CASE ~c.yes
    BY <1>3, <2>2 DEF ObservedRootRule
  <2> QED
    BY <2>1, <2>2
<1>9. c.observedRoot \in Root \cup {NoRoot}
  BY <1>8, <1>1 DEF ObservedRootRule, TypeOK
<1>10. c \in Vote
  BY <1>1, <1>2, <1>3, <1>9 DEF Vote
<1>11. VoteRule(c)
  BY SMTT(30), <1>1, <1>3, <1>4, <1>8 DEF VoteRule, Ready
<1> QED
  BY <1>10, <1>11 DEF c

(***************************************************************************)
(* ProcessRoot votes, on every subject that is not decided, as the graph   *)
(* of roots prescribes.                                                    *)
(***************************************************************************)
LEMMA NewVotesRule ==
    ASSUME TypeOK, RootsInv, CastInv, CastFunctional,
           NEW n \in Node, LocalInv(n), NEW r, Ready(n, r)
    PROVE  /\ NewVotes(n, r) \in SUBSET Vote
           /\ \A c \in NewVotes(n, r) : /\ VoteRule(c)
                                        /\ c.from = r
                                        /\ c.election = frameToDecide[n]
           /\ r.frame > frameToDecide[n] =>
                 \A v \in NotDecided(n) : \E c \in NewVotes(n, r) : c.for = v
<1>1. r.frame \in Int /\ frameToDecide[n] \in Int
  BY SMTT(30) DEF TypeOK, Ready, Root
<1>2. CASE r.frame <= frameToDecide[n]
  BY SMTT(30), <1>1, <1>2 DEF NewVotes
<1>3. CASE r.frame = frameToDecide[n] + 1
  <2>1. NewVotes(n, r) = {FirstVote(n, r, v) : v \in NotDecided(n)}
    BY SMTT(30), <1>1, <1>3 DEF NewVotes
  <2>2. ASSUME NEW v \in NotDecided(n)
        PROVE  /\ FirstVote(n, r, v) \in Vote
               /\ VoteRule(FirstVote(n, r, v))
               /\ FirstVote(n, r, v).from = r
               /\ FirstVote(n, r, v).election = frameToDecide[n]
               /\ FirstVote(n, r, v).for = v
    <3>1. FirstVote(n, r, v) \in Vote /\ VoteRule(FirstVote(n, r, v))
      BY <1>3, FirstVoteRule
    <3>2. /\ FirstVote(n, r, v).from = r
          /\ FirstVote(n, r, v).election = frameToDecide[n]
          /\ FirstVote(n, r, v).for = v
      BY DEF FirstVote
    <3> QED
      BY <3>1, <3>2
  <2> QED
    BY SMTT(30), <2>1, <2>2
<1>4. CASE r.frame > frameToDecide[n] + 1
  <2>1. NewVotes(n, r) = {NextVote(n, r, v) : v \in NotDecided(n)}
    BY SMTT(30), <1>1, <1>4 DEF NewVotes
  <2>2. ASSUME NEW v \in NotDecided(n)
        PROVE  /\ NextVote(n, r, v) \in Vote
               /\ VoteRule(NextVote(n, r, v))
               /\ NextVote(n, r, v).from = r
               /\ NextVote(n, r, v).election = frameToDecide[n]
               /\ NextVote(n, r, v).for = v
    <3>1. NextVote(n, r, v) \in Vote /\ VoteRule(NextVote(n, r, v))
      BY <1>4, NextVoteRule
    <3>2. /\ NextVote(n, r, v).from = r
          /\ NextVote(n, r, v).election = frameToDecide[n]
          /\ NextVote(n, r, v).for = v
      BY DEF NextVote
    <3> QED
      BY <3>1, <3>2
  <2> QED
    BY SMTT(30), <2>1, <2>2
<1> QED
  BY SMTT(30), <1>1, <1>2, <1>3, <1>4

(***************************************************************************)
(* Adding votes that obey the rule, all of them by one root, keeps the     *)
(* history consistent: unanimity persists because a vote is computed from  *)
(* the votes of the frame below.                                           *)
(***************************************************************************)
LEMMA CastStep ==
    ASSUME TypeOK, RootsInv, CastInv, CastFunctional, CastContiguous, Unanimity,
           NEW r, NEW fresh \in SUBSET Vote,
           \A c \in fresh : VoteRule(c) /\ c.from = r,
           cast' = cast \cup fresh, roots' = roots, obs' = obs
    PROVE  CastInv' /\ CastFunctional' /\ CastContiguous' /\ Unanimity'
<1>1. \A c \in cast' : c \in Vote /\ VoteRule(c)
  BY DEF TypeOK, CastInv
<1>2. CastFunctional'
  <2>1. SUFFICES ASSUME NEW b \in cast', NEW c \in cast',
                        SameBallot(b, c), b.from = c.from
                 PROVE  b = c
    BY DEF CastFunctional, SameBallot
  <2> QED
    BY <1>1, <2>1, RuleDeterminesVote
<1>3. ASSUME NEW c \in cast', c.from.frame > c.election + 1
      PROVE  Basis(c)' = Basis(c)
  <2>1. Basis(c) \subseteq Basis(c)'
    BY DEF Basis, SameBallot
  <2>2. ASSUME NEW b \in Basis(c)'
        PROVE  b \in Basis(c)
    <3>1. b \in cast' /\ SameBallot(b, c) /\ b.from \in obs[c.from]
      BY DEF Basis, SameBallot
    <3>2. PICK a \in Basis(c) : a.from = b.from
      BY <1>1, <1>3, <3>1 DEF VoteRule
    <3>3. a \in cast' /\ SameBallot(a, b)
      BY <3>1, <3>2 DEF Basis, SameBallot
    <3>4. a = b
      BY <1>2, <3>1, <3>2, <3>3 DEF CastFunctional, SameBallot
    <3> QED
      BY <3>2, <3>4
  <2> QED
    BY <2>1, <2>2
<1>4. CastInv'
  <2>1. SUFFICES ASSUME NEW c \in cast'
                 PROVE  VoteRule(c)'
    BY DEF CastInv
  <2>2. VoteRule(c) /\ c \in Vote
    BY <1>1
  <2>3. ObservedRootRule(c)'
    BY <2>2 DEF VoteRule, ObservedRootRule
  <2>4. CASE c.from.frame > c.election + 1
    <3>1. Basis(c)' = Basis(c)
      BY <1>3, <2>4
    <3> QED
      BY <2>2, <2>3, <3>1 DEF VoteRule
  <2>5. CASE ~(c.from.frame > c.election + 1)
    BY <2>2, <2>3, <2>5 DEF VoteRule
  <2> QED
    BY <2>4, <2>5
<1>5. ASSUME NEW c \in cast', c.from.frame > c.election + 1
      PROVE  /\ Basis(c) # {}
             /\ Basis(c) \subseteq cast
             /\ \A b \in Basis(c) : /\ SameBallot(b, c)
                                    /\ b.from.frame = c.from.frame - 1
  <2>1. VoteRule(c) /\ c \in Vote
    BY <1>1
  <2>2. HasQuorum(Creators(obs[c.from])) /\ Creators(obs[c.from]) \in SUBSET Validators
    BY <1>5, <2>1, BasisVoters
  <2>3. PICK s \in obs[c.from] : TRUE
    BY <2>2, QuorumNonEmpty DEF Creators
  <2>4. PICK b \in Basis(c) : b.from = s
    BY <1>5, <2>1, <2>3 DEF VoteRule
  <2>5. \A a \in Basis(c) : a.from.frame = c.from.frame - 1
    BY <2>1 DEF Basis, RootsInv, VoteRule
  <2> QED
    BY <2>4, <2>5 DEF Basis
<1>6. \A c \in cast' : /\ c.election \in Int
                       /\ c.from.frame \in Int
                       /\ c.yes \in BOOLEAN
                       /\ c.from.frame > c.election
  BY SMTT(30), <1>1 DEF Vote, Root, VoteRule
<1>7. CastContiguous'
  <2>1. SUFFICES ASSUME NEW c \in cast', NEW g \in (c.election + 1)..c.from.frame
                 PROVE  \E a \in cast' : SameBallot(a, c) /\ a.from.frame = g
    BY DEF CastContiguous, SameBallot
  <2>2. CASE g = c.from.frame
    BY <2>2 DEF SameBallot
  <2>3. CASE g # c.from.frame
    <3>1. c.from.frame > c.election + 1
      BY SMTT(30), <1>6, <2>3
    <3>2. PICK b \in Basis(c) : TRUE
      BY <1>5, <3>1
    <3>3. b \in cast /\ SameBallot(b, c) /\ b.from.frame = c.from.frame - 1
      BY <1>5, <3>1
    <3>4. g \in (b.election + 1)..b.from.frame
      BY SMTT(30), <1>6, <2>3, <3>3 DEF SameBallot
    <3>5. PICK a \in cast : SameBallot(a, b) /\ a.from.frame = g
      BY <3>3, <3>4 DEF CastContiguous
    <3> QED
      BY <3>3, <3>5 DEF SameBallot
  <2> QED
    BY <2>2, <2>3
<1>8. Unanimity'
  <2>1. SUFFICES ASSUME NEW c \in cast', NEW b \in cast', SameBallot(b, c),
                        c.from.frame < b.from.frame, b.yes # c.yes,
                        \A a \in cast' : (/\ SameBallot(a, c)
                                          /\ a.from.frame = c.from.frame)
                                            => a.yes = c.yes
                 PROVE  FALSE
    BY SMTT(30) DEF Unanimity, SameBallot
  <2>2. b.from.frame > b.election + 1
    BY SMTT(30), <1>6, <2>1 DEF SameBallot
  <2>3. CASE c \in cast
    <3>1. ASSUME NEW x \in Basis(b)
          PROVE  x.yes = c.yes
      <4>1. x \in cast /\ SameBallot(x, b) /\ x.from.frame = b.from.frame - 1
        BY <1>5, <2>2
      <4>2. SameBallot(x, c)
        BY <2>1, <4>1 DEF SameBallot
      <4>3. CASE x.from.frame = c.from.frame
        BY <2>1, <4>1, <4>2, <4>3
      <4>4. CASE c.from.frame < x.from.frame
        <5>1. SUFFICES ASSUME x.yes # c.yes
                       PROVE  FALSE
          OBVIOUS
        <5>2. PICK a \in cast : /\ SameBallot(a, c)
                                /\ a.from.frame = c.from.frame
                                /\ a.yes # c.yes
          BY <2>3, <4>1, <4>2, <4>4, <5>1 DEF Unanimity
        <5> QED
          BY <2>1, <5>2
      <4> QED
        BY SMTT(30), <1>6, <2>1, <4>1, <4>3, <4>4
    <3>2. b \in Vote /\ VoteRule(b) /\ c.yes \in BOOLEAN
      BY <1>1, <1>6
    <3>3. b.yes = c.yes
      BY <2>2, <3>1, <3>2, UnanimousBasis
    <3> QED
      BY <2>1, <3>3
  <2>4. CASE c \notin cast
    <3>1. c.from = r
      BY <2>4
    <3>2. b \in cast
      BY <1>6, <2>1, <3>1
    <3>3. PICK a \in cast : SameBallot(a, b) /\ a.from.frame = c.from.frame
      <4>1. c.from.frame \in (b.election + 1)..b.from.frame
        BY SMTT(30), <1>6, <2>1 DEF SameBallot
      <4> QED
        BY <3>2, <4>1 DEF CastContiguous
    <3>4. SameBallot(a, c) /\ a.yes = c.yes /\ SameBallot(b, a)
      BY <2>1, <3>3 DEF SameBallot
    <3>5. PICK x \in cast : SameBallot(x, a) /\ x.from.frame = a.from.frame /\ x.yes # a.yes
      BY <2>1, <3>2, <3>3, <3>4 DEF Unanimity
    <3>6. SameBallot(x, c) /\ x.from.frame = c.from.frame
      BY <3>3, <3>4, <3>5 DEF SameBallot
    <3> QED
      BY <2>1, <3>4, <3>5, <3>6
  <2> QED
    BY <2>3, <2>4
<1> QED
  BY <1>2, <1>4, <1>7, <1>8

-----------------------------------------------------------------------------
(***************************************************************************)
(* Processing a root keeps the invariant of ElectionInv, whether or not    *)
(* the election decides with it.                                           *)
(***************************************************************************)

\* Adding a root whose observed roots are known leaves no gap.
LEMMA ClosedStep ==
    ASSUME TypeOK, RootsInv, NEW K \in SUBSET roots, Closed(K),
           NEW r \in roots, obs[r] \subseteq K
    PROVE  Closed(K \cup {r})
<1>1. ASSUME NEW q \in K \cup {r}, NEW g \in 1..q.frame
      PROVE  \E p \in K \cup {r} : p.frame = g
  <2>1. CASE q \in K
    BY <2>1 DEF Closed
  <2>2. CASE q = r /\ g = r.frame
    BY <2>2
  <2>3. CASE q = r /\ g # r.frame
    <3>1. r \in Root /\ r.frame \in Int /\ obs[r] \subseteq Root /\ r.frame > 1
      BY SMTT(30), <2>3 DEF TypeOK, Root
    <3>2. HasQuorum(Creators(obs[r])) /\ Creators(obs[r]) \in SUBSET Validators
      BY SMTT(30), <3>1 DEF RootsInv, Creators, Root
    <3>3. PICK s \in obs[r] : TRUE
      BY <3>2, QuorumNonEmpty DEF Creators
    <3>4. s \in K /\ s.frame = r.frame - 1
      BY DEF RootsInv
    <3>5. g \in 1..s.frame
      BY SMTT(30), <2>3, <3>1, <3>4
    <3> QED
      BY <3>4, <3>5 DEF Closed
  <2> QED
    BY <2>1, <2>2, <2>3
<1>2. ASSUME NEW q \in K \cup {r}
      PROVE  obs[q] \subseteq K \cup {r}
  BY DEF Closed
<1> QED
  BY <1>1, <1>2 DEF Closed

\* Without gaps, processKnownRoots walks through all roots from a frame on.
LEMMA RootsFromAll ==
    ASSUME TypeOK, NEW K \in SUBSET roots, Closed(K), NEW f \in Nat \ {0}
    PROVE  RootsFrom(K, f) = {r \in K : r.frame >= f}
<1>1. ASSUME NEW r \in K, r.frame >= f
      PROVE  \A g \in f..r.frame : \E q \in K : q.frame = g
  <2>1. r.frame \in Int
    BY SMTT(30) DEF TypeOK, Root
  <2> QED
    BY SMTT(30), <2>1 DEF Closed
<1> QED
  BY <1>1 DEF RootsFrom

(***************************************************************************)
(* Nodes that take no step keep their part of the invariant when others    *)
(* add votes and decisions.                                                *)
(***************************************************************************)
LEMMA OtherNode ==
    ASSUME TypeOK, NEW m \in Node, LocalInv(m),
           roots \subseteq roots',
           \A q \in roots : obs'[q] = obs[q],
           cast \subseteq cast', decisions \subseteq decisions',
           known'[m] = known[m], frameToDecide'[m] = frameToDecide[m],
           votes'[m] = votes[m], decidedRoots'[m] = decidedRoots[m],
           pc'[m] = pc[m], todo'[m] = todo[m], disk'[m] = disk[m]
    PROVE  LocalInv(m)'
<1>1. known[m] \subseteq roots /\ disk[m].known \subseteq roots
  BY DEF TypeOK
<1>2. Closed(known[m])' /\ Closed(disk[m].known)'
  BY SMTT(30), <1>1 DEF LocalInv, Closed
<1>3. DecidedBelow(frameToDecide[m], known[m])'
  BY SMTT(30) DEF LocalInv, DecidedBelow
<1>4. DecidedBelow(disk[m].frameToDecide, disk[m].known)'
  BY SMTT(30) DEF LocalInv, DecidedBelow
<1>5. NotDecided(m)' = NotDecided(m)
  BY DEF NotDecided
<1>6. /\ (ChooseAtropos(decidedRoots[m]) = {})'
      /\ (todo[m] \subseteq known[m])'
      /\ (pc[m] = "idle" => todo[m] = {})'
  BY SMTT(30) DEF LocalInv, ChooseAtropos
<1>7. (\A b \in votes[m] \cup decidedRoots[m] :
          b \in cast /\ b.election = frameToDecide[m] /\ b.from \in known[m])'
  BY DEF LocalInv
<1>8. /\ (\A b \in decidedRoots[m] : b.decided)'
      /\ (\A b \in votes[m] : b.decided => b \in decidedRoots[m])'
  BY DEF LocalInv
<1>9. (\A r \in known[m] \ todo[m] : r.frame > frameToDecide[m] =>
          \A v \in NotDecided(m) : \E b \in votes[m] : b.from = r /\ b.for = v)'
  BY SMTT(30), <1>5 DEF LocalInv
<1> QED
  BY <1>2, <1>3, <1>4, <1>6, <1>7, <1>8, <1>9 DEF LocalInv

\* Decisions keep their basis when votes and decisions are added.
LEMMA OldDecisions ==
    ASSUME DecisionsInv, cast \subseteq cast', decisions \subseteq decisions',
           NEW d \in decisions
    PROVE  DecisionBasis(d)' /\ DecidedBelow(d.frame, d.seen)'
<1>1. DecisionBasis(d)'
  <2>1. DecisionBasis(d)
    BY DEF DecisionsInv
  <2> QED
    BY SMTT(30), <2>1 DEF DecisionBasis
<1>2. DecidedBelow(d.frame, d.seen)'
  <2>1. DecidedBelow(d.frame, d.seen)
    BY DEF DecisionsInv
  <2> QED
    BY <2>1 DEF DecidedBelow
<1> QED
  BY <1>1, <1>2

(***************************************************************************)
(* ProcessRoot keeps the invariant, whether or not it decides the frame.   *)
(***************************************************************************)
LEMMA ProcessRootStep ==
    ASSUME IInv, NEW n \in Node, NEW r, Ready(n, r),
           NEW K, K = known[n] \cup {r},
           NEW rest, rest = todo[n] \ {r},
           ProcessRoot(n, r, K, rest)
    PROVE  IInv'
<1>a. PICK F : F = frameToDecide[n]
  OBVIOUS
<1>b. PICK fresh : fresh = NewVotes(n, r)
  OBVIOUS
<1>c. PICK D : D = decidedRoots[n] \cup {b \in fresh : b.decided}
  OBVIOUS
<1> USE <1>a, <1>c
<1>1. TypeOK /\ RootsInv /\ CastInv /\ CastFunctional /\ LocalInv(n)
  BY DEF IInv
<1>2. /\ fresh \in SUBSET Vote
      /\ \A c \in fresh : VoteRule(c) /\ c.from = r /\ c.election = F
      /\ r.frame > F => \A v \in NotDecided(n) : \E c \in fresh : c.for = v
  BY SMTT(30), <1>1, <1>b, NewVotesRule
<1>3. /\ known' = [known EXCEPT ![n] = K]
      /\ cast' = cast \cup fresh
      /\ roots' = roots /\ obs' = obs /\ disk' = disk /\ restarts' = restarts
  BY <1>b DEF ProcessRoot
<1>4. RootsInv'
  BY ONLY <1>1, <1>3, SMTT(30) DEF RootsInv
<1>5. CastInv' /\ CastFunctional' /\ CastContiguous' /\ Unanimity'
  BY <1>2, <1>3, CastStep DEF IInv
<1>6. /\ r \in roots /\ r \in Root /\ r.frame \in 1..MaxFrame /\ K \subseteq roots
      /\ F \in 1..MaxFrame
      /\ Closed(K)
  <2>1. r \in roots /\ r \in Root /\ r.frame \in 1..MaxFrame /\ K \subseteq roots /\ F \in 1..MaxFrame
    BY <1>1 DEF Ready, TypeOK, Root
  <2>2. known[n] \in SUBSET roots /\ Closed(known[n]) /\ obs[r] \subseteq known[n]
    BY <1>1 DEF TypeOK, LocalInv, Ready
  <2> QED
    BY <1>1, <2>1, <2>2, ClosedStep
<1>7. Closed(K)' /\ known'[n] = K /\ disk'[n] = disk[n]
  BY <1>1, <1>3, <1>6 DEF Closed, TypeOK
<1>8. /\ D \subseteq cast' /\ D \subseteq Vote
      /\ \A b \in D : b.decided /\ b.election = F /\ b.from \in K
  BY <1>1, <1>2, <1>3 DEF LocalInv, TypeOK
<1>9. /\ known' \in [Node -> SUBSET roots]
      /\ cast' \subseteq Vote
      /\ (rest \subseteq K /\ rest \subseteq roots)
  BY <1>1, <1>2, <1>3, <1>6 DEF TypeOK, LocalInv
<1>10. CASE /\ ChooseAtropos(D) = {}
            /\ votes' = [votes EXCEPT ![n] = votes[n] \cup fresh]
            /\ decidedRoots' = [decidedRoots EXCEPT ![n] = D]
            /\ todo' = [todo EXCEPT ![n] = rest]
            /\ pc' = [pc EXCEPT ![n] =
                         IF Crit(n, r) \/ AllDecidedNo(D) THEN "crit"
                         ELSE IF rest = {} THEN "idle" ELSE "known"]
            /\ UNCHANGED <<frameToDecide, decisions>>
  <2>1. TypeOK'
    BY <1>1, <1>2, <1>3, <1>8, <1>9, <1>10 DEF TypeOK
  <2>2. ASSUME NEW m \in Node, m # n
        PROVE  LocalInv(m)'
    <3>1. LocalInv(m)
      BY DEF IInv
    <3>2. /\ known'[m] = known[m] /\ frameToDecide'[m] = frameToDecide[m]
          /\ votes'[m] = votes[m] /\ decidedRoots'[m] = decidedRoots[m]
          /\ pc'[m] = pc[m] /\ todo'[m] = todo[m] /\ disk'[m] = disk[m]
      BY <1>1, <1>3, <1>10, <2>2 DEF TypeOK
    <3> QED
      BY <1>1, <1>3, <1>10, <3>1, <3>2, OtherNode
  <2>3. LocalInv(n)'
    <3>1. /\ votes'[n] = votes[n] \cup fresh
          /\ decidedRoots'[n] = D
          /\ todo'[n] = rest
          /\ frameToDecide'[n] = F
          /\ pc'[n] = "idle" => rest = {}
      BY <1>1, <1>10 DEF TypeOK
    <3>2. Closed(disk[n].known)' /\ DecidedBelow(disk[n].frameToDecide, disk[n].known)'
      <4>1. Closed(disk[n].known) /\ DecidedBelow(disk[n].frameToDecide, disk[n].known)
        BY <1>1 DEF LocalInv
      <4>2. decisions' = decisions
        BY <1>10
      <4> QED
        BY ONLY <1>3, <4>1, <4>2, ZenonT(30) DEF Closed, DecidedBelow
    <3>3. DecidedBelow(frameToDecide[n], known[n])'
      <4>1. DecidedBelow(F, known[n])
        BY <1>1 DEF LocalInv
      <4>2. decisions' = decisions /\ known[n] \subseteq K
        BY <1>10
      <4> QED
        BY ONLY <1>7, <3>1, <4>1, <4>2, ZenonT(30) DEF DecidedBelow
    <3>4. NotDecided(n)' \subseteq NotDecided(n)
      BY <3>1 DEF NotDecided
    <3>5. ASSUME NEW q \in K \ rest, q.frame > F, NEW v \in NotDecided(n)'
          PROVE  \E b \in votes'[n] : b.from = q /\ b.for = v
      <4>1. CASE q = r
        BY <1>2, <3>1, <3>4, <3>5, <4>1
      <4>2. CASE q # r
        <5>1. q \in known[n] \ todo[n]
          BY <3>5, <4>2
        <5>2. \A w \in NotDecided(n) : \E b \in votes[n] : b.from = q /\ b.for = w
          BY <1>1, <3>5, <5>1 DEF LocalInv
        <5> QED
          BY ONLY <3>1, <3>4, <3>5, <5>2, ZenonT(30)
      <4> QED
        BY <4>1, <4>2
    <3>6. \A b \in votes'[n] \cup decidedRoots'[n] :
             b \in cast' /\ b.election = F /\ b.from \in K
      BY <1>1, <1>2, <1>3, <1>8, <3>1 DEF LocalInv
    <3>7. \A b \in votes'[n] : b.decided => b \in decidedRoots'[n]
      BY <1>1, <3>1 DEF LocalInv
    <3>8. (ChooseAtropos(decidedRoots[n]) = {})'
      BY <1>10, <3>1 DEF ChooseAtropos
    <3>9. Closed(known[n])' /\ todo'[n] \subseteq known'[n] /\ (pc'[n] = "idle" => todo'[n] = {})
      BY ONLY <1>7, <1>9, <3>1, ZenonT(30) DEF Closed
    <3>10. \A q \in known'[n] \ todo'[n] : q.frame > frameToDecide'[n] =>
              \A v \in NotDecided(n)' : \E b \in votes'[n] : b.from = q /\ b.for = v
      BY ONLY <1>7, <3>1, <3>5, SMTT(30)
    <3>11. /\ \A b \in votes'[n] \cup decidedRoots'[n] :
                 b \in cast' /\ b.election = frameToDecide'[n] /\ b.from \in known'[n]
           /\ \A b \in decidedRoots'[n] : b.decided
      BY ONLY <1>7, <1>8, <3>1, <3>6, ZenonT(30)
    <3> QED
      BY ONLY <3>2, <3>3, <3>7, <3>8, <3>9, <3>10, <3>11, ZenonT(30) DEF LocalInv
  <2>4. DecisionsInv'
    <3>1. DecisionsInv /\ cast \subseteq cast' /\ decisions' = decisions
      BY <1>3, <1>10 DEF IInv
    <3> QED
      BY <3>1, OldDecisions DEF DecisionsInv
  <2>5. \A m \in Node : LocalInv(m)'
    BY <2>2, <2>3
  <2> QED
    BY <1>4, <1>5, <2>1, <2>4, <2>5 DEF IInv
<1>11. CASE \E d \in ChooseAtropos(D) :
              /\ frameToDecide' = [frameToDecide EXCEPT ![n] = F + 1]
              /\ votes' = [votes EXCEPT ![n] = {}]
              /\ decidedRoots' = [decidedRoots EXCEPT ![n] = {}]
              /\ todo' = [todo EXCEPT ![n] = RootsFrom(K, F + 1)]
              /\ pc' = [pc EXCEPT ![n] =
                           IF Crit(n, r) THEN "crit"
                           ELSE IF todo'[n] = {} THEN "idle" ELSE "known"]
              /\ decisions' = decisions \cup
                    {[node |-> n, frame |-> F,
                      atropos |-> d.observedRoot, seen |-> K]}
  <2>1. PICK d \in ChooseAtropos(D) :
              /\ frameToDecide' = [frameToDecide EXCEPT ![n] = F + 1]
              /\ votes' = [votes EXCEPT ![n] = {}]
              /\ decidedRoots' = [decidedRoots EXCEPT ![n] = {}]
              /\ todo' = [todo EXCEPT ![n] = RootsFrom(K, F + 1)]
              /\ pc' = [pc EXCEPT ![n] =
                           IF Crit(n, r) THEN "crit"
                           ELSE IF todo'[n] = {} THEN "idle" ELSE "known"]
              /\ decisions' = decisions \cup
                    {[node |-> n, frame |-> F,
                      atropos |-> d.observedRoot, seen |-> K]}
    BY <1>11
  <2> DEFINE new == [node |-> n, frame |-> F, atropos |-> d.observedRoot, seen |-> K]
  <2>2. /\ d \in D /\ d.yes
        /\ \A w \in Validators : Less(w, d.for) => \E e \in D : e.for = w /\ ~e.yes
    BY DEF ChooseAtropos
  <2>3. d \in Vote /\ VoteRule(d) /\ d.decided /\ d.election = F /\ d.from \in K
    BY <1>1, <1>2, <1>8, <2>2 DEF CastInv, LocalInv
  <2>4. F + 1 \in 1..MaxFrame
    <3>1. d.from.frame > F + 1
      BY <2>3, DecidedRound
    <3>2. d.from.frame \in 1..MaxFrame
      BY <2>3 DEF Vote, Root
    <3> QED
      BY SMTT(30), <1>6, <3>1, <3>2, ElectionAssumption
  <2>5. d.observedRoot \in Root
    BY <1>1, <2>2, <2>3 DEF VoteRule, ObservedRootRule, TypeOK
  <2>6. RootsFrom(K, F + 1) = {q \in K : q.frame >= F + 1}
    BY SMTT(30), <1>1, <1>6, <2>4, RootsFromAll
  <2>7. new \in [node : Node, frame : 1..MaxFrame, atropos : Root, seen : SUBSET roots]
    BY <1>6, <2>5
  <2>8. /\ todo' \in [Node -> SUBSET roots]
        /\ frameToDecide' \in [Node -> 1..MaxFrame]
        /\ votes' \in [Node -> SUBSET Vote]
        /\ decidedRoots' \in [Node -> SUBSET Vote]
        /\ pc' \in [Node -> {"idle", "known", "crit"}]
    BY <1>1, <1>6, <2>1, <2>4, <2>6 DEF TypeOK
  <2>9. TypeOK'
    BY <1>1, <1>3, <1>9, <2>1, <2>7, <2>8 DEF TypeOK
  <2>10. ASSUME NEW m \in Node, m # n
         PROVE  LocalInv(m)'
    <3>1. LocalInv(m)
      BY DEF IInv
    <3>2. /\ known'[m] = known[m] /\ frameToDecide'[m] = frameToDecide[m]
          /\ votes'[m] = votes[m] /\ decidedRoots'[m] = decidedRoots[m]
          /\ pc'[m] = pc[m] /\ todo'[m] = todo[m] /\ disk'[m] = disk[m]
      BY <1>1, <1>3, <2>1, <2>10 DEF TypeOK
    <3>3. cast \subseteq cast' /\ decisions \subseteq decisions'
      BY <1>3, <2>1
    <3> QED
      BY <1>1, <1>3, <3>1, <3>2, <3>3, OtherNode
  <2>11. /\ frameToDecide'[n] = F + 1
         /\ votes'[n] = {} /\ decidedRoots'[n] = {}
         /\ todo'[n] = RootsFrom(K, F + 1)
         /\ pc'[n] = "idle" => todo'[n] = {}
    <3>1. /\ DOMAIN frameToDecide = Node /\ DOMAIN votes = Node /\ DOMAIN decidedRoots = Node
          /\ DOMAIN todo = Node /\ DOMAIN pc = Node
      BY <1>1 DEF TypeOK
    <3>2. /\ frameToDecide'[n] = F + 1 /\ votes'[n] = {} /\ decidedRoots'[n] = {}
          /\ todo'[n] = RootsFrom(K, F + 1)
      BY <2>1, <3>1
    <3>3. pc'[n] = "idle" => todo'[n] = {}
      BY <2>1, <3>1
    <3> QED
      BY ONLY ZenonT(30), <3>2, <3>3
  <2>12. new \in decisions' /\ decisions \subseteq decisions'
    BY <2>1
  <2>13. DecidedBelow(F, K)'
    <3>1. DecidedBelow(F, known[n])
      BY <1>1 DEF LocalInv
    <3>2. known[n] \subseteq K
      OBVIOUS
    <3> QED
      BY ONLY ZenonT(30), <2>12, <3>1, <3>2 DEF DecidedBelow
  <2>14. LocalInv(n)'
    <3>1. Closed(disk[n].known)' /\ DecidedBelow(disk[n].frameToDecide, disk[n].known)'
      <4>1. Closed(disk[n].known) /\ DecidedBelow(disk[n].frameToDecide, disk[n].known)
        BY <1>1 DEF LocalInv
      <4> QED
        BY ONLY <1>3, <2>12, <4>1, ZenonT(30) DEF Closed, DecidedBelow
    <3>2. DecidedBelow(frameToDecide[n], known[n])'
      <4>1. 1..(frameToDecide'[n] - 1) = 1..F
        BY ONLY SMTT(30), <1>6, <2>11
      <4>2. ASSUME NEW g \in 1..F
            PROVE  \E e \in decisions' : e.frame = g /\ e.seen \subseteq K
        <5>1. CASE g = F
          BY <2>12, <5>1
        <5>2. CASE g # F
          <6>1. g \in 1..(F - 1)
            BY SMTT(30), <1>6, <5>2
          <6> QED
            BY <2>13, <6>1 DEF DecidedBelow
        <5> QED
          BY <5>1, <5>2
      <4> QED
        BY ONLY <1>7, <4>1, <4>2, ZenonT(30) DEF DecidedBelow
    <3>3. todo'[n] \subseteq known'[n]
      BY ONLY ZenonT(30), <1>7, <2>6, <2>11
    <3>4. ASSUME NEW q \in known'[n] \ todo'[n], q.frame > frameToDecide'[n]
          PROVE  FALSE
      <4>2. q \in K /\ q \notin todo'[n] /\ q.frame > F + 1
        BY ONLY ZenonT(30), <1>7, <2>11, <3>4
      <4>1. q.frame \in Int
        <5>1. q \in Root
          BY <1>1, <1>6, <4>2 DEF TypeOK
        <5> QED
          BY ONLY <5>1, SMTT(30) DEF Root
      <4>3. q.frame >= F + 1
        BY SMTT(30), <1>6, <4>1, <4>2
      <4> QED
        BY <2>6, <2>11, <4>2, <4>3
    <3>5. (ChooseAtropos(decidedRoots[n]) = {})'
      BY <2>11 DEF ChooseAtropos
    <3> QED
      BY <1>7, <2>11, <3>1, <3>2, <3>3, <3>4, <3>5 DEF LocalInv
  <2>15. DecisionsInv'
    <3>1. DecisionsInv /\ cast \subseteq cast'
      BY <1>3 DEF IInv
    <3>2. DecisionBasis(new)'
      <4>1. d \in cast'
        BY <1>8, <2>2
      <4>2. \A w \in Validators : Less(w, d.for) =>
               \E e \in cast' : /\ e.election = F /\ e.for = w
                                /\ e.decided /\ ~e.yes
                                /\ e.from \in K
        BY <1>8, <2>2
      <4> QED
        BY <2>2, <2>3, <4>1, <4>2 DEF DecisionBasis
    <3>3. DecidedBelow(new.frame, new.seen)'
      BY <2>13 DEF DecidedBelow
    <3>4. ASSUME NEW e \in decisions'
          PROVE  DecisionBasis(e)' /\ DecidedBelow(e.frame, e.seen)'
      <4>1. CASE e \in decisions
        BY <2>12, <3>1, <4>1, OldDecisions
      <4>2. CASE e = new
        BY <3>2, <3>3, <4>2
      <4> QED
        BY <2>1, <4>1, <4>2
    <3> QED
      BY <3>4 DEF DecisionsInv
  <2>16. \A m \in Node : LocalInv(m)'
    BY <2>10, <2>14
  <2> QED
    BY <1>4, <1>5, <2>9, <2>15, <2>16 DEF IInv
<1> QED
  BY <1>b, <1>10, <1>11 DEF ProcessRoot
=============================================================================
