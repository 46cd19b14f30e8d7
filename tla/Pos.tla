-------------------------------- MODULE Pos --------------------------------
(***************************************************************************)
(* inter/pos: a group of validators, their stakes, the quorum and the      *)
(* counter that sums stakes.                                               *)
(*                                                                         *)
(* A pos.Validators object is immutable once built, so the group is a pair *)
(* of constants.  A StakeCounter is the set of validators it has counted:  *)
(* CountByIdx adds a validator once ("already"), and its sum is the stake  *)
(* of that set.                                                            *)
(***************************************************************************)
EXTENDS Integers, FiniteSets

CONSTANTS
    Validators,  \* the StakerIDs of the group (numbers: sort.go compares them)
    Stake        \* Validators -> stake; the builder deletes a zero stake

ASSUME PosAssumption ==
    /\ Validators \subseteq Nat
    /\ IsFiniteSet(Validators)
    /\ Validators # {}
    /\ Stake \in [Validators -> Nat \ {0}]

-----------------------------------------------------------------------------
(***************************************************************************)
(* The stake of a set of validators, as the number of its stake units.     *)
(* Counting units instead of folding a sum keeps additivity a fact about   *)
(* disjoint finite sets.                                                   *)
(***************************************************************************)
StakeUnits(S) == UNION {{v} \X (1..Stake[v]) : v \in S}

Sum(S) == Cardinality(StakeUnits(S))

TotalStake == Sum(Validators)

\* Mutant: half of the stake.
HalfQuorum == TotalStake \div 2

Quorum == (TotalStake * 2) \div 3 + 1

\* StakeCounter.HasQuorum of a counter that has counted the validators of S.
HasQuorum(S) == Sum(S) >= Quorum

\* sort.go: by stake, the bigger first, then by ID.
Less(v, w) == \/ Stake[v] > Stake[w]
              \/ Stake[v] = Stake[w] /\ v < w
=============================================================================
