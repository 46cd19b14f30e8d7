------------------------------ MODULE MCPoset ------------------------------
(***************************************************************************)
(* Small instances of Poset, one of which is picked at the start:          *)
(*   crash    two nodes that emit, one of which crashes;                   *)
(*   cheater  one validator forks and is left out of the next epoch;       *)
(*   orders   both validators are needed for a quorum;                     *)
(*   epochs   one validator, three epochs, the first sealed by a           *)
(*            transaction, the second after MaxEpochDuration or            *)
(*            MaxEpochBlocks, and a crash.                                 *)
(* The constants of the module Poset are those of the first one.           *)
(***************************************************************************)
EXTENDS Poset

CONSTANTS n1, n2

VARIABLE scenario

\* Validator 1 has a quorum, so that every event of its own starts a frame.
WeightedStake == <<3, 1>>

EachHome == <<n1, n2>>

Cheats == INSTANCE Poset WITH
    Home <- <<n1>>, Cheater <- {2}, NoTransactions <- {3},
    MaxValidatorEventsInBlock <- 1, MaxEvents <- 6, MaxRestarts <- 0

Orders == INSTANCE Poset WITH
    Stake <- <<1, 1>>, MaxEpochBlocks <- 1,
    MaxEvents <- 7, MaxRestarts <- 0

Epochs == INSTANCE Poset WITH
    Validators <- {1}, Stake <- <<1>>, Home <- <<n1>>,
    AdvanceEpoch <- {1}, MaxEpochDuration <- 6, Clock <- {0, 9}, MaxEvents <- 9, MaxEpoch <- 3

MaxCheats == 2  \* bound: events of cheaters

\* The events of its epoch that no other event has as self-parent.
Tip(i) == \A j \in DOMAIN event : event[j].selfParent # i

\* Parents are tips, and new to the self-parent.
BoundedEvents ==
    \A i \in DOMAIN event' \ DOMAIN event :
        LET e == event'[i]
        IN  \A p \in e.parents \ {e.selfParent} :
                Tip(p) /\ (e.selfParent # 0 => p \notin event[e.selfParent].anc)

\* A node that elects finishes before anything else happens.
ElectingFirst ==
    \A n \in Node : pc[n] = "electing" => (store'[n] # store[n] \/ pc'[n] # pc[n])

Few(v, k) == Cardinality({i \in DOMAIN event' : event'[i].creator = v}) <= k

\* When n2 emits nothing, its steps commute with all that n1 and the cheater do:
\* it starts when all the events exist.
ObserverLast ==
    /\ store'[n2] # store[n2] => Cardinality(DOMAIN event) = 6
    /\ store'[n1] # store[n1] => store[n2] = Genesis

\* No node takes an event with a wrong median time, here 0: only the last event has
\* one, and it has no parents.
WrongTimeLast ==
    \A i \in DOMAIN event' : event'[i].medianTime = 0 => i = 6 /\ event'[i].parents = {}

\* The clock is late in the second epoch only.
LateInEpoch2 == \A i \in DOMAIN event' : event'[i].claimedTime >= 9 => event'[i].epoch = 2

\* Only n2 crashes, with events of its own and some of its store not flushed, and
\* validator 2 emits twice.
CrashOfN2 ==
    /\ restarts' # restarts => /\ pc'[n1] = pc[n1]
                              /\ store[n2] # disk[n2]
                              /\ \E i \in store[n2].events : event[i].creator = 2
    /\ disk'[n1] # disk[n1] => pc[n1] = "sealed"
    /\ Few(2, 1) \/ (Few(2, 2) /\ Cardinality(DOMAIN event') <= 4)

\* A commit matters only when a restart can still come, or after a seal.
UsefulCommit ==
    \A n \in Node :
        disk'[n] # disk[n] =>
            \/ scenario \in {"crash", "epochs"} /\ restarts < MaxRestarts
            \/ pc[n] = "sealed"

Bounded ==
    /\ BoundedEvents /\ ElectingFirst /\ UsefulCommit
    /\ scenario = "crash" => CrashOfN2
    /\ scenario = "cheater" => ObserverLast /\ WrongTimeLast /\ Few(2, MaxCheats)
    /\ scenario = "orders" => Few(2, 3)
    /\ scenario = "epochs" => LateInEpoch2

MCNext ==
    /\ \/ scenario = "crash" /\ Next
       \/ scenario = "cheater" /\ Cheats!Next
       \/ scenario = "orders" /\ Orders!Next
       \/ scenario = "epochs" /\ Epochs!Next
    /\ Bounded
    /\ UNCHANGED scenario

MCInit ==
    /\ scenario \in {"crash", "cheater", "orders", "epochs"}
    /\ IF scenario = "epochs" THEN Epochs!Init ELSE Init

MCSpec == MCInit /\ [][MCNext]_<<vars, scenario>>

-----------------------------------------------------------------------------
(***************************************************************************)
(* What Prepare computes for an event of an honest validator, the          *)
(* ProcessEvent of every node accepts, whatever roots that node knows      *)
(* (HonestAccepted of Poset, under each scenario's constants).             *)
(***************************************************************************)
HonestEventsAccepted ==
    CASE scenario = "crash" -> HonestAccepted
      [] scenario = "cheater" -> Cheats!HonestAccepted
      [] scenario = "orders" -> Orders!HonestAccepted
      [] scenario = "epochs" -> Epochs!HonestAccepted

=============================================================================
