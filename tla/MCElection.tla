----------------------------- MODULE MCElection -----------------------------
(***************************************************************************)
(* Small instances of Election: four validators of equal stake.  The       *)
(* scenario picked at the start says which roots there are and what the    *)
(* nodes do:                                                               *)
(*   graphs  one node, many graphs;                                        *)
(*   orders  two nodes, few graphs, the second one in any order;           *)
(*   fork    one node that restarts, validator 4 forks.                    *)
(***************************************************************************)
EXTENDS ElectionInv

CONSTANTS n1, n2

VARIABLE scenario

MCStake == [v \in Validators |-> 1]

Any == {{1, 2, 3}, {1, 3, 4}, {2, 3, 4}}

\* The votes of the first and second round are split.
GraphsViews ==
    [s \in ({1} \X (1..4)) \cup ({2} \X (1..4)) \cup ({3} \X (1..3)) \cup {<<4, 1>>} |->
        CASE s[1] = 1 -> {{}}
          [] s[1] = 4 -> {{1, 2, 3}}
          [] OTHER -> Any]

\* Only the root of validator 1 decides in frame 3, and no other root observes it.
OrdersViews ==
    [s \in ({1} \X (1..4)) \cup ({2} \X (1..4)) \cup ({3} \X (1..4)) \cup {<<4, 2>>} |->
        CASE s[1] = 1 -> {{}}
          [] s = <<2, 2>> -> {{2, 3, 4}}
          [] s = <<2, 4>> -> {{1, 2, 3}, {2, 3, 4}}
          [] s = <<3, 1>> -> {{1, 3, 4}}
          [] s = <<3, 2>> -> {{1, 2, 3}, {2, 3, 4}}
          [] s = <<4, 2>> -> {{2, 3, 4}}
          [] OTHER -> {{1, 2, 3}}]

\* Validator 4 forks in the first frame.
ForkViews ==
    [s \in ({1} \X (1..4)) \cup ({2} \X (1..3)) \cup ({3} \X (1..3)) \cup {<<4, 1>>} |->
        CASE s[1] = 1 -> {{}}
          [] s = <<2, 1>> -> {{2, 3, 4}}
          [] s[1] = 2 -> {{2, 3, 4}, {1, 2, 3}}
          [] OTHER -> {{1, 2, 3}}]

\* bound: <<frame, creator>> -> the sets of creators its root may observe
Views == [graphs |-> GraphsViews, orders |-> OrdersViews, fork |-> ForkViews][scenario]

Slot(r) == <<r.frame, r.validator>>

Earlier(q, r) == \/ q.frame < r.frame
                 \/ q.frame = r.frame /\ q.validator < r.validator
                 \/ q.frame = r.frame /\ q.validator = r.validator /\ q.id < r.id

\* Roots are created frame by frame and by creator, before they are received:
\* when a root came to exist does not matter to the nodes, when it arrived does.
NewRoots ==
    {r \in Root : /\ Slot(r) \in DOMAIN Views
                  /\ scenario = "fork" \/ r.id = 0
                  /\ \A q \in roots : Earlier(q, r)}

BoundedRoots ==
    \A r \in roots' \ roots : Creators(obs'[r]) \in Views[Slot(r)]

AllCreated == \A s \in DOMAIN Views : \E r \in roots : Slot(r) = s

\* The first node handles the roots in the order of their creation, and every
\* node those of the first frame, which cast no votes.
OrderedArrival ==
    \A n \in Node :
        /\ \A r \in known'[n] \ known[n] : \A q \in roots \ known'[n] :
              (n = n1 \/ r.frame = 1) => Earlier(r, q)
        /\ \A r \in todo[n] \ todo'[n] : \A q \in todo'[n] :
              n = n1 => Earlier(r, q)

\* The second node takes part in "orders", the first one restarts in "fork", and
\* a commit matters only when a restart can still come.
MCNext ==
    /\ \/ \E r \in NewRoots : AddRoot(r)
       \/ /\ AllCreated
          /\ \E n \in {n1} \cup (IF scenario = "orders" THEN Node ELSE {}) :
                HandleElection(n) \/ ProcessKnownRoots(n)
       \/ /\ scenario = "fork" /\ restarts < MaxRestarts
          /\ Commit(n1) \/ Bootstrap(n1)
    /\ UNCHANGED scenario

MCInit == Init /\ scenario \in {"graphs", "orders", "fork"}

MCSpec == MCInit /\ [][MCNext]_<<vars, scenario>>
=============================================================================
