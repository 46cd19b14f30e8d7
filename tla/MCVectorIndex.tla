--------------------------- MODULE MCVectorIndex ---------------------------
(***************************************************************************)
(* Small instances of VectorIndex: validators 1, 2 and 3 with stakes 2, 1, *)
(* 1, of which the third may fork.  The scenario is picked at the start:   *)
(*   grow  the graph grows and nothing else happens;                       *)
(*   drop  fewer events, which are flushed, dropped and added again while  *)
(*         the ForklessCause cache is filled.                              *)
(***************************************************************************)
EXTENDS VectorIndex

CONSTANTS
    DropEvents,  \* bound: events of the scenario drop
    MaxCached    \* bound: entries of the ForklessCause cache

VARIABLE scenario

MCStake == [v \in Validators |-> IF v = 1 THEN 2 ELSE 1]

\* The events of a creator without a self-child.
Tips(v) == {i \in OwnEvents(v) : \A j \in OwnEvents(v) : event[j].selfParent # i}

\* Parents are tips, and new to the self-parent: an event that observes less of
\* a branch than its tip arises when it is created earlier.
BoundedEvents ==
    \A i \in DOMAIN event' \ DOMAIN event :
        LET e == event'[i]
        IN  \A p \in e.parents \ {e.selfParent} :
                /\ \E v \in Validators : p \in Tips(v)
                /\ e.selfParent # 0 => ~Observes(e.selfParent, p)

\* An event is indexed as soon as it is created.  As Poset uses the index, an
\* event is flushed or dropped before another one is created (drop), and
\* ForklessCause is asked of the event that is pending.
MayCreate ==
    /\ DOMAIN event = Indexed
    /\ scenario = "drop" => branch = disk.branch /\ Cardinality(Indexed) < DropEvents

MayAdd == scenario = "drop" => branch = disk.branch

Asked ==
    {p \in (Indexed \ DOMAIN disk.branch) \X Indexed : event[p[1]].creator # event[p[2]].creator}

MCNext ==
    /\ \/ MayCreate /\ \E v \in Validators : CreateEvent(v)
       \/ MayAdd /\ \E id \in DOMAIN event : Add(id)
       \/ /\ scenario = "drop"
          /\ \/ Flush
             \/ DropFailed
             \/ DropDraft
             \/ /\ Cardinality(DOMAIN fcCache) < MaxCached
                /\ \E p \in Asked : ForklessCause(p[1], p[2])
    /\ UNCHANGED scenario

MCInit == Init /\ scenario \in {"grow", "drop"}

MCSpec == MCInit /\ [][MCNext]_<<vars, scenario>>
=============================================================================
