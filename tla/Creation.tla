------------------------------ MODULE Creation ------------------------------
(***************************************************************************)
(* How a validator makes an event: createEvent and findBestParents of      *)
(* gossip/emitter.go with inter/ancestor/parents.go, and the checks that   *)
(* an event must pass anywhere, eventcheck/parentscheck and the limits of  *)
(* eventcheck/basiccheck.                                                  *)
(*                                                                         *)
(* Events of one epoch are numbered as they are connected.  Others emit    *)
(* whatever the checks allow, forks included; an event of the validator    *)
(* itself may come from elsewhere too (a second instance).  Gas power is   *)
(* in module GasPower, when to emit in module Emitter, what happens to     *)
(* heads and last events in the tables in module EpochStore.               *)
(***************************************************************************)
EXTENDS Integers, FiniteSets, FiniteSetsExt, Sequences, SequencesExt

CONSTANTS
    Validator, Me,
    MaxParents,       \* config_dag.go: MaxParents
    MaxEvents,        \* Bound: connected events
    MaxTime           \* Bound: claimed times

VARIABLES
    dag,       \* the connected events: [creator, seq, parents, lamport, time]
    draft      \* <<>>, or <<[event, forked]>>: what createEvent built last, and whether it gave it up

vars == <<dag, draft>>

Id == 1..Len(dag)
None == 0
Header(i) == dag[i]

-----------------------------------------------------------------------------
(***************************************************************************)
(* What the store and the vector index tell.                               *)
(***************************************************************************)
GetHeads == {i \in Id : \A j \in Id : i \notin ToSet(dag[j].parents)}
GetLastEvent(v) == Max({None} \cup {i \in Id : dag[i].creator = v})

\* The events that i observes, itself included
Observed(i) ==
    LET Seen[j \in Id] == {j} \cup UNION {Seen[p] : p \in ToSet(dag[j].parents)}
    IN  Seen[i]
OfCreator(i, v) == {j \in Observed(i) : dag[j].creator = v}
ForkSeen(i, v) == \E j, k \in OfCreator(i, v) : j # k /\ dag[j].seq = dag[k].seq
NoCheaters(selfParent, heads) ==
    IF selfParent = None THEN heads ELSE {h \in heads : ~ForkSeen(selfParent, dag[h].creator)}

Fork == -1
GetHighestBeforeMerged(i) ==
    [v \in Validator |-> IF ForkSeen(i, v) THEN Fork
                         ELSE Max({0} \cup {dag[j].seq : j \in OfCreator(i, v)})]

-----------------------------------------------------------------------------
(***************************************************************************)
(* FindBestParents.  template is what the parent chosen last observes.     *)
(***************************************************************************)
SeqNum(m) == IF m = Fork THEN 0 ELSE m
Score(template, o) ==
    LET his == GetHighestBeforeMerged(o)
        news(v) == (IF SeqNum(his[v]) > SeqNum(template[v]) /\ template[v] # Fork THEN 1 ELSE 0)
                   + (IF his[v] = Fork /\ template[v] # Fork THEN 1 ELSE 0)
    IN  MapThenSumSet(news, Validator)

\* CasualityStrategy sorts the options by score and takes the first, RandomStrategy takes any.
Find(strategy, template, options) ==
    IF strategy = "random" THEN options
    ELSE {o \in options : \A p \in options : Score(template, o) <= Score(template, p)}

\* Every list of parents that the loop may end with
RECURSIVE Rounds(_, _, _, _)
Rounds(strategy, template, options, parents) ==
    IF Len(parents) >= MaxParents \/ options = {} THEN {parents}
    ELSE UNION {Rounds(strategy, GetHighestBeforeMerged(o), options \ {o}, Append(parents, o)) :
                   o \in Find(strategy, template, options)}

FindBestParents(strategy, options, selfParent) ==
    IF selfParent = None THEN Rounds(strategy, [v \in Validator |-> 0], options, <<>>)
    ELSE Rounds(strategy, GetHighestBeforeMerged(selfParent), options \ {selfParent}, <<selfParent>>)

-----------------------------------------------------------------------------
(***************************************************************************)
(* The checks.                                                             *)
(***************************************************************************)
SelfParent(e) == IF e.seq <= 1 \/ e.parents = <<>> THEN None ELSE e.parents[1]
MaxLamport(parents) == Max({0} \cup {dag[p].lamport : p \in ToSet(parents)})

ParentsCheck(e) ==
    /\ e.lamport = MaxLamport(e.parents) + 1
    /\ IsInjective(e.parents)
    /\ \A i \in DOMAIN e.parents :
          dag[e.parents[i]].creator = e.creator <=> SelfParent(e) = e.parents[i]
    /\ e.seq <= 1 <=> SelfParent(e) = None
    /\ SelfParent(e) # None =>
          /\ e.seq = dag[SelfParent(e)].seq + 1
          /\ e.time > dag[SelfParent(e)].time

\* checkLimits and checkInited
BasicCheck(e) ==
    /\ Len(e.parents) <= MaxParents
    /\ e.seq > 0 /\ e.lamport > 0 /\ e.time > 0
    /\ e.seq > 1 => e.parents # <<>>

Validate(e) == BasicCheck(e) /\ ParentsCheck(e)

-----------------------------------------------------------------------------
\* Mutant: the claimed time is the clock's.
BuiltNow(parents, selfParent, now) ==
    [creator |-> Me, parents |-> parents,
     seq |-> IF selfParent # None THEN dag[selfParent].seq + 1 ELSE 1,
     lamport |-> MaxLamport(parents) + 1, time |-> now]

\* The fields that createEvent fills, with the clock at now
Built(parents, selfParent, now) ==
    LET own == selfParent # None
    IN  [creator |-> Me, parents |-> parents,
         seq |-> IF own THEN dag[selfParent].seq + 1 ELSE 1,
         lamport |-> MaxLamport(parents) + 1,
         time |-> Max({now, IF own THEN dag[selfParent].time + 1 ELSE 1})]

\* "I've created a fork, events emitting isn't allowed", in findBestParents and in createEvent
Forked(parents, selfParent) ==
    \/ selfParent # None /\ ForkSeen(selfParent, Me)
    \/ \E i \in 2..Len(parents) : dag[parents[i]].creator = Me

CreateEvent(strategy, now) ==
    LET selfParent == GetLastEvent(Me)
        heads == NoCheaters(selfParent, GetHeads)
    IN  /\ Len(dag) < MaxEvents
        /\ \E parents \in FindBestParents(strategy, heads, selfParent) :
              LET e == Built(parents, selfParent, now)
                  forked == Forked(parents, selfParent)
              IN  /\ draft' = <<[event |-> e, forked |-> forked]>>
                  /\ dag' = IF ~forked /\ Validate(e) THEN Append(dag, e) ELSE dag

\* Any event that passes the checks; what they decide is taken, the rest is free.
Connect(v, selfParent, others, time) ==
    LET parents == (IF selfParent = None THEN <<>> ELSE <<selfParent>>) \o SetToSeq(others)
        e == [creator |-> v, parents |-> parents, time |-> time,
              seq |-> IF selfParent = None THEN 1 ELSE dag[selfParent].seq + 1,
              lamport |-> MaxLamport(parents) + 1]
    IN  /\ Len(dag) < MaxEvents
        /\ Validate(e)
        /\ \A i \in Id : dag[i] # e
        /\ dag' = Append(dag, e)
        /\ UNCHANGED draft

Init == dag = <<>> /\ draft = <<>>

Next ==
    \/ \E strategy \in {"casuality", "random"}, now \in 1..MaxTime : CreateEvent(strategy, now)
    \/ \E v \in Validator, s \in {None} \cup Id, others \in SUBSET Id, time \in 1..MaxTime :
          Connect(v, s, others, time)

Spec == Init /\ [][Next]_vars

-----------------------------------------------------------------------------
(***************************************************************************)
(* What createEvent builds passes the checks of every node, "Signed event  *)
(* incorrectly" is never met: parents chosen by any strategy among the     *)
(* heads, with forks of others and of the validator itself in the DAG and  *)
(* a clock that goes back, have one self-parent, in front, no duplicates,  *)
(* and fit into the limits.  And createEvent gives an event up for a fork  *)
(* of its own only if the validator has forked: no choice of parents makes *)
(* its own last event look like one.                                       *)
(***************************************************************************)
DraftIsValid ==
    draft # <<>> =>
        IF draft[1].forked
        THEN \E i, j \in Id : /\ i # j /\ dag[i].seq = dag[j].seq
                              /\ dag[i].creator = Me /\ dag[j].creator = Me
        ELSE \E i \in Id : dag[i] = draft[1].event
=============================================================================
