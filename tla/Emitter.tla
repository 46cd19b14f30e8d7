------------------------------ MODULE Emitter ------------------------------
(***************************************************************************)
(* When a validator's node emits an event, and how it avoids to emit two   *)
(* events with the same self-parent: gossip/emitter.go (selfForkProtection,*)
(* isSynced, OnNewEvent, OnNewEpoch, EmitEvent).                           *)
(*                                                                         *)
(* Several instances of one validator may run, and each may crash and lose *)
(* what was not flushed.  Only the validator's own events are modelled.    *)
(* Time advances in ticks; an age counts the ticks since a moment and      *)
(* stops at SelfForkProtection, the longest that is compared with.         *)
(***************************************************************************)
EXTENDS Integers, FiniteSets, FiniteSetsExt, Sequences

CONSTANTS
    Instance,
    SelfForkProtection, MinInterval, MaxInterval,
    LockThreshold,      \* the minute of OnNewEvent
    Delay,              \* an event reaches a connected instance within Delay
    MaxEvents           \* Bound: events emitted

VARIABLES
    event,      \* the events, in order: [parent, by, age]
    inst        \* instance -> its state

vars == <<event, inst>>

Ids == 1..MaxEvents
Old == SelfForkProtection
Older(a) == IF a < Old THEN a + 1 ELSE a

-----------------------------------------------------------------------------
\* Mutant: the time since the connection is not looked at.
isSyncedAtOnce(I) ==
    /\ I.peers /\ I.synced
    /\ I.external >= SelfForkProtection
    /\ I.becameValidator >= SelfForkProtection
    /\ I.syncedFor >= SelfForkProtection

isSynced(I) ==
    /\ I.peers /\ I.synced
    /\ I.external >= SelfForkProtection
    /\ I.becameValidator >= SelfForkProtection
    /\ I.syncedFor >= SelfForkProtection
    /\ I.connected >= SelfForkProtection

CanEmit(I) == I.alive /\ isSynced(I)

\* loadPrevEmitTime: the claimed time of the last own event that is stored.
LoadPrevEmitTime(I) == IF I.last = 0 THEN Old ELSE event[I.last].age

(***************************************************************************)
(* OnNewEvent for an own event made elsewhere: emission is put off, and if *)
(* the event is recent the node stops for good.                            *)
(***************************************************************************)
OnNewEvent(I, id) ==
    IF I.local = id THEN I
    ELSE [I EXCEPT !.external = 0,
                   !.alive = event[id].age > LockThreshold,
                   !.locked = event[id].age <= LockThreshold]

Connected(I, id) ==
    OnNewEvent([I EXCEPT !.known = @ \cup {id}, !.last = id, !.wait[id] = 0], id)

\* EmitEvent; whether it is too early for isAllowedToEmit depends on the transactions.
EmitEvent(i) ==
    /\ CanEmit(inst[i])
    /\ inst[i].emitted >= MinInterval
    /\ Len(event) < MaxEvents
    /\ event' = Append(event, [parent |-> inst[i].last, by |-> i, age |-> 0])
    /\ LET id == Len(event) + 1
       IN  inst' = [inst EXCEPT ![i] = [@ EXCEPT !.known = @ \cup {id}, !.last = id,
                                                 !.local = id, !.emitted = 0]]

Deliver(i, id) ==
    /\ inst[i].alive /\ inst[i].peers
    /\ id \in DOMAIN event
    /\ id \notin inst[i].known
    /\ event[id].parent \in inst[i].known \cup {0}
    /\ inst' = [inst EXCEPT ![i] = Connected(@, id)]
    /\ UNCHANGED event

\* The database is flushed.
Flush(i) ==
    /\ inst[i].alive
    /\ inst[i].disk # inst[i].known
    /\ inst' = [inst EXCEPT ![i].disk = inst[i].known, ![i].diskLast = inst[i].last]
    /\ UNCHANGED event

-----------------------------------------------------------------------------
Off(known, last) ==
    [alive |-> FALSE, locked |-> FALSE, peers |-> FALSE, synced |-> FALSE,
     connected |-> 0, syncedFor |-> 0, external |-> 0, becameValidator |-> 0, emitted |-> 0,
     known |-> known, last |-> last, local |-> 0, disk |-> known, diskLast |-> last,
     wait |-> [id \in Ids |-> 0]]

Crash(i) ==
    /\ inst[i].alive
    /\ inst' = [inst EXCEPT ![i] = Off(@.disk, @.diskLast)]
    /\ UNCHANGED event

(***************************************************************************)
(* NewEmitter, init and OnNewEpoch at start: only connectedTime is set;    *)
(* the other times are zero, long ago, unless the validator just joined.   *)
(***************************************************************************)
Start(i, joined) ==
    /\ ~inst[i].alive /\ ~inst[i].locked
    /\ inst' = [inst EXCEPT ![i] =
                  [@ EXCEPT !.alive = TRUE, !.connected = 0, !.syncedFor = Old, !.external = Old,
                            !.becameValidator = IF joined THEN 0 ELSE Old,
                            !.emitted = LoadPrevEmitTime(inst[i])]]
    /\ UNCHANGED event

\* The first peer comes, the last one goes.
PeersChange(i) ==
    /\ inst[i].alive
    /\ inst' = [inst EXCEPT ![i] = [@ EXCEPT !.peers = ~@, !.connected = 0,
                                             !.wait = [id \in Ids |-> 0]]]
    /\ UNCHANGED event

\* A peer has the same epoch; pm.synced is never reset.
Synced(i) ==
    /\ inst[i].alive /\ inst[i].peers /\ ~inst[i].synced
    /\ inst' = [inst EXCEPT ![i].synced = TRUE]
    /\ UNCHANGED event

(***************************************************************************)
(* A tick.  Times that the ticker of StartEventEmission sets to now stay   *)
(* 0.  Assumption: events arrive within Delay, and a node that may emit    *)
(* does so within MaxInterval.                                             *)
(***************************************************************************)
Aged(I) ==
    [I EXCEPT !.connected = IF I.peers THEN Older(@) ELSE 0,
              !.syncedFor = IF I.synced THEN Older(@) ELSE 0,
              !.external = Older(@), !.becameValidator = Older(@), !.emitted = Older(@),
              !.wait = [id \in Ids |->
                          IF I.peers /\ id \in DOMAIN event \ I.known THEN @[id] + 1 ELSE 0]]

Tick ==
    /\ \A i \in Instance :
          inst[i].alive =>
              /\ \A id \in Ids : inst[i].wait[id] < Delay
              /\ CanEmit(inst[i]) /\ Len(event) < MaxEvents => inst[i].emitted < MaxInterval
    /\ event' = [id \in DOMAIN event |-> [event[id] EXCEPT !.age = Older(@)]]
    /\ inst' = [i \in Instance |-> IF inst[i].alive THEN Aged(inst[i]) ELSE inst[i]]

Init ==
    /\ event = <<>>
    /\ inst = [i \in Instance |-> Off({}, 0)]

Next ==
    \/ \E i \in Instance :
          \/ EmitEvent(i) \/ Flush(i) \/ Crash(i) \/ PeersChange(i) \/ Synced(i)
          \/ \E joined \in BOOLEAN : Start(i, joined)
          \/ \E id \in Ids : Deliver(i, id)
    \/ Tick

Spec == Init /\ [][Next]_vars

-----------------------------------------------------------------------------
(***************************************************************************)
(* The validator never makes two events with the same self-parent: not     *)
(* after a crash that lost its last events, and not with a second instance *)
(* started beside a running one.  SelfForkProtection must exceed           *)
(* MaxInterval + Delay ("should be at least 2x of MaxEmitInterval").       *)
(***************************************************************************)
NoSelfFork ==
    \A a, b \in DOMAIN event : a # b => event[a].parent # event[b].parent
=============================================================================
