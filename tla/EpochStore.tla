----------------------------- MODULE EpochStore -----------------------------
(***************************************************************************)
(* The databases of an epoch: gossip/temporary (a ring of open databases), *)
(* the tables of gossip/store_epoch.go and store_heads.go, and how         *)
(* processEvent of gossip/consensus_callbacks.go uses them for each event  *)
(* and at the end of an epoch, while readers of the store ask for the      *)
(* epoch they saw last.                                                    *)
(*                                                                         *)
(* The engine is external: it refuses the event, connects it, or connects  *)
(* it and seals the epoch.  All databases are flushed together.            *)
(***************************************************************************)
EXTENDS Integers, FiniteSets

CONSTANTS
    Event, Creator, Parents,   \* the events of an epoch, their creators and parents
    RingLen,                   \* ringbuf.seq has so many slots
    MaxEpoch                   \* Bound

VARIABLES
    ring,      \* ringbuf: [Min, offset, count, seq, broken]; a pair is the version of its database
    data,      \* [min, dbs, events, epoch]: what the stores hold, flushed or not
    disk,      \* the same at the last flush
    seen,      \* the epoch that a reader of the store read last
    panic

vars == <<ring, data, disk, seen, panic>>

Nil == 0
Version == 1..MaxEpoch
NoTables == [headers |-> {}, tips |-> [c \in {Creator[e] : e \in Event} |-> Nil], heads |-> {}]

-----------------------------------------------------------------------------
(***************************************************************************)
(* ringbuf and Dbs.  Each returns the ring, or the ring with a panic.      *)
(***************************************************************************)
Broken(r) == [r EXCEPT !.broken = TRUE]

RingGet(r, num) ==
    IF num < r.Min \/ num - r.Min >= r.count THEN Nil
    ELSE r.seq[(num - r.Min + r.offset) % RingLen]

RingSet(r, num) ==
    LET min == IF r.count = 0 THEN num ELSE r.Min
    IN  IF r.count >= RingLen \/ num - min # r.count THEN Broken(r)
        ELSE [r EXCEPT !.Min = min, !.count = @ + 1,
                       !.seq[(num - min + r.offset) % RingLen] = num]

RingDel(r) == [r EXCEPT !.Min = @ + 1, !.offset = (@ + 1) % RingLen, !.count = @ - 1]

\* Dbs.Get: the database is opened unless it is older than the oldest kept.
Get(r, ver) ==
    IF ver < r.Min \/ RingGet(r, ver) # Nil THEN r ELSE RingSet(r, ver)
Tables(r, d, ver) == IF ver < r.Min THEN NoTables ELSE d.dbs[RingGet(Get(r, ver), ver)]

\* Dbs.Del: all up to ver are dropped.
RECURSIVE Del(_, _)
Del(r, ver) == IF ver < r.Min THEN r ELSE Del(RingDel(r), ver)
Dropped(r, d, ver) ==
    {v \in Version : v <= ver /\ v >= r.Min /\ RingGet(r, v) = v}

-----------------------------------------------------------------------------
(***************************************************************************)
(* processEvent: the event is stored, the engine asked, the event deleted  *)
(* again if it is refused.  Then the creator's last event and the heads    *)
(* are updated, and at a new epoch the database of the old one is dropped. *)
(***************************************************************************)
SetEvent(d, e) ==
    [d EXCEPT !.events = @ \cup {<<d.epoch, e>>}, !.dbs[d.epoch].headers = @ \cup {e}]
DeleteEvent(d, e) ==
    [d EXCEPT !.events = @ \ {<<d.epoch, e>>}, !.dbs[d.epoch].headers = @ \ {e}]

SetLastEvent(d, e) == [d EXCEPT !.dbs[d.epoch].tips[Creator[e]] = e]
DelHeads(d, E) == [d EXCEPT !.dbs[d.epoch].heads = @ \ E]
AddHead(d, e) == [d EXCEPT !.dbs[d.epoch].heads = @ \cup {e}]
Track(d, e) == AddHead(DelHeads(SetLastEvent(d, e), Parents[e]), e)

\* Mutant: the heads are updated before the engine is asked.
ProcessDataEager(d, e, result) ==
    IF result = "refused" THEN DeleteEvent(Track(SetEvent(d, e), e), e)
    ELSE Track(SetEvent(d, e), e)

ProcessData(d, e, result) ==
    IF result = "refused" THEN DeleteEvent(SetEvent(d, e), e) ELSE Track(SetEvent(d, e), e)

\* ahead: a reader that saw the engine's new epoch asks for it while the old one is being sealed.
ProcessEvent(e, result, ahead) ==
    LET opened == LET r == Get(ring, data.epoch) IN IF ahead THEN Get(r, data.epoch + 1) ELSE r
        done == ProcessData(data, e, result)
        dropped == Del(opened, data.epoch)
        sealed == [done EXCEPT !.epoch = @ + 1, !.min = dropped.Min,
                               !.dbs = [v \in Version |->
                                          IF v \in Dropped(opened, done, data.epoch)
                                          THEN NoTables ELSE @[v]]]
    IN  /\ ~panic
        /\ ahead => result = "sealed"
        /\ e \notin data.dbs[data.epoch].headers
        /\ Parents[e] \subseteq data.dbs[data.epoch].headers
        /\ IF result = "sealed"
           THEN /\ data.epoch < MaxEpoch
                /\ ring' = Get(dropped, data.epoch + 1)
                /\ data' = sealed
                /\ disk' = sealed
           ELSE /\ ring' = opened
                /\ data' = done
                /\ disk' \in {disk, done}
        /\ panic' = ring'.broken
        /\ UNCHANGED seen

(***************************************************************************)
(* A reader takes the epoch from the engine and asks the store later.      *)
(***************************************************************************)
ReadEpoch ==
    /\ seen' = data.epoch
    /\ UNCHANGED <<ring, data, disk, panic>>
Query ==
    /\ ~panic
    /\ ring' = Get(ring, seen)
    /\ panic' = ring'.broken
    /\ UNCHANGED <<data, disk, seen>>

\* NewDbs: Min is what Del saved.
Opened(min) == [Min |-> min, offset |-> 0, count |-> 0, broken |-> FALSE,
                seq |-> [i \in 0..(RingLen - 1) |-> Nil]]
Restart ==
    /\ ~panic
    /\ data' \in {disk, data}
    /\ disk' = data'
    /\ ring' = Opened(data'.min)
    /\ seen' = data'.epoch
    /\ UNCHANGED panic

Init ==
    /\ data = [min |-> 0, dbs |-> [v \in Version |-> NoTables], events |-> {}, epoch |-> 1]
    /\ disk = data
    /\ ring = Opened(0)
    /\ seen = 1
    /\ panic = FALSE

Next ==
    \/ \E e \in Event, result \in {"refused", "connected", "sealed"}, ahead \in BOOLEAN :
          ProcessEvent(e, result, ahead)
    \/ ReadEpoch
    \/ Query
    \/ Restart

Spec == Init /\ [][Next]_vars

-----------------------------------------------------------------------------
(***************************************************************************)
(* GetHeads returns the "IDs of all the epoch events with no descendants"  *)
(* and GetLastEvent each creator's latest event: what the tables found     *)
(* through the ring say is what the stored events say, after refused       *)
(* events, epochs, crashes and restarts.  The emitter takes the parents of *)
(* its events from there.  The ring of databases never meets "no space" or *)
(* "sequence is broken", whichever of event processing, readers and        *)
(* restarts opens an epoch's database first.                               *)
(***************************************************************************)
HeadsExact ==
    LET connected == {e \in Event : <<data.epoch, e>> \in data.events}
        t == Tables(ring, data, data.epoch)
    IN  /\ ~panic
        /\ t.heads = {e \in connected : \A f \in connected : e \notin Parents[f]}
        /\ \A c \in DOMAIN t.tips :
              LET own == {e \in connected : Creator[e] = c}
              IN  IF own = {} THEN t.tips[c] = Nil
                  ELSE /\ t.tips[c] \in own
                       /\ \A f \in own : t.tips[c] \notin Parents[f]
=============================================================================
