----------------------------- MODULE MCNetwork ------------------------------
(***************************************************************************)
(* What a node does with its peers and as a validator, small instances of  *)
(* which one is picked at the start:                                       *)
(*   again    a peer connects again while its first session ends;          *)
(*   peers    two peers connect, one is dropped, both get transactions;    *)
(*   known    the server pool has a saved node, quits and restarts;        *)
(*   evict    discovered nodes throw each other out of the server pool;    *)
(*   crash    a validator that crashes and starts again;                   *)
(*   beside   a second instance of a validator beside a running one;       *)
(*   queues   the broadcasts of two events and a transaction to a peer;    *)
(*   times    the times of blocks, from claimed times;                     *)
(*   create   how a validator makes its events, among those of others.     *)
(* Only the variables of the picked component change.                      *)
(***************************************************************************)
EXTENDS Integers, Sequences, FiniteSets

VARIABLES
    scenario,
    pc, up, peers, closed, terms, downloader, remover, wg, service, syncer, pending, pack, sent,
    given,
    servers, dialTimers, retryTimers, quit, db,
    event, inst,
    known, queue, marking, loop, epoch, todo, told,
    prevEpochTime, frame, atropos, block,
    dag, draft

sessionVars == <<pc, up, peers, closed, terms, downloader, remover, wg, service, syncer, pending,
                 pack, sent, given>>
poolVars == <<servers, dialTimers, retryTimers, quit, db>>
emitterVars == <<event, inst>>
queueVars == <<known, queue, marking, loop, epoch, todo, told>>
timeVars == <<prevEpochTime, frame, atropos, block>>
createVars == <<dag, draft>>
mcvars == <<scenario, sessionVars, poolVars, emitterVars, queueVars,
           timeVars, createVars>>

-----------------------------------------------------------------------------
Again == INSTANCE Sessions WITH
    Session <- {1, 2}, IdOf <- <<"p", "p">>, Trusted <- {}, MaxPeers <- 1,
    Txs <- <<"t", "u", "v">>, PackLen <- 2

Peers == INSTANCE Sessions WITH
    Session <- {1, 2}, IdOf <- <<"p", "q">>, Trusted <- {"q"}, MaxPeers <- 1,
    Txs <- <<"t", "u">>, PackLen <- 1

\* Bound: without the steps of Service.Stop, and only "p" is dropped.
PeersNext ==
    /\ Peers!Next
    /\ service' = "running" /\ syncer' = "running"
    /\ remover' # <<>> => remover'[1].id = "p"
    /\ {2} \cap up \subseteq up'

SavedNodes == INSTANCE ServerPool WITH
    pool <- servers,
    Node <- {"a", "b"}, MaxEntries <- 1, MaxNewEntries <- 1, TargetServerCount <- 2,
    TargetKnownSelect <- 1, Saved <- <<"a">>

Eviction == INSTANCE ServerPool WITH
    pool <- servers,
    Node <- {"a", "b"}, MaxEntries <- 2, MaxNewEntries <- 1, TargetServerCount <- 1,
    TargetKnownSelect <- 1, Saved <- <<>>

EvictionNext ==
    \/ \E n \in {"a", "b"} : Eviction!Discover(n) \/ Eviction!Connect(n)
    \/ \E e \in Eviction!Entry : Eviction!Disconnect(e) \/ Eviction!DialTimeout(e) \/ Eviction!EnableRetry(e)

\* Bounds: one timer of a kind for an entry, and the counters do not run away.
OneTimer(least) ==
    /\ \A e \in DOMAIN dialTimers : dialTimers'[e] <= 1 /\ retryTimers'[e] <= 1
    /\ servers'.newSelected >= least /\ servers'.knownSelected >= -1

Emitters == INSTANCE Emitter WITH
    Instance <- {"A", "B"}, SelfForkProtection <- 4, MinInterval <- 1, MaxInterval <- 2,
    LockThreshold <- 2, Delay <- 1, MaxEvents <- 3

EmitterStep(i) ==
    \/ Emitters!EmitEvent(i) \/ Emitters!Flush(i) \/ Emitters!PeersChange(i) \/ Emitters!Synced(i)
    \/ \E joined \in BOOLEAN : Emitters!Start(i, joined)
    \/ \E id \in Emitters!Ids : Emitters!Deliver(i, id)

\* "A" runs on and keeps its peers, "B" comes and goes.
BesideNext ==
    \/ EmitterStep("A") /\ (inst["A"].peers => inst'["A"].peers)
    \/ event # <<>> /\ (EmitterStep("B") \/ Emitters!Crash("B"))
    \/ Emitters!Tick

Queues == INSTANCE PeerQueues WITH
    Peer <- {"p"}, Event <- {"e", "f"}, Tx <- {"t", "u"}, EpochOf <- [e |-> 1, f |-> 2],
    MaxQueued <- 1, MaxKnown <- 2, SoftLimitItems <- 1, MaxEpoch <- 1

\* Bound: the peer sends, and asks for, at most the event "e".
QueuesNext == Queues!Next /\ (told["p"] \subseteq told'["p"] /\
    (queue' = queue => told'["p"] \ told["p"] \subseteq {"e"}))

Times == INSTANCE BlockTime WITH
    Validator <- {1, 2, 3}, Stake <- <<1, 1, 3>>, Bits <- 6, MaxTime <- 2, MaxLamport <- 3,
    MaxBlockTime <- 6

Events == INSTANCE Creation WITH
    Validator <- {1, 2, 3}, Me <- 1, MaxParents <- 2, MaxEvents <- 4, MaxTime <- 2

-----------------------------------------------------------------------------
Idle(v) == v = <<>>

MCInit ==
    /\ scenario \in {"again", "peers", "known", "evict", "crash", "beside", "queues", "times",
                     "create"}
    /\ IF scenario = "again" THEN Again!Init ELSE Peers!Init
    /\ IF scenario = "known" THEN SavedNodes!Init ELSE Eviction!Init
    /\ Emitters!Init
    /\ IF scenario = "queues" THEN Queues!Init
       ELSE Idle(known) /\ Idle(queue) /\ Idle(marking) /\ Idle(loop) /\ Idle(epoch)
              /\ Idle(todo) /\ Idle(told)
    /\ IF scenario = "times" THEN Times!Init
       ELSE Idle(prevEpochTime) /\ Idle(frame) /\ Idle(atropos) /\ Idle(block)
    /\ Events!Init

MCNext ==
    /\ \/ /\ \/ scenario = "again" /\ Again!Next
             \/ scenario = "peers" /\ PeersNext
          /\ UNCHANGED <<poolVars, emitterVars, queueVars, timeVars, createVars>>
       \/ /\ \/ scenario = "known" /\ SavedNodes!Next /\ OneTimer(-1)
             \/ scenario = "evict" /\ EvictionNext /\ OneTimer(0)
          /\ UNCHANGED <<sessionVars, emitterVars, queueVars, timeVars, createVars>>
       \/ /\ \/ scenario = "crash" /\ (EmitterStep("A") \/ Emitters!Crash("A") \/ Emitters!Tick)
             \/ scenario = "beside" /\ BesideNext
          /\ UNCHANGED <<sessionVars, poolVars, queueVars, timeVars, createVars>>
       \/ /\ scenario = "queues" /\ QueuesNext
          /\ UNCHANGED <<sessionVars, poolVars, emitterVars, timeVars, createVars>>
       \/ /\ scenario = "times" /\ Times!Next
          /\ UNCHANGED <<sessionVars, poolVars, emitterVars, queueVars, createVars>>
       \/ /\ scenario = "create" /\ Events!Next
          /\ UNCHANGED <<sessionVars, poolVars, emitterVars, queueVars, timeVars>>
    /\ UNCHANGED scenario

MCSpec == MCInit /\ [][MCNext]_mcvars

-----------------------------------------------------------------------------
(***************************************************************************)
(* However a session ends, its handler leaves the peer set without it and  *)
(* its broadcaster is told to stop once: close(p.term) panics when it is   *)
(* called twice (SessionsEnd of Sessions).                                 *)
(***************************************************************************)
SessionsEnd ==
    /\ scenario = "again" => Again!SessionsEnd
    /\ scenario = "peers" => Peers!SessionsEnd

(***************************************************************************)
(* An entry of the server pool that may be dialed is in a selection, and   *)
(* one that waits has a timer (NoneForgotten of ServerPool).               *)
(***************************************************************************)
NodesNotForgotten ==
    /\ scenario = "known" => SavedNodes!NoneForgotten
    /\ scenario = "evict" => Eviction!NoneForgotten

(***************************************************************************)
(* A validator never makes two events with the same self-parent: not after *)
(* a crash and not beside a second instance (NoSelfFork of Emitter).       *)
(***************************************************************************)
NoSelfFork == scenario \in {"crash", "beside"} => Emitters!NoSelfFork

(***************************************************************************)
(* Only what a peer was sent, what it sent or what waits in a queue to be  *)
(* sent is marked as known to it (MarkedIsTold of PeerQueues).             *)
(***************************************************************************)
MarkedIsTold == scenario = "queues" => Queues!MarkedIsTold

(***************************************************************************)
(* Block times increase, and so do the times of a block's events           *)
(* (TimesIncrease of BlockTime).                                           *)
(***************************************************************************)
TimesIncrease == scenario = "times" => Times!TimesIncrease

(***************************************************************************)
(* The events that a validator makes pass the checks of every node, and it *)
(* holds itself for forked only if it is (DraftIsValid of Creation).       *)
(***************************************************************************)
DraftIsValid == scenario = "create" => Events!DraftIsValid

=============================================================================
