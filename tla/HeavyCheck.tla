------------------------------ MODULE HeavyCheck ------------------------------
(***************************************************************************)
(* An event on its way from a peer into the engine: the light checks in the *)
(* goroutine of the peer (Fetcher.Enqueue), the signature in a worker of    *)
(* eventcheck/heavycheck, the check of the gas power and ProcessEvent in    *)
(* the fetcher's loop.  Each looks at the epoch at its own time, and from   *)
(* its own place: the engine, the workers' keys and the gas power context   *)
(* change one after the other when processEvent seals an epoch.             *)
(* Parents, announces and repeated events are in EventBuffer and Fetcher.   *)
(***************************************************************************)
EXTENDS Integers, Sequences, FiniteSets

CONSTANTS
    Peer, Batches,      \* peer -> the sequence of events that it sends
    EpochOf, CreatorOf, SignerOf,   \* of an event
    Keys,               \* epoch -> [validator -> key]
    Thread,
    MaxQueuedTasks, MaxBatch,       \* maxQueuedTasks, maxBatch of heavycheck
    MaxQueuedInjects                \* maxQueuedInjects of the fetcher

VARIABLES
    engine,         \* the epoch of the engine
    sealing,        \* the steps of processEvent for a new epoch still to do; it holds engineMu
    keys, gas,      \* the epochs of heavyCheckReader.Addrs and of gasPowerCheckReader.Ctx
    handler,        \* peer -> [todo, passed]: its goroutine in Enqueue
    tasksQ, worker, \* worker: thread -> [at, op, result]
    inject, loop,   \* loop: the events that the loop pushes, the first one checked or not
    connected,      \* the events that the engine has processed
    dropped,        \* peers
    stop            \* "run", "fetcher" (f.quit is closed), "checker" (v.quit too), "done"

vars == <<engine, sealing, keys, gas, handler, tasksQ, worker, inject, loop, connected, dropped, stop>>

Quit == stop # "run"
NoTask == [peer |-> "", events |-> <<>>]

\* An event that its creator has signed with its key of the epoch
Authentic(e) ==
    CreatorOf[e] \in DOMAIN Keys[EpochOf[e]] /\ SignerOf[e] = Keys[EpochOf[e]][CreatorOf[e]]

-----------------------------------------------------------------------------
(***************************************************************************)
(* The checks: "ok", "ErrNotRelevant" or an error that bans the peer.      *)
(***************************************************************************)
IsBan(err) == err \notin {"ok", "ErrNotRelevant"}

\* epochcheck, with the epoch and the validators of the engine
FirstCheck(e) ==
    IF EpochOf[e] # engine THEN "ErrNotRelevant"
    ELSE IF CreatorOf[e] \notin DOMAIN Keys[engine] THEN "ErrAuth" ELSE "ok"

\* Mutant: the keys are taken to be those of the event's epoch.
ValidateAnyEpoch(e) ==
    IF CreatorOf[e] \notin DOMAIN Keys[keys] THEN "ErrAuth"
    ELSE IF SignerOf[e] # Keys[keys][CreatorOf[e]] THEN "ErrWrongEventSig" ELSE "ok"

Validate(e) ==
    IF EpochOf[e] # keys THEN "ErrNotRelevant"
    ELSE IF CreatorOf[e] \notin DOMAIN Keys[keys] THEN "ErrAuth"
    ELSE IF SignerOf[e] # Keys[keys][CreatorOf[e]] THEN "ErrWrongEventSig" ELSE "ok"

-----------------------------------------------------------------------------
(***************************************************************************)
(* Fetcher.Enqueue in the goroutine of a peer                              *)
(***************************************************************************)
Drop(p) == dropped' = dropped \cup {p}

EnqueueCheck(p) ==
    /\ handler[p].todo # <<>> /\ p \notin dropped
    /\ LET e == Head(handler[p].todo)
           err == FirstCheck(e)
       IN  IF IsBan(err)
           THEN Drop(p) /\ handler' = [handler EXCEPT ![p] = [todo |-> <<>>, passed |-> <<>>]]
           ELSE /\ handler' = [handler EXCEPT ![p].todo = Tail(@),
                                              ![p].passed = IF err = "ok" THEN Append(@, e) ELSE @]
                /\ UNCHANGED dropped
    /\ UNCHANGED <<engine, sealing, keys, gas, tasksQ, worker, inject, loop, connected, stop>>

\* Checker.Enqueue: a batch goes to the workers, or the checker has quit.
EnqueueSend(p) ==
    LET passed == handler[p].passed
        n == IF Len(passed) < MaxBatch THEN Len(passed) ELSE MaxBatch
    IN  /\ handler[p].todo = <<>> /\ passed # <<>>
        /\ \/ /\ Len(tasksQ) < MaxQueuedTasks
              /\ tasksQ' = Append(tasksQ, [peer |-> p, events |-> SubSeq(passed, 1, n)])
              /\ handler' = [handler EXCEPT ![p].passed = SubSeq(passed, n + 1, Len(passed))]
           \/ /\ stop \in {"checker", "done"}
              /\ handler' = [handler EXCEPT ![p].passed = <<>>]
              /\ UNCHANGED tasksQ
        /\ UNCHANGED <<engine, sealing, keys, gas, worker, inject, loop, connected, dropped, stop>>

-----------------------------------------------------------------------------
(***************************************************************************)
(* A worker                                                                *)
(***************************************************************************)
WorkerTake(w) ==
    /\ worker[w].at = "idle" /\ tasksQ # <<>>
    /\ worker' = [worker EXCEPT ![w] = [at |-> "check", op |-> Head(tasksQ), result |-> <<>>]]
    /\ tasksQ' = Tail(tasksQ)
    /\ UNCHANGED <<engine, sealing, keys, gas, handler, inject, loop, connected, dropped, stop>>

WorkerValidate(w) ==
    /\ worker[w].at = "check"
    /\ Len(worker[w].result) < Len(worker[w].op.events)
    /\ worker' = [worker EXCEPT ![w].result = Append(@, Validate(worker[w].op.events[Len(@) + 1]))]
    /\ UNCHANGED <<engine, sealing, keys, gas, handler, tasksQ, inject, loop, connected, dropped, stop>>

\* The events that passed, in their order: the set of one sequence.
Passed(op, result) ==
    LET ok == {i \in DOMAIN result : result[i] = "ok"}
    IN  {[j \in DOMAIN k |-> op.events[k[j]]] :
            k \in {f \in [1..Cardinality(ok) -> ok] : \A i, j \in DOMAIN f : i < j => f[i] < f[j]}}

Idle == [at |-> "idle", op |-> NoTask, result |-> <<>>]

\* onValidated: a ban ends it, otherwise the events that passed are sent to the loop.
OnValidated(w) ==
    /\ worker[w].at = "check"
    /\ Len(worker[w].result) = Len(worker[w].op.events)
    /\ LET op == worker[w].op
           result == worker[w].result
       IN  IF \E i \in DOMAIN result : IsBan(result[i])
           THEN Drop(op.peer) /\ worker' = [worker EXCEPT ![w] = Idle]
           ELSE /\ \E passed \in Passed(op, result) :
                      worker' = [worker EXCEPT ![w] =
                                    IF passed = <<>> THEN Idle
                                    ELSE [at |-> "send", op |-> [peer |-> op.peer, events |-> passed],
                                          result |-> <<>>]]
                /\ UNCHANGED dropped
    /\ UNCHANGED <<engine, sealing, keys, gas, handler, tasksQ, inject, loop, connected, stop>>

\* Fetcher.enqueue: the channel has room, or the fetcher has quit.
WorkerSend(w) ==
    /\ worker[w].at = "send"
    /\ \/ Len(inject) < MaxQueuedInjects /\ inject' = inject \o <<worker[w].op>>
       \/ Quit /\ UNCHANGED inject
    /\ worker' = [worker EXCEPT ![w] = Idle]
    /\ UNCHANGED <<engine, sealing, keys, gas, handler, tasksQ, loop, connected, dropped, stop>>

WorkerQuit(w) ==
    /\ worker[w].at = "idle" /\ stop = "checker"
    /\ worker' = [worker EXCEPT ![w].at = "quit"]
    /\ UNCHANGED <<engine, sealing, keys, gas, handler, tasksQ, inject, loop, connected, dropped, stop>>

-----------------------------------------------------------------------------
(***************************************************************************)
(* The fetcher's loop: bufferedCheck without the engine's lock, then       *)
(* ProcessEvent with it, which looks at the epoch once more.               *)
(***************************************************************************)
NoPush == [at |-> "idle", events |-> <<>>, peer |-> ""]

LoopTake ==
    /\ loop.at = "idle" /\ inject # <<>>
    /\ loop' = [at |-> "check", events |-> Head(inject).events, peer |-> Head(inject).peer]
    /\ inject' = Tail(inject)
    /\ UNCHANGED <<engine, sealing, keys, gas, handler, tasksQ, worker, connected, dropped, stop>>

Pushed == IF Len(loop.events) = 1 THEN NoPush ELSE [loop EXCEPT !.at = "check", !.events = Tail(@)]

LoopCheck ==
    /\ loop.at = "check"
    /\ loop' = IF EpochOf[Head(loop.events)] = gas THEN [loop EXCEPT !.at = "process"] ELSE Pushed
    /\ UNCHANGED <<engine, sealing, keys, gas, handler, tasksQ, worker, inject, connected, dropped, stop>>

LoopProcess ==
    /\ loop.at = "process" /\ sealing = <<>>
    /\ LET e == Head(loop.events)
       IN  connected' = IF EpochOf[e] = engine THEN connected \cup {e} ELSE connected
    /\ loop' = Pushed
    /\ UNCHANGED <<engine, sealing, keys, gas, handler, tasksQ, worker, inject, dropped, stop>>

LoopQuit ==
    /\ loop.at = "idle" /\ Quit
    /\ loop' = [NoPush EXCEPT !.at = "quit"]
    /\ UNCHANGED <<engine, sealing, keys, gas, handler, tasksQ, worker, inject, connected, dropped, stop>>

-----------------------------------------------------------------------------
(***************************************************************************)
(* An event, of the emitter say, seals the epoch.                          *)
(***************************************************************************)
SealEpoch ==
    /\ sealing = <<>> /\ engine + 1 \in DOMAIN Keys
    /\ engine' = engine + 1
    /\ sealing' = <<"keys", "gas">>
    /\ UNCHANGED <<keys, gas, handler, tasksQ, worker, inject, loop, connected, dropped, stop>>

Publish ==
    /\ sealing # <<>>
    /\ IF Head(sealing) = "keys" THEN keys' = engine /\ UNCHANGED gas ELSE gas' = engine /\ UNCHANGED keys
    /\ sealing' = Tail(sealing)
    /\ UNCHANGED <<engine, handler, tasksQ, worker, inject, loop, connected, dropped, stop>>

\* Fetcher.Stop, then Checker.Stop, which waits for the workers
Stop ==
    /\ \/ stop = "run" /\ stop' = "fetcher"
       \/ stop = "fetcher" /\ stop' = "checker"
       \/ stop = "checker" /\ (\A w \in Thread : worker[w].at = "quit") /\ stop' = "done"
    /\ UNCHANGED <<engine, sealing, keys, gas, handler, tasksQ, worker, inject, loop, connected, dropped>>

Init ==
    /\ engine = 1 /\ sealing = <<>> /\ keys = 1 /\ gas = 1
    /\ handler = [p \in Peer |-> [todo |-> Batches[p], passed |-> <<>>]]
    /\ tasksQ = <<>> /\ worker = [w \in Thread |-> Idle]
    /\ inject = <<>> /\ loop = NoPush
    /\ connected = {} /\ dropped = {}
    /\ stop = "run"

Work(w) == WorkerTake(w) \/ WorkerValidate(w) \/ OnValidated(w) \/ WorkerSend(w) \/ WorkerQuit(w)

Next ==
    \/ \E p \in Peer : EnqueueCheck(p) \/ EnqueueSend(p)
    \/ \E w \in Thread : Work(w)
    \/ LoopTake \/ LoopCheck \/ LoopProcess \/ LoopQuit
    \/ SealEpoch \/ Publish \/ Stop

Spec == Init /\ [][Next]_vars

-----------------------------------------------------------------------------
(***************************************************************************)
(* The verdicts of the checks are right, in whichever order the engine,    *)
(* the keys and the gas power context change to a new epoch under them.    *)
(* Every event that the engine has processed was signed by its creator     *)
(* with its key of that epoch, and a peer that sends only such events is   *)
(* never dropped: while the keys are those of another epoch a check        *)
(* answers ErrNotRelevant, which neither passes nor bans (FirstCheck,      *)
(* Validate, IsBan, onValidated).                                          *)
(***************************************************************************)
VerdictsRight ==
    /\ \A e \in connected : Authentic(e)
    /\ \A p \in dropped : \E i \in DOMAIN Batches[p] : ~Authentic(Batches[p][i])
===============================================================================
