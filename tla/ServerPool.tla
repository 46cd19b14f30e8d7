----------------------------- MODULE ServerPool -----------------------------
(***************************************************************************)
(* The pool of nodes to dial: gossip/serverpool.go.  All its state is      *)
(* changed by its event loop; timers and protocol handlers send to it.     *)
(*                                                                         *)
(* A pool entry is an object: when an entry is removed and its node is     *)
(* discovered again, timers and handlers still hold the old one.  An entry *)
(* is <<node, k>>, the k-th of its node.  A random choice by weight is a   *)
(* choice among the entries with a weight; statistics are left out, and an *)
(* entry that was discovered long ago has expired.  Nothing calls          *)
(* registered or adjustResponseTime, so entries become known only when     *)
(* they are loaded.                                                        *)
(***************************************************************************)
EXTENDS Integers, SequencesExt, FiniteSetsExt

CONSTANTS
    Node,
    MaxEntries,         \* Bound: entries made of a node
    MaxNewEntries,
    TargetServerCount, TargetKnownSelect,
    Saved               \* the nodes saved in the database, a sequence

Entry == Node \X (1..MaxEntries)

VARIABLES
    pool,       \* the serverPool and the fields of its entries
    dialTimers, \* entry -> running timers of dial
    retryTimers,\* entry -> running timers of setRetryDial
    quit,       \* "no", "quitting", "saved"
    db          \* the saved nodes

vars == <<pool, dialTimers, retryTimers, quit, db>>

-----------------------------------------------------------------------------
NewWeight(P, e) == P.state[e] = "notConnected" /\ e \notin P.delayed \cup P.expired

KnownWeight(P, e) == P.state[e] = "notConnected" /\ e \in P.known \ P.delayed

Current(P, n) == <<n, P.entries[n]>>

\* Called by a queue that threw the entry out.
RemoveEntry(P, e) ==
    [P EXCEPT !.newSelect = @ \ {e}, !.knownSelect = @ \ {e}, !.removed = @ \cup {e},
              !.entries[e[1]] = 0]

\* newQueue.setLatest.
SetLatest(P, e) ==
    IF Contains(P.newQueue, e) THEN [P EXCEPT !.newQueue = Append(Remove(@, e), e)]
    ELSE IF Len(P.newQueue) = MaxNewEntries
    THEN [RemoveEntry(P, Head(P.newQueue)) EXCEPT !.newQueue = Append(Tail(@), e)]
    ELSE [P EXCEPT !.newQueue = Append(@, e)]

FindOrNewNode(P, n) ==
    LET made == IF P.entries[n] # 0 THEN P
                ELSE [P EXCEPT !.made[n] = @ + 1, !.entries[n] = P.made[n] + 1,
                               !.state[<<n, P.made[n] + 1>>] = "notConnected"]
        e == Current(made, n)
        seen == [made EXCEPT !.expired = @ \ {e}]
    IN  IF e \in P.known THEN seen ELSE SetLatest(seen, e)

DialAll(P, E, known) ==
    [P EXCEPT !.state = [e \in Entry |-> IF e \in E THEN "dialed" ELSE @[e]],
              !.bySelect = IF known THEN @ \cup E ELSE @ \ E,
              !.knownSelected = IF known THEN @ + Cardinality(E) ELSE @,
              !.newSelected = IF known THEN @ ELSE @ + Cardinality(E)]

\* As many of S as there is room for.
Chosen(S, room) == kSubset(Min({Cardinality(S), Max({room, 0})}), S)

(***************************************************************************)
(* checkDial, for every choice it can make.  The last loop looks only at   *)
(* the entries selected from the known ones.                               *)
(***************************************************************************)
CheckDial(P) ==
    LET knownOf(Q) == {e \in Q.knownSelect : KnownWeight(Q, e)}
        newOf(Q) == {e \in Q.newSelect : NewWeight(Q, e)}
        fill == ~P.fastDiscover /\ Cardinality(knownOf(P)) >= TargetKnownSelect - P.knownSelected
        first == {DialAll(P, E, TRUE) : E \in Chosen(knownOf(P), TargetKnownSelect - P.knownSelected)}
        second == UNION {{DialAll(Q, E, FALSE) : E \in Chosen(newOf(Q),
                             TargetServerCount - Q.knownSelected - Q.newSelected)} : Q \in first}
    IN  IF ~fill THEN second
        ELSE UNION {{DialAll(Q, E, TRUE) :
                        E \in Chosen(knownOf(Q), TargetServerCount - Q.knownSelected)} : Q \in second}

UpdateCheckDial(P, e) ==
    CheckDial([P EXCEPT !.newSelect = IF NewWeight(P, e) THEN @ \cup {e} ELSE @ \ {e},
                        !.knownSelect = IF KnownWeight(P, e) THEN @ \cup {e} ELSE @ \ {e}])

\* Every dial starts a timer.
Dialing(P, Q) ==
    /\ pool' = Q
    /\ dialTimers' = [e \in Entry |->
           IF Q.state[e] = "dialed" /\ P.state[e] # "dialed" THEN dialTimers[e] + 1 ELSE dialTimers[e]]

Unselected(P, e) ==
    [P EXCEPT !.state[e] = "notConnected",
              !.delayed = @ \cup {e},
              !.knownSelected = IF e \in P.bySelect THEN @ - 1 ELSE @,
              !.newSelected = IF e \in P.bySelect THEN @ ELSE @ - 1]

-----------------------------------------------------------------------------
\* A node found by the discovery.
Discover(n) ==
    /\ quit = "no"
    /\ pool.made[n] < MaxEntries \/ pool.entries[n] # 0
    /\ LET P == FindOrNewNode(pool, n)
       IN  \E Q \in UpdateCheckDial(P, Current(P, n)) : Dialing(P, Q)
    /\ UNCHANGED <<retryTimers, quit, db>>

\* connect: a connection that the pool dialed, or one that the node dialed.
Connect(n) ==
    /\ quit = "no"
    /\ \A k \in 1..MaxEntries : pool.state[<<n, k>>] # "connected"
    /\ pool.made[n] < MaxEntries \/ pool.entries[n] # 0
    /\ LET P == IF pool.entries[n] # 0 THEN pool ELSE FindOrNewNode(pool, n)
       IN  pool' = [P EXCEPT !.state[Current(P, n)] = "connected"]
    /\ UNCHANGED <<dialTimers, retryTimers, quit, db>>

Disconnect(e) ==
    /\ quit # "saved"
    /\ pool.state[e] = "connected"
    /\ pool' = Unselected(pool, e)
    /\ retryTimers' = [retryTimers EXCEPT ![e] = IF quit = "no" THEN @ + 1 ELSE @]
    /\ UNCHANGED <<dialTimers, quit, db>>

\* checkDialTimeout.
DialTimeout(e) ==
    /\ quit = "no"
    /\ dialTimers[e] > 0
    /\ dialTimers' = [dialTimers EXCEPT ![e] = @ - 1]
    /\ IF e \notin pool.removed /\ pool.state[e] = "dialed"
       THEN /\ pool' = Unselected(pool, e)
            /\ retryTimers' = [retryTimers EXCEPT ![e] = @ + 1]
       ELSE UNCHANGED <<pool, retryTimers>>
    /\ UNCHANGED <<quit, db>>

\* Mutant: the weights are not updated.
EnableRetryOnly(e) ==
    /\ quit = "no"
    /\ retryTimers[e] > 0
    /\ retryTimers' = [retryTimers EXCEPT ![e] = @ - 1]
    /\ LET P == [pool EXCEPT !.delayed = @ \ {e},
                             !.newSelect = {f \in @ : NewWeight(pool, f)},
                             !.knownSelect = {f \in @ : KnownWeight(pool, f)}]
       IN  IF e \in pool.removed THEN UNCHANGED <<pool, dialTimers>>
           ELSE \E Q \in CheckDial(P) : Dialing(P, Q)
    /\ UNCHANGED <<quit, db>>

EnableRetry(e) ==
    /\ quit = "no"
    /\ retryTimers[e] > 0
    /\ retryTimers' = [retryTimers EXCEPT ![e] = @ - 1]
    /\ LET P == [pool EXCEPT !.delayed = @ \ {e}]
       IN  IF e \in pool.removed THEN UNCHANGED <<pool, dialTimers>>
           ELSE \E Q \in UpdateCheckDial(P, e) : Dialing(P, Q)
    /\ UNCHANGED <<quit, db>>

\* discoverExpireStart passes since the entry was discovered.
Expire(e) ==
    /\ pool.entries[e[1]] = e[2] /\ e \notin pool.known
    /\ pool' = [pool EXCEPT !.expired = @ \cup {e}]
    /\ UNCHANGED <<dialTimers, retryTimers, quit, db>>

\* The lookups converge.
SlowDiscover ==
    /\ quit = "no" /\ pool.fastDiscover
    /\ pool' = [pool EXCEPT !.fastDiscover = FALSE]
    /\ UNCHANGED <<dialTimers, retryTimers, quit, db>>

Quit ==
    /\ quit = "no" /\ quit' = "quitting"
    /\ UNCHANGED <<pool, dialTimers, retryTimers, db>>

\* The loop waits for all connections to end and saves the known nodes.
SaveNodes ==
    /\ quit = "quitting" /\ quit' = "saved"
    /\ \A e \in Entry : pool.state[e] # "connected"
    /\ db' = [i \in 1..Len(pool.knownQueue) |-> pool.knownQueue[i][1]]
    /\ UNCHANGED <<pool, dialTimers, retryTimers>>

\* loadNodes.
Loaded(nodes) ==
    LET E == {<<n, 1>> : n \in ToSet(nodes)}
    IN  [entries |-> [n \in Node |-> IF n \in ToSet(nodes) THEN 1 ELSE 0],
         made |-> [n \in Node |-> IF n \in ToSet(nodes) THEN 1 ELSE 0],
         state |-> [e \in Entry |-> IF e \in E THEN "notConnected" ELSE "none"],
         known |-> E, knownQueue |-> [i \in 1..Len(nodes) |-> <<nodes[i], 1>>],
         knownSelect |-> E, newQueue |-> <<>>, newSelect |-> {},
         delayed |-> {}, removed |-> {}, expired |-> {}, bySelect |-> {},
         knownSelected |-> 0, newSelected |-> 0, fastDiscover |-> TRUE]

NoTimers == [e \in Entry |-> 0]

FirstDials(P) == [e \in Entry |-> IF P.state[e] = "dialed" THEN 1 ELSE 0]

\* start: nodes are loaded and the first dials are made.
Restart ==
    /\ quit = "saved" /\ quit' = "no"
    /\ pool' \in CheckDial(Loaded(db))
    /\ dialTimers' = FirstDials(pool')
    /\ retryTimers' = NoTimers
    /\ UNCHANGED db

Init ==
    /\ db = Saved /\ quit = "no" /\ retryTimers = NoTimers
    /\ pool \in CheckDial(Loaded(Saved))
    /\ dialTimers = FirstDials(pool)

Next ==
    \/ \E n \in Node : Discover(n) \/ Connect(n)
    \/ \E e \in Entry : Disconnect(e) \/ DialTimeout(e) \/ EnableRetry(e) \/ Expire(e)
    \/ SlowDiscover \/ Quit \/ SaveNodes \/ Restart

Spec == Init /\ [][Next]_vars

-----------------------------------------------------------------------------
Live(e) == pool.entries[e[1]] = e[2]

(***************************************************************************)
(* No entry of the pool is forgotten: one that may be dialed is in a       *)
(* selection, one that waits has the timer that lets it be dialed again,   *)
(* and one that was dialed has the timer that gives the dial up.           *)
(***************************************************************************)
NoneForgotten ==
    quit = "no" =>
        \A e \in Entry :
            Live(e) =>
                CASE pool.state[e] = "dialed" -> dialTimers[e] > 0
                  [] pool.state[e] = "notConnected" /\ e \in pool.delayed -> retryTimers[e] > 0
                  [] pool.state[e] = "notConnected" /\ e \notin pool.delayed \cup pool.expired ->
                        e \in pool.newSelect \cup pool.knownSelect
                  [] OTHER -> TRUE

=============================================================================
