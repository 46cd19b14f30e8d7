----------------------------- MODULE PeerQueues -----------------------------
(***************************************************************************)
(* What a node sends to a peer of its own accord: gossip/peer.go (the      *)
(* bounded queues, the broadcast loop that empties them, the bounded sets  *)
(* of what the peer is known to have) and gossip/handler.go                *)
(* (BroadcastEvent, BroadcastTxs and the messages that mark items).        *)
(*                                                                         *)
(* An item is an event or a transaction; a batch is a set of items.        *)
(***************************************************************************)
EXTENDS Integers, FiniteSets, FiniteSetsExt, Sequences, SequencesExt

CONSTANTS
    Peer, Event, Tx,
    EpochOf,            \* event -> its epoch
    MaxQueued,          \* maxQueuedProps, maxQueuedAnns, maxQueuedTxs
    MaxKnown,           \* maxKnownEvents, maxKnownTxs
    SoftLimitItems,
    MaxEpoch            \* Bound: the peer's epoch

Item == Event \cup Tx
Kind == {"props", "anns", "txs"}

VARIABLES
    known,      \* peer -> knownEvents and knownTxs
    queue,      \* peer -> kind -> queued batches
    marking,    \* peer -> batches queued and not yet marked
    loop,       \* peer -> "run", "failed", "stopped": the broadcast goroutine
    epoch,      \* peer -> progress.Epoch
    todo,       \* items not yet broadcast
    told        \* peer -> items it was sent, or that it sent

vars == <<known, queue, marking, loop, epoch, todo, told>>

-----------------------------------------------------------------------------
OfKind(K, S) == IF S \subseteq Tx THEN K \cap Tx ELSE K \cap Event

\* Items are popped at will until fewer than the limit are left.
Popped(K, S) ==
    LET own == OfKind(K, S)
    IN  {(K \ own) \cup L : L \in {L \in SUBSET own :
            Cardinality(L) = (IF Cardinality(own) < MaxKnown THEN Cardinality(own)
                                                            ELSE MaxKnown - 1)}}

\* MarkEvent, MarkTransaction: room is made first.
Mark(K, x) == {L \cup {x} : L \in Popped(K, {x})}
\* The Send functions: the batch is added, then room is made.
MarkSent(K, S) == Popped(K \cup S, S)

InterestedIn(p, e) ==
    /\ EpochOf[e] # 0 /\ epoch[p] # 0
    /\ EpochOf[e] \in {epoch[p], epoch[p] + 1}
    /\ e \notin known[p]

(***************************************************************************)
(* AsyncSendEvents, AsyncSendNewEventHashes, AsyncSendTransactions: a full *)
(* queue drops the batch.  The marking follows the send on the channel, so *)
(* the broadcast loop may take the batch first.                            *)
(***************************************************************************)
\* Mutant: a batch that was dropped is marked too.
AsyncSendMarks(p, k, S) ==
    /\ queue' = IF Len(queue[p][k]) < MaxQueued
                THEN [queue EXCEPT ![p][k] = Append(@, S)] ELSE queue
    /\ marking' = [marking EXCEPT ![p] = @ \cup {S}]

AsyncSend(p, k, S) ==
    IF Len(queue[p][k]) < MaxQueued
    THEN /\ queue' = [queue EXCEPT ![p][k] = Append(@, S)]
         /\ marking' = [marking EXCEPT ![p] = @ \cup {S}]
    ELSE UNCHANGED <<queue, marking>>

AsyncMark(p, S) ==
    /\ S \in marking[p]
    /\ marking' = [marking EXCEPT ![p] = @ \ {S}]
    /\ \E K \in MarkSent(known[p], S) : known' = [known EXCEPT ![p] = K]
    /\ UNCHANGED <<queue, loop, epoch, todo, told>>

(***************************************************************************)
(* decideBroadcastAggressiveness gives the number of peers that get the    *)
(* whole event: all, none, or the square root but at least four.           *)
(***************************************************************************)
FullRecipients(n) ==
    LET root == CHOOSE r \in 0..n : r * r <= n /\ (r + 1) * (r + 1) > n
    IN  {0, n, Min({n, Max({4, root})})}

\* BroadcastEvent, one peer after the other: todo holds the plan of each event.
BroadcastEvent(e) ==
    LET P == {p \in Peer : loop[p] # "stopped" /\ InterestedIn(p, e)}
    IN  /\ <<e>> \in todo
        /\ \E n \in FullRecipients(Cardinality(P)) : \E full \in kSubset(n, P) :
              todo' = (todo \ {<<e>>})
                        \cup {<<p, IF p \in full THEN "props" ELSE "anns", {e}>> : p \in P}
        /\ UNCHANGED <<known, queue, marking, loop, epoch, told>>

\* BroadcastTxs: at most softLimitItems of the notification.
BroadcastTxs(S) ==
    /\ S \subseteq {x \in Tx : <<x>> \in todo} /\ S # {}
    /\ \E sent \in {R \in SUBSET S : Cardinality(R) = Min({Cardinality(S), SoftLimitItems})} :
          todo' = (todo \ {<<x>> : x \in S})
                    \cup {<<p, "txs", sent \ known[p]>> :
                             p \in {p \in Peer : loop[p] # "stopped" /\ sent \ known[p] # {}}}
    /\ UNCHANGED <<known, queue, marking, loop, epoch, told>>

Enqueue(p, k, S) ==
    /\ <<p, k, S>> \in todo
    /\ todo' = todo \ {<<p, k, S>>}
    /\ AsyncSend(p, k, S)
    /\ UNCHANGED <<known, loop, epoch, told>>

-----------------------------------------------------------------------------
\* The loop takes a batch: it marks and sends it, and ends if the send fails.
broadcast(p, k, ok) ==
    /\ loop[p] = "run"
    /\ queue[p][k] # <<>>
    /\ queue' = [queue EXCEPT ![p][k] = Tail(@)]
    /\ \E K \in MarkSent(known[p], Head(queue[p][k])) : known' = [known EXCEPT ![p] = K]
    /\ told' = IF ok THEN [told EXCEPT ![p] = @ \cup Head(queue[p][k])] ELSE told
    /\ loop' = IF ok THEN loop ELSE [loop EXCEPT ![p] = "failed"]
    /\ UNCHANGED <<marking, epoch, todo>>

\* An announcement, an event or a transaction comes from the peer.
Received(p, x) ==
    /\ loop[p] = "run"
    /\ x \notin told[p]
    /\ told' = [told EXCEPT ![p] = @ \cup {x}]
    /\ \E K \in Mark(known[p], x) : known' = [known EXCEPT ![p] = K]
    /\ UNCHANGED <<queue, marking, loop, epoch, todo>>

\* GetEventsMsg: the requested events that are stored are sent at once.
GetEvents(p, e) ==
    /\ loop[p] = "run"
    /\ <<e>> \notin todo
    /\ told' = [told EXCEPT ![p] = @ \cup {e}]
    /\ \E K \in MarkSent(known[p], {e}) : known' = [known EXCEPT ![p] = K]
    /\ UNCHANGED <<queue, marking, loop, epoch, todo>>

SetProgress(p) ==
    /\ loop[p] = "run" /\ epoch[p] < MaxEpoch
    /\ epoch' = [epoch EXCEPT ![p] = @ + 1]
    /\ UNCHANGED <<known, queue, marking, loop, todo, told>>

\* Unregister closes term; a batch still queued is never sent.
Unregister(p) ==
    /\ loop[p] # "stopped"
    /\ loop' = [loop EXCEPT ![p] = "stopped"]
    /\ UNCHANGED <<known, queue, marking, epoch, todo, told>>

Init ==
    /\ known = [p \in Peer |-> {}]
    /\ queue = [p \in Peer |-> [k \in Kind |-> <<>>]]
    /\ marking = [p \in Peer |-> {}]
    /\ loop = [p \in Peer |-> "run"]
    /\ epoch \in [Peer -> 0..1]
    /\ todo = {<<x>> : x \in Item}
    /\ told = [p \in Peer |-> {}]

Next ==
    \/ \E e \in Event : BroadcastEvent(e)
    \/ \E S \in SUBSET Tx : BroadcastTxs(S)
    \/ \E p \in Peer :
          \/ \E t \in {t \in todo : Len(t) = 3 /\ t[1] = p} : Enqueue(p, t[2], t[3])
          \/ \E S \in marking[p] : AsyncMark(p, S)
          \/ \E k \in Kind, ok \in BOOLEAN : broadcast(p, k, ok)
          \/ \E x \in Item : Received(p, x)
          \/ \E e \in Event : GetEvents(p, e)
          \/ SetProgress(p) \/ Unregister(p)

Spec == Init /\ [][Next]_vars

-----------------------------------------------------------------------------
(***************************************************************************)
(* "ensuring that the event will never be propagated to this particular    *)
(* peer" (MarkEvent): a mark withholds the item for good, so while the     *)
(* connection works only what the peer was sent, what it sent, or what     *)
(* waits in a queue to be sent is marked.                                  *)
(***************************************************************************)
MarkedIsTold ==
    \A p \in Peer : loop[p] = "run" =>
        known[p] \subseteq told[p] \cup UNION {UNION ToSet(queue[p][k]) : k \in Kind}
=============================================================================
