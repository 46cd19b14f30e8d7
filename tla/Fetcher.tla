------------------------------- MODULE Fetcher -------------------------------
(***************************************************************************)
(* gossip/fetcher: events that peers announce are requested, again and     *)
(* again until they arrive or are forgotten.  One goroutine owns the       *)
(* announces; the goroutines of the peers and the workers of               *)
(* eventcheck/heavycheck send to it through bounded channels.              *)
(*                                                                         *)
(* Time passes in ticks.  Every time stamp is kept as its age.             *)
(***************************************************************************)
EXTENDS Integers, SequencesExt

CONSTANTS
    Event,
    Parents,           \* event -> set of its parents
    Peer,
    Batches,           \* the sequences of hashes that peers announce
    HashLimit,         \* hashLimit
    MaxQueuedAnns,     \* maxQueuedAnns
    MaxQueuedInjects,  \* maxQueuedInjects
    MaxQueuedTasks,    \* maxQueuedTasks of heavycheck
    ArriveTimeout,     \* in ticks: arriveTimeout (gatherSlack is below a tick),
    FetchTimeout,      \* fetchTimeout
    ForgetTimeout      \* forgetTimeout

ASSUME FetcherAssumption ==
    /\ Parents \in [Event -> SUBSET Event]
    /\ Batches \subseteq Seq(Event)
    /\ {HashLimit, MaxQueuedAnns, MaxQueuedInjects, MaxQueuedTasks} \subseteq Nat \ {0}
    /\ {ArriveTimeout, FetchTimeout, ForgetTimeout} \subseteq Nat \ {0}

VARIABLES
    handler,       \* peer -> the batch that its goroutine is about to send, if any
    notify,        \* the channels
    tasks,
    inject,
    loop,          \* the batch that the loop is about to send to itself, if any
    announces,     \* peer -> its number of announces
    announced,     \* event -> its announces, the oldest first
    fetching,      \* event -> the announce it is fetched from, 0 for none
    fetchingTime,  \* event -> when it was requested
    timer,         \* ticks until fetchTimer fires, 0 when it is stopped
    fired,         \* fetchTimer.C holds a value
    known          \* the events that onlyInterestedEvents leaves out

channels == <<handler, notify, tasks, inject, loop>>

state == <<announces, announced, fetching, fetchingTime>>

vars == <<channels, state, timer, fired, known>>

MaxAge == ForgetTimeout + 1

Older(t) == IF t = MaxAge THEN t ELSE t + 1

Interested(hashes) == SelectSeq(hashes, LAMBDA e : e \notin known)

\* The events that are announced and not yet forgotten.
Pending(s) == {e \in Event : s.fetching[e] # 0}

Current == [announces |-> announces, announced |-> announced, fetching |-> fetching,
            fetchingTime |-> fetchingTime]

-----------------------------------------------------------------------------
CountOf(anns, p) == Len(SelectSeq(anns, LAMBDA a : a.peer = p))

\* forgetHash: all traces of the announces of e.
Forgotten(s, e) ==
    [s EXCEPT !.announced[e] = <<>>, !.fetching[e] = 0, !.fetchingTime[e] = 0]

\* Mutant: one announce of each peer is taken off.
forgetOnce(s, e) ==
    [Forgotten(s, e) EXCEPT !.announces =
       [p \in Peer |-> IF CountOf(s.announced[e], p) = 0 THEN @[p] ELSE Max({@[p] - 1, 0})]]

forgetHash(s, e) ==
    [Forgotten(s, e) EXCEPT !.announces =
       [p \in Peer |-> Max({@[p] - CountOf(s.announced[e], p), 0})]]

ForgetAll(s, E) == FoldSet(LAMBDA e, t : forgetHash(t, e), s, E)

\* cleanupExpiredEvents begins each turn of the loop: it is taken as the
\* end of the turn before.
cleanupExpiredEvents(s) ==
    ForgetAll(s, {e \in Pending(s) : s.announced[e][s.fetching[e]].age > FetchTimeout})

Becomes(s) ==
    /\ announces' = s.announces
    /\ announced' = s.announced
    /\ fetching' = s.fetching
    /\ fetchingTime' = s.fetchingTime

\* Mutant: a timer without a wait is stopped.
RescheduleStopped(s, inChannel) ==
    /\ timer' = IF Pending(s) = {} THEN timer
                ELSE Max({ArriveTimeout - s.fetchingTime[e] : e \in Pending(s)})
    /\ fired' = inChannel

\* rescheduleFetch: the timer is set to the earliest request to time out.
\* A reset does not take a value out of the channel.
rescheduleFetch(s, inChannel) ==
    IF Pending(s) = {}
    THEN timer' = timer /\ fired' = inChannel
    ELSE LET wait == ArriveTimeout - Max({s.fetchingTime[e] : e \in Pending(s)})
         IN  /\ timer' = IF wait > 0 THEN wait ELSE 0
             /\ fired' = (inChannel \/ wait <= 0)

-----------------------------------------------------------------------------
\* overloaded, given the channel inject and the announces.
Overloaded(injects, s) ==
    \/ Len(injects) > (MaxQueuedInjects * 3) \div 4
    \/ Len(notify) > (MaxQueuedAnns * 3) \div 4
    \/ Cardinality(Pending(s)) > HashLimit
    \/ Len(tasks) > MaxQueuedTasks \div 2

OverloadedPeer(p, injects, s) ==
    Overloaded(injects, s) \/ s.announces[p] > HashLimit \div 2

\* handleMsg of NewEventHashesMsg, up to the send.
HandleNewEventHashes(p, hashes) ==
    /\ handler[p] = <<>>
    /\ ~Overloaded(inject, Current)
    /\ handler' = [handler EXCEPT ![p] = <<[peer |-> p, hashes |-> hashes, age |-> 0]>>]
    /\ UNCHANGED <<notify, tasks, inject, loop, state, timer, fired, known>>

\* Notify waits for room in the channel.
Notify(p) ==
    /\ handler[p] # <<>>
    /\ Len(notify) < MaxQueuedAnns
    /\ notify' = notify \o handler[p]
    /\ handler' = [handler EXCEPT ![p] = <<>>]
    /\ UNCHANGED <<tasks, inject, loop, state, timer, fired, known>>

\* handleMsg of EventsMsg: Enqueue, up to heavycheck.
Enqueue(p, e) ==
    /\ handler[p] = <<>>
    /\ ~Overloaded(inject, Current)
    /\ e \notin known
    /\ Len(tasks) < MaxQueuedTasks
    /\ tasks' = Append(tasks, [peer |-> p, event |-> e, age |-> 0])
    /\ UNCHANGED <<handler, notify, inject, loop, state, timer, fired, known>>

\* A worker of heavycheck validates a task, and waits for room in inject.
Validate(valid) ==
    /\ tasks # <<>>
    /\ valid => Len(inject) < MaxQueuedInjects
    /\ tasks' = Tail(tasks)
    /\ inject' = IF valid THEN Append(inject, Head(tasks)) ELSE inject
    /\ UNCHANGED <<handler, notify, loop, state, timer, fired, known>>

-----------------------------------------------------------------------------
\* The loop of processNotifications takes an announcement.
Announce(s, n, hashes) ==
    LET add(t, e) ==
          [t EXCEPT !.announced[e] = Append(@, [peer |-> n.peer, age |-> n.age]),
                    !.fetching[e] = IF @ = 0 THEN 1 ELSE @,
                    !.fetchingTime[e] = IF t.fetching[e] = 0 THEN n.age ELSE @]
    IN  [FoldLeft(add, s, hashes) EXCEPT !.announces[n.peer] = @ + Len(hashes)]

ProcessNotification ==
    /\ loop = <<>>
    /\ notify # <<>>
    /\ LET n == Head(notify)
           hashes == Interested(n.hashes)
           s == Announce(Current, n, hashes)
       IN  IF announces[n.peer] + Len(n.hashes) > HashLimit \/ hashes = <<>>
           THEN /\ Becomes(cleanupExpiredEvents(Current))
                /\ UNCHANGED <<timer, fired>>
           ELSE /\ Becomes(cleanupExpiredEvents(s))
                /\ IF Pending(Current) = {} THEN rescheduleFetch(s, fired)
                   ELSE UNCHANGED <<timer, fired>>
    /\ notify' = Tail(notify)
    /\ UNCHANGED <<handler, tasks, inject, loop, known>>

\* The loop takes an event, pushes it to the buffer, which may drop it, and
\* looks for its parents.
ProcessInject(dropped) ==
    /\ loop = <<>>
    /\ inject # <<>>
    /\ LET op == Head(inject)
           s == forgetHash(Current, op.event)
           parents == {p \in Parents[op.event] : fetching[p] = 0} \ known'
       IN  /\ known' = IF dropped THEN known ELSE known \cup {op.event}
           /\ IF parents = {} \/ OverloadedPeer(op.peer, Tail(inject), s)
              THEN /\ Becomes(cleanupExpiredEvents(s))
                   /\ UNCHANGED loop
              ELSE /\ Becomes(s)
                   /\ loop' = <<[peer |-> op.peer, hashes |-> SetToSeq(parents), age |-> op.age]>>
    /\ inject' = Tail(inject)
    /\ UNCHANGED <<handler, notify, tasks, timer, fired>>

\* Notify from within the loop, the only reader of the channel.
NotifySelf ==
    /\ loop # <<>>
    /\ Len(notify) < MaxQueuedAnns
    /\ notify' = notify \o loop
    /\ loop' = <<>>
    /\ Becomes(cleanupExpiredEvents(Current))
    /\ UNCHANGED <<handler, tasks, inject, timer, fired, known>>

\* The timer fired: requests that were not answered are sent again, each to
\* a peer that announced the event.
ProcessTimer ==
    /\ loop = <<>>
    /\ fired
    /\ LET notArrived == Pending(Current) \ known
           old == {e \in notArrived : Head(announced[e]).age > ForgetTimeout}
           late == {e \in notArrived \ old : fetchingTime[e] >= ArriveTimeout}
       IN  \E choice \in [late -> 1..HashLimit * Cardinality(Peer)] :
             /\ \A e \in late : choice[e] <= Len(announced[e])
             /\ LET again == [Current EXCEPT
                       !.fetching = [e \in Event |-> IF e \in late THEN choice[e] ELSE @[e]],
                       !.fetchingTime = [e \in Event |-> IF e \in late THEN 0 ELSE @[e]]]
                    s == ForgetAll(again, old \cup (Pending(Current) \cap known))
                IN  /\ rescheduleFetch(s, FALSE)
                    /\ Becomes(cleanupExpiredEvents(s))
    /\ UNCHANGED <<channels, known>>

-----------------------------------------------------------------------------
AgeAll(q) == [i \in DOMAIN q |-> [q[i] EXCEPT !.age = Older(@)]]

Tick ==
    /\ handler' = [p \in Peer |-> AgeAll(handler[p])]
    /\ notify' = AgeAll(notify)
    /\ tasks' = AgeAll(tasks)
    /\ inject' = AgeAll(inject)
    /\ loop' = AgeAll(loop)
    /\ announced' = [e \in Event |-> AgeAll(announced[e])]
    /\ fetchingTime' = [e \in Event |-> IF fetching[e] = 0 THEN 0 ELSE Older(fetchingTime[e])]
    /\ timer' = IF timer = 0 THEN 0 ELSE timer - 1
    /\ fired' = (fired \/ timer = 1)
    /\ UNCHANGED <<announces, fetching, known>>

\* An event arrives past the fetcher, or its epoch ends.
Learn(e) ==
    /\ e \notin known
    /\ known' = known \cup {e}
    /\ UNCHANGED <<channels, state, timer, fired>>

\* A buffered event is evicted from the buffer, or the buffer is cleared.
Unlearn(e) ==
    /\ e \in known
    /\ known' = known \ {e}
    /\ UNCHANGED <<channels, state, timer, fired>>

\* New starts the timer with no delay.
Init ==
    /\ handler = [p \in Peer |-> <<>>]
    /\ notify = <<>> /\ tasks = <<>> /\ inject = <<>>
    /\ loop = <<>>
    /\ announces = [p \in Peer |-> 0]
    /\ announced = [e \in Event |-> <<>>]
    /\ fetching = [e \in Event |-> 0]
    /\ fetchingTime = [e \in Event |-> 0]
    /\ timer = 0
    /\ fired = TRUE
    /\ known = {}

Environment ==
    \/ \E p \in Peer, h \in Batches : HandleNewEventHashes(p, h)
    \/ \E p \in Peer, e \in Event : Enqueue(p, e)
    \/ \E e \in Event : Learn(e) \/ Unlearn(e)

Next ==
    \/ Environment
    \/ \E p \in Peer : Notify(p)
    \/ \E valid \in BOOLEAN : Validate(valid)
    \/ ProcessNotification
    \/ \E dropped \in BOOLEAN : ProcessInject(dropped)
    \/ NotifySelf
    \/ ProcessTimer
    \/ Tick

(***************************************************************************)
(* Time goes on, and the goroutine of the loop runs.  Its select chooses   *)
(* among the channels that are ready at random, so that a timer that is    *)
(* ready again and again is taken.                                         *)
(***************************************************************************)
Fairness == WF_vars(Tick) /\ WF_vars(NotifySelf) /\ SF_vars(ProcessTimer)

Spec == Init /\ [][Next]_vars /\ Fairness

-----------------------------------------------------------------------------
Announcement == [peer : Peer, hashes : Seq(Event), age : 0..MaxAge]

TypeOK ==
    /\ \A p \in Peer : handler[p] \in Seq(Announcement)
    /\ notify \in Seq(Announcement) /\ Len(notify) <= MaxQueuedAnns
    /\ tasks \in Seq([peer : Peer, event : Event, age : 0..MaxAge])
    /\ inject \in Seq([peer : Peer, event : Event, age : 0..MaxAge])
    /\ loop \in Seq(Announcement)
    /\ announces \in [Peer -> Nat]
    /\ announced \in [Event -> Seq([peer : Peer, age : 0..MaxAge])]
    /\ \A e \in Event : /\ fetching[e] \in 0..Len(announced[e])
                         /\ fetching[e] = 0 => announced[e] = <<>>
    /\ fetchingTime \in [Event -> 0..MaxAge]
    /\ timer \in 0..ArriveTimeout
    /\ fired \in BOOLEAN
    /\ known \subseteq Event

(***************************************************************************)
(* "f.announced and f.announces must be synced!" (fetcher.go): the count   *)
(* of a peer is the number of its announces that are kept, so that no peer *)
(* has more than hashLimit of them, whatever was announced twice, fetched  *)
(* from another peer, expired or arrived in between.                       *)
(***************************************************************************)
AnnouncesSynced ==
    \A p \in Peer :
       /\ announces[p] = MapThenSumSet(LAMBDA e : CountOf(announced[e], p), Event)
       /\ announces[p] <= HashLimit

\* The loop waits for room in the channel that only it reads: it never runs again.
Hung == loop # <<>> /\ Len(notify) = MaxQueuedAnns

(***************************************************************************)
(* Every announced event is let go in the end: it arrives or is forgotten, *)
(* even if no message ever comes again, and even if peers announce it, or  *)
(* other events, again and again: the timer that is set with the first     *)
(* event only also serves those that come after it.  The one exception is  *)
(* a loop that hangs, when the peers fill the channel between its look at  *)
(* OverloadedPeer and its own Notify of the missing parents.               *)
(***************************************************************************)
LetGo == \A e \in Event : fetching[e] # 0 ~> fetching[e] = 0 \/ Hung
=============================================================================
