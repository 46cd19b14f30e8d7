------------------------------- MODULE TxPool -------------------------------
(***************************************************************************)
(* The transaction pool (evmcore/tx_pool.go, tx_list.go, tx_noncer.go,     *)
(* tx_journal.go): the executable (pending) and the future (queue) lists   *)
(* of each account, the heap of prices with its count of stale entries,    *)
(* the virtual nonces, the journal of local transactions, and the loops    *)
(* that reset and promote in the background.                               *)
(*                                                                         *)
(* What happens under pool.mu is one step.  A transaction is a record with *)
(* its sender, nonce, price and cost; gas limits, sizes and signatures are *)
(* taken as valid.  The chain has no forks, so that reset reinjects        *)
(* nothing.                                                                *)
(***************************************************************************)
EXTENDS Integers, Sequences, FiniteSets, FiniteSetsExt, SequencesExt

CONSTANTS
    Account,       \* accounts, numbers
    Tx,            \* transactions, records [from, nonce, price, cost]
    Batch,         \* sequences of transactions that are added together
    Balance,       \* balances an account can have, the first one initially
    PriceBump, PriceLimit, MinGasPrice, AccountSlots, GlobalSlots, AccountQueue, GlobalQueue,
    Caller,        \* goroutines that add transactions
    MaxAdds,       \* bound: calls of addTxs
    MaxBlocks,     \* bound: blocks
    MaxRestarts    \* bound: restarts of the node

VARIABLES
    pool,          \* what pool.mu guards (see EmptyPool), and the journal on disk
    chain,         \* the state after the last block, [nonce, balance]
    blocks,        \* number of blocks
    chainHeadCh,   \* states announced to loop
    request,       \* scheduleReorgLoop: [launch, reset, dirty, events, waiting]
    run,           \* runReorg, <<>> or <<record>>
    caller,        \* caller -> [pc, dirty, sync]
    announced,     \* transactions sent by txFeed
    stopped,       \* "no", "closing" (reorgShutdownCh is closed), "yes"
    restarts,
    adds           \* calls of addTxs

vars == <<pool, chain, blocks, chainHeadCh, request, run, caller, announced, stopped, restarts, adds>>

-----------------------------------------------------------------------------
(***************************************************************************)
(* Lists of one account (txSortedMap, txList): sets of transactions, at    *)
(* most one for a nonce.                                                   *)
(***************************************************************************)
At(l, n) == {t \in l : t.nonce = n}

Nonces(l) == {t.nonce : t \in l}

ByNonce(l) == SetToSortSeq(l, LAMBDA t, u : t.nonce < u.nonce)

\* Add accepts a replacement when it is better by the price bump.
Accepts(l, t) ==
    \A o \in At(l, t.nonce) :
        o.price < t.price /\ (o.price * (100 + PriceBump)) \div 100 <= t.price

\* The n transactions with the lowest nonces; Cap drops the others.
Lowest(l, n) == {t \in l : Cardinality({u \in l : u.nonce < t.nonce}) < n}

\* Ready: the consecutive run that starts at the lowest nonce, if that is due.
Ready(l, start) ==
    IF l = {} \/ Min(Nonces(l)) > start THEN {}
    ELSE {t \in l : Min(Nonces(l))..t.nonce \subseteq Nonces(l)}

\* Filter with its cached cap: what costs more than the limit.
Unpayable(l, cap, limit) == IF cap <= limit THEN {} ELSE {t \in l : t.cost > limit}

NewCap(cap, limit) == IF cap <= limit THEN cap ELSE limit

\* Strict lists also lose what comes after a removed transaction.
After(l, removed) == {t \in l \ removed : \E r \in removed : t.nonce > r.nonce}

-----------------------------------------------------------------------------
(***************************************************************************)
(* The heap of prices: a bag of transactions, cheapest first, of which     *)
(* stales are said to have left the pool.                                  *)
(***************************************************************************)
EmptyPool(state) ==
    [pending |-> [a \in Account |-> {}], queue |-> [a \in Account |-> {}],
     pcap |-> [a \in Account |-> 0], qcap |-> [a \in Account |-> 0],
     all |-> {}, items |-> [t \in Tx |-> 0], stales |-> 0,
     state |-> state, nonces |-> state.nonce,
     beats |-> <<>>, locals |-> {}, journal |-> {}]

ItemsLen(P) == MapThenSumSet(LAMBDA t : P.items[t], Tx)

Put(P, t) == [P EXCEPT !.items[t] = @ + 1]

Removed(P, n) ==
    IF P.stales + n <= ItemsLen(P) \div 4
    THEN [P EXCEPT !.stales = @ + n]
    ELSE [P EXCEPT !.stales = 0, !.items = [t \in Tx |-> IF t \in P.all THEN 1 ELSE 0]]

\* Less of priceHeap; equal ones are ordered by account.
Cheaper(t, u) ==
    \/ t.price < u.price
    \/ t.price = u.price /\ t.nonce > u.nonce
    \/ t.price = u.price /\ t.nonce = u.nonce /\ t.from < u.from

Cheapest(P) ==
    CHOOSE t \in Tx : P.items[t] > 0 /\ \A u \in Tx : P.items[u] > 0 => t = u \/ Cheaper(t, u)

Pop(P) ==
    LET t == Cheapest(P)
    IN  [P EXCEPT !.items[t] = @ - 1, !.stales = IF t \in P.all THEN @ ELSE @ - 1]

RECURSIVE DropStaleHead(_)
DropStaleHead(P) ==
    IF ItemsLen(P) > 0 /\ Cheapest(P) \notin P.all THEN DropStaleHead(Pop(P)) ELSE P

\* Underpriced of a transaction that is not local, on a cleaned heap.
Underpriced(P, t) == ItemsLen(P) > 0 /\ Cheapest(P).price >= t.price

\* Discard: [pool, drop, save] after n remote transactions are found.
RECURSIVE Discard(_, _)
Discard(S, n) ==
    IF n <= 0 \/ ItemsLen(S.pool) = 0 THEN S
    ELSE LET t == Cheapest(S.pool)
             P == Pop(S.pool)
         IN  CASE t \notin S.pool.all -> Discard([S EXCEPT !.pool = P], n)
               [] t \in S.pool.all /\ t.from \in P.locals ->
                    Discard([S EXCEPT !.pool = P, !.save = Append(@, t)], n)
               [] OTHER -> Discard([S EXCEPT !.pool = P, !.drop = Append(@, t)], n - 1)

-----------------------------------------------------------------------------
\* A list that became empty is deleted, with its cap.
Swept(P, a) ==
    [P EXCEPT !.pcap[a] = IF P.pending[a] = {} THEN 0 ELSE @,
              !.qcap[a] = IF P.queue[a] = {} THEN 0 ELSE @,
              !.beats = IF P.pending[a] = {} THEN SelectSeq(@, LAMBDA b : b # a) ELSE @]

\* Mutant: the replaced transaction is still looked up.
ReplacedKnown(P, old) == IF old = {} THEN P ELSE Removed(P, 1)

\* A replaced transaction leaves the pool.
Replaced(P, old) ==
    IF old = {} THEN P ELSE Removed([P EXCEPT !.all = @ \ old], 1)

Known(P, t) == IF t \in P.all THEN P ELSE Put([P EXCEPT !.all = @ \cup {t}], t)

EnqueueTx(P, t) ==
    LET a == t.from
        old == At(P.queue[a], t.nonce)
    IN  IF ~Accepts(P.queue[a], t) THEN P
        ELSE Known(Replaced([P EXCEPT !.queue[a] = (@ \ old) \cup {t},
                                      !.qcap[a] = Max({@, t.cost})], old), t)

EnqueueAll(P, txs) == FoldLeft(EnqueueTx, P, ByNonce(txs))

SetIfLower(P, a, n) == [P EXCEPT !.nonces[a] = Min({@, n})]

\* removeTx; what comes after a pending transaction goes back to the queue.
RemoveTx(P, t, outofbound) ==
    LET a == t.from
        gone == [P EXCEPT !.all = @ \ {t}]
        counted == IF outofbound THEN Removed(gone, 1) ELSE gone
        here == At(P.pending[a], t.nonce)
        invalids == After(P.pending[a], here)
    IN  CASE t \notin P.all -> P
          [] t \in P.all /\ here # {} ->
               SetIfLower(EnqueueAll(Swept([counted EXCEPT !.pending[a] = @ \ (here \cup invalids)], a),
                                     invalids), a, t.nonce)
          [] OTHER -> Swept([counted EXCEPT !.queue[a] = @ \ At(@, t.nonce)], a)

RemoveAll(P, txs, outofbound) ==
    FoldLeft(LAMBDA S, t : RemoveTx(S, t, outofbound), P, txs)

-----------------------------------------------------------------------------
\* promoteTx, on [pool, promoted].
PromoteTx(S, t) ==
    LET P == S.pool
        a == t.from
        old == At(P.pending[a], t.nonce)
        put == [P EXCEPT !.pending[a] = (@ \ old) \cup {t}, !.pcap[a] = Max({@, t.cost})]
    IN  IF ~Accepts(P.pending[a], t)
        THEN [S EXCEPT !.pool = Replaced(P, {t})]
        ELSE [pool |-> [Known(Replaced(put, old), t) EXCEPT
                            !.beats = Append(SelectSeq(@, LAMBDA b : b # a), a), !.nonces[a] = t.nonce + 1],
              promoted |-> S.promoted \cup {t}]

\* promoteExecutables for one account.
PromoteAccount(S, a) ==
    LET P == S.pool
        l == P.queue[a]
        forwards == {t \in l : t.nonce < P.state.nonce[a]}
        drops == Unpayable(l \ forwards, P.qcap[a], P.state.balance[a])
        rest == l \ (forwards \cup drops)
        ready == Ready(rest, P.nonces[a])
        kept == IF a \in P.locals THEN rest \ ready ELSE Lowest(rest \ ready, AccountQueue)
        caps == (rest \ ready) \ kept
        filtered == [P EXCEPT !.queue[a] = kept, !.all = @ \ (forwards \cup drops),
                              !.qcap[a] = NewCap(@, P.state.balance[a])]
        promoted == FoldLeft(PromoteTx, [S EXCEPT !.pool = filtered], ByNonce(ready))
    IN  IF l = {} THEN S
        ELSE [promoted EXCEPT !.pool =
                 Swept(Removed([@ EXCEPT !.all = @ \ caps], Cardinality(forwards \cup drops \cup caps)), a)]

PromoteExecutables(P, accounts) ==
    FoldLeft(PromoteAccount, [pool |-> P, promoted |-> {}], SetToSortSeq(accounts, <))

\* demoteUnexecutables for one account.
DemoteAccount(P, a) ==
    LET l == P.pending[a]
        olds == {t \in l : t.nonce < P.state.nonce[a]}
        drops == Unpayable(l \ olds, P.pcap[a], P.state.balance[a])
        invalids == After(l \ olds, drops)
        rest == l \ (olds \cup drops \cup invalids)
        gapped == IF P.state.nonce[a] \in Nonces(rest) THEN {} ELSE rest
        filtered == [P EXCEPT !.pending[a] = rest \ gapped, !.all = @ \ (olds \cup drops),
                              !.pcap[a] = NewCap(@, P.state.balance[a])]
    IN  IF l = {} THEN P
        ELSE Swept(EnqueueAll(Removed(filtered, Cardinality(olds \cup drops)), invalids \cup gapped), a)

DemoteUnexecutables(P) == FoldLeft(DemoteAccount, P, SetToSortSeq(Account, <))

-----------------------------------------------------------------------------
PendingCount(P) == MapThenSumSet(LAMBDA a : Cardinality(P.pending[a]), Account)

QueuedCount(P) == MapThenSumSet(LAMBDA a : Cardinality(P.queue[a]), Account)

\* The last transaction of an offender is dropped.
CapLast(P, a) ==
    LET l == P.pending[a]
        cap == l \ Lowest(l, Cardinality(l) - 1)
    IN  SetIfLower(Removed([P EXCEPT !.pending[a] = @ \ cap, !.all = @ \ cap], 1),
                   a, Max(Nonces(l)))

\* All offenders lose a transaction while the last one has more than the limit.
RECURSIVE ReduceOffenders(_, _, _, _)
ReduceOffenders(P, offenders, last, limit) ==
    IF PendingCount(P) > GlobalSlots /\ Cardinality(P.pending[last]) > limit
    THEN ReduceOffenders(FoldLeft(CapLast, P, offenders), offenders, last, limit)
    ELSE P

\* Offenders join the largest first and are made equal.
RECURSIVE Equalize(_, _, _)
Equalize(P, offenders, spammers) ==
    IF PendingCount(P) <= GlobalSlots \/ spammers = <<>>
    THEN [pool |-> P, offenders |-> offenders]
    ELSE LET a == Head(spammers)
             Q == IF offenders = <<>> THEN P
                  ELSE ReduceOffenders(P, offenders, offenders[Len(offenders)], Cardinality(P.pending[a]))
         IN  Equalize(Q, Append(offenders, a), Tail(spammers))

TruncatePending(P) ==
    LET big == {a \in Account \ P.locals : Cardinality(P.pending[a]) > AccountSlots}
        size(a) == Cardinality(P.pending[a])
        spammers == SetToSortSeq(big, LAMBDA a, b : size(a) > size(b) \/ (size(a) = size(b) /\ a < b))
        E == Equalize(P, <<>>, spammers)
    IN  IF PendingCount(P) <= GlobalSlots THEN P
        ELSE IF E.offenders = <<>> THEN E.pool
        ELSE ReduceOffenders(E.pool, E.offenders, E.offenders[Len(E.offenders)], AccountSlots)

\* The rank of an account's heartbeat, 0 without one.
Heartbeat(P, a) == Max({0} \cup {i \in DOMAIN P.beats : P.beats[i] = a})

\* Drops from the accounts with the latest heartbeat, the last nonces first.
RECURSIVE DropQueued(_, _, _)
DropQueued(P, accounts, drop) ==
    IF drop = 0 \/ accounts = <<>> THEN P
    ELSE LET l == P.queue[Head(accounts)]
             dropped == l \ Lowest(l, Cardinality(l) - drop)
         IN  DropQueued(RemoveAll(P, ByNonce(dropped), TRUE), Tail(accounts),
                        drop - Cardinality(dropped))

TruncateQueue(P) ==
    LET remote == {a \in Account \ P.locals : P.queue[a] # {}}
        latest == SetToSortSeq(remote, LAMBDA a, b : Heartbeat(P, a) > Heartbeat(P, b)
                                                   \/ (Heartbeat(P, a) = Heartbeat(P, b) /\ a < b))
    IN  IF QueuedCount(P) <= GlobalQueue THEN P
        ELSE DropQueued(P, latest, QueuedCount(P) - GlobalQueue)

-----------------------------------------------------------------------------
ValidateTx(P, t, local) ==
    /\ local \/ t.from \in P.locals \/ t.price >= PriceLimit
    /\ PriceLimit >= MinGasPrice => t.price >= MinGasPrice
    /\ t.nonce >= P.state.nonce[t.from]
    /\ t.cost <= P.state.balance[t.from]

JournalTx(P, t) == IF t.from \in P.locals THEN [P EXCEPT !.journal = @ \cup {t}] ELSE P

\* A pool with the accounts to promote and the replacements to announce.
Result(P, dirty, events) == [pool |-> P, dirty |-> dirty, events |-> events]

\* A full pool makes room: <<>> when the new transaction is underpriced.
MakeRoom(P, t, local) ==
    LET full == Cardinality(P.all) >= GlobalSlots + GlobalQueue
        C == IF local \/ t.from \in P.locals THEN P ELSE DropStaleHead(P)
        D == Discard([pool |-> C, drop |-> <<>>, save |-> <<>>],
                     Cardinality(P.all) - (GlobalSlots + GlobalQueue - 1))
    IN  CASE ~full -> <<P, TRUE>>
          [] full /\ ~local /\ t.from \notin P.locals /\ Underpriced(C, t) -> <<C, FALSE>>
          [] OTHER -> <<RemoveAll(FoldLeft(Put, D.pool, D.save), D.drop, FALSE), TRUE>>

\* The new transaction replaces a pending one or is queued.
Insert(P, t, local) ==
    LET a == t.from
        old == At(P.pending[a], t.nonce)
        put == [P EXCEPT !.pending[a] = (@ \ old) \cup {t}, !.pcap[a] = Max({@, t.cost})]
        listed == IF local THEN [EnqueueTx(P, t) EXCEPT !.locals = @ \cup {a}] ELSE EnqueueTx(P, t)
    IN  CASE old # {} /\ ~Accepts(P.pending[a], t) -> Result(P, {}, <<>>)
          [] old # {} /\ Accepts(P.pending[a], t) ->
               Result(JournalTx(Known(Replaced(put, old), t), t), {}, <<t>>)
          [] old = {} /\ ~Accepts(P.queue[a], t) -> Result(P, {}, <<>>)
          [] OTHER -> Result(JournalTx(listed, t),
                             IF At(P.queue[a], t.nonce) = {} THEN {a} ELSE {}, <<>>)

InsertInto(room, t, local) ==
    IF room[2] THEN Insert(room[1], t, local) ELSE Result(room[1], {}, <<>>)

Add(P, t, local) ==
    IF t \in P.all \/ ~ValidateTx(P, t, local) THEN Result(P, {}, <<>>)
    ELSE InsertInto(MakeRoom(P, t, local), t, local)

AndThen(S, A) == Result(A.pool, S.dirty \cup A.dirty, S.events \o A.events)

\* addTxsLocked: replacements make no account dirty.
AddTxsLocked(P, txs, local) ==
    FoldLeft(LAMBDA S, t : AndThen(S, Add(S.pool, t, local)), Result(P, {}, <<>>), txs)

-----------------------------------------------------------------------------
NoRequest == [launch |-> FALSE, reset |-> <<>>, dirty |-> {}, events |-> {}, waiting |-> {}]

\* The events are sorted maps: a transaction takes the place of its nonce.
PutEvent(events, t) ==
    {e \in events : ~(e.from = t.from /\ e.nonce = t.nonce)} \cup {t}

\* reset to a child of the old head, which reinjects nothing.
Reset(P, state) == [P EXCEPT !.state = state, !.nonces = state.nonce]

\* The virtual nonces follow the pending lists.
Renumbered(P) ==
    [P EXCEPT !.nonces = [a \in Account |->
        IF P.pending[a] = {} THEN P.nonces[a] ELSE Max(Nonces(P.pending[a])) + 1]]

\* runReorg after the promotion S: [pool, promoted] with the events to send.
Truncated(S, isReset, events) ==
    [pool |-> Renumbered(TruncateQueue(TruncatePending(
                  IF isReset THEN DemoteUnexecutables(S.pool) ELSE S.pool))),
     promoted |-> FoldLeft(PutEvent, events, SetToSeq(S.promoted))]

\* runReorg, up to the unlock.
Reorg(P, r) ==
    IF r.reset = <<>>
    THEN Truncated(PromoteExecutables(P, r.dirty), FALSE, r.events)
    ELSE LET R == Reset(P, r.reset[1])
         IN  Truncated(PromoteExecutables(R, Account), TRUE,
                       {e \in r.events : e.nonce >= R.nonces[e.from]})

Local(P) == UNION {P.pending[a] \cup P.queue[a] : a \in P.locals}

Rotated(P) == [P EXCEPT !.journal = Local(P)]

RotatedResult(R) == [R EXCEPT !.pool = Rotated(R.pool)]

Promoted(A) == Reorg(A.pool, [reset |-> <<>>, dirty |-> A.dirty, events |-> ToSet(A.events)])

\* NewTxPool: the journal is loaded as one batch of local transactions, which is
\* promoted, and written anew.
Loaded(state, journal) ==
    LET file == SetToSortSeq(journal, LAMBDA t, u :
                    t.nonce < u.nonce \/ (t.nonce = u.nonce /\ (t.price < u.price
                        \/ (t.price = u.price /\ t.from < u.from))))
    IN  RotatedResult(Promoted(AddTxsLocked(EmptyPool(state), file, TRUE)))

Init ==
    /\ chain = [nonce |-> [a \in Account |-> 0], balance |-> [a \in Account |-> Balance[1]]]
    /\ pool = EmptyPool(chain)
    /\ blocks = 0 /\ adds = 0 /\ restarts = 0
    /\ chainHeadCh = <<>>
    /\ request = NoRequest
    /\ run = <<>>
    /\ caller = [c \in Caller |-> [pc |-> "idle", dirty |-> {}, sync |-> FALSE]]
    /\ announced = {}
    /\ stopped = "no"

\* addTxs under the lock; AddLocals are waited for, AddRemotes are not.
AddTxs(c, txs, local) ==
    /\ caller[c].pc = "idle" /\ stopped # "yes" /\ adds < MaxAdds
    /\ \E A \in {AddTxsLocked(pool, txs, local)} :
          /\ pool' = A.pool
          /\ \/ request' = [request EXCEPT !.events = FoldLeft(PutEvent, @, A.events)]
             \/ stopped = "closing" /\ UNCHANGED request
          /\ caller' = [caller EXCEPT ![c] = [pc |-> "request", dirty |-> A.dirty, sync |-> local]]
    /\ adds' = adds + 1
    /\ UNCHANGED <<chain, blocks, chainHeadCh, run, announced, stopped, restarts>>

\* requestPromoteExecutables, answered by the loop or by the shutdown.
RequestPromoteExecutables(c) ==
    /\ caller[c].pc = "request"
    /\ \/ /\ stopped # "yes"
          /\ request' = [request EXCEPT !.launch = TRUE, !.dirty = @ \cup caller[c].dirty,
                                        !.waiting = IF caller[c].sync THEN @ \cup {c} ELSE @]
          /\ caller' = [caller EXCEPT ![c].pc = IF caller[c].sync THEN "waiting" ELSE "idle",
                                      ![c].dirty = {}]
       \/ /\ stopped # "no"
          /\ caller' = [caller EXCEPT ![c].pc = "idle", ![c].dirty = {}]
          /\ UNCHANGED request
    /\ UNCHANGED <<pool, chain, blocks, chainHeadCh, run, announced, stopped, restarts, adds>>

\* A block is applied and announced: one account's nonce or balance changes.
NewBlock(a, n, b) ==
    /\ blocks < MaxBlocks /\ stopped = "no"
    /\ chain' = [nonce |-> [chain.nonce EXCEPT ![a] = n], balance |-> [chain.balance EXCEPT ![a] = b]]
    /\ chain' # chain
    /\ blocks' = blocks + 1
    /\ chainHeadCh' = Append(chainHeadCh, chain')
    /\ UNCHANGED <<pool, request, run, caller, announced, stopped, restarts, adds>>

\* Mutant: a reset request takes the place of all the others.
RequestResetOnly ==
    /\ chainHeadCh # <<>> /\ stopped = "no"
    /\ request' = [request EXCEPT !.launch = TRUE, !.reset = <<Head(chainHeadCh)>>, !.events = {}]
    /\ chainHeadCh' = Tail(chainHeadCh)
    /\ UNCHANGED <<pool, chain, blocks, run, caller, announced, stopped, restarts, adds>>

\* loop: requestReset; a request that is not launched yet gets the newer head.
RequestReset ==
    /\ chainHeadCh # <<>> /\ stopped = "no"
    /\ request' = [request EXCEPT !.launch = TRUE, !.reset = <<Head(chainHeadCh)>>]
    /\ chainHeadCh' = Tail(chainHeadCh)
    /\ UNCHANGED <<pool, chain, blocks, run, caller, announced, stopped, restarts, adds>>

\* Mutant: the waiting callers stay with the next channel.
LaunchSameChannel ==
    /\ request.launch /\ run = <<>> /\ stopped # "yes"
    /\ run' = <<[request EXCEPT !.launch = FALSE, !.waiting = {}]>>
    /\ request' = [NoRequest EXCEPT !.waiting = request.waiting]
    /\ UNCHANGED <<pool, chain, blocks, chainHeadCh, caller, announced, stopped, restarts, adds>>

\* scheduleReorgLoop launches the next run when none is active.
Launch ==
    /\ request.launch /\ run = <<>> /\ stopped # "yes"
    /\ run' = <<[request EXCEPT !.launch = FALSE]>>
    /\ request' = NoRequest
    /\ UNCHANGED <<pool, chain, blocks, chainHeadCh, caller, announced, stopped, restarts, adds>>

\* runReorg up to the unlock.
RunReorg ==
    /\ run # <<>> /\ ~run[1].launch
    /\ \E R \in {Reorg(pool, run[1])} :
          /\ pool' = R.pool
          /\ run' = <<[run[1] EXCEPT !.launch = TRUE, !.events = R.promoted]>>
    /\ UNCHANGED <<chain, blocks, chainHeadCh, request, caller, announced, stopped, restarts, adds>>

\* runReorg sends the events and closes its channel.
ReorgDone ==
    /\ run # <<>> /\ run[1].launch
    /\ announced' = announced \cup run[1].events
    /\ caller' = [c \in Caller |-> IF c \in run[1].waiting THEN [caller[c] EXCEPT !.pc = "idle"] ELSE caller[c]]
    /\ run' = <<>>
    /\ UNCHANGED <<pool, chain, blocks, chainHeadCh, request, stopped, restarts, adds>>

\* loop: the tick that evicts the queues of accounts without a recent heartbeat.
Evict(k) ==
    /\ stopped = "no"
    /\ LET old == {a \in Account \ pool.locals : Heartbeat(pool, a) <= k}
           txs == FlattenSeq(SetToSeq({ByNonce(pool.queue[a]) : a \in old}))
       IN  txs # <<>> /\ pool' = RemoveAll(pool, txs, TRUE)
    /\ UNCHANGED <<chain, blocks, chainHeadCh, request, run, caller, announced, stopped, restarts, adds>>

\* loop: the tick that writes the journal anew.
Rejournal ==
    /\ stopped = "no" /\ pool.journal # Local(pool)
    /\ pool' = Rotated(pool)
    /\ UNCHANGED <<chain, blocks, chainHeadCh, request, run, caller, announced, stopped, restarts, adds>>

\* Stop ends the subscription; loop closes reorgShutdownCh and returns.
Stop ==
    /\ stopped = "no"
    /\ stopped' = "closing"
    /\ UNCHANGED <<pool, chain, blocks, chainHeadCh, request, run, caller, announced, restarts, adds>>

\* scheduleReorgLoop waits for the current run and closes the next channel.
ReorgLoopExit ==
    /\ stopped = "closing" /\ run = <<>>
    /\ stopped' = "yes"
    /\ caller' = [c \in Caller |-> IF c \in request.waiting THEN [caller[c] EXCEPT !.pc = "idle"] ELSE caller[c]]
    /\ request' = NoRequest
    /\ UNCHANGED <<pool, chain, blocks, chainHeadCh, run, announced, restarts, adds>>

\* The node stops or crashes and starts again with the journal on disk.
Restart ==
    /\ restarts < MaxRestarts
    /\ \E L \in {Loaded(chain, pool.journal)} :
          pool' = L.pool /\ announced' = L.promoted
    /\ restarts' = restarts + 1
    /\ stopped' = "no"
    /\ request' = NoRequest /\ run' = <<>> /\ chainHeadCh' = <<>>
    /\ caller' = [c \in Caller |-> [pc |-> "idle", dirty |-> {}, sync |-> FALSE]]
    /\ UNCHANGED <<chain, blocks, adds>>

Next ==
    \/ \E c \in Caller, txs \in Batch, local \in BOOLEAN : AddTxs(c, txs, local)
    \/ \E c \in Caller : RequestPromoteExecutables(c)
    \/ \E a \in Account, n \in {0, 1}, i \in DOMAIN Balance : NewBlock(a, chain.nonce[a] + n, Balance[i])
    \/ RequestReset \/ Launch \/ RunReorg \/ ReorgDone
    \/ \E k \in 0..Len(pool.beats) : Evict(k)
    \/ Rejournal \/ Stop \/ ReorgLoopExit \/ Restart

Spec == Init /\ [][Next]_vars

-----------------------------------------------------------------------------
(***************************************************************************)
(* The lists, the lookup and the heap tell the same: every transaction of  *)
(* the lookup is in exactly one list, no nonce is both pending and queued, *)
(* and the heap holds what the lookup holds and the counted stale entries  *)
(* (validateTxPoolInternals in tx_pool_test.go).  What is pending can be   *)
(* executed on the state of the last reset: the nonces follow each other   *)
(* from the account's nonce, each transaction is payable, and the virtual  *)
(* nonce is the next one.                                                  *)
(***************************************************************************)
PoolConsistent ==
    /\ pool.all = UNION {pool.pending[a] \cup pool.queue[a] : a \in Account}
    /\ \A a \in Account :
          /\ \A t \in pool.pending[a] \cup pool.queue[a] :
                t.from = a /\ At(pool.pending[a] \cup pool.queue[a], t.nonce) = {t}
          /\ pool.pending[a] # {} <=> Heartbeat(pool, a) > 0
          /\ Nonces(pool.pending[a]) = pool.state.nonce[a]..(pool.nonces[a] - 1)
          /\ \A t \in pool.pending[a] : t.cost <= pool.state.balance[a]
    /\ \A t \in pool.all : pool.items[t] > 0
    /\ ItemsLen(pool) - pool.stales = Cardinality(pool.all)
    /\ pool.stales >= 0

(***************************************************************************)
(* Until the pool is stopped, every pending transaction is announced, or   *)
(* its event waits in the scheduler or in the active run: no interleaving  *)
(* of replacements, resets and promotions loses the announcement.          *)
(***************************************************************************)
PendingAnnounced ==
    stopped = "no" => \A a \in Account : \A t \in pool.pending[a] :
        t \in announced \cup request.events \cup (IF run = <<>> THEN {} ELSE run[1].events)

(***************************************************************************)
(* Nobody waits in vain for the promotion of what they added: a waiting    *)
(* caller waits for the active run, for a run that will be launched, or    *)
(* for the scheduler that is about to close the channel of the next run.   *)
(***************************************************************************)
WaitersServed ==
    \A c \in Caller : caller[c].pc = "waiting" =>
        \/ run # <<>> /\ c \in run[1].waiting
        \/ c \in request.waiting /\ (request.launch \/ stopped = "closing") /\ stopped # "yes"
=============================================================================
