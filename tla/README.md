# A verification of Lachesis

TLA+ modules that model this repository, TLC configurations that check them on
small instances, and TLAPS proofs of the properties that the consensus and the
storage rest on.  `PROJECT.json` lists the components, runs, theorems and
hazards, and gives the source lines that each definition models.

## The system

A Lachesis node exchanges *events* with its peers.  An event names its parents,
so that events form a graph.  From the graph alone every node computes the same
sequence of blocks, and from the blocks the same state.  The parts, in the order
in which an event meets them:

1. Peers connect (`gossip/handler.go`, `peer.go`, `serverpool.go`) and announce
   events.  `gossip/fetcher` requests them; `gossip/packsdownloader` requests
   whole packs of them when the node is behind.
2. `eventcheck` checks an event in several goroutines, and `gossip/ordering`
   keeps it until its parents are connected.
3. `gossip/consensus_callbacks.go` stores it and calls the engine.  `vector`
   indexes the graph, `poset` computes the frame of the event and, for a root,
   runs `poset/election`, which chooses one root of an earlier frame as the
   Atropos.  Each Atropos makes a block of the events it observes.
4. `app` and `evmcore` execute the block, follow the SFC contract (stakers,
   delegations, rewards) and say when the epoch ends.
5. `kvdb/flushable` writes all databases together.  A node that crashes goes on
   from the last such flush.
6. A validator makes events of its own (`gossip/emitter.go`) with transactions
   of the pool (`evmcore/tx_pool.go`), which clients submit over RPC (`ethapi`).
   Clients also ask for logs and subscribe to blocks (`gossip/filters`,
   `topicsdb`).

## Modules

| Module | Models | State and actions |
|---|---|---|
| `Pos` | `inter/pos` | validators and stakes are constants; a stake counter is the set it has counted |
| `Election` | `poset/election` and the loops of `poset/poset.go` around it | per node the known roots, votes, decided roots, what is saved; `HandleElection`, `ProcessKnownRoots`, `Commit`, `Bootstrap` |
| `VectorIndex` | `vector` | branches, `HighestBefore`, `LowestAfter`, the cache; `Add`, `Flush`, `DropNotFlushed`, `ForklessCause` |
| `EventGraph` | the event graph as `poset` sees it | operators only: forkless cause, roots, votes, the Atropos of a frame |
| `Poset` | `poset` with the callbacks of gossip and app | the store of every node; an event is built, processed, elects, confirms, seals; crashes |
| `BlockTime` | `vector/median_time.go`, `poset/event_ordering.go`, `frame_info.go` | the times of an epoch's frames and of a block |
| `AtomicStore` | what `kvdb/flushable` promises | saves of all databases at once |
| `SyncedPool` | `kvdb/flushable` | trees of unflushed writes, databases with their flags; one action per write of a flush |
| `KvStore` | reads and iterators of `kvdb/flushable`, `table`, `memorydb` | an iterator over the tree and a snapshot |
| `EpochStore` | `gossip/temporary`, `store_epoch.go`, `store_heads.go` | the ring of databases; `ProcessEvent`, readers, crashes |
| `Migration` | `utils/migration`, the migrations and the genesis of the stores | starts of several programs on one database |
| `App` | `app` | staker index, epoch stats, scores; `ApplyBlock` from BeginBlock to EndBlock, `Restart` |
| `Execution` | `evmcore/state_processor.go`, `state_transition.go`, fees and origination scores | a block's transactions one by one |
| `GasPower` | `eventcheck/gaspowercheck` with its stored context | blocks, epochs, restarts |
| `Fetcher`, `EventBuffer`, `PackSync`, `HeavyCheck` | the way of an event into the node | one action per message, loop iteration or step of a goroutine |
| `Sessions`, `PeerQueues`, `ServerPool` | peers | sessions and shutdown, broadcasts, the pool of nodes to dial |
| `Emitter`, `Creation` | the validator's own events | when, and with which parents and fields |
| `TxPool`, `Submission` | `evmcore/tx_*.go`; `ethapi` on top of it | the lists, heap, nonces, journal and the background loop; requests with account locks |
| `Filters`, `LogIndex` | `gossip/filters`, `topicsdb` | goroutines and channels of filters; the index row by row and the concurrent search |
| `Serializer` | `inter/event_serializer.go`, `utils/fast` | encoding and decoding of a header |

The `MC*` modules instantiate the components for TLC.  The proofs are in
`ElectionVotes` and `ElectionProofs` (with the invariant in `ElectionInv`),
`VectorGraph` and `VectorIndexProofs`, `EventGraphProofs`, `PosetBlocks` and
`PosetProofs`, and `SyncedPoolProofs`; see Proofs.

How the code became actions: what runs under one lock without releasing it is
one step (the engine's lock, `pool.mu`, the event loop of the server pool);
every channel operation, every lock that is taken in between and every write
that can reach the disk alone is a step of its own.  Hashes, signatures and
payloads are identities; an event is a number or a name with the fields that the
component reads.  Machine words keep a width where the code can wrap
(`BlockTime`, `GasPower`, `Execution`, `Serializer`), with fewer bits.  Go's
channels have their capacity, and a `select` may take any case that is ready.

The modules rest on one another.  `Election` takes any graph of roots with the
properties that `VectorIndex` (`ForksExclude`: forks are not both
forkless-caused) and `Poset` (a root observes a quorum of the frame before)
establish.  `Poset` takes the forkless cause of the graph, which `IndexIsGraph`
shows the index to compute, and as the outcome of an election `ChooseAtropos` of
`EventGraph`: what follows from all the known roots of a frame, whatever the
order in which `Election` processes them (`Agreement`).  The stores take a flush
as atomic, which `SyncedPool` refines.

## Runs

Several components share a run.  Its `MC` module then picks a scenario at the
start, and only the variables of that scenario change, so that TLC explores the
sum of the state spaces, not their product.  Each run takes less than five
minutes with two workers.

**election** (`MCElection`).  `NoCrit`: `ProcessRoot` never meets a root out of
order or an inconsistent vote, also when a node starts again and processes the
known roots once more.  `Agreement`: any two Atropoi of a frame are equal.
`DecidedInTime`: a node that is done with a root above all that a deciding node
knew has decided, too.  Four validators of equal stake are the smallest group
that tolerates a cheater.  Four frames hold a first vote and two rounds.  The
views are chosen such that the first rounds split, since a frame that is decided
in its first round says little; the second node receives the roots in any order;
validator 4 forks in one scenario.  Other graphs are the theorem's part.

**vector** (`MCVectorIndex`).  `IndexIsGraph`: in every order of arrival the
vectors compute the relation that the graph defines; the cache, which
`DropNotFlushed` does not purge, never answers otherwise; and `NoCheaters` removes
exactly the creators of which the self-parent observes a fork.  `ForksExclude`: no
two forks are both forkless-caused.  Five events of three validators allow a fork,
an observer of each side and one of both.

**poset** (`MCPoset`).  `BlocksAgree`: a block number has one block on all nodes,
including those that a node applied and lost in a crash.  `ConfirmedInOrder`: an
event is confirmed once, after what it observes.  `HonestEventsAccepted`: what
`Prepare` computes for an honest validator, the frame and the median time, every
node accepts.  In three of the scenarios one validator has a quorum alone, so that
each of its events is a root and five to nine events reach several blocks and up to
three epochs, with a cheater that is left out of the next epoch or with a crash; in
the fourth both validators are needed.  An epoch is sealed by a transaction, by its
number of blocks or by its duration; for the last the clock of `epochs` may jump.
A cheater may also claim wrongly to be a root, or a wrong median time; as no node takes
an event of the latter kind, it is the last one (`WrongTimeLast`).  The times are
small integers here; `BlockTime` has the same code with machine words.

**storage** (`MCStorage`).  `StoreSpec`: `SyncedPool` implements `AtomicStore`.
`CrashSafe`: for each point of a flush, whether a restart after a crash there is
accepted.  It is not exactly from the first write of a dirty mark, or of a new
database beside older ones, to the last clean mark, so that neither a half-written
flush is taken for a whole one nor a whole one is lost.  `IterationExact`: an
iterator gives what the database holds while keys change under it.  `HeadsExact`:
heads and last events are those of the stored events, and the ring of the epochs'
databases never runs out.  `IndexInSync`: the index of stakers follows the contract,
the delegations of each staker included, and neither `applyBlock` nor `processSfc`
panics.  `CreditedOnce`: no block's time is credited twice.  `NotOverdrawn`,
`ContextReproducible`: no validator uses gas power that it does not have, and a
restarted node checks with the same context.  `FeesCredited`, `TxCosts`: all fees
are credited once, a transaction costs its fee or, when skipped, nothing.
`Migrated`: databases of older programs are migrated completely, also those that
kept the known nodes in other tables, beside the pack infos that stay there.  Two
databases, one temporary, with three flushes and two crashes meet every combination
of old, half-written and dropped; three blocks with any time and participation are
enough for an epoch, a stake that changes and a restart; six blocks (`sfc`) let a
delegation be made, moved to another staker, deactivated, withdrawn and made again
while the stakers are deactivated and withdrawn; five bits of gas wrap.

**buffer** (`MCBuffer`).  `ParentsFirst`: an event is processed once, after its
parents and in its epoch.  `NoneForgotten`: no complete event is left in the
buffer.  `PushReturns`: the recursion of `PushEvent` ends.  `FetcherLetsGo`: an
announced event arrives or is forgotten, also when others are announced while its
timer runs, and when it arrives before its parent, which the loop then announces to
itself.  The exception is a loop that waits for itself, see Observations.  The buffer
holds two events of ten, so evictions happen; two events in two batches, of a peer
that announces, sends, drops or loses them at any time, are enough for the timer to
be set by one event and to serve the other.

**intake** (`MCIntake`).  `AnnouncesSynced`: the counts of announces are exact
and within the limit.  `SearchAdvances`: the heads of a pack stand for all packs
below, and the binary search moves.  One message is on its way to the loop at a
time; four packs make the search branch on both sides.

**txpool** (`MCTxPool`).  `PoolConsistent`: lists, index, heap with its stale
count and nonces agree, and what is pending can be executed.  `PendingAnnounced`:
no announcement is lost.  `WaitersServed`: nobody waits in vain for a promotion.
`NonceOnce`: a request over RPC that takes its nonce from the pool never takes
that of a pending transaction of another request.  Two accounts, four calls, one
block and one restart; the slots are one or two, so that every limit is met.

**network** (`MCNetwork`).  `SessionsEnd`: however sessions end, they leave
nothing behind.  `MarkedIsTold`: a peer is marked only with what it has or will be
sent.  `NodesNotForgotten`: every node of the server pool can be dialed again.
`NoSelfFork`: a validator forks neither after a crash nor beside a second
instance, if an event arrives within the time the code allows for.
`DraftIsValid`: what `createEvent` builds passes every receiver's checks, and the
emitter finds a fork of its own only where there is one.  `TimesIncrease`: block
times and the times within a block increase.

**services** (`MCServices`).  `DeliveredInOrder`, `UnsubscribeReturns`: filters
get their events in order, and leave.  `IndexedIsScan`: a search in the index
finds what a scan would, of the logs that were there when it began, while others are
pushed row by row beside it.  `VerdictsRight`: while the epoch changes under the
checks of events, only authentic events are connected and no honest peer is
dropped.  `RoundTrip`: `UnmarshalBinary` reads what `MarshalBinary` writes, and of
the other spellings (padded integers, hashes spelled out, flags, a cut end) it takes
only those of `Lenient`, and reads the same header from them.

Three runs expect a violation; see Findings.

Deadlock is checked in `buffer` and `intake`.  The others stop where the bound
is reached or the node has been stopped.

### Fairness

Only what the scheduler and the clock give is assumed, and only where a liveness
property needs it.  Go runs every goroutine that can run, which is weak fairness of
its steps: the pushes of the buffer, the loop and the goroutines of filters.  A
`select` with several ready cases takes each of them in the end; since the timer
of the fetcher can be ready again and again without being so all the time, its
case has strong fairness, which `MCBuffer` states with its guard.  Time passes
(`Tick`).  Nothing is assumed of peers,
clients, new events, or a call of `Stop`.

## Proofs

`Election`, `VectorIndex`, `Poset` and `SyncedPool` are proved for every value of
their constants: any number of validators with any stakes, nodes, events, forks,
frames, epochs, restarts, databases and flushes.  Of the cheaters it is assumed
that they hold less than a third of the stake; the other assumptions
(`PosAssumption`, `ElectionAssumption`, `CheaterAssumption`, `PosetAssumption`,
`SyncedPoolAssumption`) give the constants their types, and a validator a
positive stake.

The lemmas about stakes (a quorum and what it leaves out, the overlap of two
quorums) are at the head of the modules that need them.

**Election** (`ElectionVotes`, `ElectionProofs`).  `AtroposAgreement`
(`Agreement`), `AtroposInTime` (`DecidedInTime`), `ProcessRootNeverFails`
(`NoCrit`) and `TypeCorrect` follow from the inductive invariant `IInv` of
`ElectionInv`.  The properties are not inductive, since what one node decides has
to be compared with what another one will compute from other roots in another
order.  The model therefore keeps the history `cast` of all votes ever computed,
and the invariant says that

- a vote is a function of the graph of roots (`CastInv`, `CastFunctional`): two
  nodes that compute the vote of a root compute the same, whatever they knew;
- unanimity persists (`Unanimity`): votes differ in a frame only if they differ
  in each frame below it;
- the election of each node is complete for the roots it is done with
  (`LocalInv`), so that none of its decisions is overdue;
- each decision rests on decided votes (`DecisionsInv`): "yes" for the chosen
  validator, "no" for all in front of it.

A decided vote rests on a quorum of one frame.  Two quorums share more stake than
either leaves out, so that every root of the next frame counts a majority for the
same answer; by `Unanimity` all later votes agree, no vote is ever decided the
other way, and the first "yes" in the order of validators is the same everywhere.
For `NoCrit` the hard case is that all candidates would be decided "no"
(`NotAllNo`).  In the first round every root votes "no" on less than a third of the
stake, while a candidate that is decided "no" was voted down in the second round by
more than a third of the stake; counting the pairs of voter and candidate both ways
shows that this cannot happen to all candidates at once.

**VectorIndex** (`VectorGraph`, `VectorIndexProofs`).  `VectorsAreGraph`
(`IndexIsGraph`) and `ForksNeverBoth` (`ForksExclude`).  The invariant says, for the
tables in memory as for those on disk, that the events of a branch are one line of
self-parents (`BranchInv`), that `HighestBefore` holds for every branch the highest
event observed or a fork (`BeforeInv`), and `LowestAfter` the first event of every
branch that observes this one (`AfterInv`); that the graph is well-formed
(`Graph`); and that the cache tells the graph's relation also of events that were
dropped.  Most of the work is `Add`: the merged vector finds a fork exactly if the
event observes one, although a branch may have got its number after the vectors of
the parents were written; and the walk that sets `LowestAfter` stops where all
below is set already.  `ForksExclude` follows since the two quorums share an honest
validator, whose later event observes both forks.

**EventGraph, Poset** (`EventGraphProofs`, `PosetBlocks`, `PosetProofs`).
`BlocksAgreeHolds` (`BlocksAgree`), `ConfirmedInOrderHolds` (`ConfirmedInOrder`),
`HonestPasses` (`HonestAccepted`, which `HonestEventsAccepted` checks in each
scenario) and `SealsAgree`, that the two rules for sealing an epoch, of `app` and of
the legacy check in gossip, never differ, so that the panic in `applyBlock` is not
reached.  `app` counts blocks, and time from its last voting; gossip counts frames,
and time from the start in its `EpochStats`.

`EventGraphProofs` shows that the outcome of an election is one for all nodes and
all times: votes exist and depend on what a root observes only (`VotesLocal`,
`VotesDef`), a decision binds all later votes (`Unanimous`, `DecidedOnce`), so
any two sets of valid events that decide a frame choose the same Atropos
(`OneAtropos`), and events that come later change nothing (`AtroposStable`).

The invariant `IInv` of `PosetBlocks` says that all there is follows one chain: there
are blocks `C[1..m]`, each determined by the graph and the blocks before it
(`Chain`, `NextBlock`), such that `applied` is this set, and each store, in memory or
on disk, is exactly what the first blocks of `C` leave (`StoreOK`): epoch, group of
validators, last decided frame, confirmed events, the times of the last blocks, and
where the epoch began.  Which block that was is a function of the chain
(`SealIndex`, the last block that sealed); `lastVoting` of `app` and the start of the
epoch in gossip both hold its time, and the frames since then are as many as the
blocks, so both rules see the same (`SealsAlike`).  The disks are part of it because
a crash makes them the stores again.  A node elects from the events it knows;
by `OneAtropos` and `AtroposStable` the block it applies is `C[k + 1]`, or the chain
ends there and grows by it (`ElectedNext`, `StoreDecides`).  A block holds the
ancestors of its Atropos that no earlier block holds, sorted by Lamport time, which
grows from parent to child; this is `ConfirmedInOrder`.  For `HonestPasses` the
invariant adds what `Prepare` has checked of each honest event, stated over the
graph and a place in the chain, not over the store that computed it (`Prepared`):
every other node is at some place of the same chain when it receives the event, with
the same group and, having the parents, with the roots that the frame rests on.  The
median time depends on the claimed times of observed events only, hence is the same
on each of them (`MedianLocal`).

**SyncedPool** (`SyncedPoolProofs`).  `Implements` shows that it refines
`AtomicStore`: a save of all databases is one step, and a crash brings back the last
save, except databases that were about to be dropped.  `CrashSafeHolds` and
`TypeCorrect` come with it.  The invariant says what the flags mean in each loop of
`flush` (`Visited`): while data is written, every database is marked dirty; a
database is marked clean with the ID of this flush only after all data is written.
`Marks` adds what the flags not yet reached are: before a flush all agree, and among
those left to the loop of dirty marks are only these and databases made by the loop,
which have none.  `CrashSafe` needs it in both directions.
Hence `Recoverable`: whenever `checkDbsSynced` accepts, the disk holds the last
save.  The abstract save is the last clean mark of a flush; each dropped database is
a step `LoseDropped`; all other writes of a flush are stutters.

**Only model-checked**: everything else.  Liveness under fairness (`PushReturns`,
`FetcherLetsGo`, `UnsubscribeReturns`) and `ENABLED` are out of the prover's reach,
and so is what recursive definitions and folds over data compute (`TxPool`,
`Execution`, `App`, `BlockTime`, `Migration`, `PackSync`, `Serializer`), since that
needs induction over data.  `NoSelfFork` holds only under the bound on delays and
restarts that its scenarios state; it is not a theorem about the unrestricted
specification of `Emitter`.  `ParentsFirst`, `VerdictsRight`, `AnnouncesSynced` and
the invariants of the network components could be proved and are not.

## Findings

Each has a run in which TLC finds the violation.

- `pool_drop_crash`: `flush` drops databases before it writes the first dirty
  mark (`kvdb/flushable/synced_pool.go:104`).  After a crash in between, all flags
  are clean and equal; the restart accepts databases that refer to one that is
  gone.  `StoreSpec` holds because `AtomicStore` allows for it.
- `first_epoch`: after the genesis the validators of epoch 1 in the cache are the
  same objects as the stakers in their cache (`app/apply_genesis.go:83`), and
  change with them; a node that restarts during the first epoch reads the stored
  ones.
- `filters_timeout`: `timeoutLoop` unsubscribes with `filtersMu` held
  (`gossip/filters/api.go:84`); `eventLoop`, the goroutine of another filter and
  `timeoutLoop` then wait for one another for ever.  The run `services` shows that
  without timeouts, or with a single polled filter, `Unsubscribe` returns.

## Observations

Seen in the models or while they were written; no run is kept for them.

- A run of the pool with a reset promotes while the virtual nonces are back at
  the state's (`evmcore/tx_pool.go:1017`).  A transaction that follows pending
  ones stays in the queue until the next request for its account, although
  `promoteExecutables` "moves transactions that have become processable"
  (`tx_pool.go:1153`).  A request over RPC in between is given its nonce and
  replaces it; `NonceOnce` therefore speaks of pending transactions.
- The loop of the fetcher calls `Notify`, which sends to a channel that only this
  loop reads (`gossip/fetcher/fetcher.go:362`); a full channel makes it wait for
  itself, and no event is forgotten any more.  `OverloadedPeer` looks at the length
  before, so that it takes other senders in between.  `FetcherLetsGo` excepts
  exactly this state (`Hung`).  The comment on `maxQueuedAnns` (`fetcher.go:37`) says that
  hashes are dropped.
- `inter/ancestor/parents.go:107` takes "the option with best score" from a list
  with the lowest score first.  Every choice makes a valid event.
- `assembleEvmBlock` appends the block's events to themselves; the positions of
  transactions are those of their first event, so nothing changes.
- `UnmarshalBinary` takes headers that `MarshalBinary` never writes, although it
  has `ErrNonCanonicalEncoding`: any bit of a two-bit flag stands for it, the spare
  bits behind the flags are not looked at, and 64-bit integers may have 9 to 16
  bytes, of which the upper ones but the last are shifted out.  The hash of an event
  is that of its header as it is encoded again, so that such a header is the same
  event (`RoundTrip`).  A round trip needs parents of the event's own epoch.
- `Push` of `topicsdb` writes the rows of a log one by one and the `Logrec` row last,
  and queries run beside it.  A query that meets a new log by its topic rows before
  that row is there slices a nil buffer (`topicsdb/record.go:109`); the goroutine
  panics, and with it the node.  One that meets it earlier may return the log with a
  topic still empty.  `IndexedIsScan` speaks of the queries that give an answer.
- The result of a send to a former session of a peer ends the transaction sync of
  its new session (`gossip/sync.go:97`).
- `wg.Add` comes after the hand-over of a new peer (`gossip/handler.go:278`), so
  that `Stop` may pass `wg.Wait` before the handler has ended.

Each hazard in `PROJECT.json` names the properties that would catch it.

## Not modelled

- Queries of `ethapi` and `gossip/ethapi_backend`, the gas price oracle, metrics,
  tracing, logging and debugging: they change nothing that others read.
- The command line, configuration files and their migration, genesis data, the
  generated binding of the SFC contract: constants, files and generated code.
- The EVM and its state, leveldb, RLP, the p2p server, cryptography: libraries,
  modelled from what their callers use (marked external).
- The adapters around a database (`kvdb/leveldb`, `fallible`, `skiperrors`,
  `nokeyiserr`, `devnulldb`) and the heap `common/prque`: one call each, or taken
  over from a library.
- How long an event is delayed (`gossip/piecefunc` and the emission intervals):
  real time; `Emitter` may emit at any moment that the checks allow.
- `gossip/execqueue.go`, `chain_makers.go`, the ASCII schemes: only tests use
  them.
- In modelled components: the LRU caches that hold what their table holds, size
  estimates, the statistics of the server pool, the counters of claimed rewards,
  the reinjection of transactions after a fork of the chain, which this chain
  cannot have, and the sizes and contents of network messages.
- Proof of importance (`app/poi`): it only enters the weights of the rewards for
  transactions, which `App` leaves out.
- The choice of transactions for an event (`gossip/occuredtxs`,
  `utils/weighted_shuffle`) and the random selection of the server pool
  (`gossip/randselect`): the models take any choice.

## Checking

    tlc -workers 2 -config MCElection.cfg MCElection
    tlapm ElectionProofs.tla
