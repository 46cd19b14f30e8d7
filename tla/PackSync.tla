------------------------------ MODULE PackSync ------------------------------
(***************************************************************************)
(* How a node that is behind downloads the events of an epoch from a peer: *)
(* the peer collects its events in packs (gossip/pack.go, store_pack.go)   *)
(* and announces them in its progress; the node's PeerPacksDownloader      *)
(* searches the lowest pack it does not know (gossip/packsdownloader); the *)
(* protocol manager serves and delivers the messages (gossip/handler.go).  *)
(*                                                                         *)
(* One peer serves, one node downloads.  The connection is reliable and    *)
(* keeps the order; the events themselves may be lost by the fetcher.      *)
(* Times are abstracted to whether arriveTimeout and forceSyncPeriod have  *)
(* passed.                                                                 *)
(***************************************************************************)
EXTENDS Integers, Sequences, FiniteSets, FiniteSetsExt, Functions, TLC

CONSTANTS
    Order,                  \* epoch -> the events in the order the peer connects them
    Parents,                \* event -> set of events
    MaxPackEventsNum,       \* events that fill a pack
    MaxFetchingFullPacks,   \* full packs requested in parallel
    MaxPeerPacks            \* pack infos kept of a peer

VARIABLES
    sEpoch, sCount,         \* the peer: its epoch, the events connected in it
    packs,                  \* the peer's tables PacksNum, PackInfos and Packs
    newPacks, prevProgress, \* the peer's progressBroadcastLoop
    epoch, connected,       \* the node: its epoch, the events connected in it
    fetching,               \* events announced to the node's fetcher
    newEpochs,              \* the channel of onNewEpochLoop
    peerEpoch,              \* p.progress.Epoch
    dwnlr,                  \* the downloader of the peer, <<>> or <<record>>
    handling,               \* the ProgressMsg being handled, <<>> or <<record>>
    wire, requests,         \* messages to the node, requests to the peer
    dropped                 \* the peer was dropped

server == <<sEpoch, sCount, packs, newPacks, prevProgress>>
node == <<epoch, connected, fetching, newEpochs>>
vars == <<server, node, peerEpoch, dwnlr, handling, wire, requests, dropped>>

Epochs == DOMAIN Order
LastEpoch == Max(Epochs)
PackEvent == UNION {Range(Order[e]) : e \in Epochs}

-----------------------------------------------------------------------------
(***************************************************************************)
(* The peer's tables.  A pack info is [num, heads]; heads are set when the *)
(* pack is pinned.                                                         *)
(***************************************************************************)
GetPacksNumOrDefault(p, e) == IF p.num[e] = 0 THEN 1 ELSE p.num[e]

GetPackInfoOrDefault(p, e, i) ==
    IF i \in DOMAIN p.info[e] THEN p.info[e][i] ELSE [num |-> 0, heads |-> {}]

SetPackInfo(p, e, i, v) ==
    [p EXCEPT !.info[e] = (i :> v) @@ @]

AddToPack(p, e, i, v) ==
    [p EXCEPT !.pack[e] = (i :> ({v} \cup IF i \in DOMAIN @ THEN @[i] ELSE {})) @@ @]

SetPacksNum(p, e, n) == [p EXCEPT !.num[e] = n]

\* The connected events of the peer's epoch with no connected child.
GetHeads(evs) == {e \in evs : \A c \in evs : e \notin Parents[c]}

(***************************************************************************)
(* packsOnNewEvent.  The info is looked up under the engine's epoch, which *)
(* is the next one already when the event seals its epoch.                 *)
(***************************************************************************)
PacksOnNewEvent(p, v, e, engineEpoch, evs) ==
    LET i == GetPacksNumOrDefault(p, e)
        num == GetPackInfoOrDefault(p, engineEpoch, i).num + 1
        full == num >= MaxPackEventsNum
        added == AddToPack(p, e, i, v)
    IN  SetPackInfo(IF full THEN SetPacksNum(added, e, i + 1) ELSE added, e, i,
                    [num |-> num, heads |-> IF full THEN GetHeads(evs) ELSE {}])

PacksOnNewEpoch(p, old, engineEpoch, evs) ==
    LET i == GetPacksNumOrDefault(p, old)
    IN  SetPacksNum(
            SetPackInfo(p, old, i,
                [GetPackInfoOrDefault(p, engineEpoch, i) EXCEPT !.heads = GetHeads(evs)]),
            old, i + 1)

MyProgress(p, e) ==
    LET i == GetPacksNumOrDefault(p, e) - 1
    IN  [kind |-> "progress", epoch |-> e, index |-> i, heads |-> GetPackInfoOrDefault(p, e, i).heads]

\* processEvent of the peer's next event.
ServerConnect ==
    /\ sCount < Len(Order[sEpoch])
    /\ LET v == Order[sEpoch][sCount + 1]
           evs == {Order[sEpoch][k] : k \in 1..(sCount + 1)}
           seals == sCount + 1 = Len(Order[sEpoch]) /\ sEpoch < LastEpoch
           engineEpoch == IF seals THEN sEpoch + 1 ELSE sEpoch
           onEvent == PacksOnNewEvent(packs, v, sEpoch, engineEpoch, evs)
       IN  /\ packs' = IF seals THEN PacksOnNewEpoch(onEvent, sEpoch, engineEpoch, evs) ELSE onEvent
           /\ newPacks' = newPacks + (IF onEvent.num # packs.num THEN 1 ELSE 0)
                                   + (IF seals THEN 1 ELSE 0)
           /\ sEpoch' = engineEpoch
           /\ sCount' = IF seals THEN 0 ELSE sCount + 1
    /\ UNCHANGED <<prevProgress, node, peerEpoch, dwnlr, handling, wire, requests, dropped>>

\* progressBroadcastLoop sends the progress it had at the previous pack.
ProgressBroadcast ==
    /\ newPacks > 0
    /\ newPacks' = newPacks - 1
    /\ wire' = IF dropped THEN wire ELSE Append(wire, prevProgress)
    /\ prevProgress' = MyProgress(packs, sEpoch)
    /\ UNCHANGED <<sEpoch, sCount, packs, node, peerEpoch, dwnlr, handling, requests, dropped>>

\* GetPackInfosMsg: only pinned packs; no answer when there is none.
ServePackInfos(r) ==
    /\ r.kind = "info"
    /\ requests' = requests \ {r}
    /\ wire' = IF r.index < packs.num[r.epoch]
               THEN Append(wire, [kind |-> "infos", epoch |-> r.epoch, index |-> r.index,
                                  heads |-> packs.info[r.epoch][r.index].heads,
                                  num |-> packs.num[r.epoch]])
               ELSE wire
    /\ UNCHANGED <<server, node, peerEpoch, dwnlr, handling, dropped>>

\* GetPackMsg: also the pack that is not pinned; no answer for an empty one.
ServePack(r) ==
    /\ r.kind = "pack"
    /\ requests' = requests \ {r}
    /\ wire' = IF r.epoch <= sEpoch /\ r.index \in DOMAIN packs.pack[r.epoch]
               THEN Append(wire, [kind |-> "pack", epoch |-> r.epoch, index |-> r.index,
                                  ids |-> packs.pack[r.epoch][r.index]])
               ELSE wire
    /\ UNCHANGED <<server, node, peerEpoch, dwnlr, handling, dropped>>

-----------------------------------------------------------------------------
(***************************************************************************)
(* The node's downloader of one peer.  infos maps the index of a pack to   *)
(* its heads; fetchingInfo and fetchingFull are the requests younger than  *)
(* arriveTimeout; stalled says that forceSyncPeriod passed without one.    *)
(***************************************************************************)
NewPeer(e) ==
    [epoch |-> e, packsNum |-> 0, infos |-> <<>>, fetchingInfo |-> {}, fetchingFull |-> {},
     stalled |-> TRUE]

\* The headers of an old epoch are deleted with its store.
OnlyNotConnected(d, ids) == IF d.epoch = epoch THEN ids \ connected ELSE ids

KnownPacks(d) == {i \in DOMAIN d.infos : OnlyNotConnected(d, d.infos[i]) = {}}

Request(index, full, synced) == [index |-> index, full |-> full, synced |-> synced]

\* Mutant: the search does not step over the known pack.
SearchHalf(d) ==
    LET known == KnownPacks(d)
        low == IF known = {} THEN 0 ELSE Max(known)
        above == {i \in DOMAIN d.infos : i > low}
        high == IF above = {} THEN 0 ELSE Min(above)
        half == low + ((IF above = {} THEN d.packsNum ELSE high) - low) \div 2
    IN  CASE above = {} /\ low >= d.packsNum /\ low > 0 -> Request(low, FALSE, TRUE)
          [] above # {} /\ high = low + 1 -> Request(high, TRUE, FALSE)
          [] OTHER -> Request(half, FALSE, FALSE)

(***************************************************************************)
(* binarySearchReq walks down from the highest info to the first pack with *)
(* known heads; above is the lowest info it passed.                        *)
(***************************************************************************)
BinarySearchReq(d) ==
    LET known == KnownPacks(d)
        low == IF known = {} THEN 0 ELSE Max(known)
        above == {i \in DOMAIN d.infos : i > low}
        high == IF above = {} THEN 0 ELSE Min(above)
        half == low + ((IF above = {} THEN d.packsNum ELSE high) - low) \div 2
    IN  CASE known = {} /\ above = {} -> Request(1, FALSE, FALSE)
          [] known = {} /\ high = 1 -> Request(1, TRUE, FALSE)
          [] known = {} /\ high > 1 -> Request(high \div 2, FALSE, FALSE)
          [] known # {} /\ above = {} /\ low >= d.packsNum -> Request(low, FALSE, TRUE)
          [] known # {} /\ above # {} /\ high = low + 1 -> Request(high, TRUE, FALSE)
          [] OTHER -> Request(Max({half, low + 1}), FALSE, FALSE)

\* What tryToSync requests now: [info, full] sets of indexes; full and pinned
\* requests are remembered.
Wanted(d) ==
    LET r == BinarySearchReq(d)
        fulls == {i \in r.index..(r.index + MaxFetchingFullPacks - 1) : i <= d.packsNum}
    IN  IF r.synced
        THEN [info |-> IF d.stalled THEN {d.packsNum + 1} ELSE {},
              full |-> {},
              open |-> IF d.stalled THEN {d.packsNum + 1} ELSE {}]
        ELSE [info |-> IF r.full
                       THEN {i + 1 : i \in fulls} \cap {i \in 1..d.packsNum : i \notin DOMAIN d.infos}
                       ELSE {r.index},
              full |-> IF r.full THEN fulls ELSE {},
              open |-> {}]

\* timedRequestFullPack and timedRequestPackInfo skip what was requested lately.
SentRequests(d) ==
    LET w == Wanted(d)
    IN  {[kind |-> "info", epoch |-> d.epoch, index |-> i] : i \in w.info \ d.fetchingInfo} \cup
        {[kind |-> "pack", epoch |-> d.epoch, index |-> i] :
            i \in (w.full \cup w.open) \ d.fetchingFull}

AfterRequests(d) ==
    LET w == Wanted(d)
    IN  [d EXCEPT !.fetchingInfo = @ \cup w.info,
                  !.fetchingFull = @ \cup w.full,
                  !.stalled = @ /\ SentRequests(d) = {}]

\* Erases the infos below the highest known pack.
SweepKnown(d) ==
    LET known == KnownPacks(d)
        old == {i \in DOMAIN d.infos : known # {} /\ i < Max(known)}
    IN  [d EXCEPT !.infos = Restrict(@, DOMAIN @ \ old),
                  !.fetchingInfo = @ \ old,
                  !.fetchingFull = @ \ old]

\* tryToSync and sweepKnown; with an overloaded fetcher nothing is requested.
TryToSync(d, overloaded) ==
    /\ dwnlr' = <<SweepKnown(IF overloaded THEN d ELSE AfterRequests(d))>>
    /\ requests' = IF overloaded \/ dropped THEN requests ELSE requests \cup SentRequests(d)

\* The head of the wire is handled by handleMsg.
Receive(kind) ==
    /\ handling = <<>>
    /\ wire # <<>>
    /\ Head(wire).kind = kind

(***************************************************************************)
(* A ProgressMsg: handleMsg reads the node's epoch first; it registers the *)
(* peer with that epoch later.                                             *)
(***************************************************************************)
ReadProgress ==
    /\ Receive("progress")
    /\ handling' = <<[myEpoch |-> epoch, progress |-> Head(wire)]>>
    /\ wire' = Tail(wire)
    /\ UNCHANGED <<server, node, peerEpoch, dwnlr, requests, dropped>>

\* RegisterPeer: a useless peer is unregistered, a registered one is kept.
RegisterPeer(pe, myEpoch) ==
    CASE pe < myEpoch -> <<>>
      [] pe >= myEpoch /\ dwnlr # <<>> -> dwnlr
      [] OTHER -> <<NewPeer(myEpoch)>>

HandleProgress ==
    /\ handling # <<>>
    /\ LET p == handling[1].progress
       IN  /\ peerEpoch' = p.epoch
           /\ dwnlr' = RegisterPeer(p.epoch, handling[1].myEpoch)
           /\ wire' = IF dwnlr' # <<>> /\ p.index > 0
                      THEN <<[kind |-> "infos", epoch |-> p.epoch, index |-> p.index,
                              heads |-> p.heads, num |-> 0]>> \o wire
                      ELSE wire
    /\ handling' = <<>>
    /\ UNCHANGED <<server, node, requests, dropped>>

\* What Notify* passes on to the downloader's loop.
Notified(m) == dwnlr # <<>> /\ dwnlr[1].epoch = m.epoch

(***************************************************************************)
(* NotifyPacksNum and NotifyPackInfo, taken by the downloader's loop.      *)
(***************************************************************************)
HandlePackInfo(overloaded) ==
    /\ Receive("infos")
    /\ LET m == Head(wire)
           d == dwnlr[1]
           counted == [d EXCEPT !.packsNum = Max({@, m.num, m.index})]
           put == [counted EXCEPT !.infos = (m.index :> m.heads) @@ @,
                                  !.fetchingInfo = @ \ {m.index}]
       IN  IF ~Notified(m)
           THEN UNCHANGED <<dwnlr, requests, dropped>> /\ overloaded = FALSE
           ELSE IF Cardinality(DOMAIN d.infos) > MaxPeerPacks
           THEN dwnlr' = <<>> /\ dropped' = TRUE /\ requests' = {} /\ overloaded = FALSE
           ELSE TryToSync(put, overloaded) /\ UNCHANGED dropped
    /\ wire' = IF dropped' THEN <<>> ELSE Tail(wire)
    /\ UNCHANGED <<server, node, peerEpoch, handling>>

\* NotifyPack; the fetcher asks for the interesting events of the pack.
HandlePack ==
    /\ Receive("pack")
    /\ LET m == Head(wire)
       IN  IF ~Notified(m)
           THEN UNCHANGED <<dwnlr, fetching>>
           ELSE /\ dwnlr' = [dwnlr EXCEPT ![1].packsNum = Max({@, m.index})]
                /\ fetching' = IF m.epoch = epoch THEN fetching \cup (m.ids \ connected) ELSE fetching
    /\ wire' = Tail(wire)
    /\ UNCHANGED <<server, epoch, connected, newEpochs, peerEpoch, handling, requests, dropped>>

\* The ticker of the loop.
Recheck(overloaded) ==
    /\ dwnlr # <<>>
    /\ UNCHANGED dropped
    /\ TryToSync(dwnlr[1], overloaded)
    /\ UNCHANGED <<server, node, peerEpoch, handling, wire>>

RequestsTimeout ==
    /\ dwnlr # <<>>
    /\ dwnlr[1].fetchingInfo \cup dwnlr[1].fetchingFull # {}
    /\ dwnlr' = [dwnlr EXCEPT ![1].fetchingInfo = {}, ![1].fetchingFull = {}]
    /\ UNCHANGED <<server, node, peerEpoch, handling, wire, requests, dropped>>

ForceSyncPeriod ==
    /\ dwnlr # <<>>
    /\ dwnlr[1].fetchingInfo \cup dwnlr[1].fetchingFull = {}
    /\ ~dwnlr[1].stalled
    /\ dwnlr' = [dwnlr EXCEPT ![1].stalled = TRUE]
    /\ UNCHANGED <<server, node, peerEpoch, handling, wire, requests, dropped>>

-----------------------------------------------------------------------------
(***************************************************************************)
(* The node connects an event that the peer has, whether it came through a *)
(* pack or by broadcast; the last event of an epoch seals it.              *)
(***************************************************************************)
Served(e) ==
    IF e < sEpoch THEN Range(Order[e])
    ELSE IF e = sEpoch THEN {Order[e][k] : k \in 1..sCount} ELSE {}

ConnectEvent(v) ==
    /\ v \in Served(epoch) \ connected
    /\ Parents[v] \subseteq connected
    /\ IF v = Order[epoch][Len(Order[epoch])] /\ epoch < LastEpoch
       THEN /\ epoch' = epoch + 1
            /\ connected' = {}
            /\ fetching' = {}
            /\ newEpochs' = Append(newEpochs, epoch + 1)
       ELSE /\ connected' = connected \cup {v}
            /\ fetching' = fetching \ {v}
            /\ UNCHANGED <<epoch, newEpochs>>
    /\ UNCHANGED <<server, peerEpoch, dwnlr, handling, wire, requests, dropped>>

\* The fetcher gives an event up.
LoseEvent(v) ==
    /\ v \in fetching
    /\ fetching' = fetching \ {v}
    /\ UNCHANGED <<server, epoch, connected, newEpochs, peerEpoch, dwnlr, handling, wire, requests, dropped>>

\* onNewEpochLoop calls OnNewEpoch of the downloader.
OnNewEpoch ==
    /\ newEpochs # <<>>
    /\ newEpochs' = Tail(newEpochs)
    /\ dwnlr' = IF dwnlr # <<>> /\ peerEpoch >= Head(newEpochs)
                THEN <<NewPeer(Head(newEpochs))>> ELSE <<>>
    /\ UNCHANGED <<server, epoch, connected, fetching, peerEpoch, handling, wire, requests, dropped>>

Init ==
    /\ sEpoch = 1 /\ sCount = 0
    /\ packs = [num |-> [e \in Epochs |-> 0], info |-> [e \in Epochs |-> <<>>],
                pack |-> [e \in Epochs |-> <<>>]]
    /\ newPacks = 0 /\ prevProgress = MyProgress(packs, 1)
    /\ epoch = 1 /\ connected = {} /\ fetching = {} /\ newEpochs = <<>>
    /\ peerEpoch = 1 /\ dwnlr = <<>> /\ handling = <<>>
    /\ wire = <<prevProgress>> /\ requests = {} /\ dropped = FALSE

Next ==
    \/ ServerConnect \/ ProgressBroadcast
    \/ \E r \in requests : ServePackInfos(r) \/ ServePack(r)
    \/ ReadProgress \/ HandleProgress \/ HandlePack
    \/ \E overloaded \in BOOLEAN : HandlePackInfo(overloaded) \/ Recheck(overloaded)
    \/ RequestsTimeout \/ ForceSyncPeriod
    \/ \E v \in PackEvent : ConnectEvent(v) \/ LoseEvent(v)
    \/ OnNewEpoch

Spec == Init /\ [][Next]_vars

-----------------------------------------------------------------------------
Pinned(e) == {i \in DOMAIN packs.info[e] : i < packs.num[e]}

Ancestors(evs) ==
    LET up[k \in 0..Cardinality(PackEvent)] ==
            IF k = 0 THEN evs ELSE up[k - 1] \cup UNION {Parents[v] : v \in up[k - 1]}
    IN  up[Cardinality(PackEvent)]

(***************************************************************************)
(* Whoever knows the heads of a pinned pack knows exactly the events of    *)
(* that pack and of the packs before it: binarySearchReq and sweepKnown    *)
(* rest on it ("because they will be known too").  It has to survive that  *)
(* the sealing event counts its pack under the next epoch.                 *)
(***************************************************************************)
HeadsCoverPacks ==
    \A e \in Epochs, i \in 1..Len(Order[1]) :
        i \in Pinned(e) =>
            Ancestors(packs.info[e][i].heads) =
                UNION {packs.pack[e][k] : k \in 1..i \cap DOMAIN packs.pack[e]}

(***************************************************************************)
(* binarySearchReq "finds lowest not known pack": a full pack is requested *)
(* only when all packs below are connected and it is not; otherwise the    *)
(* info requested is one that the node does not have, so the search moves. *)
(***************************************************************************)
SearchMoves ==
    dwnlr # <<>> /\ dwnlr[1].epoch = epoch =>
        LET r == BinarySearchReq(dwnlr[1])
        IN  /\ r.full => /\ r.index \in DOMAIN dwnlr[1].infos \ KnownPacks(dwnlr[1])
                         /\ \A i \in Pinned(epoch) :
                                i < r.index => packs.info[epoch][i].heads \subseteq connected
            /\ ~r.full /\ ~r.synced => r.index \notin DOMAIN dwnlr[1].infos
            /\ r.index >= 1
=============================================================================
