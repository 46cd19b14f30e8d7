------------------------------ MODULE MCIntake ------------------------------
(***************************************************************************)
(* How events come in, small instances of which one is picked at the       *)
(* start:                                                                  *)
(*   fetcher  two peers announce a parent and its child to the fetcher;    *)
(*   search   a peer has all the events of a long epoch, in packs;         *)
(*   epochs   a peer and a node go through two epochs together.            *)
(***************************************************************************)
EXTENDS Fetcher, TLC

VARIABLES
    scenario,
    sEpoch, sCount, packs, newPacks, prevProgress, epoch, connected, fetchingEvents,
    newEpochs, peerEpoch, dwnlr, handling, wire, requests, dropped

packVars == <<sEpoch, sCount, packs, newPacks, prevProgress, epoch, connected, fetchingEvents,
              newEpochs, peerEpoch, dwnlr, handling, wire, requests, dropped>>

\* "b" is a child of "a".
MCParents == [e \in Event |-> IF e = "b" THEN {"a"} ELSE {}]

MCSingles == {<<e>> : e \in Event}

Symmetry == Permutations(Peer)

\* Bound: one message is on its way to the fetcher's loop at a time.
OneMessage ==
    Len(notify) + Len(tasks) + Len(inject) + Len(loop)
      + MapThenSumSet(LAMBDA p : Len(handler[p]), Peer) <= 1

One == INSTANCE PackSync WITH
    fetching <- fetchingEvents, MaxPackEventsNum <- 1, MaxFetchingFullPacks <- 2, MaxPeerPacks <- 3,
    Order <- << <<1, 2, 3, 4>> >>,
    Parents <- (1 :> {}) @@ (2 :> {1}) @@ (3 :> {1}) @@ (4 :> {2, 3})

Two == INSTANCE PackSync WITH
    fetching <- fetchingEvents, MaxPackEventsNum <- 2, MaxFetchingFullPacks <- 2, MaxPeerPacks <- 3,
    Order <- << <<1, 2, 3>>, <<4>> >>,
    Parents <- (1 :> {}) @@ (2 :> {1}) @@ (3 :> {1, 2}) @@ (4 :> {})

\* A timeout of the downloader comes when all that was requested has arrived.
Quiet == requests = {} /\ wire = <<>>

ServerReady == sCount = 4 /\ newPacks = 0

Search ==
    \/ ~ServerReady /\ (One!ServerConnect \/ One!ProgressBroadcast)
    \/ ServerReady /\
          (\/ \E r \in requests : One!ServePackInfos(r) \/ One!ServePack(r)
           \/ One!ReadProgress \/ One!HandleProgress \/ One!HandlePack
           \/ \E overloaded \in BOOLEAN : One!HandlePackInfo(overloaded) \/ One!Recheck(overloaded)
           \/ Quiet /\ (One!RequestsTimeout \/ One!ForceSyncPeriod)
           \/ \E v \in fetchingEvents : One!ConnectEvent(v) \/ One!LoseEvent(v))

TwoEpochs ==
    \/ Two!ServerConnect \/ Two!ProgressBroadcast
    \/ \E r \in requests : Two!ServePackInfos(r) \/ Two!ServePack(r)
    \/ Two!ReadProgress \/ Two!HandleProgress \/ Two!HandlePack \/ Two!HandlePackInfo(FALSE)
    \/ Quiet /\ (Two!Recheck(FALSE) \/ Two!RequestsTimeout \/ Two!ForceSyncPeriod)
    \/ \E v \in Two!PackEvent : Two!ConnectEvent(v)
    \/ Two!OnNewEpoch

MCInit ==
    /\ scenario \in {"fetcher", "search", "epochs"}
    /\ Init
    /\ IF scenario = "epochs" THEN Two!Init ELSE One!Init

\* The peer was dropped, or all that happens has happened.
Settled ==
    /\ dropped \/ (epoch = sEpoch /\ Quiet /\ newPacks = 0)
    /\ UNCHANGED <<vars, packVars>>

MCNext ==
    /\ \/ scenario = "fetcher" /\ Next /\ UNCHANGED packVars
       \/ scenario = "search" /\ Search /\ UNCHANGED vars
       \/ scenario = "epochs" /\ TwoEpochs /\ UNCHANGED vars
       \/ scenario # "fetcher" /\ Settled
    /\ UNCHANGED scenario

MCSpec == MCInit /\ [][MCNext]_<<vars, packVars, scenario>>

-----------------------------------------------------------------------------
(***************************************************************************)
(* Whoever knows the heads of a pinned pack knows exactly the events of    *)
(* that pack and of the packs before it, so that binarySearchReq requests  *)
(* a full pack only when all packs below it are connected, and otherwise   *)
(* an info that the node does not have (HeadsCoverPacks and SearchMoves of *)
(* PackSync).                                                              *)
(***************************************************************************)
SearchAdvances ==
    IF scenario = "epochs" THEN Two!HeadsCoverPacks /\ Two!SearchMoves
    ELSE One!HeadsCoverPacks /\ One!SearchMoves
=============================================================================
