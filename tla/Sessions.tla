------------------------------ MODULE Sessions ------------------------------
(***************************************************************************)
(* The sessions of the protocol manager with its peers and its shutdown:   *)
(* gossip/handler.go (makeProtocol, handle, removePeer, Start, Stop),      *)
(* gossip/peer.go (peerSet), gossip/sync.go (txsyncLoop, syncer) and       *)
(* gossip/service.go (Stop).  A session is one connection; the p2p server  *)
(* keeps one connection per peer.  Of the messages only the progress is    *)
(* modelled, the one that registers the peer with the packs downloader.    *)
(***************************************************************************)
EXTENDS Integers, Sequences, FiniteSets, Functions, TLC

CONSTANTS
    Session,        \* connections
    IdOf,           \* session -> peer id
    Trusted,        \* ids of trusted peers
    MaxPeers,
    Txs,            \* the pending transactions of the pool, a sequence
    PackLen         \* transactions that fill a pack of the txsyncLoop

VARIABLES
    pc,             \* session -> where its protocol handler is
    up,             \* sessions whose connection is up
    peers, closed,  \* the peerSet: id -> session
    terms,          \* session -> times its term channel was closed
    downloader,     \* the packs downloader: id -> session
    remover,        \* a removePeer called from another goroutine, <<>> or <<[id, step]>>
    wg,             \* pm.wg
    service,        \* how far Service.Stop is
    syncer,         \* the syncer goroutine
    pending,        \* txsyncLoop: id -> [session, txs]
    pack,           \* the pack being sent, <<>> or <<[session, txs]>>
    sent,           \* session -> transactions sent by the loop
    given           \* session -> transactions given to the loop

sessions == <<pc, up, peers, closed, terms, downloader, remover, wg>>
stopping == <<service, syncer>>
txsync == <<pending, pack, sent, given>>
vars == <<sessions, stopping, txsync>>

Ids == {IdOf[s] : s \in Session}
Running == {"run", "accepted", "handle", "handshake", "register", "syncTxs", "loop", "progress",
            "remove", "unregister", "delete", "disconnect"}

quitSync == service \in {"quitSync", "closed", "waited", "committed"}
terminated == syncer = "ended"

Go(s, from, to) == pc[s] = from /\ pc' = [pc EXCEPT ![s] = to]

-----------------------------------------------------------------------------
(***************************************************************************)
(* makeProtocol.Run.                                                       *)
(***************************************************************************)
Connect(s) ==
    /\ Go(s, "idle", "run")
    /\ \A t \in Session : IdOf[t] = IdOf[s] => pc[t] \notin Running
    /\ service # "committed"
    /\ up' = up \cup {s}
    /\ UNCHANGED <<peers, closed, terms, downloader, remover, wg, stopping, txsync>>

\* The send to newPeerCh is received by the syncer; wg.Add comes after it.
NewPeer(s) ==
    /\ Go(s, "run", "accepted")
    /\ syncer = "running"
    /\ UNCHANGED <<up, peers, closed, terms, downloader, remover, wg, stopping, txsync>>

RunQuits(s) ==
    /\ Go(s, "run", "done")
    /\ quitSync
    /\ up' = up \ {s}
    /\ UNCHANGED <<peers, closed, terms, downloader, remover, wg, stopping, txsync>>

WgAdd(s) ==
    /\ Go(s, "accepted", "handle")
    /\ wg' = wg + 1
    /\ UNCHANGED <<up, peers, closed, terms, downloader, remover, stopping, txsync>>

(***************************************************************************)
(* handle.                                                                 *)
(***************************************************************************)
Handle(s) ==
    /\ IF Cardinality(DOMAIN peers) >= MaxPeers /\ IdOf[s] \notin Trusted
       THEN Go(s, "handle", "disconnect") ELSE Go(s, "handle", "handshake")
    /\ UNCHANGED <<up, peers, closed, terms, downloader, remover, wg, stopping, txsync>>

Handshake(s) ==
    /\ Go(s, "handshake", "disconnect") \/ (s \in up /\ Go(s, "handshake", "register"))
    /\ UNCHANGED <<up, peers, closed, terms, downloader, remover, wg, stopping, txsync>>

Register(s) ==
    /\ IF closed \/ IdOf[s] \in DOMAIN peers
       THEN Go(s, "register", "disconnect") /\ UNCHANGED peers
       ELSE Go(s, "register", "syncTxs") /\ peers' = (IdOf[s] :> s) @@ peers
    /\ UNCHANGED <<up, closed, terms, downloader, remover, wg, stopping, txsync>>

\* The first pack of a peer is sent at once; the rest stays pending.
Send(p) ==
    LET n == IF Len(p.txs) < PackLen THEN Len(p.txs) ELSE PackLen
        rest == SubSeq(p.txs, n + 1, Len(p.txs))
        id == IdOf[p.session]
    IN  /\ pack' = <<[session |-> p.session, txs |-> SubSeq(p.txs, 1, n)]>>
        /\ sent' = [sent EXCEPT ![p.session] = @ \o SubSeq(p.txs, 1, n)]
        /\ pending' = IF rest = <<>> THEN Restrict(pending, DOMAIN pending \ {id})
                      ELSE (id :> [p EXCEPT !.txs = rest]) @@ pending

\* syncTransactions: with nothing pending in the pool nothing is synced.
SyncTransactions(s) ==
    /\ Go(s, "syncTxs", "loop")
    /\ \/ UNCHANGED txsync
       \/ LET p == [session |-> s, txs |-> Txs]
          IN  /\ service \notin {"closed", "waited", "committed"}
              /\ given' = [given EXCEPT ![s] = Txs]
              /\ IF pack = <<>> THEN Send(p)
                 ELSE pending' = (IdOf[s] :> p) @@ pending /\ UNCHANGED <<pack, sent>>
    /\ UNCHANGED <<up, peers, closed, terms, downloader, remover, wg, stopping>>

ReadMsg(s) ==
    /\ \/ s \in up /\ Go(s, "loop", "progress")
       \/ s \notin up /\ Go(s, "loop", "remove")
    /\ UNCHANGED <<up, peers, closed, terms, downloader, remover, wg, stopping, txsync>>

\* RegisterPeer of the downloader, for a peer that is useful and one that is not.
HandleProgress(s) ==
    /\ Go(s, "progress", "loop")
    /\ downloader' \in {Restrict(downloader, DOMAIN downloader \ {IdOf[s]}),
                        IF terminated THEN downloader ELSE downloader @@ (IdOf[s] :> s)}
    /\ UNCHANGED <<up, peers, closed, terms, remover, wg, stopping, txsync>>

-----------------------------------------------------------------------------
(***************************************************************************)
(* removePeer, called by handle when it returns and by the fetcher, the    *)
(* buffer and the downloader when they drop a peer.                        *)
(***************************************************************************)
\* Mutant: the term channel is closed before it is known that the peer is there.
UnregisterBlind(id) ==
    /\ terms' = [s \in Session |-> IF IdOf[s] = id THEN terms[s] + 1 ELSE terms[s]]
    /\ peers' = Restrict(peers, DOMAIN peers \ {id})

\* peers.Unregister.
Unregister(id) ==
    IF id \in DOMAIN peers
    THEN /\ terms' = [terms EXCEPT ![peers[id]] = @ + 1]
         /\ peers' = Restrict(peers, DOMAIN peers \ {id})
    ELSE UNCHANGED <<terms, peers>>

RemoveLookup(s) ==
    /\ IF IdOf[s] \in DOMAIN peers THEN Go(s, "remove", "unregister")
       ELSE Go(s, "remove", "disconnect")
    /\ UNCHANGED <<up, peers, closed, terms, downloader, remover, wg, stopping, txsync>>

RemoveUnregister(s) ==
    /\ Go(s, "unregister", "delete")
    /\ downloader' = Restrict(downloader, DOMAIN downloader \ {IdOf[s]})
    /\ UNCHANGED <<up, peers, closed, terms, remover, wg, stopping, txsync>>

RemoveDelete(s) ==
    /\ Go(s, "delete", "disconnect")
    /\ Unregister(IdOf[s])
    /\ up' = up \ {s}
    /\ UNCHANGED <<closed, downloader, remover, wg, stopping, txsync>>

Disconnect(s) ==
    /\ Go(s, "disconnect", "done")
    /\ up' = up \ {s}
    /\ wg' = wg - 1
    /\ UNCHANGED <<peers, closed, terms, downloader, remover, stopping, txsync>>

DropPeer(id) ==
    /\ remover = <<>>
    /\ id \in DOMAIN peers
    /\ remover' = <<[id |-> id, session |-> peers[id], step |-> "unregister"]>>
    /\ UNCHANGED <<pc, up, peers, closed, terms, downloader, wg, stopping, txsync>>

DropUnregister ==
    /\ remover # <<>> /\ remover[1].step = "unregister"
    /\ downloader' = Restrict(downloader, DOMAIN downloader \ {remover[1].id})
    /\ remover' = [remover EXCEPT ![1].step = "delete"]
    /\ UNCHANGED <<pc, up, peers, closed, terms, wg, stopping, txsync>>

DropDelete ==
    /\ remover # <<>> /\ remover[1].step = "delete"
    /\ Unregister(remover[1].id)
    /\ up' = up \ {remover[1].session}
    /\ remover' = <<>>
    /\ UNCHANGED <<pc, closed, downloader, wg, stopping, txsync>>

\* The other side ends the connection.
ConnectionLost(s) ==
    /\ s \in up
    /\ up' = up \ {s}
    /\ UNCHANGED <<pc, peers, closed, terms, downloader, remover, wg, stopping, txsync>>

-----------------------------------------------------------------------------
\* txsyncLoop: the result of the last send.
SendDone(failed) ==
    /\ pack # <<>>
    /\ failed => pack[1].session \notin up
    /\ LET left == IF failed THEN Restrict(pending, DOMAIN pending \ {IdOf[pack[1].session]})
                   ELSE pending
       IN  IF left = <<>> THEN pack' = <<>> /\ pending' = left /\ UNCHANGED sent
           ELSE \E id \in DOMAIN left :
                   LET p == left[id]
                       n == IF Len(p.txs) < PackLen THEN Len(p.txs) ELSE PackLen
                   IN  /\ pack' = <<[session |-> p.session, txs |-> SubSeq(p.txs, 1, n)]>>
                       /\ sent' = [sent EXCEPT ![p.session] = @ \o SubSeq(p.txs, 1, n)]
                       /\ pending' = IF n = Len(p.txs) THEN Restrict(left, DOMAIN left \ {id})
                                     ELSE [left EXCEPT ![id].txs = SubSeq(@, n + 1, Len(@))]
    /\ UNCHANGED <<sessions, stopping, given>>

-----------------------------------------------------------------------------
(***************************************************************************)
(* Service.Stop and ProtocolManager.Stop.                                  *)
(***************************************************************************)
NoMorePeers ==
    /\ service = "running" /\ syncer = "running"
    /\ service' = "noMorePeers" /\ syncer' = "leaving"
    /\ UNCHANGED <<sessions, txsync>>

\* The deferred calls of the syncer.
SyncerEnds ==
    /\ syncer = "leaving" /\ syncer' = "ended"
    /\ downloader' = <<>>
    /\ UNCHANGED <<pc, up, peers, closed, terms, remover, wg, service, txsync>>

QuitSync ==
    /\ service = "noMorePeers" /\ service' = "quitSync"
    /\ UNCHANGED <<sessions, syncer, txsync>>

PeersClose ==
    /\ service = "quitSync" /\ service' = "closed"
    /\ closed' = TRUE
    /\ up' = up \ Range(peers)
    /\ UNCHANGED <<pc, peers, terms, downloader, remover, wg, syncer, txsync>>

WgWait ==
    /\ service = "closed" /\ wg = 0 /\ service' = "waited"
    /\ UNCHANGED <<sessions, syncer, txsync>>

Commit ==
    /\ service = "waited" /\ service' = "committed"
    /\ UNCHANGED <<sessions, syncer, txsync>>

Init ==
    /\ pc = [s \in Session |-> "idle"] /\ up = {} /\ peers = <<>> /\ closed = FALSE
    /\ terms = [s \in Session |-> 0] /\ downloader = <<>> /\ remover = <<>> /\ wg = 0
    /\ service = "running" /\ syncer = "running"
    /\ pending = <<>> /\ pack = <<>>
    /\ sent = [s \in Session |-> <<>>] /\ given = [s \in Session |-> <<>>]

Next ==
    \/ \E s \in Session :
          \/ Connect(s) \/ NewPeer(s) \/ RunQuits(s) \/ WgAdd(s) \/ Handle(s) \/ Handshake(s)
          \/ Register(s) \/ SyncTransactions(s) \/ ReadMsg(s) \/ HandleProgress(s)
          \/ RemoveLookup(s) \/ RemoveUnregister(s) \/ RemoveDelete(s) \/ Disconnect(s)
          \/ ConnectionLost(s)
    \/ \E id \in Ids : DropPeer(id)
    \/ DropUnregister \/ DropDelete
    \/ \E failed \in BOOLEAN : SendDone(failed)
    \/ NoMorePeers \/ SyncerEnds \/ QuitSync \/ PeersClose \/ WgWait \/ Commit

Spec == Init /\ [][Next]_vars

-----------------------------------------------------------------------------
(***************************************************************************)
(* However a session ends, by an error, by a drop from another goroutine   *)
(* or by both at once, its handler leaves the peer set without it, so no   *)
(* broadcast and no slot is lost to it, and its broadcaster is told to     *)
(* stop exactly once: close(p.term) panics when it is called twice.        *)
(***************************************************************************)
SessionsEnd ==
    \A s \in Session :
        /\ pc[s] \in {"disconnect", "done"} => s \notin Range(peers)
        /\ terms[s] <= 1
        /\ given[s] # <<>> /\ pc[s] = "done" => terms[s] = 1

=============================================================================
