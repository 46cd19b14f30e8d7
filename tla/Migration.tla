------------------------------ MODULE Migration ------------------------------
(***************************************************************************)
(* The start of a node on the database of an older program: MakeEngine      *)
(* (integration/assembly.go), the chains of migrations of the stores        *)
(* (utils/migration, app/store_migration.go, gossip/store_migration.go),    *)
(* the genesis of the stores, and the flush that ends the start.            *)
(*                                                                         *)
(* The application's tables once were tables of gossip-main.  Program p     *)
(* has the first p steps of the application's chain, Last is this one;      *)
(* older and newer ones are external, known from what the steps expect.     *)
(* All databases are of one SyncedPool, so a flush is atomic (SyncedPool)   *)
(* and a crash leaves what the last one wrote.                              *)
(***************************************************************************)
EXTENDS Integers, Sequences, FiniteSets, TLC

CONSTANTS
    MaxEpochBlocks, MaxEpochDuration,
    Gaps,           \* Bound: times between two blocks
    MaxBlocks,      \* Bound
    MaxStops        \* Bound: orderly stops

VARIABLES
    disk, mem,      \* the databases, as flushed and as the program sees them
    program,        \* 0..Last: the application's steps of the running program, or Down
    service,        \* where its server pool keeps the known nodes, see Services
    panic

vars == <<disk, mem, program, service, panic>>

Last == 3
Down == -1
Programs == 0..Last

\* Among the pack infos, in a table of gossip-main, or in gossip-serv, with the step "service db".
Services == {"packs", "main", "serv"}

(***************************************************************************)
(* The databases: a table that a block rewrites is <<n>> after block n, or *)
(* <<>>; blocks are functions from their numbers to their times, packs, Z  *)
(* and serv from keys to values.  known and packed are auxiliary: which    *)
(* list of known nodes was saved last, and whether there is a pack info.   *)
(***************************************************************************)
NoBlocks == [n \in {} |-> 0]
Blank ==
    [gossip |-> [id |-> 0, tables |-> <<>>, blocks |-> NoBlocks, epochStart |-> 0,
                 packs |-> NoBlocks, Z |-> NoBlocks],
     serv   |-> NoBlocks,
     app    |-> [id |-> 0, tables |-> <<>>, genesis |-> FALSE, blocks |-> NoBlocks, voting |-> [block |-> 0, time |-> 0]],
     poset  |-> <<>>,
     known  |-> 0, packed |-> FALSE]

-----------------------------------------------------------------------------
(***************************************************************************)
(* utils/migration, and the chains of steps of the app's and of gossip's   *)
(* store: what step i makes of the databases.                              *)
(***************************************************************************)
veryFirst(id) == id = 0

Move(src, dst) == IF src = <<>> THEN dst ELSE src

\* Of a table with many keys those with a prefix, K.
Moved(src, dst, K) == [k \in K \cap DOMAIN src |-> src[k]] @@ dst
Left(src, K) == [k \in DOMAIN src \ K |-> src[k]]

-----------------------------------------------------------------------------
SealedAt(cp) == cp.lastBlock - cp.lastDecidedFrame

DedicatedAppDb(D) ==
    LET E == [D EXCEPT !.app.tables = Move(D.gossip.tables, @), !.gossip.tables = <<>>]
    IN  IF D.poset = <<>> \/ SealedAt(D.poset[1]) \notin DOMAIN D.gossip.blocks THEN E
        ELSE LET n == SealedAt(D.poset[1])
             IN  [E EXCEPT !.app.voting = [block |-> n, time |-> D.gossip.blocks[n]]]

\* Mutant: the step leaves the genesis to ApplyGenesis.
AppGenesisLeft(D) == D

AppGenesis(D) ==
    IF D.app.genesis \/ 0 \notin DOMAIN D.gossip.blocks THEN D ELSE [D EXCEPT !.app.genesis = TRUE]

OwnBlocks(D) == [D EXCEPT !.app.blocks = D.gossip.blocks @@ @]

appStep(i, D) ==
    [(CASE i = 1 -> DedicatedAppDb(D) [] i = 2 -> AppGenesis(D) [] i = 3 -> OwnBlocks(D)) EXCEPT !.app.id = i]

\* From the table of pack infos, then from the one that took its place.
ServiceDb(i, D) ==
    LET pool == {"serverPool"}
        all == DOMAIN D.gossip.Z
        once == [D EXCEPT !.serv = Moved(D.gossip.packs, @, pool), !.gossip.packs = Left(@, pool)]
    IN  [once EXCEPT !.serv = Moved(D.gossip.Z, @, all), !.gossip.Z = Left(@, all), !.gossip.id = i]

\* The first n steps of the chain of the store; <<>> is the error "unknown version".
Exec(D, store, n) ==
    LET id == D[store].id
        step(i, E) == IF store = "app" THEN appStep(i, E) ELSE ServiceDb(i, E)
        exec[m \in 0..n] ==
            IF m = 0 THEN IF veryFirst(id) THEN <<D>> ELSE <<>>
            ELSE IF id = m THEN <<D>>
            ELSE IF exec[m - 1] = <<>> THEN <<>>
            ELSE <<step(m, exec[m - 1][1])>>
    IN  exec[n]

-----------------------------------------------------------------------------
(***************************************************************************)
(* ApplyGenesis of the stores.  A program without the step "dedicated      *)
(* app-main database" keeps the tables in gossip-main; one without the     *)
(* step "app-main genesis" may not have written the key.                   *)
(***************************************************************************)
SetBlock(p, D, n, t) ==
    [D EXCEPT !.gossip.blocks = n :> t @@ @,
              !.app.blocks = IF p = Last THEN n :> t @@ @ ELSE @]

SetTables(p, D, n) ==
    IF p = 0 THEN [D EXCEPT !.gossip.tables = <<n>>] ELSE [D EXCEPT !.app.tables = <<n>>]

HasGenesis(p, D) == IF p < 2 THEN 0 \in DOMAIN D.gossip.blocks ELSE D.app.genesis

appApplyGenesis(p, D, key) ==
    IF HasGenesis(p, D) THEN D
    ELSE [SetTables(p, D, 0) EXCEPT
             !.app.blocks = IF p = Last THEN 0 :> 0 @@ @ ELSE @,
             !.app.voting = [block |-> 0, time |-> 0],
             !.app.genesis = p >= 2 \/ key]

gossipApplyGenesis(D) ==
    IF 0 \in DOMAIN D.gossip.blocks THEN D
    ELSE [D EXCEPT !.gossip.blocks = 0 :> 0 @@ @, !.gossip.epochStart = 0]

posetApplyGenesis(D) ==
    IF D.poset # <<>> THEN D ELSE [D EXCEPT !.poset = <<[lastBlock |-> 0, lastDecidedFrame |-> 0]>>]

(***************************************************************************)
(* MakeEngine: <<>> when a store refuses the database.                     *)
(***************************************************************************)
MakeEngine(p, g, D, key) ==
    LET a == Exec(D, "app", p)
    IN  IF a = <<>> THEN <<>>
        ELSE LET A == appApplyGenesis(p, a[1], key)
                 s == Exec(A, "gossip", IF g = "serv" THEN 1 ELSE 0)
             IN  IF s = <<>> THEN <<>> ELSE <<posetApplyGenesis(gossipApplyGenesis(s[1]))>>

\* A crash before the flush, and a refused database, change nothing.  The programs before
\* "service db" do not refuse each other's databases; they are used in their order.
Start(p, g) ==
    /\ program = Down /\ panic = FALSE
    /\ service = "main" => g # "packs"
    /\ \E key \in BOOLEAN :
         LET E == MakeEngine(p, g, disk, key)
         IN  /\ E # <<>>
             /\ mem' = E[1] /\ disk' = E[1]
    /\ program' = p /\ service' = g
    /\ UNCHANGED panic

-----------------------------------------------------------------------------
(***************************************************************************)
(* A running node                                                          *)
(***************************************************************************)
legacyShouldSealEpoch(D, frame, time) ==
    frame >= MaxEpochBlocks \/ time - D.gossip.epochStart >= MaxEpochDuration

shouldSealEpoch(D, n, time) ==
    n - D.app.voting.block >= MaxEpochBlocks \/ time - D.app.voting.time >= MaxEpochDuration

\* applyBlock, with the commit if flush.
ApplyBlock(gap, flush) ==
    /\ program # Down /\ panic = FALSE
    /\ LET cp == mem.poset[1]
           n == cp.lastBlock + 1
           time == mem.gossip.blocks[n - 1] + gap
           seal == legacyShouldSealEpoch(mem, cp.lastDecidedFrame + 1, time)
           D == SetTables(program, SetBlock(program, mem, n, time), n)
           E == [D EXCEPT !.poset = <<[lastBlock |-> n,
                                       lastDecidedFrame |-> IF seal THEN 0 ELSE cp.lastDecidedFrame + 1]>>,
                          !.gossip.epochStart = IF seal THEN time ELSE @,
                          !.app.voting = IF seal /\ program > 0 THEN [block |-> n, time |-> time] ELSE @]
       IN  /\ n <= MaxBlocks
           /\ panic' = (program > 0 /\ shouldSealEpoch(mem, n, time) # seal)
           /\ mem' = E
           /\ disk' = IF flush THEN E ELSE disk
    /\ UNCHANGED <<program, service>>

\* Store.SetPackInfo
SetPackInfo ==
    /\ program # Down /\ panic = FALSE
    /\ mem' = [mem EXCEPT !.gossip.packs = "pack" :> 0 @@ @, !.packed = TRUE]
    /\ UNCHANGED <<disk, program, service, panic>>

\* saveNodes writes the list of known nodes, a new one each time.
saveNodes(D) ==
    LET put(t) == "serverPool" :> (D.known + 1) @@ t
        E == [D EXCEPT !.known = @ + 1]
    IN  CASE service = "packs" -> [E EXCEPT !.gossip.packs = put(@)]
          [] service = "main" -> [E EXCEPT !.gossip.Z = put(@)]
          [] service = "serv" -> [E EXCEPT !.serv = put(@)]

\* Service.Stop: the server pool ends, then comes a last commit.
Stop ==
    /\ program # Down /\ panic = FALSE
    /\ mem.known < MaxStops
    /\ disk' = saveNodes(mem)
    /\ mem' = disk'
    /\ program' = Down
    /\ UNCHANGED <<service, panic>>

Crash ==
    /\ program # Down /\ panic = FALSE
    /\ mem' = disk
    /\ program' = Down
    /\ UNCHANGED <<disk, service, panic>>

\* A program with further steps has used the database.
Newer ==
    /\ program = Down
    /\ \/ disk.app.id = Last /\ disk' = [disk EXCEPT !.app.id = Last + 1]
       \/ disk.gossip.id = 1 /\ disk' = [disk EXCEPT !.gossip.id = 2]
    /\ mem' = disk'
    /\ UNCHANGED <<program, service, panic>>

Init ==
    /\ disk = Blank /\ mem = Blank
    /\ program = Down /\ service = "packs" /\ panic = FALSE

Next ==
    \/ \E p \in Programs, g \in Services : Start(p, g)
    \/ \E gap \in Gaps, flush \in BOOLEAN : ApplyBlock(gap, flush)
    \/ SetPackInfo
    \/ Stop
    \/ Crash
    \/ Newer

Spec == Init /\ [][Next]_vars

-----------------------------------------------------------------------------
(***************************************************************************)
(* A database is migrated completely, by whatever older programs it was    *)
(* made and whenever, within an epoch or at its border.                    *)
(*   - The application's rule for sealing, which starts from the last      *)
(*     voting that the step "dedicated app-main database" computed, agrees *)
(*     with that of gossip: applyBlock ends the process when they differ.  *)
(*   - A running node finds its tables as the last block left them, where  *)
(*     it looks for them and nowhere else: they are moved once, and the    *)
(*     genesis is never applied to a database that has blocks.             *)
(*   - This program's application has every block of the chain, those      *)
(*     decided before it kept blocks of its own included.                  *)
(*   - The service database holds the list of known nodes that was saved   *)
(*     last, whichever tables it was in before, and nothing else; of the   *)
(*     two tables only the pack infos are left, all of them.               *)
(***************************************************************************)
MigratedCompletely ==
    /\ ~panic
    /\ program # Down =>
          LET current == <<mem.poset[1].lastBlock>>
          IN  <<mem.gossip.tables, mem.app.tables>> =
                  IF program = 0 THEN <<current, <<>> >> ELSE << <<>>, current>>
    /\ program = Last => mem.app.blocks = mem.gossip.blocks
    /\ program # Down /\ service = "serv" =>
          /\ mem.serv = (IF mem.known = 0 THEN NoBlocks ELSE "serverPool" :> mem.known)
          /\ DOMAIN mem.gossip.packs = (IF mem.packed THEN {"pack"} ELSE {})
          /\ mem.gossip.Z = NoBlocks
=============================================================================
