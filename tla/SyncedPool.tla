----------------------------- MODULE SyncedPool -----------------------------
(***************************************************************************)
(* kvdb/flushable: the databases of a node.  Writes stay in memory         *)
(* (Flushable.modified) until SyncedPool.Flush writes all databases of the *)
(* pool, one after the other; a flag in each tells a restart whether they  *)
(* were left in the middle.  Databases are opened at their first flush     *)
(* (LazyFlushable), and dropped at the first flush after Drop.             *)
(*                                                                         *)
(* The users write and flush under one lock (gossip's engineMu), so the    *)
(* steps of a flush interleave with crashes but not with writes.           *)
(***************************************************************************)
EXTENDS Naturals

CONSTANTS
    Db,          \* names of databases
    Temporary,   \* those that are dropped: the databases of an epoch
    Key,         \* keys, in the order of the tree
    Value,
    NoValue,     \* a key that is not there, or nil in the tree of changes
    MaxFlushes,  \* bound: flushes that start
    MaxCrashes   \* bound: crashes

ASSUME SyncedPoolAssumption ==
    /\ Temporary \subseteq Db
    /\ Key \subseteq Nat
    /\ NoValue \notin Value
    /\ MaxFlushes \in Nat
    /\ MaxCrashes \in Nat

VARIABLES
    disk,         \* existing database -> its flag and data
    wrappers,     \* database of the pool -> its wrapper
    queuedDrops,  \* SyncedPool.queuedDrops
    pc,           \* "run", the loop of flush, "down" or "refused"
    todo,         \* the databases that the loop has still to visit
    flushID,      \* the ID of the last flush; 0 for none
    crashes,      \* how many crashes happened
    saved,        \* history: what the last finished flush wrote, less drops
    lost          \* history: the databases that an unfinished flush dropped

vars == <<disk, wrappers, queuedDrops, pc, todo, flushID, crashes, saved, lost>>

Content == [Key -> Value \cup {NoValue}]

Empty == [k \in Key |-> NoValue]

\* The value under "flag": nothing, an ID, or a dirty mark.
NoFlag == [dirty |-> FALSE, id |-> 0]

Clean(i) == [dirty |-> FALSE, id |-> i]

Dirty(i) == [dirty |-> TRUE, id |-> i]

Modified == UNION {[K -> Value \cup {NoValue}] : K \in SUBSET Key}

\* NewLazy: nothing is changed, the database is not open.
NewLazy == [modified |-> [k \in {} |-> NoValue], open |-> FALSE, closed |-> FALSE]

\* f with f[x] = y added or replaced.
Set(f, x, y) == [z \in DOMAIN f \cup {x} |-> IF z = x THEN y ELSE f[z]]

Without(f, x) == [z \in DOMAIN f \ {x} |-> f[z]]

\* Flushable.Get: the change, else what the underlying database holds.  A
\* database that is not open yet reads as empty (devnulldb).
Get(d, k) ==
    IF k \in DOMAIN wrappers[d].modified THEN wrappers[d].modified[k]
    ELSE IF wrappers[d].open THEN disk[d].data[k] ELSE NoValue

\* What a user of the pool reads in database d.
View(d) ==
    IF d \in DOMAIN wrappers /\ ~wrappers[d].closed
    THEN [k \in Key |-> Get(d, k)] ELSE Empty

-----------------------------------------------------------------------------
\* Mutant: a database is opened when it is asked for.
GetDbOpened(d) ==
    /\ pc = "run"
    /\ d \notin DOMAIN wrappers
    /\ wrappers' = Set(wrappers, d, [NewLazy EXCEPT !.open = TRUE])
    /\ disk' = Set(disk, d, [flag |-> NoFlag, data |-> Empty])
    /\ UNCHANGED <<queuedDrops, pc, todo, flushID, crashes, saved, lost>>

\* The users.  A name is not asked for again while it waits to be dropped.
GetDb(d) ==
    /\ pc = "run"
    /\ d \notin DOMAIN wrappers
    /\ wrappers' = Set(wrappers, d, NewLazy)
    /\ UNCHANGED <<disk, queuedDrops, pc, todo, flushID, crashes, saved, lost>>

\* Flushable.Put, and with NoValue Flushable.Delete.
Put(d, k, v) ==
    /\ pc = "run"
    /\ d \in DOMAIN wrappers
    /\ ~wrappers[d].closed
    /\ wrappers' = [wrappers EXCEPT ![d].modified = Set(@, k, v)]
    /\ UNCHANGED <<disk, queuedDrops, pc, todo, flushID, crashes, saved, lost>>

\* Flushable.Close and Flushable.Drop.
CloseAndDrop(d) ==
    /\ pc = "run"
    /\ d \in DOMAIN wrappers
    /\ ~wrappers[d].closed
    /\ wrappers' = [wrappers EXCEPT ![d].modified = [k \in {} |-> NoValue],
                                    ![d].closed = TRUE]
    /\ queuedDrops' = queuedDrops \cup {d}
    /\ UNCHANGED <<disk, pc, todo, flushID, crashes, saved, lost>>

-----------------------------------------------------------------------------
\* SyncedPool.flush: four loops over the databases, in any order.
Flush ==
    /\ pc = "run"
    /\ flushID < MaxFlushes
    /\ flushID' = flushID + 1
    /\ pc' = "drop"
    /\ todo' = queuedDrops
    /\ UNCHANGED <<disk, wrappers, queuedDrops, crashes, saved, lost>>

DropOldDb(d) ==
    /\ pc = "drop"
    /\ d \in todo
    /\ todo' = todo \ {d}
    /\ wrappers' = Without(wrappers, d)
    /\ disk' = IF wrappers[d].open THEN Without(disk, d) ELSE disk
    /\ saved' = [saved EXCEPT ![d] = Empty]
    /\ lost' = IF wrappers[d].open /\ saved[d] # Empty THEN lost \cup {d} ELSE lost
    /\ UNCHANGED <<queuedDrops, pc, flushID, crashes>>

\* LazyFlushable.InitUnderlyingDb creates the database if it does not exist.
InitUnderlyingDb(d) ==
    /\ pc = "dirty"
    /\ d \in todo
    /\ ~wrappers[d].open
    /\ wrappers' = [wrappers EXCEPT ![d].open = TRUE]
    /\ disk' = IF d \in DOMAIN disk THEN disk
               ELSE Set(disk, d, [flag |-> NoFlag, data |-> Empty])
    /\ UNCHANGED <<queuedDrops, pc, todo, flushID, crashes, saved, lost>>

WriteDirtyFlag(d) ==
    /\ pc = "dirty"
    /\ d \in todo
    /\ wrappers[d].open
    /\ disk' = [disk EXCEPT ![d].flag = Dirty(flushID)]
    /\ todo' = todo \ {d}
    /\ UNCHANGED <<wrappers, queuedDrops, pc, flushID, crashes, saved, lost>>

\* Flushable.flush: the changes are written in key order, in batches.  The
\* keys up to m are written when a batch has reached its size.
Written(d, K) ==
    [k \in Key |-> IF k \in K THEN wrappers[d].modified[k] ELSE disk[d].data[k]]

WriteBatch(d, m) ==
    /\ pc = "data"
    /\ d \in todo
    /\ disk' = [disk EXCEPT ![d].data =
                   Written(d, {k \in DOMAIN wrappers[d].modified : k <= m})]
    /\ UNCHANGED <<wrappers, queuedDrops, pc, todo, flushID, crashes, saved, lost>>

WriteLastBatch(d) ==
    /\ pc = "data"
    /\ d \in todo
    /\ disk' = [disk EXCEPT ![d].data = Written(d, DOMAIN wrappers[d].modified)]
    /\ wrappers' = [wrappers EXCEPT ![d].modified = [k \in {} |-> NoValue]]
    /\ todo' = todo \ {d}
    /\ UNCHANGED <<queuedDrops, pc, flushID, crashes, saved, lost>>

\* The flush takes effect with the last clean flag.
WriteCleanFlag(d) ==
    /\ pc = "clean"
    /\ d \in todo
    /\ disk' = [disk EXCEPT ![d].flag = Clean(flushID)]
    /\ todo' = todo \ {d}
    /\ saved' = IF todo = {d} THEN [e \in Db |-> View(e)] ELSE saved
    /\ lost' = IF todo = {d} THEN {} ELSE lost
    /\ UNCHANGED <<wrappers, queuedDrops, pc, flushID, crashes>>

\* The end of a loop.
NextLoop ==
    /\ todo = {}
    /\ \/ /\ pc = "drop" /\ pc' = "dirty"
          /\ queuedDrops' = {}
          /\ todo' = DOMAIN wrappers
       \/ /\ pc = "dirty" /\ pc' = "data"
          /\ todo' = DOMAIN wrappers
          /\ UNCHANGED queuedDrops
       \/ /\ pc = "data" /\ pc' = "clean"
          /\ todo' = DOMAIN wrappers
          /\ UNCHANGED queuedDrops
       \/ /\ pc = "clean" /\ pc' = "run"
          /\ UNCHANGED <<todo, queuedDrops>>
    /\ UNCHANGED <<disk, wrappers, flushID, crashes, saved, lost>>

-----------------------------------------------------------------------------
\* The memory is lost, what was written to the databases is kept.
Crash ==
    /\ pc \notin {"down", "refused"}
    /\ crashes < MaxCrashes
    /\ crashes' = crashes + 1
    /\ pc' = "down"
    /\ wrappers' = [d \in {} |-> NewLazy]
    /\ queuedDrops' = {}
    /\ todo' = {}
    /\ UNCHANGED <<disk, flushID, saved, lost>>

\* Mutant: the flags are compared, dirty or not.
DbsAlike == \A d, e \in DOMAIN disk : disk[d].flag = disk[e].flag

\* checkDbsSynced: no dirty mark, and the same flag everywhere.
DbsSynced ==
    \A d, e \in DOMAIN disk : ~disk[d].flag.dirty /\ disk[d].flag = disk[e].flag

\* NewSyncedPool opens what exists.
NewSyncedPool ==
    /\ pc = "down"
    /\ DbsSynced
    /\ pc' = "run"
    /\ wrappers' = [d \in DOMAIN disk |-> [NewLazy EXCEPT !.open = TRUE]]
    /\ lost' = {}
    /\ UNCHANGED <<disk, queuedDrops, todo, flushID, crashes, saved>>

\* "Databases are corrupted": log.Crit ends the process.
Refuse ==
    /\ pc = "down"
    /\ ~DbsSynced
    /\ pc' = "refused"
    /\ UNCHANGED <<disk, wrappers, queuedDrops, todo, flushID, crashes, saved, lost>>

Init ==
    /\ disk = [d \in {} |-> [flag |-> NoFlag, data |-> Empty]]
    /\ wrappers = [d \in {} |-> NewLazy]
    /\ queuedDrops = {}
    /\ pc = "run"
    /\ todo = {}
    /\ flushID = 0
    /\ crashes = 0
    /\ saved = [d \in Db |-> Empty]
    /\ lost = {}

Next ==
    \/ \E d \in Db : GetDb(d)
    \/ \E d \in Db, k \in Key, v \in Value \cup {NoValue} : Put(d, k, v)
    \/ \E d \in Temporary : CloseAndDrop(d)
    \/ Flush
    \/ \E d \in Db : DropOldDb(d)
    \/ \E d \in Db : InitUnderlyingDb(d)
    \/ \E d \in Db : WriteDirtyFlag(d)
    \/ \E d \in Db, m \in Key : WriteBatch(d, m)
    \/ \E d \in Db : WriteLastBatch(d)
    \/ \E d \in Db : WriteCleanFlag(d)
    \/ NextLoop
    \/ Crash
    \/ NewSyncedPool
    \/ Refuse

Spec == Init /\ [][Next]_vars

-----------------------------------------------------------------------------
TypeOK ==
    /\ DOMAIN disk \subseteq Db /\ DOMAIN wrappers \subseteq Db
    /\ \A d \in DOMAIN disk : disk[d] \in [flag : [dirty : BOOLEAN, id : 0..MaxFlushes],
                                         data : Content]
    /\ \A d \in DOMAIN wrappers : wrappers[d] \in
          [modified : Modified, open : BOOLEAN, closed : BOOLEAN]
    /\ \A d \in DOMAIN wrappers : wrappers[d].open => d \in DOMAIN disk
    /\ queuedDrops \subseteq Db
    /\ todo \subseteq DOMAIN wrappers
    /\ pc \in {"run", "drop", "dirty", "data", "clean", "down", "refused"}
    /\ flushID \in 0..MaxFlushes
    /\ crashes \in 0..MaxCrashes
    /\ saved \in [Db -> Content]
    /\ lost \subseteq Db

up == pc \notin {"down", "refused"}

\* The databases that no flush has marked yet.
Unmarked == {d \in DOMAIN disk : disk[d].flag = NoFlag}

(***************************************************************************)
(* When a crash leaves databases that checkDbsSynced accepts: between      *)
(* flushes and while old databases are dropped; in the loop that writes    *)
(* the dirty marks as long as it has neither written one nor made a new    *)
(* database beside those of earlier flushes, which have an ID; and after   *)
(* the last clean mark.  At any other point of a flush the next start is   *)
(* refused, in the write loop even if nothing was to be written, unless    *)
(* the pool has no database at all.                                        *)
(***************************************************************************)
CrashSafe ==
    up => (DbsSynced <=> \/ pc \in {"run", "drop"}
                         \/ /\ pc = "dirty" /\ todo = DOMAIN wrappers
                            /\ Unmarked \in {{}, DOMAIN disk}
                         \/ pc = "data" /\ DOMAIN wrappers = {}
                         \/ pc = "clean" /\ todo = {})

mem == [d \in Db |-> View(d)]

Store == INSTANCE AtomicStore

(***************************************************************************)
(* The pool is an atomic store: whenever NewSyncedPool accepts what it     *)
(* finds, all databases hold what the same flush wrote, whatever loop and  *)
(* batch a crash interrupted, and the users read what they wrote.  Only a  *)
(* database that was to be dropped may be missing.                         *)
(***************************************************************************)
StoreSpec == Store!Spec

(***************************************************************************)
(* checkDbsSynced finds the databases that a crash left corrupted          *)
(* (synced_pool.go): when it accepts, what was flushed is all there.       *)
(***************************************************************************)
NothingLost == (pc = "down" /\ DbsSynced) => lost = {}
=============================================================================
