-------------------------- MODULE SyncedPoolProofs --------------------------
(***************************************************************************)
(* SyncedPool implements AtomicStore, for any number of databases, keys,   *)
(* flushes and crashes.  The invariant says what the flags of the          *)
(* databases mean in each loop of flush, and from it that whatever         *)
(* checkDbsSynced accepts is what the last flush saved.                    *)
(***************************************************************************)
EXTENDS SyncedPool, TLAPS

\* The time that the prover has for a leaf.
USE SMTT(30)

\* What the databases hold, those that do not exist being empty.
Contents == [d \in Db |-> IF d \in DOMAIN disk THEN disk[d].data ELSE Empty]

Recoverable == DbsSynced => saved = Contents

\* While the process runs, the pool has opened all that exists.
AllOpen ==
    /\ \A d \in DOMAIN wrappers : wrappers[d].open => d \in DOMAIN disk
    /\ up => \A d \in DOMAIN disk : d \in DOMAIN wrappers /\ wrappers[d].open

\* The closed wrappers are those that wait to be dropped.
ClosedDropped ==
    /\ pc = "run" => \A d \in DOMAIN wrappers : wrappers[d].closed => d \in queuedDrops
    /\ pc = "run" => \A d \in queuedDrops : d \in DOMAIN wrappers /\ wrappers[d].closed
    /\ pc = "drop" => \A d \in DOMAIN wrappers : wrappers[d].closed <=> d \in todo
    /\ pc \in {"dirty", "data", "clean"} => \A d \in DOMAIN wrappers : ~wrappers[d].closed
    /\ pc \notin {"run", "drop"} => queuedDrops = {}

\* What each loop of flush has done to the databases it has visited.
Visited ==
    /\ pc = "dirty" => \A d \in DOMAIN wrappers \ todo :
                          wrappers[d].open /\ disk[d].flag.dirty
    /\ pc = "data" => \A d \in DOMAIN wrappers :
                         /\ wrappers[d].open /\ disk[d].flag.dirty
                         /\ d \notin todo => DOMAIN wrappers[d].modified = {}
    /\ pc = "clean" => \A d \in DOMAIN wrappers :
                          /\ wrappers[d].open /\ DOMAIN wrappers[d].modified = {}
                          /\ d \in todo => disk[d].flag.dirty
                          /\ d \notin todo => disk[d].flag = Clean(flushID)

\* The flags that the loop of the dirty marks has not reached are those of the
\* flush before, or of databases that it has made; before it they agree.
Marks ==
    /\ pc \in {"run", "drop"} => DbsSynced
    /\ pc = "dirty" => \A d, e \in todo \cap DOMAIN disk :
                          /\ ~disk[d].flag.dirty
                          /\ \/ disk[d].flag = NoFlag \/ disk[e].flag = NoFlag
                             \/ disk[d].flag = disk[e].flag

IInv ==
    /\ TypeOK
    /\ Recoverable
    /\ Marks
    /\ AllOpen
    /\ ClosedDropped
    /\ Visited
    /\ pc \in {"down", "refused"} => DOMAIN wrappers = {}

-----------------------------------------------------------------------------
\* The values of the types.
LEMMA Types ==
    /\ Empty \in Content
    /\ NewLazy \in [modified : Modified, open : BOOLEAN, closed : BOOLEAN]
    /\ NewLazy.modified \in Modified /\ DOMAIN NewLazy.modified = {}
    /\ ~NewLazy.open /\ ~NewLazy.closed
  <1>1. Empty \in Content
    BY DEF Empty, Content
  <1>2. [k \in {} |-> NoValue] \in [{} -> Value \cup {NoValue}]
    OBVIOUS
  <1>3. {} \in SUBSET Key
    OBVIOUS
  <1>4. [k \in {} |-> NoValue] \in Modified
    BY <1>2, <1>3 DEF Modified
  <1> QED
    BY <1>1, <1>4 DEF NewLazy

\* A change of a key keeps the tree of changes a tree of changes.
LEMMA PutModified ==
    ASSUME NEW m \in Modified, NEW k \in Key, NEW v \in Value \cup {NoValue}
    PROVE  Set(m, k, v) \in Modified
  <1>1. PICK K \in SUBSET Key : m \in [K -> Value \cup {NoValue}]
    BY DEF Modified
  <1>2. Set(m, k, v) \in [K \cup {k} -> Value \cup {NoValue}]
    BY <1>1 DEF Set
  <1>3. K \cup {k} \in SUBSET Key
    OBVIOUS
  <1> QED
    BY <1>2, <1>3 DEF Modified

\* What a batch writes is contents.
LEMMA WrittenContent ==
    ASSUME TypeOK, NEW d \in DOMAIN wrappers, d \in DOMAIN disk,
           NEW K \in SUBSET DOMAIN wrappers[d].modified
    PROVE  Written(d, K) \in Content
  <1>1. wrappers[d].modified \in Modified /\ disk[d].data \in Content
    BY DEF TypeOK
  <1>2. PICK L \in SUBSET Key : wrappers[d].modified \in [L -> Value \cup {NoValue}]
    BY <1>1 DEF Modified
  <1> QED
    BY <1>1, <1>2 DEF Written, Content

-----------------------------------------------------------------------------
\* The empty pool meets the invariant.
LEMMA InitIInv == Init => IInv
  <1> SUFFICES ASSUME Init PROVE IInv
    OBVIOUS
  <1> USE SyncedPoolAssumption DEF Init
  <1>1. TypeOK
    BY Types DEF TypeOK
  <1>2. Recoverable
    BY DEF Recoverable, Contents
  <1>3. Marks
    BY DEF Marks, DbsSynced
  <1> QED
    BY <1>1, <1>2, <1>3 DEF IInv, AllOpen, ClosedDropped, Visited

\* An action that leaves the databases, the flush and the history alone.
LEMMA RunStep ==
    ASSUME IInv, pc = "run",
           UNCHANGED <<disk, pc, todo, flushID, crashes, saved, lost>>,
           DOMAIN wrappers \subseteq DOMAIN wrappers',
           DOMAIN wrappers' \subseteq Db,
           \A d \in DOMAIN wrappers' :
              /\ wrappers'[d] \in [modified : Modified, open : BOOLEAN, closed : BOOLEAN]
              /\ wrappers'[d].open <=> d \in DOMAIN wrappers /\ wrappers[d].open
              /\ wrappers'[d].closed <=> d \in queuedDrops',
           queuedDrops' \subseteq DOMAIN wrappers'
    PROVE  IInv'
  <1>1. TypeOK'
    BY DEF IInv, TypeOK
  <1>2. DbsSynced' <=> DbsSynced
    BY DEF DbsSynced
  <1>3. Recoverable' /\ Marks'
    BY <1>2 DEF IInv, Recoverable, Marks, Contents
  <1>4. AllOpen'
    BY DEF IInv, AllOpen, up
  <1>5. ClosedDropped'
    BY DEF ClosedDropped
  <1> QED
    BY <1>1, <1>3, <1>4, <1>5 DEF IInv, Visited

\* GetDb keeps the invariant.
LEMMA GetDbStep ==
    ASSUME IInv, NEW d \in Db, GetDb(d)
    PROVE  IInv'
  <1> USE DEF GetDb
  <1>1. /\ DOMAIN wrappers' = DOMAIN wrappers \cup {d}
        /\ wrappers'[d] = NewLazy
        /\ \A e \in DOMAIN wrappers : wrappers'[e] = wrappers[e]
    BY DEF Set
  <1>2. d \notin queuedDrops /\ ~NewLazy.open /\ ~NewLazy.closed
    BY Types DEF IInv, ClosedDropped
  <1>3. \A e \in DOMAIN wrappers :
           /\ wrappers[e] \in [modified : Modified, open : BOOLEAN, closed : BOOLEAN]
           /\ wrappers[e].closed <=> e \in queuedDrops
    BY DEF IInv, TypeOK, ClosedDropped
  <1>4. DOMAIN wrappers' \subseteq Db /\ queuedDrops' \subseteq DOMAIN wrappers'
    BY <1>1 DEF IInv, TypeOK, ClosedDropped
  <1>5. \A e \in DOMAIN wrappers' :
              /\ wrappers'[e] \in [modified : Modified, open : BOOLEAN, closed : BOOLEAN]
              /\ wrappers'[e].open <=> e \in DOMAIN wrappers /\ wrappers[e].open
              /\ wrappers'[e].closed <=> e \in queuedDrops'
    BY <1>1, <1>2, <1>3, Types
  <1> QED
    BY <1>1, <1>4, <1>5, RunStep

\* Put and Delete keep the invariant: they change what is not flushed only.
LEMMA PutStep ==
    ASSUME IInv, NEW d \in Db, NEW k \in Key, NEW v \in Value \cup {NoValue}, Put(d, k, v)
    PROVE  IInv'
  <1> USE DEF Put
  <1>1. Set(wrappers[d].modified, k, v) \in Modified
    BY PutModified DEF IInv, TypeOK
  <1>2. \A e \in DOMAIN wrappers :
           /\ wrappers[e] \in [modified : Modified, open : BOOLEAN, closed : BOOLEAN]
           /\ wrappers[e].closed <=> e \in queuedDrops
    BY DEF IInv, TypeOK, ClosedDropped
  <1>3. DOMAIN wrappers' = DOMAIN wrappers /\ DOMAIN wrappers \subseteq Db
    BY DEF IInv, TypeOK
  <1>4. queuedDrops' \subseteq DOMAIN wrappers'
    BY <1>3 DEF IInv, ClosedDropped
  <1>5. \A e \in DOMAIN wrappers' :
              /\ wrappers'[e] \in [modified : Modified, open : BOOLEAN, closed : BOOLEAN]
              /\ wrappers'[e].open <=> e \in DOMAIN wrappers /\ wrappers[e].open
              /\ wrappers'[e].closed <=> e \in queuedDrops'
    BY <1>1, <1>2, <1>3
  <1> QED
    BY <1>3, <1>4, <1>5, RunStep

\* Close with Drop keeps the invariant: the database stays until the flush.
LEMMA CloseAndDropStep ==
    ASSUME IInv, NEW d \in Temporary, CloseAndDrop(d)
    PROVE  IInv'
  <1> USE DEF CloseAndDrop
  <1>1. [k \in {} |-> NoValue] \in Modified
    BY Types DEF NewLazy
  <1>2. \A e \in DOMAIN wrappers :
           /\ wrappers[e] \in [modified : Modified, open : BOOLEAN, closed : BOOLEAN]
           /\ wrappers[e].closed <=> e \in queuedDrops
    BY DEF IInv, TypeOK, ClosedDropped
  <1>3. DOMAIN wrappers' = DOMAIN wrappers /\ DOMAIN wrappers \subseteq Db
    BY DEF IInv, TypeOK
  <1>4. queuedDrops' \subseteq DOMAIN wrappers'
    BY <1>3 DEF IInv, ClosedDropped
  <1>5. \A e \in DOMAIN wrappers' :
              /\ wrappers'[e] \in [modified : Modified, open : BOOLEAN, closed : BOOLEAN]
              /\ wrappers'[e].open <=> e \in DOMAIN wrappers /\ wrappers[e].open
              /\ wrappers'[e].closed <=> e \in queuedDrops'
    BY <1>1, <1>2, <1>3
  <1> QED
    BY <1>3, <1>4, <1>5, RunStep

\* The begin of flush keeps the invariant.
LEMMA FlushStep ==
    ASSUME IInv, Flush
    PROVE  IInv'
  <1> USE DEF Flush
  <1>1. TypeOK'
    BY SyncedPoolAssumption DEF IInv, TypeOK, ClosedDropped
  <1>2. DbsSynced' <=> DbsSynced
    BY DEF DbsSynced
  <1>3. Recoverable' /\ Marks'
    BY <1>2 DEF IInv, Recoverable, Marks, Contents
  <1>4. AllOpen'
    BY DEF IInv, AllOpen, up
  <1>5. ClosedDropped'
    BY DEF IInv, ClosedDropped
  <1> QED
    BY <1>1, <1>3, <1>4, <1>5 DEF IInv, Visited

\* The drop of a queued database keeps the invariant.
LEMMA DropOldDbStep ==
    ASSUME IInv, NEW d \in Db, DropOldDb(d)
    PROVE  IInv'
  <1> USE DEF DropOldDb
  <1>1. d \in DOMAIN wrappers /\ d \in todo /\ pc = "drop"
    BY DEF IInv, TypeOK
  <1>2. DOMAIN disk' = DOMAIN disk \ {d}
    BY <1>1 DEF IInv, AllOpen, up, Without
  <1>3. \A e \in DOMAIN disk' : disk'[e] = disk[e]
    BY <1>2 DEF Without
  <1>4. /\ DOMAIN wrappers' = DOMAIN wrappers \ {d}
        /\ \A e \in DOMAIN wrappers' : wrappers'[e] = wrappers[e]
    BY DEF Without
  <1>5. DbsSynced /\ saved = Contents
    BY <1>1 DEF IInv, Marks, Recoverable
  <1>6. TypeOK'
    BY <1>1, <1>2, <1>3, <1>4, Types DEF IInv, TypeOK
  <1>7. Marks'
    BY <1>2, <1>3, <1>5 DEF Marks, DbsSynced
  <1>8. saved' = Contents'
    BY <1>2, <1>3, <1>5 DEF Contents
  <1>9. AllOpen'
    BY <1>1, <1>2, <1>4 DEF IInv, AllOpen, up
  <1>10. ClosedDropped'
    BY <1>1, <1>4 DEF IInv, ClosedDropped
  <1> QED
    BY <1>1, <1>6, <1>7, <1>8, <1>9, <1>10 DEF IInv, Visited, Recoverable

\* Opening a database on its first flush keeps the invariant.
LEMMA InitUnderlyingDbStep ==
    ASSUME IInv, NEW d \in Db, InitUnderlyingDb(d)
    PROVE  IInv'
  <1> USE DEF InitUnderlyingDb
  <1>1. d \in DOMAIN wrappers /\ d \in todo /\ pc = "dirty"
    BY DEF IInv, TypeOK
  <1>2. d \notin DOMAIN disk
    BY <1>1 DEF IInv, AllOpen, up
  <1>3. /\ DOMAIN disk' = DOMAIN disk \cup {d}
        /\ disk'[d] = [flag |-> NoFlag, data |-> Empty]
        /\ \A e \in DOMAIN disk : disk'[e] = disk[e]
    BY <1>2 DEF Set
  <1>4. /\ DOMAIN wrappers' = DOMAIN wrappers
        /\ wrappers'[d] = [wrappers[d] EXCEPT !.open = TRUE]
        /\ \A e \in DOMAIN wrappers : e # d => wrappers'[e] = wrappers[e]
    BY <1>1
  <1>5. wrappers[d] \in [modified : Modified, open : BOOLEAN, closed : BOOLEAN]
    BY <1>1 DEF IInv, TypeOK
  <1>6. /\ wrappers'[d] \in [modified : Modified, open : BOOLEAN, closed : BOOLEAN]
        /\ wrappers'[d].open
        /\ wrappers'[d].closed = wrappers[d].closed
    BY ZenonT(30), <1>4, <1>5
  <1>7. [flag |-> NoFlag, data |-> Empty] \in
           [flag : [dirty : BOOLEAN, id : 0..MaxFlushes], data : Content]
    BY Types, SyncedPoolAssumption DEF NoFlag
  <1>8. TypeOK'
    BY <1>3, <1>4, <1>6, <1>7 DEF IInv, TypeOK
  <1>9. DbsSynced' => DbsSynced
    BY <1>3 DEF DbsSynced
  <1>10. Contents' = Contents
    BY <1>2, <1>3 DEF Contents
  <1>11. Recoverable' /\ Marks'
    <2>1. Recoverable'
      BY <1>9, <1>10 DEF IInv, Recoverable
    <2>2. ~NoFlag.dirty
      BY DEF NoFlag
    <2>3. \A a, b \in todo \cap DOMAIN disk :
             /\ ~disk[a].flag.dirty
             /\ \/ disk[a].flag = NoFlag \/ disk[b].flag = NoFlag
                \/ disk[a].flag = disk[b].flag
      BY ZenonT(30), <1>1 DEF IInv, Marks
    <2>4. \A a \in DOMAIN disk' :
             disk'[a].flag = NoFlag \/ (a \in DOMAIN disk /\ disk'[a].flag = disk[a].flag)
      BY <1>3
    <2>5. \A a, b \in todo \cap DOMAIN disk' :
             /\ ~disk'[a].flag.dirty
             /\ \/ disk'[a].flag = NoFlag \/ disk'[b].flag = NoFlag
                \/ disk'[a].flag = disk'[b].flag
      BY ONLY ZenonT(30), <2>2, <2>3, <2>4
    <2>6. pc' = "dirty" /\ todo' = todo
      BY <1>1
    <2>7. Marks'
      <3> HIDE DEF InitUnderlyingDb
      <3> QED
        BY <2>5, <2>6 DEF Marks
    <2> QED
      BY <2>1, <2>7
  <1>12. AllOpen'
    BY <1>1, <1>3, <1>4, <1>6 DEF IInv, AllOpen, up
  <1>13. ClosedDropped'
    BY <1>1, <1>4, <1>6 DEF IInv, ClosedDropped
  <1>14. Visited'
    BY <1>1, <1>2, <1>3, <1>4 DEF IInv, TypeOK, Visited
  <1> QED
    BY <1>1, <1>8, <1>11, <1>12, <1>13, <1>14 DEF IInv

\* A dirty mark keeps the invariant: from the first one on no restart is
\* accepted.
LEMMA WriteDirtyFlagStep ==
    ASSUME IInv, NEW d \in Db, WriteDirtyFlag(d)
    PROVE  IInv'
  <1> USE DEF WriteDirtyFlag
  <1>1. d \in DOMAIN wrappers /\ d \in DOMAIN disk /\ pc = "dirty"
    BY DEF IInv, TypeOK
  <1>2. /\ DOMAIN disk' = DOMAIN disk
        /\ disk'[d].flag = Dirty(flushID) /\ disk'[d].data = disk[d].data
        /\ \A e \in DOMAIN disk : e # d => disk'[e] = disk[e]
    BY <1>1 DEF IInv, TypeOK
  <1>3. Dirty(flushID) \in [dirty : BOOLEAN, id : 0..MaxFlushes] /\ Dirty(flushID).dirty
    BY DEF Dirty, IInv, TypeOK
  <1>4. disk'[d] \in [flag : [dirty : BOOLEAN, id : 0..MaxFlushes], data : Content]
    BY <1>1, <1>3 DEF IInv, TypeOK
  <1>5. TypeOK'
    BY <1>2, <1>4 DEF IInv, TypeOK
  <1>6. ~DbsSynced'
    BY <1>1, <1>2, <1>3 DEF DbsSynced
  <1>7. AllOpen'
    BY <1>2 DEF IInv, AllOpen, up
  <1>8. ClosedDropped'
    BY <1>1 DEF IInv, ClosedDropped
  <1>9. Visited'
    BY <1>1, <1>2, <1>3 DEF IInv, TypeOK, Visited
  <1> QED
    BY <1>1, <1>5, <1>6, <1>7, <1>8, <1>9 DEF IInv, Recoverable, Marks

\* In the third loop a database is written that is marked dirty.
LEMMA DataStep ==
    ASSUME IInv, pc = "data", NEW d \in todo, NEW c \in Content,
           disk' = [disk EXCEPT ![d].data = c],
           \/ UNCHANGED <<wrappers, todo>>
           \/ /\ wrappers' = [wrappers EXCEPT ![d].modified = [k \in {} |-> NoValue]]
              /\ todo' = todo \ {d},
           UNCHANGED <<queuedDrops, pc, flushID, crashes, saved, lost>>
    PROVE  IInv'
  <1>1. d \in DOMAIN wrappers /\ d \in DOMAIN disk /\ disk[d].flag.dirty
    BY DEF IInv, TypeOK, Visited
  <1>2. /\ DOMAIN disk' = DOMAIN disk
        /\ disk'[d].flag = disk[d].flag
        /\ disk'[d] \in [flag : [dirty : BOOLEAN, id : 0..MaxFlushes], data : Content]
        /\ \A e \in DOMAIN disk : e # d => disk'[e] = disk[e]
    BY <1>1 DEF IInv, TypeOK
  <1>3. [k \in {} |-> NoValue] \in Modified
    BY Types DEF NewLazy
  <1>4. /\ DOMAIN wrappers' = DOMAIN wrappers
        /\ todo' \subseteq todo
        /\ \A e \in DOMAIN wrappers :
              /\ wrappers'[e] \in [modified : Modified, open : BOOLEAN, closed : BOOLEAN]
              /\ wrappers'[e].open = wrappers[e].open
              /\ wrappers'[e].closed = wrappers[e].closed
              /\ e \notin todo' => DOMAIN wrappers'[e].modified = {}
    <2>1. CASE UNCHANGED <<wrappers, todo>>
      BY <2>1 DEF IInv, TypeOK, Visited
    <2>2. CASE /\ wrappers' = [wrappers EXCEPT ![d].modified = [k \in {} |-> NoValue]]
               /\ todo' = todo \ {d}
      <3>1. /\ wrappers'[d] = [wrappers[d] EXCEPT !.modified = [k \in {} |-> NoValue]]
            /\ \A e \in DOMAIN wrappers : e # d => wrappers'[e] = wrappers[e]
        BY <1>1, <2>2
      <3>2. \A e \in DOMAIN wrappers : wrappers[e] \in
               [modified : Modified, open : BOOLEAN, closed : BOOLEAN]
        BY DEF IInv, TypeOK
      <3>3. \A e \in DOMAIN wrappers \ todo : DOMAIN wrappers[e].modified = {}
        BY DEF IInv, Visited
      <3> QED
        BY <1>1, <1>3, <2>2, <3>1, <3>2, <3>3
    <2> QED
      BY <2>1, <2>2
  <1>5. TypeOK'
    BY <1>2, <1>4 DEF IInv, TypeOK
  <1>6. ~DbsSynced'
    BY <1>1, <1>2 DEF DbsSynced
  <1>7. AllOpen'
    BY <1>2, <1>4 DEF IInv, AllOpen, up
  <1>8. ClosedDropped'
    BY <1>4 DEF IInv, ClosedDropped
  <1>9. Visited'
    BY <1>2, <1>4 DEF IInv, TypeOK, Visited
  <1> QED
    BY <1>5, <1>6, <1>7, <1>8, <1>9 DEF IInv, Recoverable, Marks

\* A batch in the middle of a database keeps the invariant: all are marked dirty.
LEMMA WriteBatchStep ==
    ASSUME IInv, NEW d \in Db, NEW m \in Key, WriteBatch(d, m)
    PROVE  IInv'
  <1>1. d \in DOMAIN wrappers /\ d \in DOMAIN disk
    BY DEF WriteBatch, IInv, TypeOK, Visited
  <1>2. Written(d, {k \in DOMAIN wrappers[d].modified : k <= m}) \in Content
    BY <1>1, WrittenContent DEF IInv
  <1> QED
    BY <1>2, DataStep DEF WriteBatch

\* The last batch of a database keeps the invariant.
LEMMA WriteLastBatchStep ==
    ASSUME IInv, NEW d \in Db, WriteLastBatch(d)
    PROVE  IInv'
  <1>1. d \in DOMAIN wrappers /\ d \in DOMAIN disk
    BY DEF WriteLastBatch, IInv, TypeOK, Visited
  <1>2. Written(d, DOMAIN wrappers[d].modified) \in Content
    BY <1>1, WrittenContent DEF IInv
  <1> QED
    BY <1>2, DataStep, Zenon DEF WriteLastBatch

\* In the last loop the users read what the databases hold.
LEMMA ViewIsContents ==
    ASSUME IInv, pc = "clean", NEW e \in Db
    PROVE  View(e) = Contents[e]
  <1>1. CASE e \in DOMAIN wrappers
    <2>1. /\ ~wrappers[e].closed /\ wrappers[e].open
          /\ DOMAIN wrappers[e].modified = {} /\ e \in DOMAIN disk
          /\ disk[e].data \in Content
      BY <1>1 DEF IInv, TypeOK, ClosedDropped, Visited
    <2>2. View(e) = [k \in Key |-> disk[e].data[k]]
      BY <1>1, <2>1 DEF View, Get
    <2> QED
      BY <2>1, <2>2 DEF Contents, Content
  <1>2. CASE e \notin DOMAIN wrappers
    BY <1>2 DEF IInv, AllOpen, up, View, Contents
  <1> QED
    BY <1>1, <1>2

\* A clean mark keeps the invariant: the last one makes the flush the one that
\* a restart accepts.
LEMMA WriteCleanFlagStep ==
    ASSUME IInv, NEW d \in Db, WriteCleanFlag(d)
    PROVE  IInv'
  <1> USE DEF WriteCleanFlag
  <1>1. d \in DOMAIN wrappers /\ d \in DOMAIN disk /\ pc = "clean" /\ d \in todo
    BY DEF IInv, TypeOK, Visited
  <1>2. Clean(flushID) \in [dirty : BOOLEAN, id : 0..MaxFlushes]
    BY DEF Clean, IInv, TypeOK
  <1>3. /\ DOMAIN disk' = DOMAIN disk
        /\ disk'[d].flag = Clean(flushID) /\ disk'[d].data = disk[d].data
        /\ disk'[d] \in [flag : [dirty : BOOLEAN, id : 0..MaxFlushes], data : Content]
        /\ \A e \in DOMAIN disk : e # d => disk'[e] = disk[e]
    BY <1>1, <1>2 DEF IInv, TypeOK
  <1>4. Contents' = Contents
    BY <1>3 DEF Contents
  <1>5. [e \in Db |-> View(e)] = Contents /\ Contents \in [Db -> Content]
    <2>1. [e \in Db |-> View(e)] = [e \in Db |-> Contents[e]]
      BY <1>1, ViewIsContents
    <2> QED
      BY <2>1, Types DEF Contents, IInv, TypeOK
  <1>6. TypeOK'
    BY <1>3, <1>5 DEF IInv, TypeOK
  <1>7. Recoverable'
    <2>1. CASE todo = {d}
      BY <2>1, <1>4, <1>5 DEF Recoverable
    <2>2. CASE todo # {d}
      <3>1. PICK e \in todo : e # d
        BY <1>1, <2>2
      <3>2. e \in DOMAIN disk /\ disk[e].flag.dirty
        BY <1>1, <3>1 DEF IInv, TypeOK, Visited
      <3> QED
        BY <1>3, <3>1, <3>2 DEF Recoverable, DbsSynced
    <2> QED
      BY <2>1, <2>2
  <1>8. AllOpen'
    BY <1>3 DEF IInv, AllOpen, up
  <1>9. ClosedDropped'
    BY <1>1 DEF IInv, ClosedDropped
  <1>10. Visited'
    BY <1>1, <1>3 DEF IInv, TypeOK, Visited, Clean
  <1> QED
    BY <1>1, <1>6, <1>7, <1>8, <1>9, <1>10 DEF IInv, Marks

\* The next loop of flush starts with the databases that it has to visit.
LEMMA NextLoopStep ==
    ASSUME IInv, NextLoop
    PROVE  IInv'
  <1> USE DEF NextLoop
  <1>1. TypeOK'
    BY DEF IInv, TypeOK
  <1>2. Recoverable'
    BY DEF IInv, Recoverable, DbsSynced, Contents
  <1>3. Marks'
    <2>1. CASE pc = "clean"
      <3>1. \A d \in DOMAIN disk : disk[d].flag = Clean(flushID)
        BY <2>1 DEF IInv, AllOpen, up, Visited
      <3> QED
        BY <3>1 DEF Marks, DbsSynced, Clean
    <2>2. CASE pc = "drop"
      BY <2>2 DEF IInv, Marks, DbsSynced
    <2>3. CASE pc \in {"dirty", "data"}
      BY <2>3 DEF Marks
    <2> QED
      BY <2>1, <2>2, <2>3
  <1>4. AllOpen'
    BY DEF IInv, AllOpen, up
  <1>5. ClosedDropped' /\ Visited'
    BY DEF IInv, ClosedDropped, Visited
  <1> QED
    BY <1>1, <1>2, <1>3, <1>4, <1>5 DEF IInv

\* A crash keeps the invariant.
LEMMA CrashStep ==
    ASSUME IInv, Crash
    PROVE  IInv'
  <1> USE DEF Crash
  <1>1. TypeOK'
    BY SyncedPoolAssumption DEF IInv, TypeOK
  <1>2. Recoverable'
    BY DEF IInv, Recoverable, DbsSynced, Contents
  <1> QED
    BY <1>1, <1>2 DEF IInv, Marks, AllOpen, up, ClosedDropped, Visited

\* A restart that checkDbsSynced accepts keeps the invariant.
LEMMA NewSyncedPoolStep ==
    ASSUME IInv, NewSyncedPool
    PROVE  IInv'
  <1> USE DEF NewSyncedPool
  <1>1. /\ DOMAIN wrappers' = DOMAIN disk
        /\ \A d \in DOMAIN disk :
              /\ wrappers'[d] \in [modified : Modified, open : BOOLEAN, closed : BOOLEAN]
              /\ wrappers'[d].open /\ ~wrappers'[d].closed
    BY Zenon, Types
  <1>2. todo = {} /\ queuedDrops = {}
    BY DEF IInv, TypeOK, ClosedDropped
  <1>3. TypeOK'
    BY <1>1, <1>2, Zenon DEF IInv, TypeOK
  <1>4. Recoverable' /\ Marks'
    BY DEF IInv, Recoverable, Marks, DbsSynced, Contents
  <1>5. AllOpen' /\ ClosedDropped'
    BY <1>1, <1>2 DEF AllOpen, ClosedDropped
  <1> QED
    BY <1>3, <1>4, <1>5 DEF IInv, Visited

\* A restart that is refused keeps the invariant.
LEMMA RefuseStep ==
    ASSUME IInv, Refuse
    PROVE  IInv'
  <1> USE DEF Refuse
  <1>1. TypeOK'
    BY DEF IInv, TypeOK
  <1>2. Recoverable'
    BY DEF IInv, Recoverable, DbsSynced, Contents
  <1> QED
    BY <1>1, <1>2 DEF IInv, Marks, AllOpen, up, ClosedDropped, Visited

-----------------------------------------------------------------------------
\* Every step keeps the invariant.
LEMMA NextIInv == IInv /\ [Next]_vars => IInv'
  <1> SUFFICES ASSUME IInv, [Next]_vars PROVE IInv'
    OBVIOUS
  <1>1. ASSUME NEW d \in Db, GetDb(d) PROVE IInv'
    BY <1>1, GetDbStep
  <1>2. ASSUME NEW d \in Db, NEW k \in Key, NEW v \in Value \cup {NoValue}, Put(d, k, v)
        PROVE IInv'
    BY <1>2, PutStep
  <1>3. ASSUME NEW d \in Temporary, CloseAndDrop(d) PROVE IInv'
    BY <1>3, CloseAndDropStep
  <1>4. CASE Flush
    BY <1>4, FlushStep
  <1>5. ASSUME NEW d \in Db, DropOldDb(d) PROVE IInv'
    BY <1>5, DropOldDbStep
  <1>6. ASSUME NEW d \in Db, InitUnderlyingDb(d) PROVE IInv'
    BY <1>6, InitUnderlyingDbStep
  <1>7. ASSUME NEW d \in Db, WriteDirtyFlag(d) PROVE IInv'
    BY <1>7, WriteDirtyFlagStep
  <1>8. ASSUME NEW d \in Db, NEW m \in Key, WriteBatch(d, m) PROVE IInv'
    BY <1>8, WriteBatchStep
  <1>9. ASSUME NEW d \in Db, WriteLastBatch(d) PROVE IInv'
    BY <1>9, WriteLastBatchStep
  <1>10. ASSUME NEW d \in Db, WriteCleanFlag(d) PROVE IInv'
    BY <1>10, WriteCleanFlagStep
  <1>11. CASE NextLoop
    BY <1>11, NextLoopStep
  <1>12. CASE Crash
    BY <1>12, CrashStep
  <1>13. CASE NewSyncedPool
    BY <1>13, NewSyncedPoolStep
  <1>14. CASE Refuse
    BY <1>14, RefuseStep
  <1>15. CASE UNCHANGED vars
    <2>1. TypeOK' /\ AllOpen' /\ ClosedDropped' /\ Visited'
      BY <1>15 DEF vars, IInv, TypeOK, AllOpen, up, ClosedDropped, Visited
    <2>2. Recoverable' /\ Marks'
      BY <1>15 DEF vars, IInv, Recoverable, Marks, DbsSynced, Contents
    <2> QED
      BY <1>15, <2>1, <2>2 DEF vars, IInv
  <1> QED
    BY <1>1, <1>2, <1>3, <1>4, <1>5, <1>6, <1>7, <1>8, <1>9, <1>10, <1>11,
       <1>12, <1>13, <1>14, <1>15 DEF Next

(***************************************************************************)
(* The invariant of flush holds for every pool.                            *)
(***************************************************************************)
THEOREM IInvHolds == Spec => []IInv
  BY InitIInv, NextIInv, PTL DEF Spec

(***************************************************************************)
(* The variables of SyncedPool keep their types: in particular flush only  *)
(* visits databases that the pool still has, and an open wrapper has its   *)
(* database.                                                               *)
(***************************************************************************)
THEOREM TypeCorrect == Spec => []TypeOK
  <1>1. IInv => TypeOK
    BY DEF IInv
  <1> QED
    BY <1>1, IInvHolds, PTL

\* The invariant tells where a crash is accepted.
LEMMA IInvCrashSafe == IInv => CrashSafe
  <1> SUFFICES ASSUME IInv, up PROVE CrashSafe
    BY DEF CrashSafe
  <1>1. \A d \in DOMAIN disk : d \in DOMAIN wrappers
    BY DEF IInv, AllOpen
  <1>2. \A d \in DOMAIN wrappers : wrappers[d].open => d \in DOMAIN disk
    BY DEF IInv, AllOpen
  <1>3. todo \subseteq DOMAIN wrappers
    BY DEF IInv, TypeOK
  <1>4. CASE pc \in {"run", "drop"}
    BY <1>4 DEF IInv, Marks, CrashSafe
  <1>5. CASE pc = "dirty"
    <2>1. \A d \in DOMAIN wrappers \ todo : d \in DOMAIN disk /\ disk[d].flag.dirty
      BY <1>2, <1>5 DEF IInv, Visited
    <2>2. DbsSynced => todo = DOMAIN wrappers
      BY <1>3, <2>1 DEF DbsSynced
    <2>3. DbsSynced => Unmarked \in {{}, DOMAIN disk}
      BY DEF DbsSynced, Unmarked
    <2>4. ASSUME todo = DOMAIN wrappers
          PROVE  \A d, e \in DOMAIN disk :
                    /\ ~disk[d].flag.dirty
                    /\ \/ disk[d].flag = NoFlag \/ disk[e].flag = NoFlag
                       \/ disk[d].flag = disk[e].flag
      BY ZenonT(30), <1>1, <1>5, <2>4 DEF IInv, Marks
    <2>5. ASSUME todo = DOMAIN wrappers, Unmarked = {} PROVE DbsSynced
      <3>1. \A d \in DOMAIN disk : disk[d].flag # NoFlag
        BY <2>5 DEF Unmarked
      <3> QED
        BY ZenonT(30), <2>4, <2>5, <3>1 DEF DbsSynced
    <2>6. ASSUME todo = DOMAIN wrappers, Unmarked = DOMAIN disk PROVE DbsSynced
      <3>1. \A d \in DOMAIN disk : disk[d].flag = NoFlag
        BY <2>6 DEF Unmarked
      <3> QED
        BY ZenonT(30), <2>4, <2>6, <3>1 DEF DbsSynced
    <2> QED
      BY <1>5, <2>2, <2>3, <2>5, <2>6 DEF CrashSafe
  <1>6. CASE pc = "data"
    <2>1. \A d \in DOMAIN wrappers : d \in DOMAIN disk /\ disk[d].flag.dirty
      BY <1>2, <1>6 DEF IInv, Visited
    <2>2. \A d \in DOMAIN wrappers : ~DbsSynced
      BY <2>1 DEF DbsSynced
    <2>3. DOMAIN wrappers = {} => DbsSynced
      BY <1>1 DEF DbsSynced
    <2> QED
      BY <1>6, <2>2, <2>3 DEF CrashSafe
  <1>7. CASE pc = "clean"
    <2>1. \A d \in todo : d \in DOMAIN disk /\ disk[d].flag.dirty
      BY <1>2, <1>3, <1>7 DEF IInv, Visited
    <2>2. \A d \in DOMAIN disk : d \notin todo => disk[d].flag = Clean(flushID)
      BY <1>1, <1>7 DEF IInv, Visited
    <2>3. DbsSynced <=> todo = {}
      BY <2>1, <2>2 DEF DbsSynced, Clean
    <2> QED
      BY <1>7, <2>3 DEF CrashSafe
  <1> QED
    BY <1>4, <1>5, <1>6, <1>7 DEF IInv, TypeOK, up

(***************************************************************************)
(* At each point of a flush, checkDbsSynced accepts what a crash leaves    *)
(* exactly if CrashSafe says so: in particular from the first dirty mark   *)
(* to the last clean one no crash goes unnoticed, and between flushes none *)
(* is refused.                                                             *)
(***************************************************************************)
THEOREM CrashSafeHolds == Spec => []CrashSafe
  <1> QED
    BY IInvCrashSafe, IInvHolds, PTL

-----------------------------------------------------------------------------
\* What the users read does not change, step by step.
LEMMA SameView ==
    ASSUME NEW e \in Db, wrappers' = wrappers,
           e \in DOMAIN wrappers =>
              (e \in DOMAIN disk => e \in DOMAIN disk' /\ disk'[e].data = disk[e].data),
           e \in DOMAIN wrappers /\ wrappers[e].open => e \in DOMAIN disk
    PROVE  View(e)' = View(e)
  BY DEF View, Get

\* GetDb changes nothing that users read.
LEMMA GetDbView ==
    ASSUME IInv, NEW d \in Db, GetDb(d), NEW e \in Db
    PROVE  View(e)' = View(e)
  <1> USE DEF GetDb
  <1>1. /\ DOMAIN wrappers' = DOMAIN wrappers \cup {d}
        /\ wrappers'[d] = NewLazy
        /\ \A a \in DOMAIN wrappers : wrappers'[a] = wrappers[a]
    BY DEF Set
  <1>2. CASE e = d
    <2>1. View(e)' = [k \in Key |-> NoValue]
      BY <1>1, <1>2, Types DEF View, Get
    <2> QED
      BY <1>2, <2>1 DEF View, Empty
  <1>3. CASE e # d
    BY <1>1, <1>3 DEF View, Get
  <1> QED
    BY <1>2, <1>3

\* Nor does the opening of a database.
LEMMA InitUnderlyingDbView ==
    ASSUME IInv, NEW d \in Db, InitUnderlyingDb(d), NEW e \in Db
    PROVE  View(e)' = View(e)
  <1> USE DEF InitUnderlyingDb
  <1>1. d \in DOMAIN wrappers /\ d \notin DOMAIN disk /\ ~wrappers[d].open
    BY DEF IInv, TypeOK, AllOpen, up
  <1>2. /\ disk'[d] = [flag |-> NoFlag, data |-> Empty]
        /\ \A a \in DOMAIN disk : disk'[a] = disk[a]
    BY <1>1 DEF Set
  <1>3. /\ DOMAIN wrappers' = DOMAIN wrappers
        /\ wrappers'[d].open /\ wrappers'[d].closed = wrappers[d].closed
        /\ wrappers'[d].modified = wrappers[d].modified
        /\ \A a \in DOMAIN wrappers : a # d => wrappers'[a] = wrappers[a]
    BY <1>1 DEF IInv, TypeOK
  <1>4. CASE e = d
    <2>1. disk'[d].data = [k \in Key |-> NoValue]
      BY <1>2 DEF Empty
    <2>2. \A k \in Key : Get(d, k)' = Get(d, k)
      BY <1>1, <1>3, <2>1 DEF Get
    <2>3. [k \in Key |-> Get(d, k)]' = [k \in Key |-> Get(d, k)]
      BY <2>2
    <2> QED
      BY <1>3, <1>4, <2>3 DEF View
  <1>5. CASE e # d
    BY <1>2, <1>3, <1>5 DEF View, Get, IInv, TypeOK
  <1> QED
    BY <1>4, <1>5

\* Nor does a batch: what it writes is still in the tree of modified keys.
LEMMA WriteBatchView ==
    ASSUME IInv, NEW d \in Db, NEW m \in Key, WriteBatch(d, m), NEW e \in Db
    PROVE  View(e)' = View(e)
  <1> USE DEF WriteBatch
  <1>1. d \in DOMAIN wrappers /\ d \in DOMAIN disk
    BY DEF IInv, TypeOK, Visited
  <1>2. /\ disk'[d].data = Written(d, {k \in DOMAIN wrappers[d].modified : k <= m})
        /\ \A a \in DOMAIN disk : a # d => disk'[a] = disk[a]
    BY <1>1, Zenon DEF IInv, TypeOK
  <1>3. CASE e = d
    BY <1>1, <1>2, <1>3 DEF View, Get, Written
  <1>4. CASE e # d
    BY <1>2, <1>4 DEF View, Get, IInv, TypeOK
  <1> QED
    BY <1>3, <1>4

\* Nor does the last batch, which clears the tree.
LEMMA WriteLastBatchView ==
    ASSUME IInv, NEW d \in Db, WriteLastBatch(d), NEW e \in Db
    PROVE  View(e)' = View(e)
  <1> USE DEF WriteLastBatch
  <1>1. d \in DOMAIN wrappers /\ d \in DOMAIN disk /\ wrappers[d].open
    BY DEF IInv, TypeOK, Visited
  <1>2. /\ disk'[d].data = Written(d, DOMAIN wrappers[d].modified)
        /\ \A a \in DOMAIN disk : a # d => disk'[a] = disk[a]
    BY <1>1 DEF IInv, TypeOK
  <1>3. /\ DOMAIN wrappers' = DOMAIN wrappers
        /\ wrappers'[d].open /\ wrappers'[d].closed = wrappers[d].closed
        /\ wrappers'[d].modified = [k \in {} |-> NoValue]
        /\ \A a \in DOMAIN wrappers : a # d => wrappers'[a] = wrappers[a]
    BY <1>1 DEF IInv, TypeOK
  <1>4. CASE e = d
    BY <1>1, <1>2, <1>3, <1>4, ZenonT(30) DEF View, Get, Written
  <1>5. CASE e # d
    BY <1>2, <1>3, <1>5 DEF View, Get, IInv, TypeOK
  <1> QED
    BY <1>4, <1>5

-----------------------------------------------------------------------------
\* The initial pool is an empty store.
LEMMA InitStore == Init => Store!Init
  BY DEF Init, Store!Init, up, mem, View

\* A step of the pool that changes neither what the users read nor what a
\* restart brings back is a stutter of the store.
LEMMA StutterStep ==
    ASSUME \A e \in Db : View(e)' = View(e), up' = up, saved' = saved
    PROVE  UNCHANGED Store!vars
  BY DEF Store!vars, mem

\* Put and Delete are writes of the store.
LEMMA PutIsWrite ==
    ASSUME IInv, NEW d \in Db, NEW k \in Key, NEW v \in Value \cup {NoValue}, Put(d, k, v)
    PROVE  Store!Next
  <1> USE DEF Put
  <1>1. \A e \in Db : e # d => View(e)' = View(e)
    BY DEF View, Get
  <1>2. View(d)' \in Content
    <2>1. /\ d \in DOMAIN wrappers' /\ ~wrappers'[d].closed
          /\ wrappers'[d].modified \in Modified
          /\ wrappers'[d].open => d \in DOMAIN disk' /\ disk'[d].data \in Content
      BY PutStep, Zenon DEF IInv, TypeOK
    <2>2. PICK K \in SUBSET Key : wrappers'[d].modified \in [K -> Value \cup {NoValue}]
      BY <2>1 DEF Modified
    <2>3. \A a \in Key : Get(d, a)' \in Value \cup {NoValue}
      BY <2>1, <2>2 DEF Get, Content
    <2> QED
      BY <2>1, <2>3 DEF View, Content
  <1>3. mem' = [mem EXCEPT ![d] = View(d)']
    BY <1>1, Zenon DEF mem
  <1>4. up /\ up' = up
    BY DEF up
  <1>5. Store!Write(d, View(d)')
    BY <1>3, <1>4 DEF Store!Write
  <1> QED
    BY <1>2, <1>5 DEF Store!Next

\* Close with Drop is a write that empties a database of the store.
LEMMA CloseAndDropIsWrite ==
    ASSUME IInv, NEW d \in Temporary, CloseAndDrop(d)
    PROVE  Store!Next
  <1> USE DEF CloseAndDrop
  <1>1. d \in Db
    BY SyncedPoolAssumption
  <1>2. \A e \in Db : e # d => View(e)' = View(e)
    BY DEF View, Get
  <1>3. View(d)' = Empty
    BY Zenon DEF View, IInv, TypeOK
  <1>4. mem' = [mem EXCEPT ![d] = Empty]
    BY <1>2, <1>3, Zenon DEF mem
  <1>5. up /\ up' = up
    BY DEF up
  <1>6. Store!Write(d, Empty)
    BY <1>4, <1>5 DEF Store!Write
  <1> QED
    BY <1>1, <1>6, Types DEF Store!Next

\* The drop of a queued database is a step of the store that may lose it.
LEMMA DropOldDbLoses ==
    ASSUME IInv, NEW d \in Db, DropOldDb(d)
    PROVE  Store!Next
  <1> USE DEF DropOldDb
  <1>1. d \in DOMAIN wrappers /\ wrappers[d].closed
    BY DEF IInv, TypeOK, ClosedDropped
  <1>2. View(d) = Empty /\ View(d)' = Empty
    BY <1>1 DEF View, Without
  <1>3. ASSUME NEW e \in Db, e # d PROVE View(e)' = View(e)
    <2>1. /\ e \in DOMAIN wrappers' <=> e \in DOMAIN wrappers
          /\ e \in DOMAIN wrappers => wrappers'[e] = wrappers[e]
      BY <1>3 DEF Without
    <2>2. e \in DOMAIN disk => disk'[e] = disk[e]
      BY <1>3 DEF Without
    <2> QED
      BY <2>1, <2>2 DEF View, Get, IInv, TypeOK
  <1>4. mem[d] = Empty /\ mem' = mem
    BY <1>2, <1>3 DEF mem
  <1>5. up /\ up' = up
    BY DEF up
  <1>6. Store!LoseDropped(d)
    BY <1>4, <1>5 DEF Store!LoseDropped
  <1> QED
    BY <1>6 DEF Store!Next

\* A clean mark is a save of the store if it is the last one, and otherwise no
\* step of it.
LEMMA WriteCleanFlagSaves ==
    ASSUME IInv, NEW d \in Db, WriteCleanFlag(d)
    PROVE  Store!Next \/ UNCHANGED Store!vars
  <1> USE DEF WriteCleanFlag
  <1>1. \A a \in DOMAIN disk : a \in DOMAIN disk' /\ disk'[a].data = disk[a].data
    BY DEF IInv, TypeOK
  <1>2. \A e \in Db : View(e)' = View(e)
    BY <1>1, SameView DEF IInv, TypeOK
  <1>3. mem' = mem
    BY <1>2 DEF mem
  <1>4. up /\ up' = up
    BY DEF up
  <1>5. CASE todo = {d}
    <2>1. Store!Save
      BY <1>3, <1>4, <1>5 DEF Store!Save, mem
    <2> QED
      BY <2>1 DEF Store!Next
  <1>6. CASE todo # {d}
    BY <1>2, <1>4, <1>6, StutterStep
  <1> QED
    BY <1>5, <1>6

\* A crash is a crash of the store.
LEMMA CrashIsCrash ==
    ASSUME Crash
    PROVE  Store!Next
  <1> USE DEF Crash
  <1>1. up /\ ~up' /\ mem' = [e \in Db |-> Empty]
    BY DEF up, mem, View
  <1>2. Store!Crash
    BY <1>1 DEF Store!Crash, up
  <1> QED
    BY <1>2 DEF Store!Next

\* A restart brings back what the store saved.
LEMMA NewSyncedPoolRestarts ==
    ASSUME IInv, NewSyncedPool
    PROVE  Store!Next
  <1> USE DEF NewSyncedPool
  <1>1. saved = Contents
    BY DEF IInv, Recoverable
  <1>2. ASSUME NEW e \in Db PROVE View(e)' = Contents[e]
    <2>1. CASE e \in DOMAIN disk
      <3>1. /\ e \in DOMAIN wrappers' /\ ~wrappers'[e].closed
            /\ wrappers'[e].open /\ DOMAIN wrappers'[e].modified = {}
        BY <2>1, Types DEF NewLazy
      <3>2. View(e)' = [k \in Key |-> disk[e].data[k]]
        BY <3>1, Zenon DEF View, Get
      <3> QED
        BY <2>1, <3>2 DEF Contents, IInv, TypeOK, Content
    <2>2. CASE e \notin DOMAIN disk
      BY <2>2 DEF View, Contents
    <2> QED
      BY <2>1, <2>2
  <1>3. mem' = saved
    BY <1>1, <1>2 DEF mem, Contents
  <1>4. ~up /\ up'
    BY DEF up
  <1>5. Store!Restart
    BY <1>3, <1>4 DEF Store!Restart, up
  <1> QED
    BY <1>5 DEF Store!Next

\* Every step of the pool is a step of the store or a stutter.
LEMMA StepStore == IInv /\ [Next]_vars => [Store!Next]_(Store!vars)
  <1> SUFFICES ASSUME IInv, [Next]_vars PROVE Store!Next \/ UNCHANGED Store!vars
    OBVIOUS
  <1>1. ASSUME NEW d \in Db, GetDb(d) PROVE UNCHANGED Store!vars
    BY <1>1, GetDbView, StutterStep DEF GetDb, up
  <1>2. ASSUME NEW d \in Db, NEW k \in Key, NEW v \in Value \cup {NoValue}, Put(d, k, v)
        PROVE Store!Next
    BY <1>2, PutIsWrite
  <1>3. ASSUME NEW d \in Temporary, CloseAndDrop(d) PROVE Store!Next
    BY <1>3, CloseAndDropIsWrite
  <1>4. CASE Flush
    <2>1. \A e \in Db : View(e)' = View(e)
      BY <1>4 DEF Flush, View, Get
    <2> QED
      BY <1>4, <2>1, StutterStep DEF Flush, up
  <1>5. ASSUME NEW d \in Db, DropOldDb(d) PROVE Store!Next
    BY <1>5, DropOldDbLoses
  <1>6. ASSUME NEW d \in Db, InitUnderlyingDb(d) PROVE UNCHANGED Store!vars
    BY <1>6, InitUnderlyingDbView, StutterStep, Zenon DEF InitUnderlyingDb, up
  <1>7. ASSUME NEW d \in Db, WriteDirtyFlag(d) PROVE UNCHANGED Store!vars
    <2>1. \A a \in DOMAIN disk : a \in DOMAIN disk' /\ disk'[a].data = disk[a].data
      BY <1>7 DEF WriteDirtyFlag, IInv, TypeOK
    <2>2. \A e \in Db : View(e)' = View(e)
      BY <1>7, <2>1, SameView DEF WriteDirtyFlag, IInv, TypeOK
    <2> QED
      BY <1>7, <2>2, StutterStep DEF WriteDirtyFlag, up
  <1>8. ASSUME NEW d \in Db, NEW m \in Key, WriteBatch(d, m) PROVE UNCHANGED Store!vars
    BY <1>8, WriteBatchView, StutterStep DEF WriteBatch, up
  <1>9. ASSUME NEW d \in Db, WriteLastBatch(d) PROVE UNCHANGED Store!vars
    BY <1>9, WriteLastBatchView, StutterStep, Zenon DEF WriteLastBatch, up
  <1>10. ASSUME NEW d \in Db, WriteCleanFlag(d)
         PROVE Store!Next \/ UNCHANGED Store!vars
    BY <1>10, WriteCleanFlagSaves
  <1>11. CASE NextLoop
    <2>1. \A e \in Db : View(e)' = View(e)
      BY <1>11 DEF NextLoop, View, Get
    <2> QED
      BY <1>11, <2>1, StutterStep DEF NextLoop, up
  <1>12. CASE Crash
    BY <1>12, CrashIsCrash
  <1>13. CASE NewSyncedPool
    BY <1>13, NewSyncedPoolRestarts
  <1>14. CASE Refuse
    <2>1. \A e \in Db : View(e)' = View(e)
      BY <1>14 DEF Refuse, View, Get
    <2> QED
      BY <1>14, <2>1, StutterStep DEF Refuse, up
  <1>15. CASE UNCHANGED vars
    <2>1. \A e \in Db : View(e)' = View(e)
      BY <1>15 DEF vars, View, Get
    <2> QED
      BY <1>15, <2>1, StutterStep DEF vars, up
  <1> QED
    BY <1>1, <1>2, <1>3, <1>4, <1>5, <1>6, <1>7, <1>8, <1>9, <1>10, <1>11,
       <1>12, <1>13, <1>14, <1>15 DEF Next

(***************************************************************************)
(* SyncedPool implements AtomicStore: wherever a crash interrupts a flush, *)
(* a restart that NewSyncedPool accepts brings back what one flush saved,  *)
(* in all databases.                                                       *)
(***************************************************************************)
THEOREM Implements == Spec => StoreSpec
  <1>1. Init => Store!Init
    BY InitStore
  <1>2. IInv /\ [Next]_vars => [Store!Next]_(Store!vars)
    BY StepStore
  <1> QED
    BY <1>1, <1>2, IInvHolds, PTL DEF Spec, StoreSpec, Store!Spec
=============================================================================
