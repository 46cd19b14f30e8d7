------------------------------ MODULE KvStore ------------------------------
(***************************************************************************)
(* A table of a Flushable: kvdb/flushable/flushable.go over a database as  *)
(* kvdb/memorydb, seen through kvdb/table.  The writes not yet flushed are *)
(* in a tree (modified), where a deleted key stays with no value; an       *)
(* iterator merges the live tree with a snapshot of the database while the *)
(* store changes under it.                                                 *)
(*                                                                         *)
(* Keys are numbers in their lexicographic order; the keys with a prefix   *)
(* are those between two numbers.                                          *)
(***************************************************************************)
EXTENDS Integers, FiniteSets, FiniteSetsExt, Sequences, SequencesExt

CONSTANTS
    MaxKey, Value,
    Ranges,         \* the prefixes and starts that are iterated: <<first, last>>
    Table           \* the keys of the table: <<first, last>>

VARIABLES
    disk,       \* the database below: key -> value or Absent
    modified,   \* the tree: key -> value, Deleted, or Absent
    iter,       \* the iterator, or None
    writes      \* Bound: the writes and batches that are still to come

vars == <<disk, modified, iter, writes>>

Keys == 1..MaxKey
Absent == 0
Deleted == -1
None == <<>>

-----------------------------------------------------------------------------
\* Flushable.Get and Has
Get(D, M, k) == IF M[k] = Absent THEN D[k] ELSE IF M[k] = Deleted THEN Absent ELSE M[k]
View(D, M) == [k \in Keys |-> Get(D, M, k)]
EmptyTree == [k \in Keys |-> Absent]
Present(M) == {k \in Keys : M[k] # Absent}

\* The iterator's tree is the live one until that is cleared: then its nodes stay as they were.
Tree(I) == IF I.frozen = None THEN modified ELSE I.frozen[1]
Freeze == IF iter # None /\ iter[1].inited /\ iter[1].frozen = None
          THEN <<[iter[1] EXCEPT !.frozen = <<modified>>]>> ELSE iter

\* After a write, the keys that are not what they were when the iterator was made.
Touch(i, K) == IF i = None THEN i ELSE <<[i[1] EXCEPT !.touched = @ \cup K]>>

Write(k, v) ==
    /\ writes > 0
    /\ writes' = writes - 1
    /\ modified' = [modified EXCEPT ![k] = v]
    /\ iter' = Touch(iter, {k})
    /\ UNCHANGED disk
Put(k, v) == v \in Value /\ Write(k, v)
Delete(k) == Write(k, Deleted)

\* A batch is written under one lock, in its order.
WriteBatch(k, l, v) ==
    /\ writes > 0
    /\ writes' = writes - 1
    /\ modified' = [[modified EXCEPT ![k] = Deleted] EXCEPT ![l] = v]
    /\ iter' = Touch(iter, {k, l})
    /\ UNCHANGED disk

\* flush, dropNotFlushed: the tree is cleared.
Flush ==
    /\ Present(modified) # {}
    /\ disk' = View(disk, modified)
    /\ modified' = EmptyTree
    /\ iter' = IF iter # None /\ ~iter[1].inited
               THEN <<[iter[1] EXCEPT !.raced = TRUE]>> ELSE Freeze
    /\ UNCHANGED writes
DropNotFlushed ==
    /\ Present(modified) # {}
    /\ modified' = EmptyTree
    /\ iter' = Touch(Freeze, Present(modified))
    /\ UNCHANGED <<disk, writes>>

-----------------------------------------------------------------------------
(***************************************************************************)
(* The iterator.  parent, tree: the next keys of the snapshot and of the   *)
(* tree, 0 at the end.                                                     *)
(***************************************************************************)
NewIterator(r) ==
    /\ iter = None
    /\ iter' = <<[first |-> r[1], last |-> r[2], snapshot |-> disk, inited |-> FALSE,
                  frozen |-> None, parent |-> 0, tree |-> 0, prevKey |-> 0,
                  found |-> 0, value |-> Absent,
                  view |-> View(disk, modified), touched |-> {}, raced |-> FALSE, out |-> <<>>]>>
    /\ UNCHANGED <<disk, modified, writes>>

First(K) == IF K = {} THEN 0 ELSE Min(K)
Above(K, k) == First({x \in K : x > k})
ParentKeys(I) == {k \in I.first..I.last : I.snapshot[k] # Absent}

Start(I) == [I EXCEPT !.inited = TRUE, !.parent = First(ParentKeys(I)),
                      !.tree = First({k \in Present(Tree(I)) : k >= I.first})]

Yield(I, k, v) == [I EXCEPT !.found = k, !.value = v, !.prevKey = k]

\* Mutant: a deleted key does not hide the one below.
TreeStepShows(I) ==
    LET k == I.tree
        next == [I EXCEPT !.tree = Above(Present(Tree(I)), k)]
        ok == k > I.prevKey /\ k <= I.last
    IN  IF Tree(I)[k] = Deleted THEN next
        ELSE IF k > I.last THEN [I EXCEPT !.tree = 0]
        ELSE IF ok THEN Yield(next, k, Tree(I)[k]) ELSE next

\* The part of Next that looks at the tree's key; one that lacks the prefix ends the tree.
TreeStep(I) ==
    LET k == I.tree
        next == [I EXCEPT !.tree = Above(Present(Tree(I)), k)]
        ok == k > I.prevKey /\ k <= I.last
    IN  IF Tree(I)[k] = Deleted THEN [next EXCEPT !.prevKey = k]
        ELSE IF k > I.last THEN [I EXCEPT !.tree = 0]
        ELSE IF ok THEN Yield(next, k, Tree(I)[k]) ELSE next

ParentStep(I) ==
    LET next == [I EXCEPT !.parent = Above(ParentKeys(I), I.parent)]
    IN  IF I.parent > I.prevKey THEN Yield(next, I.parent, I.snapshot[I.parent]) ELSE next

RECURSIVE Advance(_)
Advance(I) ==
    IF I.found # 0 \/ (I.tree = 0 /\ I.parent = 0) THEN I
    ELSE IF I.tree # 0 /\ (I.parent = 0 \/ I.tree <= I.parent)
         THEN Advance(TreeStep(I)) ELSE Advance(ParentStep(I))

\* The table's iterator passes over keys that are not its own.
RECURSIVE TableNext(_)
TableNext(I) ==
    LET n == Advance([(IF I.inited THEN I ELSE Start(I)) EXCEPT !.found = 0])
    IN  IF n.found = 0 \/ n.found \in Table[1]..Table[2] THEN n ELSE TableNext(n)

Yielded(I) == LET n == TableNext(I) IN [n EXCEPT !.out = IF n.found = 0 THEN @ ELSE Append(@, n.found)]

(***************************************************************************)
(* A reader's loop: Next until there is no key; then the keys are deleted  *)
(* if it is dropTable, and the iterator is released.                       *)
(***************************************************************************)
ReaderNext(drop) ==
    /\ iter # None
    /\ LET n == Yielded(iter[1])
           dropped == IF drop THEN ToSet(n.out) ELSE {}
       IN  IF n.found = 0
           THEN /\ iter' = None
                /\ modified' = [k \in Keys |-> IF k \in dropped THEN Deleted ELSE modified[k]]
           ELSE /\ ~drop
                /\ iter' = <<n>>
                /\ UNCHANGED modified
    /\ UNCHANGED <<disk, writes>>

Init ==
    /\ disk \in [Keys -> {Absent} \cup Value]
    /\ modified \in [Keys -> {Absent, Deleted} \cup Value]
    /\ iter = None

Next ==
    \/ \E k \in Keys, v \in Value : Put(k, v)
    \/ \E k \in Keys : Delete(k)
    \/ \E k, l \in Keys, v \in Value : WriteBatch(k, l, v)
    \/ Flush \/ DropNotFlushed
    \/ \E r \in Ranges : NewIterator(r)
    \/ \E drop \in BOOLEAN : ReaderNext(drop)

Spec == Init /\ [][Next]_vars

-----------------------------------------------------------------------------
(***************************************************************************)
(* What an iteration yields: keys in increasing order, and of the keys     *)
(* that nobody else writes meanwhile exactly those that the store held     *)
(* when the iterator was made, with their values.  Writes to other keys,   *)
(* the deletion of keys already yielded or still to come, and a flush do   *)
(* not disturb it.  A flush between NewIterator and the first Next does:   *)
(* see raced.                                                              *)
(***************************************************************************)
IterationExact ==
    iter # None /\ ~iter[1].raced =>
        LET I == iter[1]
            n == TableNext(I)
            passed == IF n.found = 0 THEN MaxKey + 1 ELSE n.found
            own == (Max({I.first, Table[1]})..Min({I.last, Table[2]})) \ I.touched
        IN  /\ \A i \in 1..(Len(I.out) - 1) : I.out[i] < I.out[i + 1]
            /\ \A k \in own : (k \in ToSet(I.out) \/ k = n.found)
                                  => I.view[k] # Absent
            /\ \A k \in own : k < passed /\ I.view[k] # Absent => k \in ToSet(I.out)
            /\ n.found \in own => n.value = I.view[n.found]
=============================================================================
