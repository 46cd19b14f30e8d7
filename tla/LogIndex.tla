------------------------------- MODULE LogIndex -------------------------------
(***************************************************************************)
(* The index of contract logs (topicsdb) and the queries on it              *)
(* (gossip/filters/filter.go).                                              *)
(*                                                                         *)
(* Push writes the rows of a log one by one: for each topic a row of Topic  *)
(* and a row of Other, then the row of Logrec.  Find (fetchAsync) looks up  *)
(* every alternative of every condition, counts the conditions each log     *)
(* has met, and lets one goroutine per log fetch the rest of it as soon as  *)
(* the count is complete.  The application pushes while it delivers the     *)
(* transactions of a block; clients query at any time, with no lock.        *)
(***************************************************************************)
EXTENDS Integers, Sequences, FiniteSets

CONSTANTS LogOf,     \* the logs, in the order they are pushed: records
                     \* [block, addr, topics]; the position is the log's ID
          Queries    \* records [topics, addrs, begin, end]; -1 is "latest"

Id == 1 .. Len(LogOf)

VARIABLES topicT,    \* table Topic: rows <<topic, pos, id, topicCount>>
          otherT,    \* table Other: rows <<id, pos, topic>>
          logrecT,   \* table Logrec: the ids that have a row
          puts,      \* rows that Push still has to write
          pushed,    \* number of logs pushed completely
          query,     \* <<>>, or <<the query being run>>
          lookups,   \* the <<pos, alternative>> pairs still to look up
          work,      \* rows read and not counted yet: <<id, topicCount>>
          recs,      \* [Id -> <<>> or <<logrecBuilder>>]
          answer,    \* <<>>, or <<the set of logs found>>
          panicked,  \* a goroutine indexed an empty Logrec row
          before     \* ghost: the logs pushed when the query began

ltables == <<topicT, otherT, logrecT, puts, pushed>>
lfind == <<query, lookups, work, recs, answer, panicked>>
lvars == <<ltables, lfind, before>>

Init ==
  /\ topicT = {} /\ otherT = {} /\ logrecT = {}
  /\ puts = <<>>
  /\ pushed = 0
  /\ query = <<>>
  /\ lookups = <<>>
  /\ work = <<>>
  /\ recs = [i \in Id |-> <<>>]
  /\ answer = <<>>
  /\ panicked = FALSE
  /\ before = 0

------------------------------------------------------------------------------
(* Push *)

Rows(i) ==
  LET n == Len(LogOf[i].topics) IN
  [k \in 1 .. 2*n + 1 |->
     LET pos == (k + 1) \div 2 IN
     IF k > 2*n THEN [table |-> "r", row |-> <<i>>]
     ELSE IF k % 2 = 1
          THEN [table |-> "t", row |-> <<LogOf[i].topics[pos], pos, i, n>>]
          ELSE [table |-> "o", row |-> <<i, pos, LogOf[i].topics[pos]>>]]

Push ==
  /\ ~panicked
  /\ puts = <<>>
  /\ pushed < Len(LogOf)
  /\ puts' = Rows(pushed + 1)
  /\ UNCHANGED <<topicT, otherT, logrecT, pushed, before>>
  /\ UNCHANGED lfind

PutRow ==
  /\ ~panicked
  /\ puts # <<>>
  /\ LET p == Head(puts) IN
     /\ topicT' = IF p.table = "t" THEN topicT \cup {p.row} ELSE topicT
     /\ otherT' = IF p.table = "o" THEN otherT \cup {p.row} ELSE otherT
     /\ logrecT' = IF p.table = "r" THEN logrecT \cup {p.row[1]} ELSE logrecT
  /\ puts' = Tail(puts)
  /\ pushed' = IF puts' = <<>> THEN pushed + 1 ELSE pushed
  /\ UNCHANGED <<lfind, before>>

------------------------------------------------------------------------------
(* filter.go: Logs, filterLogs *)

\* filterLogs on one log, within the blocks b .. e
filterLogs(l, b, e, addrs, topics) ==
  /\ l.block >= b /\ l.block <= e
  /\ addrs # {} => l.addr \in addrs
  /\ Len(topics) <= Len(l.topics)
  /\ \A p \in DOMAIN topics :
       topics[p] = <<>> \/ \E k \in DOMAIN topics[p] : topics[p][k] = l.topics[p]

isEmpty(topics) == \A p \in DOMAIN topics : topics[p] = <<>>

\* HeaderByNumber(latest) takes engineMu, which is held while a block is delivered ...
BetweenBlocks ==
  /\ puts = <<>>
  /\ pushed \notin {0, Len(LogOf)} => LogOf[pushed].block # LogOf[pushed + 1].block

\* ... and finds the last block, whose logs are all delivered.
HeadBlock == IF pushed = 0 THEN 0 ELSE LogOf[pushed].block

From(q) == IF q.begin = -1 THEN HeadBlock ELSE q.begin
To(q) == IF q.end = -1 THEN HeadBlock ELSE q.end

\* unindexedLogs: the receipts of each block up to the head
unindexedLogs(q) ==
  {i \in 1 .. pushed : filterLogs(LogOf[i], From(q), To(q), q.addrs, q.topics)}

------------------------------------------------------------------------------
(* Find: fetchAsync *)

\* The <<pos, alternative>> pairs in the order of the two loops
Lookups(topics) ==
  LET Flat[p \in 0 .. Len(topics)] ==
        IF p = 0 THEN <<>>
        ELSE Flat[p-1] \o [k \in 1 .. Len(topics[p]) |-> <<p, topics[p][k]>>]
  IN Flat[Len(topics)]

\* Mutant: wildcards are not counted as conditions met.
NoWildcards == 0

wildcards == Cardinality({p \in DOMAIN query[1].topics : query[1].topics[p] = <<>>})

Logs(q) ==
  /\ query = <<>>
  /\ answer = <<>>
  /\ BetweenBlocks
  /\ IF isEmpty(q.topics)
     THEN answer' = <<unindexedLogs(q)>> /\ UNCHANGED lookups
     ELSE lookups' = Lookups(q.topics) /\ UNCHANGED answer
  /\ query' = <<[q EXCEPT !.begin = From(q), !.end = To(q)]>>
  /\ before' = pushed
  /\ UNCHANGED <<ltables, work, recs, panicked>>

Searching == query # <<>> /\ answer = <<>> /\ ~panicked

\* The rows with the prefix topic+pos, in the order of the log's ID
LookUp ==
  /\ Searching
  /\ work = <<>> /\ lookups # <<>>
  /\ LET pos == Head(lookups)[1]
         topic == Head(lookups)[2]
         hits == {r \in topicT : r[1] = topic /\ r[2] = pos}
     IN work' = SelectSeq([i \in Id |-> <<i, {r[4] : r \in {h \in hits : h[3] = i}}>>],
                          LAMBDA w : w[2] # {})
  /\ lookups' = Tail(lookups)
  /\ UNCHANGED <<ltables, query, recs, answer, panicked, before>>

newLogrecBuilder(count) ==
  [conditions |-> Len(query[1].topics), topics |-> [p \in 1 .. count |-> 0],
   ok |-> 0, go |-> "wait", counted |-> FALSE, built |-> FALSE]

\* The capacity of rec.ok
OkSize == 1

\* A send on rec.ok goes to the waiting goroutine or into the buffer.
CanSend(r) == r.go = "wait" \/ r.ok < OkSize

Send(r) ==
  IF r.go = "wait" THEN [r EXCEPT !.go = "others"] ELSE [r EXCEPT !.ok = @ + 1]

MatchedWith(r, count) ==
  IF r.conditions > count THEN [r EXCEPT !.conditions = @ - count]
  ELSE Send([r EXCEPT !.conditions = 0])

MayMatch(r, count) == r.conditions > count \/ CanSend(r)

CountRow ==
  /\ Searching
  /\ work # <<>>
  /\ LET i == Head(work)[1]
         n == CHOOSE c \in Head(work)[2] : TRUE
         r == IF recs[i] = <<>> THEN newLogrecBuilder(n) ELSE recs[i][1]
     IN /\ MayMatch(r, 1)
        /\ recs' = [recs EXCEPT ![i] = <<MatchedWith(r, 1)>>]
  /\ work' = Tail(work)
  /\ UNCHANGED <<ltables, query, lookups, answer, panicked, before>>

Collecting == Searching /\ work = <<>> /\ lookups = <<>>

\* The last loop, one log at a time: the wildcards count too ...
CountWildcardsOf(i) ==
  /\ Collecting
  /\ recs[i] # <<>> /\ ~recs[i][1].counted
  /\ \A j \in Id : recs[j] # <<>> /\ recs[j][1].counted =>
       recs[j][1].built \/ recs[j][1].conditions # 0
  /\ MayMatch(recs[i][1], wildcards)
  /\ recs' = [recs EXCEPT ![i] = <<[MatchedWith(@[1], wildcards) EXCEPT !.counted = TRUE]>>]
  /\ UNCHANGED <<ltables, query, lookups, work, answer, panicked, before>>

\* ... and Build waits for the goroutine of a log that met all conditions.
Build(i) ==
  /\ Collecting
  /\ recs[i] # <<>> /\ recs[i][1].counted /\ ~recs[i][1].built
  /\ recs[i][1].conditions = 0
  /\ recs[i][1].go = "ready"
  /\ recs' = [recs EXCEPT ![i][1].built = TRUE, ![i][1].go = "done"]
  /\ UNCHANGED <<ltables, query, lookups, work, answer, panicked, before>>

\* indexedLogs filters what the index returned.  StopFetch ends the goroutines.
Finish ==
  /\ Collecting
  /\ \A i \in Id : recs[i] # <<>> =>
       recs[i][1].counted /\ (recs[i][1].built \/ recs[i][1].conditions # 0)
  /\ LET q == query[1]
         Found(i) == [LogOf[i] EXCEPT !.topics = recs[i][1].topics]
     IN answer' = <<{i \in Id : /\ recs[i] # <<>> /\ recs[i][1].built
                                /\ filterLogs(Found(i), q.begin, q.end, q.addrs, q.topics)}>>
  /\ recs' = [i \in Id |-> <<>>]
  /\ UNCHANGED <<ltables, query, lookups, work, panicked, before>>

Return ==
  /\ answer # <<>>
  /\ query' = <<>> /\ answer' = <<>>
  /\ before' = 0
  /\ UNCHANGED <<ltables, lookups, work, recs, panicked>>

------------------------------------------------------------------------------
(* Fetch, in the goroutine of log i *)

FetchOthers(i) ==
  /\ ~panicked
  /\ recs[i] # <<>> /\ recs[i][1].go = "others"
  /\ recs' = [recs EXCEPT
       ![i][1].go = "fields",
       ![i][1].topics = [p \in DOMAIN @ |->
          IF \E r \in otherT : r[1] = i /\ r[2] = p
          THEN (CHOOSE r \in otherT : r[1] = i /\ r[2] = p)[3] ELSE 0]]
  /\ UNCHANGED <<ltables, query, lookups, work, answer, panicked, before>>

\* A missing row is nil, and slicing it panics.
FetchFields(i) ==
  /\ ~panicked
  /\ recs[i] # <<>> /\ recs[i][1].go = "fields"
  /\ panicked' = (i \notin logrecT)
  /\ recs' = [recs EXCEPT ![i][1].go = "ready"]
  /\ UNCHANGED <<ltables, query, lookups, work, answer, before>>

------------------------------------------------------------------------------
Search ==
  \/ LookUp \/ CountRow \/ Finish
  \/ \E i \in Id : CountWildcardsOf(i) \/ Build(i) \/ FetchOthers(i) \/ FetchFields(i)

Next ==
  \/ Push \/ PutRow
  \/ \E q \in Queries : Logs(q)
  \/ Search \/ Return

Spec == Init /\ [][Next]_lvars

------------------------------------------------------------------------------
Meets(q, l) ==
  /\ q.begin <= l.block /\ l.block <= q.end
  /\ q.addrs = {} \/ l.addr \in q.addrs
  /\ \A p \in DOMAIN q.topics :
       /\ p \in DOMAIN l.topics
       /\ q.topics[p] = <<>> \/ \E k \in DOMAIN q.topics[p] : q.topics[p][k] = l.topics[p]

\* A query answers, of the logs pushed before it began, exactly those that
\* meet it, whichever way it takes and whatever is pushed meanwhile: the
\* index, where wildcards and conditions are only counted and every log is
\* put together from three tables, finds what a scan of all blocks finds.  A
\* log pushed meanwhile may be found or not, and is found only if it meets the
\* query.  (A search that meets a log with no Logrec row yet answers nothing:
\* its goroutine panics, see FetchFields.)
\* (Filter.Logs, Index.fetchAsync, logrecBuilder.MatchedWith).
IndexedIsScan ==
  answer # <<>> =>
    LET met == {i \in Id : Meets(query[1], LogOf[i])} IN
    answer[1] \subseteq met /\ met \cap 1 .. before \subseteq answer[1]

==============================================================================
