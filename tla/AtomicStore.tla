---------------------------- MODULE AtomicStore ----------------------------
(***************************************************************************)
(* What kvdb/flushable promises to the stores built on it: databases that  *)
(* are saved together.  After a crash all of them hold what the last save  *)
(* left, except that a database dropped since then may be gone already.    *)
(***************************************************************************)
CONSTANTS Db, Content, Empty

VARIABLES
    up,     \* the process runs
    mem,    \* what the running process reads
    saved   \* what a restart brings back

vars == <<up, mem, saved>>

Init ==
    /\ up = TRUE
    /\ mem = [d \in Db |-> Empty]
    /\ saved = [d \in Db |-> Empty]

Write(d, c) ==
    /\ up
    /\ mem' = [mem EXCEPT ![d] = c]
    /\ UNCHANGED <<up, saved>>

Save ==
    /\ up
    /\ saved' = mem
    /\ UNCHANGED <<up, mem>>

LoseDropped(d) ==
    /\ up
    /\ mem[d] = Empty
    /\ saved' = [saved EXCEPT ![d] = Empty]
    /\ UNCHANGED <<up, mem>>

Crash ==
    /\ up
    /\ up' = FALSE
    /\ mem' = [d \in Db |-> Empty]
    /\ UNCHANGED saved

Restart ==
    /\ ~up
    /\ up' = TRUE
    /\ mem' = saved
    /\ UNCHANGED saved

Next ==
    \/ \E d \in Db, c \in Content : Write(d, c)
    \/ Save
    \/ \E d \in Db : LoseDropped(d)
    \/ Crash
    \/ Restart

Spec == Init /\ [][Next]_vars
=============================================================================
