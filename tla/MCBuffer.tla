------------------------------ MODULE MCBuffer ------------------------------
(***************************************************************************)
(* What must come to an end when events come in, on two small instances of *)
(* which one is picked at the start:                                       *)
(*   buffer  events of three epochs are pushed into the buffer in any      *)
(*           order; an event of another node ends the first epoch, one of  *)
(*           this node the second; "w" is wrong, "o" and "p" are made by   *)
(*           this node;                                                    *)
(*   fetch   a peer announces an event and its parent to the fetcher; the  *)
(*           event may arrive before it, be dropped or be lost.            *)
(***************************************************************************)
EXTENDS EventBuffer

VARIABLES
    scenario,
    handler, notify, tasks, inject, loop, announces, announced, fetching, fetchingTime,
    timer, fired, known

fetcherVars == <<handler, notify, tasks, inject, loop, announces, announced, fetching,
                 fetchingTime, timer, fired, known>>

F == INSTANCE Fetcher WITH
    Event <- {"a", "b"}, Parents <- [a |-> {}, b |-> {"a"}], Peer <- {"peer"},
    Batches <- {<<"a">>, <<"b">>},
    HashLimit <- 2, MaxQueuedAnns <- 2, MaxQueuedInjects <- 1, MaxQueuedTasks <- 1,
    ArriveTimeout <- 1, FetchTimeout <- 1, ForgetTimeout <- 2

MCParents == [
    a |-> <<>>, b |-> <<"a">>, o |-> <<"a">>, c |-> <<"b", "o">>, w |-> <<"b">>,
    s |-> <<"c", "b">>,
    x |-> <<>>, y |-> <<"x">>, p |-> <<"x">>,
    u |-> <<>>]

MCEvent == DOMAIN MCParents

MCEpochOf ==
    [e \in MCEvent |->
       CASE e \in {"x", "y", "p"} -> 2
         [] e = "u" -> 3
         [] OTHER -> 1]

MCInit == scenario \in {"buffer", "fetch"} /\ Init /\ F!Init

BufferNext == scenario = "buffer" /\ Next /\ UNCHANGED <<fetcherVars, scenario>>

\* Bounds: only "b" is sent by the peer, no event is evicted from the buffer.
FetcherNext ==
    /\ scenario = "fetch" /\ F!Next /\ UNCHANGED <<vars, scenario>>
    /\ Len(tasks') > Len(tasks) => Last(tasks').event = "b"
    /\ known \subseteq known'

MCNext == BufferNext \/ FetcherNext

\* The fairness of the two specifications.  That of ProcessTimer is stated with its guard,
\* under which it always changes the state.
MCFairness ==
    /\ WF_vars(scenario = "buffer" /\ PushSteps)
    /\ WF_fetcherVars(scenario = "fetch" /\ F!Tick)
    /\ WF_fetcherVars(scenario = "fetch" /\ F!NotifySelf)
    /\ []<>(scenario = "fetch" /\ loop = <<>> /\ fired) => []<><<F!ProcessTimer>>_fetcherVars

MCSpec == MCInit /\ [][MCNext]_<<vars, fetcherVars, scenario>> /\ MCFairness

(***************************************************************************)
(* Every announced event is let go in the end, by arrival or by            *)
(* forgetTimeout, with no further message (LetGo of Fetcher).              *)
(***************************************************************************)
FetcherLetsGo == F!LetGo
=============================================================================
