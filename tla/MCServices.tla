----------------------------- MODULE MCServices -----------------------------
(***************************************************************************)
(* Services of a node that run in goroutines of their own, small instances *)
(* of which one is picked at the start:                                    *)
(*   timeouts  a filter that is polled, and may time out, and one that is  *)
(*             pushed;                                                     *)
(*   polls     two filters that are polled, and no timeouts;               *)
(*   logs      logs are indexed and searched;                              *)
(*   validate  events are checked while the epoch changes;                 *)
(*   decode    headers of events are encoded and decoded;                  *)
(*   both      two filters that are polled, and may time out (only in the  *)
(*             run of MCServicesTimeout.cfg).                              *)
(* Only the variables of the picked component change.                      *)
(***************************************************************************)
EXTENDS HeavyCheck

VARIABLES
    scenario,
    posted, chan, index, eventLoop, stopped, filters, pc, held, unsub, scan, locked, due, told,
    topicT, otherT, logrecT, puts, pushed, query, lookups, work, recs, answer, panicked, before,
    header, spelling, wire, phase, out

filterVars == <<posted, chan, index, eventLoop, stopped, filters, pc, held, unsub, scan, locked,
                due, told>>
logVars == <<topicT, otherT, logrecT, puts, pushed, query, lookups, work, recs, answer, panicked,
             before>>
wireVars == <<header, spelling, wire, phase, out>>
mcvars == <<scenario, vars, filterVars, logVars, wireVars>>

-----------------------------------------------------------------------------
MCFilter == {1, 2, 3}
MCType == {"blocks", "logs"}

TheFilters == INSTANCE Filters WITH
    loop <- eventLoop,
    Filter <- MCFilter, Polled <- {1, 2}, Type <- MCType,
    TypeOf <- <<"blocks", "blocks", "blocks">>, EventType <- <<"blocks", "blocks">>,
    Matches <- <<{1, 2}, {1, 2}, {1, 2}>>, ChanSize <- 1

\* The filters of the scenario, and whether timeoutLoop runs.
InScenario ==
    \/ scenario = "timeouts" /\ pc'[2] = "none"
    \/ scenario = "polls" /\ pc'[3] = "none" /\ ~locked'
    \/ scenario = "both" /\ pc'[3] = "none"

MCLogOf ==
    <<[block |-> 1, addr |-> "a", topics |-> <<1, 2>>],
      [block |-> 1, addr |-> "b", topics |-> <<1>>],
      [block |-> 2, addr |-> "a", topics |-> <<2, 2>>]>>

Query(topics, addrs, begin, end) ==
    [topics |-> topics, addrs |-> addrs, begin |-> begin, end |-> end]

\* Topics with wildcards and alternatives; addresses; ranges up to the latest block (-1).
MCQueries ==
    {Query(topics, {}, 0, 2) : topics \in UNION {[1..n -> {<<>>, <<1>>, <<2>>, <<1, 2>>}] : n \in 1..2}}
    \cup {Query(<<<<1>>>>, {"a"}, -1, -1), Query(<<<<>>>>, {"b"}, 1, -1),
          Query(<<<<1>>, <<>>, <<>>>>, {}, 0, -1)}

Logs == INSTANCE LogIndex WITH LogOf <- MCLogOf, Queries <- MCQueries

\* "b" is a validator of epoch 2 only; event 3 is not signed by its creator.
MCBatches == [p |-> <<2>>, q |-> <<1, 2, 3>>]
MCEpochOf == <<1, 2, 2>>
MCCreatorOf == <<"a", "b", "b">>
MCSignerOf == <<"ka", "kb", "ka">>
MCKeys == <<[a |-> "ka"], [a |-> "ka", b |-> "kb"]>>

Header(f64, f32, parents, prev, tx, extra) ==
    [fields64 |-> f64, fields32 |-> f32, isRoot |-> f64[1] = 0,
     parents |-> [i \in DOMAIN parents |-> [epoch |-> f32[1], tail |-> parents[i]]],
     prevEpochHash |-> prev, txHash |-> tx, extra |-> extra]

\* Integers of every width, among them the largest; hashes and extra bytes with zeros.
MCHeaders ==
    {Header(<<a, b>>, <<c, 16^3, 1>>, parents, prev, tx, extra) :
        a \in {0, 16, 16^5 - 1}, b \in {15, 16^4}, c \in {1, 16^4 - 1},
        parents \in {<<>>, <<<<0>>, <<5>>>>}, prev \in {<<0, 0>>, <<0, 7>>},
        tx \in {<<3, 4>>, <<0, 0>>}, extra \in {<<>>, <<0>>, <<9, 0>>}}

Wire == INSTANCE Serializer WITH
    ByteBits <- 4, Size64 <- 5, Headers <- MCHeaders, HashLength <- 2, EmptyTxHash <- <<3, 4>>

-----------------------------------------------------------------------------
Filtering == scenario \in {"timeouts", "polls", "both"}

MCNext ==
    \/ /\ Filtering /\ TheFilters!Next /\ InScenario
       /\ UNCHANGED <<scenario, logVars, vars, wireVars>>
    \/ /\ scenario = "logs" /\ Logs!Next
       /\ UNCHANGED <<scenario, filterVars, vars, wireVars>>
    \/ /\ scenario = "validate" /\ Next
       /\ UNCHANGED <<scenario, filterVars, logVars, wireVars>>
    \/ /\ scenario = "decode" /\ Wire!Next
       /\ UNCHANGED <<scenario, filterVars, logVars, vars>>

\* The fairness of Filters, where it runs.
MCFairness ==
    /\ \A t \in MCType : WF_filterVars(Filtering /\ TheFilters!Take(t))
    /\ \A f \in MCFilter :
          /\ WF_filterVars(Filtering /\ TheFilters!System(f))
          /\ WF_filterVars(Filtering /\ (TheFilters!TimeoutUnsubscribe(f) \/ TheFilters!TimeoutDelete(f)))

AllInit ==
    /\ TheFilters!Init /\ Logs!Init /\ Init
    /\ \/ scenario = "decode" /\ Wire!Init
       \/ /\ scenario # "decode"
          /\ header = <<>> /\ spelling = <<>> /\ wire = <<>> /\ phase = "new" /\ out = <<>>

MCInit == scenario \in {"timeouts", "polls", "logs", "validate", "decode"} /\ AllInit

MCSpec == MCInit /\ [][MCNext]_mcvars /\ MCFairness

BothInit == scenario = "both" /\ AllInit

BothSpec == BothInit /\ [][MCNext]_mcvars /\ MCFairness

-----------------------------------------------------------------------------
(***************************************************************************)
(* The client of a filter gets the events since its installation, each     *)
(* once and in order (DeliveredInOrder of Filters).                        *)
(***************************************************************************)
DeliveredInOrder == Filtering => TheFilters!DeliveredInOrder

(***************************************************************************)
(* Unsubscribe and eventLoop never wait for each other (UnsubscribeReturns *)
(* of Filters).                                                            *)
(***************************************************************************)
UnsubscribeReturns == TheFilters!UnsubscribeReturns

(***************************************************************************)
(* A search in the index finds what a scan of the blocks finds             *)
(* (IndexedIsScan of LogIndex).                                            *)
(***************************************************************************)
IndexedIsScan == scenario = "logs" => Logs!IndexedIsScan

(***************************************************************************)
(* UnmarshalBinary reads what MarshalBinary writes, and of other spellings *)
(* of a header a few, as that header (RoundTrip of Serializer).            *)
(***************************************************************************)
RoundTrip == scenario = "decode" => Wire!RoundTrip

=============================================================================
