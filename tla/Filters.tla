------------------------------- MODULE Filters -------------------------------
(***************************************************************************)
(* The filter API: gossip/filters/filter_system.go and the subscribing      *)
(* half of gossip/filters/api.go.                                           *)
(*                                                                         *)
(* One loop (eventLoop) takes events off three buffered channels and        *)
(* writes each to the unbuffered channel of every matching subscription,    *)
(* one after the other.  A polled filter (NewBlockFilter, NewFilter,        *)
(* NewPendingTransactionFilter) has a goroutine that moves what arrives     *)
(* into api.filters under filtersMu; a pushed one (NewHeads, Logs,          *)
(* NewPendingTransactions) has a goroutine that notifies the client.        *)
(* timeoutLoop holds filtersMu while it unsubscribes filters nobody polls.  *)
(*                                                                         *)
(* An event is a number, in the order the chain posts them; what it is      *)
(* (a header, hashes, logs) does not matter here, only who wants it.        *)
(***************************************************************************)
EXTENDS Naturals, Sequences, FiniteSets

CONSTANTS Filter,       \* the filters clients create
          Polled,       \* those read with GetFilterChanges; the others are pushed
          Type,         \* the channels: txsCh, logsCh, blocksCh
          TypeOf,       \* [Filter -> Type]: subscription.typ
          EventType,    \* the type of each event, a sequence
          Matches,      \* [Filter -> SUBSET event numbers]: filterLogs
          ChanSize      \* txChanSize, logsChanSize, blocksChanSize

VARIABLES posted,    \* number of events the chain has posted
          chan,      \* [Type -> Seq(event)]
          index,     \* eventLoop's filterIndex: the installed subscriptions
          loop,      \* <<>>, or <<[ev, todo]>> while it broadcasts
          stopped,   \* eventLoop has returned
          filters,   \* api.filters: [Filter -> <<>> or <<[hashes, expired]>>]
          pc,        \* where the goroutine of each filter is
          held,      \* the event it has received and not stored yet
          unsub,     \* Unsubscribe of each filter: "no", "sending" or "done"
          scan,      \* what timeoutLoop still has to unsubscribe
          locked,    \* timeoutLoop holds filtersMu
          due,       \* ghost: the events taken for each filter since it was installed
          told       \* ghost: the events its client was given

fvars == <<posted, chan, index, loop, stopped, filters, pc, held, unsub, scan,
           locked, due, told>>

api == <<filters, scan, locked>>

Init ==
  /\ posted = 0
  /\ chan = [t \in Type |-> <<>>]
  /\ index = {}
  /\ loop = <<>>
  /\ stopped = FALSE
  /\ filters = [f \in Filter |-> <<>>]
  /\ pc = [f \in Filter |-> "none"]
  /\ held = [f \in Filter |-> <<>>]
  /\ unsub = [f \in Filter |-> "no"]
  /\ scan = {}
  /\ locked = FALSE
  /\ due = [f \in Filter |-> <<>>]
  /\ told = [f \in Filter |-> <<>>]

------------------------------------------------------------------------------
(* The chain: applyBlock sends to the feeds, which block on a full channel. *)

Post ==
  LET e == posted + 1
      t == EventType[e]
  IN /\ e <= Len(EventType)
     /\ Len(chan[t]) < ChanSize
     /\ posted' = e
     /\ chan' = [chan EXCEPT ![t] = Append(@, e)]
     /\ UNCHANGED <<index, loop, stopped, pc, held, unsub, due, told, api>>

------------------------------------------------------------------------------
(* eventLoop *)

Idle == loop = <<>> /\ ~stopped

Broadcasting(e, todo) ==
  IF todo = {} THEN <<>> ELSE <<[ev |-> e, todo |-> todo]>>

Take(t) ==
  /\ Idle
  /\ chan[t] # <<>>
  /\ LET e == Head(chan[t])
         to == {f \in index : TypeOf[f] = t /\ e \in Matches[f]}
     IN /\ loop' = Broadcasting(e, to)
        /\ due' = [f \in Filter |-> IF f \in to THEN Append(due[f], e) ELSE due[f]]
  /\ chan' = [chan EXCEPT ![t] = Tail(@)]
  /\ UNCHANGED <<posted, index, stopped, pc, held, unsub, told, api>>

\* The filter's goroutine receives; a pushed one notifies its client at once.
Deliver(f) ==
  /\ loop # <<>>
  /\ f \in loop[1].todo
  /\ pc[f] = "select"
  /\ loop' = Broadcasting(loop[1].ev, loop[1].todo \ {f})
  /\ IF f \in Polled
     THEN /\ pc' = [pc EXCEPT ![f] = "append"]
          /\ held' = [held EXCEPT ![f] = <<loop[1].ev>>]
          /\ UNCHANGED told
     ELSE /\ told' = [told EXCEPT ![f] = Append(@, loop[1].ev)]
          /\ UNCHANGED <<pc, held>>
  /\ UNCHANGED <<posted, chan, index, stopped, unsub, due, api>>

\* Mutant: Unsubscribe does not read the channel of headers.
DrainNoHeaders(f) ==
  /\ loop # <<>>
  /\ f \in loop[1].todo
  /\ TypeOf[f] # "blocks"
  /\ unsub[f] = "sending"
  /\ loop' = Broadcasting(loop[1].ev, loop[1].todo \ {f})
  /\ UNCHANGED <<posted, chan, index, stopped, pc, held, unsub, due, told, api>>

\* Unsubscribe reads the filter's channel itself and throws the event away.
Drain(f) ==
  /\ loop # <<>>
  /\ f \in loop[1].todo
  /\ unsub[f] = "sending"
  /\ loop' = Broadcasting(loop[1].ev, loop[1].todo \ {f})
  /\ UNCHANGED <<posted, chan, index, stopped, pc, held, unsub, due, told, api>>

Install(f) ==
  /\ Idle
  /\ pc[f] = "install"
  /\ index' = index \cup {f}
  /\ pc' = [pc EXCEPT ![f] = IF f \in Polled THEN "register" ELSE "select"]
  /\ UNCHANGED <<posted, chan, loop, stopped, held, unsub, due, told, api>>

\* close(f.err): Unsubscribe returns.
Uninstall(f) ==
  /\ Idle
  /\ unsub[f] = "sending"
  /\ index' = index \ {f}
  /\ unsub' = [unsub EXCEPT ![f] = "done"]
  /\ UNCHANGED <<posted, chan, loop, stopped, pc, held, due, told, api>>

\* A subscription's Err() fires: the node stops.
Stop ==
  /\ Idle
  /\ stopped' = TRUE
  /\ UNCHANGED <<posted, chan, index, loop, pc, held, unsub, due, told, api>>

------------------------------------------------------------------------------
(* The goroutines of the filters, and the calls of their clients *)

Create(f) ==
  /\ pc[f] = "none"
  /\ pc' = [pc EXCEPT ![f] = "install"]
  /\ UNCHANGED <<posted, chan, index, loop, stopped, held, unsub, due, told, api>>

\* Only after this does the goroutine start to read the channel.
Register(f) ==
  /\ pc[f] = "register"
  /\ ~locked
  /\ filters' = [filters EXCEPT ![f] = <<[hashes |-> <<>>, expired |-> FALSE]>>]
  /\ pc' = [pc EXCEPT ![f] = "select"]
  /\ UNCHANGED <<posted, chan, index, loop, stopped, held, unsub, scan, locked, due, told>>

\* Mutant: the event replaces those not polled yet.
StoreReplaces(f) ==
  /\ pc[f] = "append"
  /\ ~locked
  /\ filters' = [filters EXCEPT ![f] =
       IF @ = <<>> THEN @ ELSE <<[@[1] EXCEPT !.hashes = held[f]]>>]
  /\ held' = [held EXCEPT ![f] = <<>>]
  /\ pc' = [pc EXCEPT ![f] = "select"]
  /\ UNCHANGED <<posted, chan, index, loop, stopped, unsub, scan, locked, due, told>>

Store(f) ==
  /\ pc[f] = "append"
  /\ ~locked
  /\ filters' = [filters EXCEPT ![f] =
       IF @ = <<>> THEN @ ELSE <<[@[1] EXCEPT !.hashes = @ \o held[f]]>>]
  /\ held' = [held EXCEPT ![f] = <<>>]
  /\ pc' = [pc EXCEPT ![f] = "select"]
  /\ UNCHANGED <<posted, chan, index, loop, stopped, unsub, scan, locked, due, told>>

\* The goroutine sees Err() closed.
Cleanup(f) ==
  /\ f \in Polled
  /\ pc[f] = "select"
  /\ unsub[f] = "done"
  /\ ~locked
  /\ filters' = [filters EXCEPT ![f] = <<>>]
  /\ pc' = [pc EXCEPT ![f] = "done"]
  /\ UNCHANGED <<posted, chan, index, loop, stopped, held, unsub, scan, locked, due, told>>

GetFilterChanges(f) ==
  /\ filters[f] # <<>>
  /\ ~locked
  /\ told' = [told EXCEPT ![f] = @ \o filters[f][1].hashes]
  /\ filters' = [filters EXCEPT ![f] = <<[hashes |-> <<>>, expired |-> FALSE]>>]
  /\ UNCHANGED <<posted, chan, index, loop, stopped, pc, held, unsub, scan, locked, due>>

UninstallFilter(f) ==
  /\ filters[f] # <<>>
  /\ ~locked
  /\ filters' = [filters EXCEPT ![f] = <<>>]
  /\ unsub' = [unsub EXCEPT ![f] = IF @ = "no" THEN "sending" ELSE @]
  /\ UNCHANGED <<posted, chan, index, loop, stopped, pc, held, scan, locked, due, told>>

\* The client of a pushed filter cancels it or disconnects: the goroutine
\* that read its channel is now in Unsubscribe.
Cancel(f) ==
  /\ f \notin Polled
  /\ pc[f] = "select"
  /\ pc' = [pc EXCEPT ![f] = "done"]
  /\ unsub' = [unsub EXCEPT ![f] = "sending"]
  /\ UNCHANGED <<posted, chan, index, loop, stopped, held, due, told, api>>

------------------------------------------------------------------------------
(* timeoutLoop *)

Expire(f) ==
  /\ filters[f] # <<>>
  /\ ~filters[f][1].expired
  /\ filters' = [filters EXCEPT ![f][1].expired = TRUE]
  /\ UNCHANGED <<posted, chan, index, loop, stopped, pc, held, unsub, scan, locked, due, told>>

Tick ==
  /\ ~locked
  /\ scan' = {f \in Filter : filters[f] # <<>> /\ filters[f][1].expired}
  /\ scan' # {}
  /\ locked' = TRUE
  /\ UNCHANGED <<posted, chan, index, loop, stopped, filters, pc, held, unsub, due, told>>

\* f.s.Unsubscribe(), with filtersMu held
TimeoutUnsubscribe(f) ==
  /\ f \in scan
  /\ \A g \in scan : unsub[g] # "sending"
  /\ unsub[f] = "no"
  /\ unsub' = [unsub EXCEPT ![f] = "sending"]
  /\ UNCHANGED <<posted, chan, index, loop, stopped, pc, held, due, told, api>>

TimeoutDelete(f) ==
  /\ f \in scan
  /\ unsub[f] = "done"
  /\ filters' = [filters EXCEPT ![f] = <<>>]
  /\ scan' = scan \ {f}
  /\ locked' = (scan' # {})
  /\ UNCHANGED <<posted, chan, index, loop, stopped, pc, held, unsub, due, told>>

------------------------------------------------------------------------------
\* What runs by itself: the loops and the goroutines.
System(f) ==
  \/ Deliver(f) \/ Drain(f) \/ Install(f) \/ Uninstall(f)
  \/ Register(f) \/ Store(f) \/ Cleanup(f)

Clients(f) ==
  Create(f) \/ GetFilterChanges(f) \/ UninstallFilter(f) \/ Cancel(f)

Timeouts(f) ==
  Expire(f) \/ TimeoutUnsubscribe(f) \/ TimeoutDelete(f)

Next ==
  \/ Post \/ Stop \/ Tick
  \/ \E t \in Type : Take(t)
  \/ \E f \in Filter : System(f) \/ Clients(f) \/ Timeouts(f)

\* Go runs every goroutine that can run, and a select with several ready
\* cases takes each of them in the end.
Fairness ==
  /\ \A t \in Type : WF_fvars(Take(t))
  /\ \A f \in Filter : /\ WF_fvars(System(f))
                       /\ WF_fvars(TimeoutUnsubscribe(f) \/ TimeoutDelete(f))

Spec == Init /\ [][Next]_fvars /\ Fairness

------------------------------------------------------------------------------
\* What eventLoop still has in hand for f.
InLoop(f) ==
  IF loop # <<>> /\ f \in loop[1].todo THEN <<loop[1].ev>> ELSE <<>>

\* While a filter is in use, its client has been given, or will find at its
\* next poll, exactly the events taken for it since eventLoop installed it, in
\* order: none falls between the installation and the registration in
\* api.filters, between the goroutine's receive and its append, or between two
\* polls (NewBlockFilter, NewHeads, GetFilterChanges).
DeliveredInOrder ==
  \A f \in Filter :
    /\ f \in Polled /\ filters[f] # <<>> /\ unsub[f] = "no" =>
         told[f] \o filters[f][1].hashes \o held[f] \o InLoop(f) = due[f]
    /\ f \notin Polled /\ unsub[f] = "no" => told[f] \o InLoop(f) = due[f]

\* Unsubscribe comes back unless the whole system stops: it reads the events
\* that eventLoop is blocked on for it, so the two never wait for each other
\* (Subscription.Unsubscribe).
UnsubscribeReturns ==
  \A f \in Filter : unsub[f] = "sending" ~> (unsub[f] = "done" \/ stopped)
==============================================================================
