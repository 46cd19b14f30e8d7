----------------------------- MODULE EventBuffer -----------------------------
(***************************************************************************)
(* gossip/ordering: events arrive in any order and are connected after     *)
(* their parents.  The loop of the fetcher pushes the events one by one;   *)
(* meanwhile the emitter connects its own events, and the handler of a new *)
(* epoch clears the buffer.                                                *)
(***************************************************************************)
EXTENDS Naturals, SequencesExt

CONSTANTS
    Event,
    Parents,     \* event -> sequence of its parents
    EpochOf,     \* event -> its epoch
    Own,         \* events that the emitter of this node makes
    Wrong,       \* events that fail Parentscheck or Gaspowercheck
    Sealing,     \* events that end their epoch when they are processed
    BuffSize     \* eventsBuffSize

ASSUME EventBufferAssumption ==
    /\ Parents \in [Event -> Seq(Event)]
    /\ EpochOf \in [Event -> Nat]
    /\ Own \subseteq Event /\ Wrong \subseteq Event \ Own /\ Sealing \subseteq Event
    /\ BuffSize \in Nat \ {0}

VARIABLES
    epoch,        \* the epoch of the engine
    processed,    \* the events that were connected, in their order
    incompletes,  \* the LRU cache, the least recently used first
    list,         \* incompleteEventsList of the running PushEvent
    stack,        \* the running calls of pushEvent
    newEpochs     \* newEpochsCh: epochs that onNewEpochLoop has not seen

vars == <<epoch, processed, incompletes, list, stack, newEpochs>>

ParentSet(e) == ToSet(Parents[e])

\* The event headers in the store: the stores of past epochs are dropped.
connected == {e \in ToSet(processed) : EpochOf[e] = epoch}

\* A call of pushEvent: the event, where it is, and the children it has
\* still to push.
Call(e) == [event |-> e, at |-> "check", children |-> <<>>]

Top == Last(stack)

Return == stack' = Front(stack)

-----------------------------------------------------------------------------
\* lru.Cache.Get: e becomes the most recently used, if it is there.
Touch(cache, e) ==
    IF Contains(cache, e) THEN Append(Remove(cache, e), e) ELSE cache

\* lru.Cache.Add evicts the least recently used.
Add(cache, e) ==
    LET added == Append(Remove(cache, e), e)
    IN  IF Len(added) > BuffSize THEN Tail(added) ELSE added

-----------------------------------------------------------------------------
\* processEvent, which may end the epoch.
Connect(e) ==
    /\ processed' = Append(processed, e)
    /\ IF e \in Sealing
       THEN /\ epoch' = epoch + 1
            /\ newEpochs' = Append(newEpochs, epoch + 1)
       ELSE UNCHANGED <<epoch, newEpochs>>

\* The events that other nodes may have made so far: they know of an event
\* of this node after it is connected.  A message with them passed the
\* epoch check when it came.
Known(e) ==
    /\ EpochOf[e] <= epoch
    /\ EpochOf[e] = epoch =>
          \A p \in ParentSet(e) \cap Own : p \in connected

PushEvent(e) ==
    /\ stack = <<>>
    /\ Known(e)
    /\ e \notin Own
    /\ list' = incompletes
    /\ stack' = <<Call(e)>>
    /\ UNCHANGED <<epoch, processed, incompletes, newEpochs>>

\* The parents up to the first that is not connected.
Examined(e) ==
    LET missing == {i \in DOMAIN Parents[e] : Parents[e][i] \notin connected}
        last == IF missing = {} THEN Len(Parents[e]) ELSE Min(missing)
    IN  SubSeq(Parents[e], 1, last)

\* pushEvent before its call of Process: Exists, Get of the parents, Check.
PushCheck ==
    /\ stack # <<>> /\ Top.at = "check"
    /\ LET e == Top.event
           touched == FoldLeft(Touch, incompletes, Examined(e))
       IN  \/ /\ e \in connected
              /\ Return
              /\ UNCHANGED incompletes
           \/ /\ e \notin connected
              /\ ~ParentSet(e) \subseteq connected
              /\ incompletes' = Add(touched, e)
              /\ Return
           \/ /\ e \notin connected
              /\ ParentSet(e) \subseteq connected
              /\ incompletes' = touched
              /\ IF e \in Wrong \/ EpochOf[e] # epoch
                 THEN Return
                 ELSE stack' = [stack EXCEPT ![Len(stack)].at = "process"]
    /\ UNCHANGED <<epoch, processed, list, newEpochs>>

\* Mutant: the buffer as it was is not searched for children.
NoChildren(e) == <<>>

\* The children of e among the events that were incomplete.
Children(e) == SelectSeq(list, LAMBDA c : e \in ParentSet(c))

\* Mutant: the epoch is not checked again.
ProcessAnyEpoch ==
    /\ stack # <<>> /\ Top.at = "process"
    /\ LET e == Top.event
       IN  IF e \in connected
           THEN /\ Return
                /\ UNCHANGED <<epoch, processed, newEpochs>>
           ELSE /\ Connect(e)
                /\ stack' = [stack EXCEPT ![Len(stack)].at = "remove"]
    /\ UNCHANGED <<incompletes, list>>

\* The call of Process, under engineMu: processEvent refuses an event that
\* is connected, the engine an event of another epoch.
PushProcess ==
    /\ stack # <<>> /\ Top.at = "process"
    /\ LET e == Top.event
       IN  IF e \in connected \/ EpochOf[e] # epoch
           THEN /\ Return
                /\ UNCHANGED <<epoch, processed, newEpochs>>
           ELSE /\ Connect(e)
                /\ stack' = [stack EXCEPT ![Len(stack)].at = "remove"]
    /\ UNCHANGED <<incompletes, list>>

PushRemove ==
    /\ stack # <<>> /\ Top.at = "remove"
    /\ incompletes' = Remove(incompletes, Top.event)
    /\ stack' = [stack EXCEPT ![Len(stack)].at = "children",
                              ![Len(stack)].children = Children(Top.event)]
    /\ UNCHANGED <<epoch, processed, list, newEpochs>>

\* Mutant: the search for children starts again after each of them.
PushChildAgain ==
    /\ stack # <<>> /\ Top.at = "children"
    /\ IF Top.children = <<>> THEN Return
       ELSE stack' = Append(stack, Call(Head(Top.children)))
    /\ UNCHANGED <<epoch, processed, incompletes, list, newEpochs>>

PushChild ==
    /\ stack # <<>> /\ Top.at = "children"
    /\ IF Top.children = <<>> THEN Return
       ELSE stack' = Append([stack EXCEPT ![Len(stack)].children = Tail(@)],
                            Call(Head(Top.children)))
    /\ UNCHANGED <<epoch, processed, incompletes, list, newEpochs>>

-----------------------------------------------------------------------------
\* The emitter connects an event it has made, under engineMu.
Emit(e) ==
    /\ e \in Own \ connected
    /\ EpochOf[e] = epoch
    /\ ParentSet(e) \subseteq connected
    /\ Connect(e)
    /\ UNCHANGED <<incompletes, list, stack>>

\* onNewEpochLoop: EventBuffer.Clear.
Clear ==
    /\ newEpochs # <<>>
    /\ newEpochs' = Tail(newEpochs)
    /\ incompletes' = <<>>
    /\ UNCHANGED <<epoch, processed, list, stack>>

Init ==
    /\ epoch = 1
    /\ processed = <<>>
    /\ incompletes = <<>>
    /\ list = <<>>
    /\ stack = <<>>
    /\ newEpochs = <<>>

PushSteps == PushCheck \/ PushProcess \/ PushRemove \/ PushChild

Next ==
    \/ \E e \in Event : PushEvent(e) \/ Emit(e)
    \/ PushSteps
    \/ Clear

\* The goroutine of the loop runs on.
Spec == Init /\ [][Next]_vars /\ WF_vars(PushSteps)

-----------------------------------------------------------------------------
TypeOK ==
    /\ epoch \in Nat
    /\ processed \in Seq(Event)
    /\ incompletes \in Seq(Event) /\ Len(incompletes) <= BuffSize
    /\ IsInjective(incompletes)
    /\ list \in Seq(Event)
    /\ \A i \in DOMAIN stack : stack[i] \in
          [event : Event, at : {"check", "process", "remove", "children"},
           children : Seq(Event)]
    /\ newEpochs \in Seq(Nat)

(***************************************************************************)
(* The order that the engine relies on: an event is processed once, after  *)
(* its parents, and never after the end of its epoch, although pushEvent   *)
(* looks for the parents before it takes the lock of the engine.           *)
(***************************************************************************)
ParentsFirst ==
    \A i \in DOMAIN processed :
       /\ \A j \in 1..(i - 1) :
             /\ processed[j] # processed[i]
             /\ EpochOf[processed[j]] <= EpochOf[processed[i]]
             /\ processed[j] \in Sealing =>
                   EpochOf[processed[j]] < EpochOf[processed[i]]
       /\ ParentSet(processed[i]) \subseteq {processed[j] : j \in 1..(i - 1)}

(***************************************************************************)
(* No event is forgotten in the buffer: when PushEvent is done, what is    *)
(* buffered waits for a parent, unless it was found wrong or its epoch is  *)
(* over.  onlyInterestedEvents leaves out what is buffered, so an event    *)
(* that waits for nothing would never be asked for again.                  *)
(***************************************************************************)
NoneForgotten ==
    stack = <<>> =>
       \A e \in ToSet(incompletes) :
          \/ e \in Wrong
          \/ EpochOf[e] # epoch
          \/ ~ParentSet(e) \subseteq connected

(***************************************************************************)
(* The recursion of pushEvent ends, so that the loop of the fetcher comes  *)
(* back to its channels.                                                   *)
(***************************************************************************)
PushReturns == stack # <<>> ~> stack = <<>>
=============================================================================
