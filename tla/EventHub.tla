------------------------------- MODULE EventHub -------------------------------
(***************************************************************************)
(* The event stream of one run: publishEvent appends an event to the       *)
(* event store and hands it to the hub (pkg/runner/server/events/hub.go),  *)
(* which copies the subscribers' channels under its mutex and sends after  *)
(* releasing it. A subscriber is an SSE handler that reads its channel     *)
(* until its client leaves.                                                *)
(*                                                                         *)
(* Publishers are the goroutines that publish about the run: the worker,   *)
(* the parallel steps it executes and the handler of a cancel. An event is *)
(* its publisher and its number among that publisher's events.             *)
(***************************************************************************)
EXTENDS Naturals, Sequences, FiniteSets

CONSTANTS
  Publishers,
  Subscribers,
  Capacity,   \* the buffer of a subscriber's channel (128 in the code)
  MaxEvents,  \* bound: events of each publisher
  MaxFaults   \* bound: appends to the event store that fail

ASSUME HubConstants == {Capacity, MaxEvents, MaxFaults} \subseteq Nat

VARIABLES
  published,   \* published[p]: events publisher p has begun to publish
  history,     \* the event store
  lost,        \* events whose append failed
  copying,     \* publishers between publishEvent's append and Publish's copy
  sending,     \* sending[p]: the <<subscriber, event>> sends p has still to make
  group,       \* subscribers registered for the run
  opened,      \* subscribers whose channel was ever created
  closed,      \* subscribers whose channel is closed
  buffer,      \* buffer[s]: the channel of s
  stream,      \* stream[s]: what the handler of s has written to its client
  panicked     \* a send hit a closed channel: the process is gone

vars == <<published, history, lost, copying, sending, group, opened, closed,
          buffer, stream, panicked>>

Event == Publishers \X (1..MaxEvents)

TypeOK ==
  /\ published \in [Publishers -> 0..MaxEvents]
  /\ history \in Seq(Event)
  /\ lost \subseteq Event
  /\ copying \subseteq Publishers
  /\ sending \in [Publishers -> SUBSET (Subscribers \X Event)]
  /\ group \subseteq opened /\ closed \subseteq opened
  /\ opened \subseteq Subscribers
  /\ buffer \in [Subscribers -> Seq(Event)]
  /\ \A s \in Subscribers : Len(buffer[s]) <= Capacity
  /\ stream \in [Subscribers -> Seq(Event)]
  /\ panicked \in BOOLEAN

Init ==
  /\ published = [p \in Publishers |-> 0]
  /\ history = <<>>
  /\ lost = {}
  /\ copying = {}
  /\ sending = [p \in Publishers |-> {}]
  /\ group = {} /\ opened = {} /\ closed = {}
  /\ buffer = [s \in Subscribers |-> <<>>]
  /\ stream = [s \in Subscribers |-> <<>>]
  /\ panicked = FALSE

-------------------------------------------------------------------------------
\* The event p publishes now.
Current(p) == <<p, published[p]>>

\* Mutants of AppendEvent: the sends of the previous event are left to another
\* goroutine; the event store is not written.
AppendEventAsync(p) ==
  /\ ~panicked
  /\ p \notin copying
  /\ published[p] < MaxEvents
  /\ published' = [published EXCEPT ![p] = @ + 1]
  /\ copying' = copying \cup {p}
  /\ history' = Append(history, <<p, published[p] + 1>>)
  /\ UNCHANGED <<lost, sending, group, opened, closed, buffer, stream, panicked>>

AppendEventSkipped(p) ==
  /\ ~panicked
  /\ p \notin copying /\ sending[p] = {}
  /\ published[p] < MaxEvents
  /\ published' = [published EXCEPT ![p] = @ + 1]
  /\ copying' = copying \cup {p}
  /\ UNCHANGED <<history, lost, sending, group, opened, closed, buffer, stream,
                 panicked>>

\* publishEvent's append; its error is only logged.
AppendEvent(p) ==
  LET e == <<p, published[p] + 1>> IN
  /\ ~panicked
  /\ p \notin copying /\ sending[p] = {}
  /\ published[p] < MaxEvents
  /\ published' = [published EXCEPT ![p] = @ + 1]
  /\ copying' = copying \cup {p}
  /\ \/ history' = Append(history, e) /\ UNCHANGED lost
     \/ Cardinality(lost) < MaxFaults /\ lost' = lost \cup {e} /\ UNCHANGED history
  /\ UNCHANGED <<sending, group, opened, closed, buffer, stream, panicked>>

\* Publish up to RUnlock: the channels registered now.
Publish(p) ==
  /\ ~panicked
  /\ p \in copying
  /\ copying' = copying \ {p}
  /\ sending' = [sending EXCEPT ![p] = @ \cup {<<s, Current(p)>> : s \in group}]
  /\ UNCHANGED <<published, history, lost, group, opened, closed, buffer, stream,
                 panicked>>

\* Mutant of Send: the channel has no bound.
SendUnbounded(p, s, e) ==
  /\ ~panicked
  /\ <<s, e>> \in sending[p]
  /\ sending' = [sending EXCEPT ![p] = @ \ {<<s, e>>}]
  /\ s \notin closed
  /\ buffer' = [buffer EXCEPT ![s] = Append(@, e)]
  /\ UNCHANGED <<published, history, lost, copying, group, opened, closed, stream,
                 panicked>>

\* One non-blocking send of Publish: delivered, or dropped when the subscriber is
\* too slow. On a channel that Unsubscribe has closed it panics, in a goroutine
\* nobody recovers.
Send(p, s, e) ==
  /\ ~panicked
  /\ <<s, e>> \in sending[p]
  /\ sending' = [sending EXCEPT ![p] = @ \ {<<s, e>>}]
  /\ \/ /\ s \in closed
        /\ panicked' = TRUE
        /\ UNCHANGED buffer
     \/ /\ s \notin closed
        /\ Len(buffer[s]) < Capacity
        /\ buffer' = [buffer EXCEPT ![s] = Append(@, e)]
        /\ UNCHANGED panicked
     \/ /\ s \notin closed
        /\ Len(buffer[s]) >= Capacity
        /\ UNCHANGED <<buffer, panicked>>
  /\ UNCHANGED <<published, history, lost, copying, group, opened, closed, stream>>

Subscribe(s) ==
  /\ ~panicked
  /\ s \notin opened
  /\ opened' = opened \cup {s}
  /\ group' = group \cup {s}
  /\ UNCHANGED <<published, history, lost, copying, sending, closed, buffer, stream,
                 panicked>>

\* The client leaves: the handler's deferred cancel.
Unsubscribe(s) ==
  /\ ~panicked
  /\ s \in group
  /\ group' = group \ {s}
  /\ closed' = closed \cup {s}
  /\ UNCHANGED <<published, history, lost, copying, sending, opened, buffer, stream,
                 panicked>>

\* The handler writes the next event to its client.
Receive(s) ==
  /\ ~panicked
  /\ s \in group
  /\ buffer[s] # <<>>
  /\ stream' = [stream EXCEPT ![s] = Append(@, Head(buffer[s]))]
  /\ buffer' = [buffer EXCEPT ![s] = Tail(@)]
  /\ UNCHANGED <<published, history, lost, copying, sending, group, opened, closed,
                 panicked>>

Next ==
  \/ \E p \in Publishers : AppendEvent(p) \/ Publish(p)
  \/ \E p \in Publishers, s \in Subscribers, e \in Event : Send(p, s, e)
  \/ \E s \in Subscribers : Subscribe(s) \/ Unsubscribe(s) \/ Receive(s)

Spec == Init /\ [][Next]_vars

-------------------------------------------------------------------------------
\* A client sees the events of one publisher in the order they were published and
\* each at most once, whatever the other publishers do and however slow it is.
StreamInOrder ==
  \A s \in Subscribers :
    LET seen == stream[s] \o buffer[s] IN
    \A i, j \in 1..Len(seen) :
      (i < j /\ seen[i][1] = seen[j][1]) => seen[i][2] < seen[j][2]

\* What a client has been shown is in the history it can fetch later, unless the
\* append of that very event failed.
StreamInHistory ==
  \A s \in Subscribers : \A i \in 1..Len(stream[s]) :
    stream[s][i] \in lost \/ \E j \in 1..Len(history) : history[j] = stream[s][i]
===============================================================================
