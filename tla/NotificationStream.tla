------------------------- MODULE NotificationStream -------------------------
(***************************************************************************)
(* The live stream of one user's unread count: requests that change the    *)
(* count and then publish a signal; the broker, which LISTENs on one       *)
(* connection and hands signals to its subscribers                         *)
(* (internal/infrastructure/database/notification_stream.go); and the      *)
(* sessions, each with a goroutine that answers a signal by reading the    *)
(* count (internal/application/notification_stream.go) and a handler that  *)
(* writes what it emits to the client (handleNotificationsStream).         *)
(*                                                                         *)
(* Both channels of a session are bounded.  A signal for a full one is     *)
(* dropped; an event for a full one is waited with.                        *)
(***************************************************************************)
EXTENDS Integers, Sequences, FiniteSets

CONSTANTS
  Sessions,      \* requests for a stream, each opened once
  Counts,        \* unread counts
  SignalBuffer, EventBuffer,  \* capacities of the two channels: 8 and 8
  MaxChanges     \* bound on the changes of the count

ASSUME StreamAssumption ==
  /\ SignalBuffer \in Nat \ {0} /\ EventBuffer \in Nat \ {0}
  /\ MaxChanges \in Nat

VARIABLES
  count,       \* the unread count, as committed
  changes,     \* how often it has been changed
  unpublished, \* changes committed, whose signal is still to be published
  wire,        \* signals on their way to the listening connection
  started,     \* the broker's flag: somebody has started a listener
  listener,    \* the listener goroutine: "off", "starting", "on" or "failed"
  targets,     \* subscriptions the signal in hand is still to be delivered to
  subscribers, \* the broker's subscriptions
  doomed,      \* subscriptions a failed listener took out and has still to close
  signals,     \* signals[s]: signals waiting in the subscription's channel
  closed,      \* subscriptions whose channel is closed
  last,        \* last[s]: lastUnreadCount
  events,      \* events[s]: the session's channel to its handler
  run,         \* run[s]: where the session's goroutine, or its opening, is
  handler,     \* handler[s]: where the request's handler is
  writing,     \* writing[s]: the event being written, in a singleton
  shown,       \* shown[s]: the count the client was last shown
  cancelled,   \* requests whose context is cancelled
  heard        \* heard[s]: the latest change whose signal came by

broker == <<started, listener, targets, subscribers, doomed>>
channel == <<signals, closed>>
client == <<handler, writing, shown>>
vars == <<count, changes, unpublished, wire, broker, channel, last, events, run,
          client, cancelled, heard>>

Event == [type : {"unread_count"}, count : Counts] \union [type : {"inbox_invalidated"}]

TypeOK ==
  /\ count \in Counts /\ changes \in 0 .. MaxChanges
  /\ unpublished \subseteq 1 .. MaxChanges
  /\ wire \in Seq(1 .. MaxChanges)
  /\ started \in BOOLEAN /\ listener \in {"off", "starting", "on", "failed"}
  /\ targets \union subscribers \union doomed \union closed \subseteq Sessions
  /\ signals \in [Sessions -> 0 .. SignalBuffer]
  /\ last \in [Sessions -> Counts] /\ shown \in [Sessions -> Counts]
  /\ events \in [Sessions -> Seq(Event)] /\ \A s \in Sessions : Len(events[s]) <= EventBuffer
  /\ run \in [Sessions -> {"new", "counted", "subscribed", "starting", "refused",
                           "select", "read", "count", "invalidate", "ended"}]
  /\ handler \in [Sessions -> {"none", "events", "writing", "closing", "returned"}]
  /\ writing \in [Sessions -> SUBSET Event]
  /\ cancelled \subseteq Sessions
  /\ heard \in [Sessions -> 0 .. MaxChanges]

Init ==
  /\ count \in Counts /\ changes = 0
  /\ unpublished = {} /\ wire = <<>>
  /\ started = FALSE /\ listener = "off"
  /\ targets = {} /\ subscribers = {} /\ doomed = {} /\ closed = {}
  /\ signals = [s \in Sessions |-> 0]
  /\ last = [s \in Sessions |-> count] /\ shown = last
  /\ events = [s \in Sessions |-> <<>>]
  /\ run = [s \in Sessions |-> "new"]
  /\ handler = [s \in Sessions |-> "none"]
  /\ writing = [s \in Sessions |-> {}]
  /\ cancelled = {}
  /\ heard = [s \in Sessions |-> 0]

-----------------------------------------------------------------------------
(* The inbox.                                                              *)

Change ==
  /\ changes < MaxChanges
  /\ count' \in Counts \ {count}
  /\ changes' = changes + 1
  /\ unpublished' = unpublished \union {changes'}
  /\ UNCHANGED <<wire, broker, channel, last, events, run, client, cancelled, heard>>

\* Publish, after the commit.  NOTIFY reaches who is listening; requests are
\* concurrent and publish in any order.
Publish(n) ==
  /\ n \in unpublished
  /\ unpublished' = unpublished \ {n}
  /\ wire' = IF listener = "on" THEN Append(wire, n) ELSE wire
  /\ UNCHANGED <<count, changes, broker, channel, last, events, run, client, cancelled, heard>>

\* A signal that cannot be published is given up.
PublishFails(n) ==
  /\ n \in unpublished
  /\ unpublished' = unpublished \ {n}
  /\ UNCHANGED <<count, changes, wire, broker, channel, last, events, run, client, cancelled, heard>>

-----------------------------------------------------------------------------
(* The broker.                                                             *)

\* The connection LISTENs, and the subscriber that started it goes on.
Listen ==
  /\ listener = "starting"
  /\ listener' = "on"
  /\ run' = [s \in Sessions |-> IF run[s] = "starting" THEN "select" ELSE run[s]]
  /\ handler' = [s \in Sessions |-> IF run[s] = "starting" THEN "events" ELSE handler[s]]
  /\ UNCHANGED <<count, changes, unpublished, wire, started, targets, subscribers, doomed, channel,
                 last, events, writing, shown, cancelled, heard>>

\* closeFromBroker
Closing(S) ==
  /\ closed' = closed \union S
  /\ subscribers' = subscribers \ S

\* No connection, or no LISTEN: the subscriber that started it is refused.
ListenFails ==
  /\ listener = "starting"
  /\ listener' = "failed"
  /\ run' = [s \in Sessions |-> IF run[s] = "starting" THEN "refused" ELSE run[s]]
  /\ Closing({s \in Sessions : run[s] = "starting"})
  /\ UNCHANGED <<count, changes, unpublished, wire, started, targets, doomed, signals, last, events,
                 client, cancelled, heard>>

ConnectionLost ==
  /\ listener = "on" /\ targets = {}
  /\ listener' = "failed"
  /\ wire' = <<>>
  /\ UNCHANGED <<count, changes, unpublished, started, targets, subscribers, doomed, channel, last,
                 events, run, client, cancelled, heard>>

\* Mutant: the listener's end does not clear the flag.
StartedStill == started

StartedAfterFailure == FALSE

\* failListener: the flag is cleared and the subscriptions are taken out under
\* the lock, then closed one by one while others may subscribe again.
FailListener ==
  /\ listener = "failed"
  /\ listener' = "off"
  /\ started' = StartedAfterFailure
  /\ doomed' = doomed \union subscribers
  /\ subscribers' = {}
  /\ UNCHANGED <<count, changes, unpublished, wire, targets, channel, last, events, run, client,
                 cancelled, heard>>

CloseDoomed(s) ==
  /\ s \in doomed
  /\ doomed' = doomed \ {s}
  /\ Closing({s})
  /\ UNCHANGED <<count, changes, unpublished, wire, started, listener, targets, signals, last,
                 events, run, client, cancelled, heard>>

Later(m, n) == IF m >= n THEN m ELSE n

\* dispatch takes the subscriptions there are, then delivers one by one.
Dispatch ==
  /\ listener = "on" /\ targets = {} /\ wire # <<>>
  /\ targets' = subscribers
  /\ wire' = Tail(wire)
  /\ heard' = [s \in Sessions |->
       IF s \in subscribers THEN Later(heard[s], Head(wire)) ELSE heard[s]]
  /\ UNCHANGED <<count, changes, unpublished, started, listener, subscribers, doomed, channel,
                 last, events, run, client, cancelled>>

\* Mutant: the channel grows without bound.
DeliveredAlways(s) == IF s \in closed THEN signals ELSE [signals EXCEPT ![s] = @ + 1]

\* deliver: a signal for a full channel is dropped.
Delivered(s) ==
  IF s \in closed \/ signals[s] = SignalBuffer THEN signals
  ELSE [signals EXCEPT ![s] = @ + 1]

Deliver(s) ==
  /\ s \in targets
  /\ targets' = targets \ {s}
  /\ signals' = Delivered(s)
  /\ UNCHANGED <<count, changes, unpublished, wire, started, listener, subscribers, doomed, closed,
                 last, events, run, client, cancelled, heard>>

-----------------------------------------------------------------------------
(* Open.                                                                   *)

OpenCount(s) ==
  /\ run[s] = "new"
  /\ last' = [last EXCEPT ![s] = count]
  /\ shown' = [shown EXCEPT ![s] = count]
  /\ run' = [run EXCEPT ![s] = "counted"]
  /\ UNCHANGED <<count, changes, unpublished, wire, broker, channel, events, handler, writing,
                 cancelled, heard>>

SubscribeLocal(s) ==
  /\ run[s] = "counted"
  /\ subscribers' = subscribers \union {s}
  /\ run' = [run EXCEPT ![s] = "subscribed"]
  /\ UNCHANGED <<count, changes, unpublished, wire, started, listener, targets, doomed, channel,
                 last, events, client, cancelled, heard>>

\* Somebody has started a listener already, or we start one and wait for it.
EnsureListener(s) ==
  /\ run[s] = "subscribed"
  /\ started' = TRUE
  /\ \/ /\ started
        /\ run' = [run EXCEPT ![s] = "select"]
        /\ handler' = [handler EXCEPT ![s] = "events"]
        /\ UNCHANGED listener
     \/ /\ ~started
        /\ run' = [run EXCEPT ![s] = "starting"]
        /\ listener' = "starting"
        /\ UNCHANGED handler
  /\ UNCHANGED <<count, changes, unpublished, wire, targets, subscribers, doomed, channel, last, events,
                 writing, shown, cancelled, heard>>

-----------------------------------------------------------------------------
(* The session's goroutine.                                                *)

\* The deferred calls: the subscription, done and events are closed.
End(s) ==
  /\ run' = [run EXCEPT ![s] = "ended"]
  /\ Closing({s})
  /\ UNCHANGED <<count, changes, unpublished, wire, started, listener, targets, doomed, signals,
                 last, events, client, cancelled, heard>>

\* The context is done, or the subscription closed with nothing left in it.
Leave(s) ==
  /\ run[s] = "select"
  /\ s \in cancelled \/ (s \in closed /\ signals[s] = 0)
  /\ End(s)

Take(s) ==
  /\ run[s] = "select" /\ signals[s] > 0
  /\ signals' = [signals EXCEPT ![s] = @ - 1]
  /\ run' = [run EXCEPT ![s] = "read"]
  /\ UNCHANGED <<count, changes, unpublished, wire, broker, closed, last, events, client,
                 cancelled, heard>>

\* Mutant: only a count that grew is news.
GrownSince(s) == count > last[s]

ChangedSince(s) == count # last[s]

\* GetUnreadCount after the signal was taken, on the request's context.
Read(s) ==
  /\ run[s] = "read" /\ s \notin cancelled
  /\ run' = [run EXCEPT ![s] = IF ChangedSince(s) THEN "count" ELSE "invalidate"]
  /\ last' = [last EXCEPT ![s] = count]
  /\ UNCHANGED <<count, changes, unpublished, wire, broker, channel, events, client, cancelled, heard>>

\* It fails, on a context that is done or for another reason.
ReadFails(s) == run[s] = "read" /\ End(s)

\* emit: done is closed by this goroutine only, so a full channel is waited with.
Emit(s, e) ==
  /\ Len(events[s]) < EventBuffer
  /\ events' = [events EXCEPT ![s] = Append(@, e)]
  /\ UNCHANGED <<count, changes, unpublished, wire, broker, channel, last, client, cancelled, heard>>

EmitCount(s) ==
  /\ run[s] = "count"
  /\ Emit(s, [type |-> "unread_count", count |-> last[s]])
  /\ run' = [run EXCEPT ![s] = "invalidate"]

EmitInvalidated(s) ==
  /\ run[s] = "invalidate"
  /\ Emit(s, [type |-> "inbox_invalidated"])
  /\ run' = [run EXCEPT ![s] = "select"]

-----------------------------------------------------------------------------
(* The handler, and its client.                                            *)

TakeEvent(s) ==
  /\ handler[s] = "events" /\ events[s] # <<>>
  /\ writing' = [writing EXCEPT ![s] = {Head(events[s])}]
  /\ events' = [events EXCEPT ![s] = Tail(@)]
  /\ handler' = [handler EXCEPT ![s] = "writing"]
  /\ UNCHANGED <<count, changes, unpublished, wire, broker, channel, last, run, shown, cancelled, heard>>

Written(s) ==
  /\ handler[s] = "writing"
  /\ \E e \in writing[s] :
       shown' = IF e.type = "unread_count" THEN [shown EXCEPT ![s] = e.count] ELSE shown
  /\ writing' = [writing EXCEPT ![s] = {}]
  /\ handler' = [handler EXCEPT ![s] = "events"]
  /\ UNCHANGED <<count, changes, unpublished, wire, broker, channel, last, events, run, cancelled, heard>>

Return(s) ==
  /\ handler' = [handler EXCEPT ![s] = "closing"]
  /\ writing' = [writing EXCEPT ![s] = {}]
  /\ Closing({s})
  /\ UNCHANGED <<count, changes, unpublished, wire, started, listener, targets, doomed, signals,
                 last, events, run, shown, cancelled, heard>>

WriteFails(s) == handler[s] = "writing" /\ s \in cancelled /\ Return(s)

\* The context is done, or the session has closed its channel.
StreamOver(s) ==
  /\ handler[s] = "events"
  /\ s \in cancelled \/ (run[s] = "ended" /\ events[s] = <<>>)
  /\ Return(s)

\* session.Close waits for done.
CloseReturns(s) ==
  /\ handler[s] = "closing" /\ run[s] = "ended"
  /\ handler' = [handler EXCEPT ![s] = "returned"]
  /\ UNCHANGED <<count, changes, unpublished, wire, broker, channel, last, events, run, writing,
                 shown, cancelled, heard>>

\* The client goes away.
Disconnect(s) ==
  /\ handler[s] \in {"events", "writing"} /\ s \notin cancelled
  /\ cancelled' = cancelled \union {s}
  /\ UNCHANGED <<count, changes, unpublished, wire, broker, channel, last, events, run, client, heard>>

-----------------------------------------------------------------------------
Broker ==
  \/ Listen \/ ListenFails \/ ConnectionLost \/ FailListener \/ Dispatch
  \/ \E s \in Sessions : Deliver(s) \/ CloseDoomed(s)

Session(s) ==
  \/ SubscribeLocal(s) \/ EnsureListener(s)
  \/ Leave(s) \/ Take(s) \/ Read(s) \/ ReadFails(s) \/ EmitCount(s) \/ EmitInvalidated(s)

Handler(s) ==
  TakeEvent(s) \/ Written(s) \/ WriteFails(s) \/ StreamOver(s) \/ CloseReturns(s)

Next ==
  \/ Change
  \/ \E n \in 1 .. MaxChanges : Publish(n) \/ PublishFails(n)
  \/ Broker
  \/ \E s \in Sessions : OpenCount(s) \/ Session(s) \/ Handler(s) \/ Disconnect(s)

\* Goroutines that can go on do; a write to a client ends, one way or another.
Fairness ==
  /\ WF_vars(Broker)
  /\ \A s \in Sessions : WF_vars(Deliver(s)) /\ WF_vars(CloseDoomed(s)) /\ WF_vars(Session(s)) /\ WF_vars(Handler(s))

Spec == Init /\ [][Next]_vars /\ Fairness

-----------------------------------------------------------------------------
(* Properties.                                                             *)

Live(s) == run[s] \in {"select", "read", "count", "invalidate"}

\* A session whose subscription is open is known to the broker and a listener
\* is there for it, or it is about to be closed: whatever
\* listeners failed while it was being opened, no session waits for signals
\* that nobody will ever give it.
NoDeafSession ==
  \A s \in Sessions :
    Live(s) /\ s \notin closed => (s \in subscribers /\ listener # "off") \/ s \in doomed

\* Nothing is left to be done for the session.
AtRest(s) ==
  /\ run[s] = "select" /\ signals[s] = 0 /\ s \notin targets
  /\ events[s] = <<>> /\ handler[s] = "events"

\* A client that has been sent everything sees a count no older than the
\* latest signal that came by, though signals are dropped and overtake each
\* other and only some are answered.
FreshAtRest ==
  \A s \in Sessions : AtRest(s) /\ heard[s] = changes => shown[s] = count

\* Where a session is on its way to being live.
Opening(s) == run[s] \in {"new", "counted", "subscribed", "starting"}
Subscribed(s) == run[s] \in {"subscribed", "starting"} \/ Live(s)

\* What the broker knows and what sessions rely on: flag and listener go
\* together, a signal in hand is of a connection that stands, and sessions
\* registered with it are subscribers, about to be closed, or closed.
BrokerConsistent ==
  /\ started <=> listener # "off"
  /\ listener # "on" => targets = {}
  /\ subscribers \intersect closed = {}
  /\ doomed \intersect (subscribers \union targets) = {}
  /\ \A s \in Sessions :
       /\ run[s] \in {"new", "counted"} =>
            s \notin closed \union subscribers \union doomed \union targets
       /\ Subscribed(s) => s \in subscribers \union doomed \union closed
       /\ (run[s] = "starting" \/ Live(s)) /\ s \notin doomed \union closed => listener # "off"

\* A handler that starts finds no event, and writes one at a time.
HandlersConsistent ==
  \A s \in Sessions :
    /\ Opening(s) => handler[s] = "none" /\ events[s] = <<>>
    /\ handler[s] = "writing" <=> writing[s] # {}
    /\ \A e, f \in writing[s] : e = f

\* The session is to be fed with signals, and its handler with events.
Fed(s) ==
  \/ run[s] \in {"new", "counted"}
  \/ Subscribed(s) /\ handler[s] \in {"none", "events", "writing"}

\* A change that was heard of is, or will be, the count last read.
SignalsArrive ==
  /\ \A n \in unpublished : n <= changes
  /\ \A i \in DOMAIN wire : wire[i] <= changes
  /\ \A s \in Sessions :
       /\ heard[s] <= changes
       /\ s \in targets /\ s \in closed => ~Fed(s)
       /\ Fed(s) /\ heard[s] = changes =>
            s \in targets \/ signals[s] > 0 \/ run[s] = "read" \/ last[s] = count

IsCount(e) == e.type = "unread_count"
NoCount(E) == \A i \in DOMAIN E : ~IsCount(E[i])
EndsWith(E, n) ==
  \E i \in DOMAIN E :
    IsCount(E[i]) /\ E[i].count = n /\ \A j \in DOMAIN E : j > i => ~IsCount(E[j])

\* The count last read is the last to be shown: it is about to be emitted, or
\* the last count among the events, or in the handler's hand, or shown.
WillShow(E, W, seen, n) ==
  \/ EndsWith(E, n)
  \/ NoCount(E) /\ \E e \in W : IsCount(e) /\ e.count = n
  \/ NoCount(E) /\ (\A e \in W : ~IsCount(e)) /\ seen = n

EventsArrive ==
  \A s \in Sessions :
    Fed(s) => run[s] = "count" \/ WillShow(events[s], writing[s], shown[s], last[s])

\* The inductive invariant.
IInv == TypeOK /\ BrokerConsistent /\ HandlersConsistent /\ SignalsArrive /\ EventsArrive

\* A request that is over returns.
RequestsReturn ==
  \A s \in Sessions : (handler[s] = "closing") ~> (handler[s] = "returned")
=============================================================================
