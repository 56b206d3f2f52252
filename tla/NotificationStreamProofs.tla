---------------------- MODULE NotificationStreamProofs ----------------------
(* Proofs about NotificationStream, for any number of sessions, counts,    *)
(* changes and any capacities of the channels.                             *)
EXTENDS NotificationStream, TLAPS

\* What an event that is put into the channel, taken out of it, or written
\* does to the count that will be shown last.
LEMMA AppendCount ==
  ASSUME NEW E \in Seq(Event), NEW e \in Event, IsCount(e), NEW W, NEW x
  PROVE  WillShow(Append(E, e), W, x, e.count)
  <1>1. /\ Len(E) + 1 \in DOMAIN Append(E, e)
        /\ Append(E, e)[Len(E) + 1] = e
        /\ \A j \in DOMAIN Append(E, e) : ~(j > Len(E) + 1)
    OBVIOUS
  <1>. QED
    BY <1>1 DEF WillShow, EndsWith

LEMMA AppendOther ==
  ASSUME NEW E \in Seq(Event), NEW e \in Event, ~IsCount(e), NEW W, NEW x, NEW n,
         WillShow(E, W, x, n)
  PROVE  WillShow(Append(E, e), W, x, n)
  <1>1. /\ DOMAIN Append(E, e) = DOMAIN E \union {Len(E) + 1}
        /\ \A i \in DOMAIN E : Append(E, e)[i] = E[i] /\ i < Len(E) + 1
        /\ Append(E, e)[Len(E) + 1] = e
    OBVIOUS
  <1>2. NoCount(E) => NoCount(Append(E, e))
    BY <1>1 DEF NoCount
  <1>3. EndsWith(E, n) => EndsWith(Append(E, e), n)
    BY <1>1 DEF EndsWith
  <1>. QED
    BY <1>2, <1>3 DEF WillShow

LEMMA TakeHead ==
  ASSUME NEW E \in Seq(Event), E # <<>>, NEW x, NEW n, WillShow(E, {}, x, n)
  PROVE  WillShow(Tail(E), {Head(E)}, x, n)
  <1>1. /\ Head(E) = E[1] /\ 1 \in DOMAIN E
        /\ \A i \in DOMAIN Tail(E) : Tail(E)[i] = E[i + 1] /\ i + 1 \in DOMAIN E
        /\ \A i \in DOMAIN E : i = 1 \/ (i - 1 \in DOMAIN Tail(E) /\ Tail(E)[i - 1] = E[i])
        /\ DOMAIN E \subseteq Nat /\ DOMAIN Tail(E) \subseteq Nat
        /\ \A i \in DOMAIN Tail(E) : i > 0
    OBVIOUS
  <1>2. NoCount(E) => NoCount(Tail(E)) /\ ~IsCount(Head(E))
    BY <1>1 DEF NoCount
  <1>3. ASSUME EndsWith(E, n)
        PROVE  EndsWith(Tail(E), n) \/ (NoCount(Tail(E)) /\ IsCount(Head(E)) /\ Head(E).count = n)
    <2>1. PICK i \in DOMAIN E :
            IsCount(E[i]) /\ E[i].count = n /\ \A j \in DOMAIN E : j > i => ~IsCount(E[j])
      BY <1>3 DEF EndsWith
    <2>2. CASE i = 1
      <3>1. \A j \in DOMAIN Tail(E) : ~IsCount(Tail(E)[j])
        BY <1>1, <2>1, <2>2
      <3>. QED
        BY <1>1, <2>1, <2>2, <3>1 DEF NoCount
    <2>3. CASE i # 1
      <3>1. i - 1 \in DOMAIN Tail(E) /\ Tail(E)[i - 1] = E[i]
        BY <1>1, <2>3
      <3>2. \A j \in DOMAIN Tail(E) : j > i - 1 => ~IsCount(Tail(E)[j])
        BY <1>1, <2>1
      <3>. QED
        BY <2>1, <3>1, <3>2 DEF EndsWith
    <2>. QED
      BY <2>2, <2>3
  <1>. QED
    BY <1>2, <1>3 DEF WillShow

LEMMA WriteEvent ==
  ASSUME NEW E, NEW e, NEW x, NEW n, WillShow(E, {e}, x, n)
  PROVE  WillShow(E, {}, IF IsCount(e) THEN e.count ELSE x, n)
  BY DEF WillShow

-----------------------------------------------------------------------------
LEMMA InitIInv == Init => IInv
  <1> SUFFICES ASSUME Init PROVE IInv
    OBVIOUS
  <1> USE StreamAssumption DEF Init
  <1>1. TypeOK
    <2>1. wire \in Seq(1 .. MaxChanges)
      OBVIOUS
    <2>2. events \in [Sessions -> Seq(Event)] /\ \A s \in Sessions : Len(events[s]) <= EventBuffer
      <3>1. <<>> \in Seq(Event) /\ Len(<<>>) = 0
        OBVIOUS
      <3>. QED
        BY <3>1
    <2>3. signals \in [Sessions -> 0 .. SignalBuffer] /\ heard \in [Sessions -> 0 .. MaxChanges]
      OBVIOUS
    <2>4. last \in [Sessions -> Counts] /\ shown \in [Sessions -> Counts]
      OBVIOUS
    <2>5. writing \in [Sessions -> SUBSET Event] /\ cancelled \subseteq Sessions
      OBVIOUS
    <2>6. /\ run \in [Sessions -> {"new", "counted", "subscribed", "starting", "refused",
                                  "select", "read", "count", "invalidate", "ended"}]
          /\ handler \in [Sessions -> {"none", "events", "writing", "closing", "returned"}]
      OBVIOUS
    <2>7. count \in Counts /\ changes \in 0 .. MaxChanges
      OBVIOUS
    <2>8. started \in BOOLEAN /\ listener \in {"off", "starting", "on", "failed"}
      BY Zenon
    <2>9. unpublished \subseteq 1 .. MaxChanges
      OBVIOUS
    <2>10. targets \union subscribers \union doomed \union closed \subseteq Sessions
      OBVIOUS
    <2> HIDE DEF Init
    <2>. QED
      BY <2>1, <2>2, <2>3, <2>4, <2>5, <2>6, <2>7, <2>8, <2>9, <2>10 DEF TypeOK
  <1>2. BrokerConsistent
    BY DEF BrokerConsistent, Subscribed, Live
  <1>3. HandlersConsistent
    BY DEF HandlersConsistent
  <1>4. SignalsArrive
    BY DEF SignalsArrive
  <1>5. EventsArrive
    BY DEF EventsArrive, WillShow, NoCount
  <1>. QED
    BY <1>1, <1>2, <1>3, <1>4, <1>5 DEF IInv

LEMMA ChangeIInv ==
  ASSUME IInv, Change
  PROVE  IInv'
  <1> USE StreamAssumption DEF IInv, Change, broker, channel, client
  <1>1. TypeOK'
    BY DEF TypeOK, Event
  <1>2. BrokerConsistent'
    BY DEF TypeOK, BrokerConsistent, HandlersConsistent, Subscribed, Live, Opening
  <1>3. HandlersConsistent'
    BY DEF TypeOK, HandlersConsistent, Opening
  <1>4. SignalsArrive'
    BY DEF TypeOK, BrokerConsistent, HandlersConsistent, SignalsArrive, Opening, Fed, Subscribed, Live
  <1>5. EventsArrive'
    BY DEF TypeOK, HandlersConsistent, EventsArrive, Opening, Fed, Subscribed, Live, WillShow
  <1>. QED
    BY <1>1, <1>2, <1>3, <1>4, <1>5

LEMMA PublishIInv ==
  ASSUME IInv, NEW n \in 1 .. MaxChanges, Publish(n)
  PROVE  IInv'
  <1> USE StreamAssumption DEF IInv, Publish, broker, channel, client
  <1>1. TypeOK'
    <2>1. wire' \in Seq(1 .. MaxChanges)
      <3>1. wire \in Seq(1 .. MaxChanges) /\ Append(wire, n) \in Seq(1 .. MaxChanges)
        BY DEF TypeOK
      <3>. QED
        BY <3>1
    <2>2. unpublished' \subseteq 1 .. MaxChanges
      BY DEF TypeOK
    <2>. QED
      BY <2>1, <2>2 DEF TypeOK
  <1>2. BrokerConsistent'
    BY DEF TypeOK, BrokerConsistent, HandlersConsistent, Subscribed, Live, Opening
  <1>3. HandlersConsistent'
    BY DEF TypeOK, HandlersConsistent, Opening
  <1>4. SignalsArrive'
    BY DEF TypeOK, BrokerConsistent, HandlersConsistent, SignalsArrive, Opening, Fed, Subscribed, Live
  <1>5. EventsArrive'
    BY DEF TypeOK, HandlersConsistent, EventsArrive, Opening, Fed, Subscribed, Live, WillShow
  <1>. QED
    BY <1>1, <1>2, <1>3, <1>4, <1>5

LEMMA PublishFailsIInv ==
  ASSUME IInv, NEW n \in 1 .. MaxChanges, PublishFails(n)
  PROVE  IInv'
  <1> USE StreamAssumption DEF IInv, PublishFails, broker, channel, client
  <1>1. TypeOK'
    BY DEF TypeOK, Event
  <1>2. BrokerConsistent'
    BY DEF TypeOK, BrokerConsistent, HandlersConsistent, Subscribed, Live, Opening
  <1>3. HandlersConsistent'
    BY DEF TypeOK, HandlersConsistent, Opening
  <1>4. SignalsArrive'
    BY DEF TypeOK, BrokerConsistent, HandlersConsistent, SignalsArrive, Opening, Fed, Subscribed, Live
  <1>5. EventsArrive'
    BY DEF TypeOK, HandlersConsistent, EventsArrive, Opening, Fed, Subscribed, Live, WillShow
  <1>. QED
    BY <1>1, <1>2, <1>3, <1>4, <1>5

LEMMA ListenIInv ==
  ASSUME IInv, Listen
  PROVE  IInv'
  <1> USE StreamAssumption DEF IInv, Listen, broker, channel, client
  <1>1. TypeOK'
    BY DEF TypeOK, Event
  <1>2. BrokerConsistent'
    BY DEF TypeOK, BrokerConsistent, HandlersConsistent, Subscribed, Live, Opening
  <1>3. HandlersConsistent'
    BY DEF TypeOK, HandlersConsistent, Opening
  <1>4. SignalsArrive'
    BY DEF TypeOK, BrokerConsistent, HandlersConsistent, SignalsArrive, Opening, Fed, Subscribed, Live
  <1>5. EventsArrive'
    BY DEF TypeOK, HandlersConsistent, EventsArrive, Opening, Fed, Subscribed, Live, WillShow
  <1>. QED
    BY <1>1, <1>2, <1>3, <1>4, <1>5

LEMMA ListenFailsIInv ==
  ASSUME IInv, ListenFails
  PROVE  IInv'
  <1> USE StreamAssumption DEF IInv, ListenFails, Closing, broker, channel, client
  <1>1. TypeOK'
    BY DEF TypeOK, Event
  <1>2. BrokerConsistent'
    BY DEF TypeOK, BrokerConsistent, HandlersConsistent, Subscribed, Live, Opening
  <1>3. HandlersConsistent'
    BY DEF TypeOK, HandlersConsistent, Opening
  <1>4. SignalsArrive'
    BY DEF TypeOK, BrokerConsistent, HandlersConsistent, SignalsArrive, Opening, Fed, Subscribed, Live
  <1>5. EventsArrive'
    BY DEF TypeOK, HandlersConsistent, EventsArrive, Opening, Fed, Subscribed, Live, WillShow
  <1>. QED
    BY <1>1, <1>2, <1>3, <1>4, <1>5

LEMMA ConnectionLostIInv ==
  ASSUME IInv, ConnectionLost
  PROVE  IInv'
  <1> USE StreamAssumption DEF IInv, ConnectionLost, broker, channel, client
  <1>1. TypeOK'
    BY DEF TypeOK, Event
  <1>2. BrokerConsistent'
    BY DEF TypeOK, BrokerConsistent, HandlersConsistent, Subscribed, Live, Opening
  <1>3. HandlersConsistent'
    BY DEF TypeOK, HandlersConsistent, Opening
  <1>4. SignalsArrive'
    BY DEF TypeOK, BrokerConsistent, HandlersConsistent, SignalsArrive, Opening, Fed, Subscribed, Live
  <1>5. EventsArrive'
    BY DEF TypeOK, HandlersConsistent, EventsArrive, Opening, Fed, Subscribed, Live, WillShow
  <1>. QED
    BY <1>1, <1>2, <1>3, <1>4, <1>5

LEMMA FailListenerIInv ==
  ASSUME IInv, FailListener
  PROVE  IInv'
  <1> USE StreamAssumption DEF IInv, FailListener, StartedAfterFailure, broker, channel, client
  <1>1. TypeOK'
    BY DEF TypeOK, Event
  <1>2. BrokerConsistent'
    BY DEF TypeOK, BrokerConsistent, HandlersConsistent, Subscribed, Live, Opening
  <1>3. HandlersConsistent'
    BY DEF TypeOK, HandlersConsistent, Opening
  <1>4. SignalsArrive'
    BY DEF TypeOK, BrokerConsistent, HandlersConsistent, SignalsArrive, Opening, Fed, Subscribed, Live
  <1>5. EventsArrive'
    BY DEF TypeOK, HandlersConsistent, EventsArrive, Opening, Fed, Subscribed, Live, WillShow
  <1>. QED
    BY <1>1, <1>2, <1>3, <1>4, <1>5

LEMMA CloseDoomedIInv ==
  ASSUME IInv, NEW s \in Sessions, CloseDoomed(s)
  PROVE  IInv'
  <1> USE StreamAssumption DEF IInv, CloseDoomed, Closing, broker, channel, client
  <1>1. TypeOK'
    BY DEF TypeOK, Event
  <1>2. BrokerConsistent'
    BY DEF TypeOK, BrokerConsistent, HandlersConsistent, Subscribed, Live, Opening
  <1>3. HandlersConsistent'
    BY DEF TypeOK, HandlersConsistent, Opening
  <1>4. SignalsArrive'
    BY DEF TypeOK, BrokerConsistent, HandlersConsistent, SignalsArrive, Opening, Fed, Subscribed, Live
  <1>5. EventsArrive'
    BY DEF TypeOK, HandlersConsistent, EventsArrive, Opening, Fed, Subscribed, Live, WillShow
  <1>. QED
    BY <1>1, <1>2, <1>3, <1>4, <1>5

LEMMA DispatchIInv ==
  ASSUME IInv, Dispatch
  PROVE  IInv'
  <1> USE StreamAssumption DEF IInv, Dispatch, Later, broker, channel, client
  <1>1. TypeOK'
    BY DEF TypeOK, Event
  <1>2. BrokerConsistent'
    BY DEF TypeOK, BrokerConsistent, HandlersConsistent, Subscribed, Live, Opening
  <1>3. HandlersConsistent'
    BY DEF TypeOK, HandlersConsistent, Opening
  <1>4. SignalsArrive'
    BY DEF TypeOK, BrokerConsistent, HandlersConsistent, SignalsArrive, Opening, Fed, Subscribed, Live
  <1>5. EventsArrive'
    BY DEF TypeOK, HandlersConsistent, EventsArrive, Opening, Fed, Subscribed, Live, WillShow
  <1>. QED
    BY <1>1, <1>2, <1>3, <1>4, <1>5

LEMMA DeliverIInv ==
  ASSUME IInv, NEW s \in Sessions, Deliver(s)
  PROVE  IInv'
  <1> USE StreamAssumption DEF IInv, Deliver, Delivered, broker, channel, client
  <1>1. TypeOK'
    BY DEF TypeOK, Event
  <1>2. BrokerConsistent'
    BY DEF TypeOK, BrokerConsistent, HandlersConsistent, Subscribed, Live, Opening
  <1>3. HandlersConsistent'
    BY DEF TypeOK, HandlersConsistent, Opening
  <1>4. SignalsArrive'
    BY DEF TypeOK, BrokerConsistent, HandlersConsistent, SignalsArrive, Opening, Fed, Subscribed, Live
  <1>5. EventsArrive'
    BY DEF TypeOK, HandlersConsistent, EventsArrive, Opening, Fed, Subscribed, Live, WillShow
  <1>. QED
    BY <1>1, <1>2, <1>3, <1>4, <1>5

LEMMA OpenCountIInv ==
  ASSUME IInv, NEW s \in Sessions, OpenCount(s)
  PROVE  IInv'
  <1> USE StreamAssumption DEF IInv, OpenCount, broker, channel, client
  <1>1. TypeOK'
    BY DEF TypeOK, Event
  <1>2. BrokerConsistent'
    BY DEF TypeOK, BrokerConsistent, HandlersConsistent, Subscribed, Live, Opening
  <1>3. HandlersConsistent'
    BY DEF TypeOK, HandlersConsistent, Opening
  <1>4. SignalsArrive'
    BY DEF TypeOK, BrokerConsistent, HandlersConsistent, SignalsArrive, Opening, Fed, Subscribed, Live
  <1>5. EventsArrive'
    <2> SUFFICES ASSUME NEW t \in Sessions, Fed(t)'
                 PROVE  (run[t] = "count")' \/ WillShow(events[t], writing[t], shown[t], last[t])'
      BY DEF EventsArrive
    <2>1. CASE t = s
      <3>1. events'[t] = <<>> /\ writing'[t] = {} /\ shown'[t] = last'[t]
        BY <2>1 DEF TypeOK, HandlersConsistent, Opening
      <3>. QED
        BY <3>1 DEF WillShow, NoCount
    <2>2. CASE t # s
      BY <2>2 DEF TypeOK, EventsArrive, Fed, Subscribed, Live
    <2>. QED
      BY <2>1, <2>2
  <1>. QED
    BY <1>1, <1>2, <1>3, <1>4, <1>5

LEMMA SubscribeLocalIInv ==
  ASSUME IInv, NEW s \in Sessions, SubscribeLocal(s)
  PROVE  IInv'
  <1> USE StreamAssumption DEF IInv, SubscribeLocal, broker, channel, client
  <1>1. TypeOK'
    BY DEF TypeOK, Event
  <1>2. BrokerConsistent'
    BY DEF TypeOK, BrokerConsistent, HandlersConsistent, Subscribed, Live, Opening
  <1>3. HandlersConsistent'
    BY DEF TypeOK, HandlersConsistent, Opening
  <1>4. SignalsArrive'
    BY DEF TypeOK, BrokerConsistent, HandlersConsistent, SignalsArrive, Opening, Fed, Subscribed, Live
  <1>5. EventsArrive'
    BY DEF TypeOK, HandlersConsistent, EventsArrive, Opening, Fed, Subscribed, Live, WillShow
  <1>. QED
    BY <1>1, <1>2, <1>3, <1>4, <1>5

LEMMA EnsureListenerIInv ==
  ASSUME IInv, NEW s \in Sessions, EnsureListener(s)
  PROVE  IInv'
  <1> USE StreamAssumption DEF IInv, EnsureListener, broker, channel, client
  <1>1. TypeOK'
    BY DEF TypeOK, Event
  <1>2. BrokerConsistent'
    BY DEF TypeOK, BrokerConsistent, HandlersConsistent, Subscribed, Live, Opening
  <1>3. HandlersConsistent'
    BY DEF TypeOK, HandlersConsistent, Opening
  <1>4. SignalsArrive'
    BY DEF TypeOK, BrokerConsistent, HandlersConsistent, SignalsArrive, Opening, Fed, Subscribed, Live
  <1>5. EventsArrive'
    <2> SUFFICES ASSUME NEW t \in Sessions, Fed(t)'
                 PROVE  (run[t] = "count")' \/ WillShow(events[t], writing[t], shown[t], last[t])'
      BY DEF EventsArrive
    <2>1. Fed(t) /\ (run[t] = "count" <=> run'[t] = "count")
      BY DEF TypeOK, HandlersConsistent, Opening, Fed, Subscribed, Live
    <2>. QED
      BY <2>1 DEF EventsArrive
  <1>. QED
    BY <1>1, <1>2, <1>3, <1>4, <1>5

LEMMA LeaveIInv ==
  ASSUME IInv, NEW s \in Sessions, Leave(s)
  PROVE  IInv'
  <1> USE StreamAssumption DEF IInv, Leave, End, Closing, broker, channel, client
  <1>1. TypeOK'
    BY DEF TypeOK, Event
  <1>2. BrokerConsistent'
    BY DEF TypeOK, BrokerConsistent, HandlersConsistent, Subscribed, Live, Opening
  <1>3. HandlersConsistent'
    BY DEF TypeOK, HandlersConsistent, Opening
  <1>4. SignalsArrive'
    BY DEF TypeOK, BrokerConsistent, HandlersConsistent, SignalsArrive, Opening, Fed, Subscribed, Live
  <1>5. EventsArrive'
    BY DEF TypeOK, HandlersConsistent, EventsArrive, Opening, Fed, Subscribed, Live, WillShow
  <1>. QED
    BY <1>1, <1>2, <1>3, <1>4, <1>5

LEMMA TakeIInv ==
  ASSUME IInv, NEW s \in Sessions, Take(s)
  PROVE  IInv'
  <1> USE StreamAssumption DEF IInv, Take, broker, channel, client
  <1>1. TypeOK'
    BY DEF TypeOK, Event
  <1>2. BrokerConsistent'
    BY DEF TypeOK, BrokerConsistent, HandlersConsistent, Subscribed, Live, Opening
  <1>3. HandlersConsistent'
    BY DEF TypeOK, HandlersConsistent, Opening
  <1>4. SignalsArrive'
    BY DEF TypeOK, BrokerConsistent, HandlersConsistent, SignalsArrive, Opening, Fed, Subscribed, Live
  <1>5. EventsArrive'
    BY DEF TypeOK, HandlersConsistent, EventsArrive, Opening, Fed, Subscribed, Live, WillShow
  <1>. QED
    BY <1>1, <1>2, <1>3, <1>4, <1>5

LEMMA ReadIInv ==
  ASSUME IInv, NEW s \in Sessions, Read(s)
  PROVE  IInv'
  <1> USE StreamAssumption DEF IInv, Read, ChangedSince, broker, channel, client
  <1>1. TypeOK'
    BY DEF TypeOK, Event
  <1>2. BrokerConsistent'
    BY DEF TypeOK, BrokerConsistent, HandlersConsistent, Subscribed, Live, Opening
  <1>3. HandlersConsistent'
    BY DEF TypeOK, HandlersConsistent, Opening
  <1>4. SignalsArrive'
    BY DEF TypeOK, BrokerConsistent, HandlersConsistent, SignalsArrive, Opening, Fed, Subscribed, Live
  <1>5. EventsArrive'
    <2> SUFFICES ASSUME NEW t \in Sessions, Fed(t)'
                 PROVE  (run[t] = "count")' \/ WillShow(events[t], writing[t], shown[t], last[t])'
      BY DEF EventsArrive
    <2>1. Fed(t)
      BY DEF TypeOK, Fed, Subscribed, Live
    <2>2. (run[t] # "count" => WillShow(events[t], writing[t], shown[t], last[t]))
      BY <2>1 DEF EventsArrive
    <2>3. run'[t] = "count" \/ (run[t] # "count" /\ last'[t] = last[t])
      BY DEF TypeOK
    <2>. QED
      BY <2>2, <2>3
  <1>. QED
    BY <1>1, <1>2, <1>3, <1>4, <1>5

LEMMA ReadFailsIInv ==
  ASSUME IInv, NEW s \in Sessions, ReadFails(s)
  PROVE  IInv'
  <1> USE StreamAssumption DEF IInv, ReadFails, End, Closing, broker, channel, client
  <1>1. TypeOK'
    BY DEF TypeOK, Event
  <1>2. BrokerConsistent'
    BY DEF TypeOK, BrokerConsistent, HandlersConsistent, Subscribed, Live, Opening
  <1>3. HandlersConsistent'
    BY DEF TypeOK, HandlersConsistent, Opening
  <1>4. SignalsArrive'
    BY DEF TypeOK, BrokerConsistent, HandlersConsistent, SignalsArrive, Opening, Fed, Subscribed, Live
  <1>5. EventsArrive'
    BY DEF TypeOK, HandlersConsistent, EventsArrive, Opening, Fed, Subscribed, Live, WillShow
  <1>. QED
    BY <1>1, <1>2, <1>3, <1>4, <1>5

LEMMA EmitCountIInv ==
  ASSUME IInv, NEW s \in Sessions, EmitCount(s)
  PROVE  IInv'
  <1> USE StreamAssumption DEF IInv, EmitCount, Emit, broker, channel, client
  <1>1. TypeOK'
    BY DEF TypeOK, Event
  <1>2. BrokerConsistent'
    BY DEF TypeOK, BrokerConsistent, HandlersConsistent, Subscribed, Live, Opening
  <1>3. HandlersConsistent'
    BY DEF TypeOK, HandlersConsistent, Opening
  <1>4. SignalsArrive'
    BY DEF TypeOK, BrokerConsistent, HandlersConsistent, SignalsArrive, Opening, Fed, Subscribed, Live
  <1>5. EventsArrive'
    <2> SUFFICES ASSUME NEW t \in Sessions, Fed(t)'
                 PROVE  (run[t] = "count")' \/ WillShow(events[t], writing[t], shown[t], last[t])'
      BY DEF EventsArrive
    <2>1. Fed(t)
      BY DEF TypeOK, HandlersConsistent, Opening, Fed, Subscribed, Live
    <2>2. run[t] = "count" \/ WillShow(events[t], writing[t], shown[t], last[t])
      BY <2>1 DEF EventsArrive
    <2>3. CASE t = s
      <3> DEFINE e == [type |-> "unread_count", count |-> last[s]]
      <3>1. /\ e \in Event /\ IsCount(e) /\ e.count = last[s] /\ events[s] \in Seq(Event)
            /\ events'[s] = Append(events[s], e)
            /\ last'[s] = last[s]
        BY DEF TypeOK, Event, IsCount
      <3> HIDE DEF e
      <3>2. WillShow(events'[s], writing'[s], shown'[s], last'[s])
        BY <3>1, AppendCount
      <3>. QED
        BY <2>3, <3>2
    <2>4. CASE t # s
      <3>1. /\ events'[t] = events[t] /\ writing'[t] = writing[t] /\ shown'[t] = shown[t]
            /\ last'[t] = last[t] /\ run'[t] = run[t]
        BY <2>4 DEF TypeOK
      <3>. QED
        BY <2>2, <3>1
    <2>. QED
      BY <2>3, <2>4
  <1>. QED
    BY <1>1, <1>2, <1>3, <1>4, <1>5

LEMMA EmitInvalidatedIInv ==
  ASSUME IInv, NEW s \in Sessions, EmitInvalidated(s)
  PROVE  IInv'
  <1> USE StreamAssumption DEF IInv, EmitInvalidated, Emit, broker, channel, client
  <1>1. TypeOK'
    BY DEF TypeOK, Event
  <1>2. BrokerConsistent'
    BY DEF TypeOK, BrokerConsistent, HandlersConsistent, Subscribed, Live, Opening
  <1>3. HandlersConsistent'
    BY DEF TypeOK, HandlersConsistent, Opening
  <1>4. SignalsArrive'
    BY DEF TypeOK, BrokerConsistent, HandlersConsistent, SignalsArrive, Opening, Fed, Subscribed, Live
  <1>5. EventsArrive'
    <2> SUFFICES ASSUME NEW t \in Sessions, Fed(t)'
                 PROVE  (run[t] = "count")' \/ WillShow(events[t], writing[t], shown[t], last[t])'
      BY DEF EventsArrive
    <2>1. Fed(t)
      BY DEF TypeOK, HandlersConsistent, Opening, Fed, Subscribed, Live
    <2>2. run[t] = "count" \/ WillShow(events[t], writing[t], shown[t], last[t])
      BY <2>1 DEF EventsArrive
    <2>3. CASE t = s
      <3> DEFINE e == [type |-> "inbox_invalidated"]
      <3>1. /\ e \in Event /\ ~IsCount(e) /\ events[s] \in Seq(Event)
            /\ events'[s] = Append(events[s], e)
            /\ last'[s] = last[s] /\ writing'[s] = writing[s] /\ shown'[s] = shown[s]
        BY DEF TypeOK, Event, IsCount
      <3> HIDE DEF e
      <3>2. WillShow(events[s], writing[s], shown[s], last[s])
        BY <2>2, <2>3
      <3>3. WillShow(events'[s], writing'[s], shown'[s], last'[s])
        BY <3>1, <3>2, AppendOther
      <3>. QED
        BY <2>3, <3>3
    <2>4. CASE t # s
      <3>1. /\ events'[t] = events[t] /\ writing'[t] = writing[t] /\ shown'[t] = shown[t]
            /\ last'[t] = last[t] /\ run'[t] = run[t]
        BY <2>4 DEF TypeOK
      <3>. QED
        BY <2>2, <3>1
    <2>. QED
      BY <2>3, <2>4
  <1>. QED
    BY <1>1, <1>2, <1>3, <1>4, <1>5

LEMMA TakeEventIInv ==
  ASSUME IInv, NEW s \in Sessions, TakeEvent(s)
  PROVE  IInv'
  <1> USE StreamAssumption DEF IInv, TakeEvent, broker, channel, client
  <1>1. TypeOK'
    BY DEF TypeOK, Event
  <1>2. BrokerConsistent'
    BY DEF TypeOK, BrokerConsistent, HandlersConsistent, Subscribed, Live, Opening
  <1>3. HandlersConsistent'
    BY DEF TypeOK, HandlersConsistent, Opening
  <1>4. SignalsArrive'
    BY DEF TypeOK, BrokerConsistent, HandlersConsistent, SignalsArrive, Opening, Fed, Subscribed, Live
  <1>5. EventsArrive'
    <2> SUFFICES ASSUME NEW t \in Sessions, Fed(t)'
                 PROVE  (run[t] = "count")' \/ WillShow(events[t], writing[t], shown[t], last[t])'
      BY DEF EventsArrive
    <2>1. Fed(t)
      BY DEF TypeOK, HandlersConsistent, Opening, Fed, Subscribed, Live
    <2>2. run[t] = "count" \/ WillShow(events[t], writing[t], shown[t], last[t])
      BY <2>1 DEF EventsArrive
    <2>3. CASE t = s
      <3>1. /\ events[s] \in Seq(Event) /\ events[s] # <<>> /\ writing[s] = {}
            /\ events'[s] = Tail(events[s]) /\ writing'[s] = {Head(events[s])}
            /\ last'[s] = last[s] /\ shown'[s] = shown[s] /\ run'[s] = run[s]
        BY DEF TypeOK, HandlersConsistent
      <3>. QED
        BY <2>2, <2>3, <3>1, TakeHead
    <2>4. CASE t # s
      <3>1. /\ events'[t] = events[t] /\ writing'[t] = writing[t] /\ shown'[t] = shown[t]
            /\ last'[t] = last[t] /\ run'[t] = run[t]
        BY <2>4 DEF TypeOK
      <3>. QED
        BY <2>2, <3>1
    <2>. QED
      BY <2>3, <2>4
  <1>. QED
    BY <1>1, <1>2, <1>3, <1>4, <1>5

LEMMA WrittenIInv ==
  ASSUME IInv, NEW s \in Sessions, Written(s)
  PROVE  IInv'
  <1> USE StreamAssumption DEF IInv, Written, broker, channel, client
  <1>1. TypeOK'
    BY DEF TypeOK, Event
  <1>2. BrokerConsistent'
    BY DEF TypeOK, BrokerConsistent, HandlersConsistent, Subscribed, Live, Opening
  <1>3. HandlersConsistent'
    BY DEF TypeOK, HandlersConsistent, Opening
  <1>4. SignalsArrive'
    BY DEF TypeOK, BrokerConsistent, HandlersConsistent, SignalsArrive, Opening, Fed, Subscribed, Live
  <1>5. EventsArrive'
    <2> SUFFICES ASSUME NEW t \in Sessions, Fed(t)'
                 PROVE  (run[t] = "count")' \/ WillShow(events[t], writing[t], shown[t], last[t])'
      BY DEF EventsArrive
    <2>1. Fed(t)
      BY DEF TypeOK, HandlersConsistent, Opening, Fed, Subscribed, Live
    <2>2. run[t] = "count" \/ WillShow(events[t], writing[t], shown[t], last[t])
      BY <2>1 DEF EventsArrive
    <2>3. CASE t = s
      <3>1. PICK e \in writing[s] :
              shown' = IF e.type = "unread_count" THEN [shown EXCEPT ![s] = e.count] ELSE shown
        OBVIOUS
      <3>2. writing[s] = {e}
        BY DEF HandlersConsistent
      <3>3. /\ events'[s] = events[s] /\ writing'[s] = {} /\ last'[s] = last[s] /\ run'[s] = run[s]
            /\ shown'[s] = IF IsCount(e) THEN e.count ELSE shown[s]
        BY <3>1 DEF TypeOK, IsCount
      <3>. QED
        BY <2>2, <2>3, <3>2, <3>3, WriteEvent
    <2>4. CASE t # s
      <3>1. /\ events'[t] = events[t] /\ writing'[t] = writing[t] /\ shown'[t] = shown[t]
            /\ last'[t] = last[t] /\ run'[t] = run[t]
        BY <2>4 DEF TypeOK
      <3>. QED
        BY <2>2, <3>1
    <2>. QED
      BY <2>3, <2>4
  <1>. QED
    BY <1>1, <1>2, <1>3, <1>4, <1>5

LEMMA WriteFailsIInv ==
  ASSUME IInv, NEW s \in Sessions, WriteFails(s)
  PROVE  IInv'
  <1> USE StreamAssumption DEF IInv, WriteFails, Return, Closing, broker, channel, client
  <1>1. TypeOK'
    BY DEF TypeOK, Event
  <1>2. BrokerConsistent'
    BY DEF TypeOK, BrokerConsistent, HandlersConsistent, Subscribed, Live, Opening
  <1>3. HandlersConsistent'
    BY DEF TypeOK, HandlersConsistent, Opening
  <1>4. SignalsArrive'
    BY DEF TypeOK, BrokerConsistent, HandlersConsistent, SignalsArrive, Opening, Fed, Subscribed, Live
  <1>5. EventsArrive'
    BY DEF TypeOK, HandlersConsistent, EventsArrive, Opening, Fed, Subscribed, Live, WillShow
  <1>. QED
    BY <1>1, <1>2, <1>3, <1>4, <1>5

LEMMA StreamOverIInv ==
  ASSUME IInv, NEW s \in Sessions, StreamOver(s)
  PROVE  IInv'
  <1> USE StreamAssumption DEF IInv, StreamOver, Return, Closing, broker, channel, client
  <1>1. TypeOK'
    BY DEF TypeOK, Event
  <1>2. BrokerConsistent'
    BY DEF TypeOK, BrokerConsistent, HandlersConsistent, Subscribed, Live, Opening
  <1>3. HandlersConsistent'
    BY DEF TypeOK, HandlersConsistent, Opening
  <1>4. SignalsArrive'
    BY DEF TypeOK, BrokerConsistent, HandlersConsistent, SignalsArrive, Opening, Fed, Subscribed, Live
  <1>5. EventsArrive'
    BY DEF TypeOK, HandlersConsistent, EventsArrive, Opening, Fed, Subscribed, Live, WillShow
  <1>. QED
    BY <1>1, <1>2, <1>3, <1>4, <1>5

LEMMA CloseReturnsIInv ==
  ASSUME IInv, NEW s \in Sessions, CloseReturns(s)
  PROVE  IInv'
  <1> USE StreamAssumption DEF IInv, CloseReturns, broker, channel, client
  <1>1. TypeOK'
    BY DEF TypeOK, Event
  <1>2. BrokerConsistent'
    BY DEF TypeOK, BrokerConsistent, HandlersConsistent, Subscribed, Live, Opening
  <1>3. HandlersConsistent'
    BY DEF TypeOK, HandlersConsistent, Opening
  <1>4. SignalsArrive'
    BY DEF TypeOK, BrokerConsistent, HandlersConsistent, SignalsArrive, Opening, Fed, Subscribed, Live
  <1>5. EventsArrive'
    BY DEF TypeOK, HandlersConsistent, EventsArrive, Opening, Fed, Subscribed, Live, WillShow
  <1>. QED
    BY <1>1, <1>2, <1>3, <1>4, <1>5

LEMMA DisconnectIInv ==
  ASSUME IInv, NEW s \in Sessions, Disconnect(s)
  PROVE  IInv'
  <1> USE StreamAssumption DEF IInv, Disconnect, broker, channel, client
  <1>1. TypeOK'
    BY DEF TypeOK, Event
  <1>2. BrokerConsistent'
    BY DEF TypeOK, BrokerConsistent, HandlersConsistent, Subscribed, Live, Opening
  <1>3. HandlersConsistent'
    BY DEF TypeOK, HandlersConsistent, Opening
  <1>4. SignalsArrive'
    BY DEF TypeOK, BrokerConsistent, HandlersConsistent, SignalsArrive, Opening, Fed, Subscribed, Live
  <1>5. EventsArrive'
    BY DEF TypeOK, HandlersConsistent, EventsArrive, Opening, Fed, Subscribed, Live, WillShow
  <1>. QED
    BY <1>1, <1>2, <1>3, <1>4, <1>5

LEMMA NextIInv == IInv /\ [Next]_vars => IInv'
  <1> SUFFICES ASSUME IInv, [Next]_vars PROVE IInv'
    OBVIOUS
  <1>1. CASE Next
    BY <1>1, ChangeIInv, PublishIInv, PublishFailsIInv, ListenIInv, ListenFailsIInv,
       ConnectionLostIInv, FailListenerIInv, CloseDoomedIInv, DispatchIInv, DeliverIInv,
       OpenCountIInv, SubscribeLocalIInv, EnsureListenerIInv, LeaveIInv, TakeIInv, ReadIInv,
       ReadFailsIInv, EmitCountIInv, EmitInvalidatedIInv, TakeEventIInv, WrittenIInv,
       WriteFailsIInv, StreamOverIInv, CloseReturnsIInv, DisconnectIInv
       DEF Next, Broker, Session, Handler
  <1>2. CASE UNCHANGED vars
    BY <1>2 DEF IInv, vars, broker, channel, client, TypeOK, BrokerConsistent, HandlersConsistent,
       SignalsArrive, EventsArrive, Opening, Subscribed, Live, Fed
  <1>. QED
    BY <1>1, <1>2

\* The strengthening holds in every reachable state.
THEOREM StreamInvariant == Spec => []IInv
  BY InitIInv, NextIInv, PTL DEF Spec

\* Broker, sessions and handlers are type correct, for any number of them and
\* any capacities: in particular no channel is filled beyond its capacity.
THEOREM StreamTypeCorrect == Spec => []TypeOK
  BY StreamInvariant, PTL DEF IInv

\* However listeners fail while subscriptions are opened, no session waits for
\* a listener that is not there.
THEOREM NobodyWaitsInVain == Spec => []NoDeafSession
  <1>1. IInv => NoDeafSession
    BY DEF IInv, BrokerConsistent, NoDeafSession, Subscribed, Live
  <1>. QED
    BY <1>1, StreamInvariant, PTL

\* A client that was sent everything is shown the count of the latest change
\* its session heard of, however signals are dropped, reordered or delayed.
THEOREM RestIsFresh == Spec => []FreshAtRest
  <1>1. ASSUME IInv PROVE FreshAtRest
    <2> SUFFICES ASSUME NEW s \in Sessions, AtRest(s), heard[s] = changes
                 PROVE  shown[s] = count
      BY DEF FreshAtRest
    <2>1. Fed(s) /\ run[s] = "select" /\ writing[s] = {} /\ events[s] = <<>>
      BY <1>1 DEF IInv, HandlersConsistent, AtRest, Fed, Subscribed, Live
    <2>2. last[s] = count
      <3>1. s \in targets \/ signals[s] > 0 \/ run[s] = "read" \/ last[s] = count
        BY <1>1, <2>1 DEF IInv, SignalsArrive
      <3>2. ~(signals[s] > 0)
        BY DEF AtRest
      <3>3. s \notin targets
        BY DEF AtRest
      <3>. QED
        BY <2>1, <3>1, <3>2, <3>3
    <2>3. WillShow(<<>>, {}, shown[s], last[s])
      BY <1>1, <2>1 DEF IInv, EventsArrive
    <2>4. shown[s] = last[s]
      BY <2>3 DEF WillShow, EndsWith
    <2>. QED
      BY <2>2, <2>4
  <1>. QED
    BY <1>1, StreamInvariant, PTL
=============================================================================
