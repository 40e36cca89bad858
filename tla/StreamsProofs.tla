--------------------------- MODULE StreamsProofs ----------------------------
(***************************************************************************)
(* Theorems about what carries events.  The hub, for any number of         *)
(* requests, streams and events, any size of the channels and a shutdown   *)
(* at any moment; the request log and its view, for any number of handlers *)
(* and entries and any size of the buffer; the client of one stream, for   *)
(* any number of events and connections cut anywhere.                      *)
(***************************************************************************)
EXTENDS Streams, TLAPS

PubState ==
    [pc : {"idle", "writing", "sending"}, event : Event \cup {Nothing},
     todo : SUBSET Stream, owed : SUBSET Stream]

StreamPCs == {"none", "subscribe", "hello", "loop", "filter", "write", "unsubscribe", "ended"}

StreamState == [pc : StreamPCs, hand : Seq(Event)]

\* What TypeOK leaves open: the domains, and the records in them.
Shape ==
    /\ pub \in [Request -> PubState]
    /\ stream \in [Stream -> StreamState]
    /\ chan \in [Stream -> Seq(Event)] /\ sent \in [Stream -> Seq(Event)]
    /\ skipped \in [Stream -> SUBSET Event] /\ due \in [Stream -> SUBSET Event]
    /\ unread \in [Stream -> 0 .. MaxUnread]

\* Who is still to be visited by a Publish is subscribed, and nobody else
\* is to be visited: unsubscribe waits for h.mu.
Visiting ==
    \A r \in Request :
        /\ pub[r].todo \subseteq subs
        /\ pub[r].pc # "sending" => pub[r].todo = {}
        /\ pub[r].pc = "sending" => pub[r].event \in Event

\* The inductive invariant.
HubInv == TypeOK /\ Shape /\ Visiting /\ ClosedAfterRequests

----------------------------------------------------------------------------
LEMMA EmptyChannel == <<>> \in Seq(Event) /\ Len(<<>>) = 0
OBVIOUS

LEMMA HubInit == Init => HubInv
<1> SUFFICES ASSUME Init PROVE HubInv
    OBVIOUS
<1> USE RealtimeAssumption
<1>1. /\ \A r \in Request : pub[r] = IdlePub
      /\ \A s \in Stream : /\ stream[s] = NoStream /\ chan[s] = <<>> /\ sent[s] = <<>>
                           /\ unread[s] = 0 /\ skipped[s] = {} /\ due[s] = {}
  BY DEF Init
<1>2. IdlePub \in PubState /\ NoStream \in StreamState
  BY DEF IdlePub, PubState, NoStream, StreamState, StreamPCs
<1>3. Shape
  BY <1>2 DEF Init, Shape
<1>4. TypeOK
  <2>1. \A s \in Stream : stream[s].pc = "none" /\ stream[s].hand = <<>>
    BY <1>1 DEF NoStream
  <2>2. \A s \in Stream : chan[s] \in Seq(Event) /\ Len(chan[s]) <= BufferLen
    <3>1. 0 <= BufferLen
      OBVIOUS
    <3>2. \A s \in Stream : chan[s] = <<>>
      BY <1>1
    <3> HIDE RealtimeAssumption
    <3> QED BY <3>1, <3>2, EmptyChannel
  <2>3. published \in 0 .. MaxEvents /\ \A s \in Stream : unread[s] \in 0 .. MaxUnread
    BY <1>1 DEF Init
  <2>4. \A r \in Request : pub[r].event \in Event \cup {Nothing} /\ pub[r].todo \subseteq Stream
    BY <1>1 DEF IdlePub
  <2>5. /\ subs = {s \in Stream : stream[s].pc \notin {"none", "subscribe", "ended"}}
        /\ closed = {s \in Stream : At(s, "ended")}
    BY <2>1 DEF Init, At
  <2>6. \A s \in Stream : /\ stream[s].hand \in Seq(Event)
                          /\ (stream[s].hand # <<>>) <=> stream[s].pc \in {"filter", "write"}
    BY <2>1, EmptyChannel
  <2> QED BY <1>1, <2>2, <2>3, <2>4, <2>5, <2>6 DEF Init, TypeOK
<1>5. Visiting
  BY <1>1 DEF Visiting, IdlePub
<1>6. ClosedAfterRequests
  BY DEF Init, ClosedAfterRequests
<1> QED BY <1>3, <1>4, <1>5, <1>6 DEF HubInv

\* The requests that write and publish.
LEMMA ArriveStep ==
    ASSUME HubInv, NEW r \in Request, Arrive(r) \/ Refuse(r)
    PROVE  HubInv'
<1> DEFINE new == IF Refuse(r) THEN IdlePub
                  ELSE [pc |-> "writing", event |-> Nothing, todo |-> {}, owed |-> {}]
<1>0. pub' = [pub EXCEPT ![r] = new]
  BY DEF Arrive, Refuse, IdlePub
<1>a. /\ new \in PubState /\ new.todo = {} /\ new.event = Nothing
      /\ new.pc # "sending"
  BY DEF PubState, IdlePub
<1>b. pub \in [Request -> PubState] /\ \A q \in Request : pub'[q] = IF q = r THEN new ELSE pub[q]
  BY <1>0 DEF HubInv, Shape
<1> HIDE DEF new
<1>1. pub' \in [Request -> PubState]
  BY <1>0, <1>a, <1>b
<1>2. /\ \A q \in Request : pub'[q].todo \subseteq pub[q].todo
      /\ \A q \in Request : pub'[q].pc = "sending" => pub'[q] = pub[q]
      /\ \A q \in Request : pub'[q].pc # "sending" => pub'[q].todo = {}
      /\ \A q \in Request : pub'[q].event \in Event \cup {Nothing} /\ pub'[q].todo \subseteq Stream
  BY <1>a, <1>b DEF HubInv, TypeOK, Visiting
<1>3. server = "up" \/ \A q \in Request : pub[q].pc = "idle" => pub'[q].pc = "idle"
  BY DEF Arrive, Refuse, HubInv, Shape, IdlePub
<1>4. Shape'
  BY <1>1 DEF Arrive, Refuse, HubInv, Shape, hub, history
<1>5. TypeOK'
  BY <1>2 DEF Arrive, Refuse, HubInv, TypeOK, At, hub, history
<1>6. Visiting'
  BY <1>2 DEF Arrive, Refuse, HubInv, Visiting, hub
<1>7. ClosedAfterRequests'
  BY <1>3 DEF Arrive, Refuse, HubInv, ClosedAfterRequests
<1> QED BY <1>4, <1>5, <1>6, <1>7 DEF HubInv

LEMMA PublishBeginStep ==
    ASSUME HubInv, NEW r \in Request, NEW t \in Topic, PublishBegin(r, t)
    PROVE  HubInv'
<1> DEFINE e == [n |-> published + 1, topic |-> t]
           new == [pc |-> "sending", event |-> e, todo |-> subs,
                   owed |-> {s \in Connected : t \in wants[s]}]
<1>1. e \in Event /\ published' \in 0 .. MaxEvents
  BY RealtimeAssumption DEF PublishBegin, HubInv, TypeOK, Event
<1>2. new \in PubState
  BY <1>1 DEF HubInv, TypeOK, PubState, Connected
<1>3. pub' = [pub EXCEPT ![r] = new]
  BY DEF PublishBegin
<1> HIDE DEF new
<1>4. \A q \in Request : pub'[q] = IF q = r THEN new ELSE pub[q]
  BY <1>3 DEF HubInv, Shape
<1>5. new.todo = subs /\ new.pc = "sending" /\ new.event \in Event /\ subs \subseteq Stream
  BY <1>1 DEF new, HubInv, TypeOK
<1>6. Shape'
  BY <1>2, <1>3 DEF PublishBegin, HubInv, Shape, hub, history
<1>7. TypeOK'
  BY <1>1, <1>4, <1>5 DEF PublishBegin, HubInv, TypeOK, At, hub, history
<1>8. Visiting'
  BY <1>4, <1>5 DEF PublishBegin, HubInv, Visiting, hub
<1>9. ClosedAfterRequests'
  BY <1>4 DEF PublishBegin, HubInv, ClosedAfterRequests
<1> QED BY <1>6, <1>7, <1>8, <1>9 DEF HubInv

LEMMA DeliverStep ==
    ASSUME HubInv, NEW r \in Request, Deliver(r)
    PROVE  HubInv'
<1>1. PICK s \in pub[r].todo :
          /\ Skip(r, s) \/ Send(r, s) \/ Drop(r, s)
          /\ pub' = [pub EXCEPT ![r] = [pub[r] EXCEPT !.todo = pub[r].todo \ {s}]]
          /\ UNCHANGED <<subs, closed, wants, stream, gone, unread, server,
                         timedOut, published, sent, due>>
  BY DEF Deliver, Rest
<1>2. s \in Stream /\ pub[r].pc = "sending" /\ pub[r].event \in Event
  BY <1>1 DEF HubInv, Shape, PubState, Visiting
<1>3. /\ chan' \in [Stream -> Seq(Event)]
      /\ \A q \in Stream : Len(chan'[q]) <= BufferLen
  <2>1. CASE Send(r, s)
    <3>1. Append(chan[s], pub[r].event) \in Seq(Event)
      BY <1>2 DEF HubInv, Shape
    <3>2. Len(Append(chan[s], pub[r].event)) <= BufferLen
      BY <2>1, <1>2, RealtimeAssumption DEF Send, HubInv, Shape
    <3> QED BY <2>1, <3>1, <3>2 DEF Send, HubInv, TypeOK, Shape
  <2>2. CASE Skip(r, s) \/ Drop(r, s)
    BY <2>2 DEF Skip, Drop, HubInv, TypeOK, Shape
  <2> QED BY <1>1, <2>1, <2>2
<1>4. skipped' \in [Stream -> SUBSET Event]
  <2>1. CASE Drop(r, s)
    BY <2>1, <1>2 DEF Drop, HubInv, Shape
  <2>2. CASE Skip(r, s) \/ Send(r, s)
    BY <2>2 DEF Skip, Send, HubInv, Shape
  <2> QED BY <1>1, <2>1, <2>2
<1>5. pub' \in [Request -> PubState]
  <2>1. [pub[r] EXCEPT !.todo = pub[r].todo \ {s}] \in PubState
    BY DEF HubInv, Shape, PubState
  <2> QED BY <1>1, <2>1 DEF HubInv, Shape
<1>6. \A q \in Request : /\ pub'[q].pc = pub[q].pc /\ pub'[q].event = pub[q].event
                         /\ pub'[q].todo \subseteq pub[q].todo
  BY <1>1 DEF HubInv, Shape, PubState
<1>7. Shape'
  BY <1>1, <1>3, <1>4, <1>5 DEF HubInv, Shape
<1>8. TypeOK'
  BY <1>1, <1>3, <1>4, <1>5, <1>6 DEF HubInv, TypeOK, Shape, At
<1>9. Visiting'
  BY <1>1, <1>6 DEF HubInv, Visiting
<1>10. ClosedAfterRequests'
  BY <1>1, <1>6 DEF HubInv, ClosedAfterRequests
<1> QED BY <1>7, <1>8, <1>9, <1>10 DEF HubInv

LEMMA PublishEndStep ==
    ASSUME HubInv, NEW r \in Request, PublishEnd(r)
    PROVE  HubInv'
<1>1. pub[r].event \in Event
  BY DEF PublishEnd, HubInv, Visiting
<1>2. due' \in [Stream -> SUBSET Event]
  BY <1>1 DEF PublishEnd, HubInv, Shape
<1>3. pub' = [pub EXCEPT ![r] = IdlePub] /\ IdlePub \in PubState
  BY DEF PublishEnd, IdlePub, PubState
<1>4. \A q \in Request : pub'[q] = IF q = r THEN IdlePub ELSE pub[q]
  BY <1>3 DEF HubInv, Shape
<1>5. Shape'
  BY <1>2, <1>3 DEF PublishEnd, HubInv, Shape, hub
<1>6. TypeOK'
  BY <1>2, <1>4 DEF PublishEnd, HubInv, TypeOK, IdlePub, At, hub
<1>7. Visiting'
  BY <1>4 DEF PublishEnd, HubInv, Visiting, IdlePub, hub
<1>8. ClosedAfterRequests'
  BY <1>4 DEF PublishEnd, HubInv, ClosedAfterRequests, IdlePub
<1> QED BY <1>5, <1>6, <1>7, <1>8 DEF HubInv

\* The streams.
LEMMA ConnectStep ==
    ASSUME HubInv, NEW s \in Stream,
           (\E topics \in SUBSET Topic : Connect(s, topics)) \/ Subscribe(s) \/ Hello(s)
    PROVE  HubInv'
<1> USE DEF Goto, At
<1>1. stream' \in [Stream -> StreamState]
  <2>1. \A pc \in {"subscribe", "hello", "loop"} : [pc |-> pc, hand |-> stream[s].hand] \in StreamState
    BY DEF HubInv, Shape, StreamState, StreamPCs
  <2> QED BY <2>1 DEF Connect, Subscribe, Hello, HubInv, Shape
<1>2. /\ stream[s].pc \notin {"filter", "write", "ended", "unsubscribe"}
      /\ stream'[s].pc \notin {"filter", "write", "ended", "unsubscribe", "none"}
      /\ stream'[s].hand = stream[s].hand
      /\ \A q \in Stream : q # s => stream'[q] = stream[q]
      /\ stream'[s].pc = "subscribe" <=> stream[s].pc = "none"
  BY DEF Connect, Subscribe, Hello, HubInv, Shape, StreamState, StreamPCs
<1>3. subs' = {q \in Stream : stream'[q].pc \notin {"none", "subscribe", "ended"}}
  BY <1>2 DEF Connect, Subscribe, Hello, HubInv, TypeOK, hub
<1>4. closed' = {q \in Stream : stream'[q].pc = "ended"}
  BY <1>2 DEF Connect, Subscribe, Hello, HubInv, TypeOK, hub
<1>5. wants' \in [Stream -> SUBSET Topic]
  BY DEF Connect, Subscribe, Hello, HubInv, TypeOK
<1>6. Shape'
  BY <1>1 DEF Connect, Subscribe, Hello, HubInv, Shape, hub, history
<1>7. TypeOK'
  <2>1. \A q \in Stream :
            /\ stream'[q].hand \in Seq(Event)
            /\ (stream'[q].hand # <<>>) <=> stream'[q].pc \in {"filter", "write"}
    BY <1>2 DEF HubInv, TypeOK
  <2>2. UNCHANGED <<chan, pub, gone, unread, server, timedOut, published, sent, skipped, due>>
    BY DEF Connect, Subscribe, Hello, hub, history
  <2> QED BY <1>3, <1>4, <1>5, <2>1, <2>2 DEF HubInv, TypeOK
<1>8. Visiting'
  BY <1>3, <1>2 DEF Connect, Subscribe, Hello, HubInv, Visiting, hub
<1>9. ClosedAfterRequests'
  BY <1>2 DEF Connect, Subscribe, Hello, HubInv, ClosedAfterRequests
<1> QED BY <1>6, <1>7, <1>8, <1>9 DEF HubInv

LEMMA HandleStep ==
    ASSUME HubInv, NEW s \in Stream, Receive(s) \/ Filter(s) \/ Write(s)
    PROVE  HubInv'
<1> USE DEF Goto, At
<1>1. CASE Receive(s)
  <2>1. /\ Head(chan[s]) \in Event /\ Tail(chan[s]) \in Seq(Event)
        /\ Len(Tail(chan[s])) <= BufferLen /\ <<Head(chan[s])>> \in Seq(Event)
    BY <1>1, RealtimeAssumption DEF Receive, HubInv, Shape, TypeOK
  <2>2. /\ stream' \in [Stream -> StreamState]
        /\ stream'[s].pc = "filter" /\ stream'[s].hand # <<>>
        /\ \A q \in Stream : q # s => stream'[q] = stream[q]
    BY <1>1, <2>1 DEF Receive, HubInv, Shape, StreamState, StreamPCs
  <2>3. /\ chan' \in [Stream -> Seq(Event)]
        /\ \A q \in Stream : Len(chan'[q]) <= BufferLen
    BY <1>1, <2>1 DEF Receive, HubInv, Shape, TypeOK
  <2>4. Shape'
    BY <1>1, <2>2, <2>3 DEF Receive, HubInv, Shape, history
  <2>5. TypeOK'
    BY <1>1, <2>2, <2>3 DEF Receive, HubInv, Shape, StreamState, StreamPCs, TypeOK, history
  <2>6. Visiting'
    BY <1>1 DEF Receive, HubInv, Visiting
  <2>7. ClosedAfterRequests'
    BY <1>1, <2>2 DEF Receive, HubInv, ClosedAfterRequests
  <2> QED BY <2>4, <2>5, <2>6, <2>7 DEF HubInv
<1>2. CASE Filter(s) \/ Write(s)
  <2> DEFINE kept == [pc |-> "write", hand |-> stream[s].hand]
             done == [pc |-> "loop", hand |-> <<>>]
  <2>a. kept \in StreamState /\ done \in StreamState
    BY EmptyChannel DEF HubInv, Shape, StreamState, StreamPCs
  <2>b. \/ At(s, "filter") /\ stream' = [stream EXCEPT ![s] = kept]
        \/ stream' = [stream EXCEPT ![s] = done]
    BY <1>2 DEF Filter, Write
  <2>c. stream[s].pc \in {"filter", "write"}
    BY <1>2 DEF Filter, Write
  <2>1. /\ stream' \in [Stream -> StreamState]
        /\ \/ stream'[s].pc = "write" /\ stream'[s].hand = stream[s].hand
           \/ stream'[s].pc = "loop" /\ stream'[s].hand = <<>>
        /\ \A q \in Stream : q # s => stream'[q] = stream[q]
    <3>1. kept.pc = "write" /\ kept.hand = stream[s].hand /\ done.pc = "loop" /\ done.hand = <<>>
      OBVIOUS
    <3> HIDE DEF kept, done
    <3> QED BY <2>a, <2>b, <3>1 DEF HubInv, Shape
  <2>2. Range(stream[s].hand) \subseteq Event
    BY DEF HubInv, Shape, StreamState, StreamPCs, Range
  <2>3. skipped' \in [Stream -> SUBSET Event]
    BY <1>2, <2>2 DEF Filter, Write, HubInv, Shape
  <2>4. sent[s] \o stream[s].hand \in Seq(Event)
    BY DEF HubInv, Shape, StreamState, StreamPCs
  <2>5. sent' \in [Stream -> Seq(Event)]
    BY <1>2, <2>4 DEF Filter, Write, HubInv, Shape
  <2>6. unread' \in [Stream -> 0 .. MaxUnread]
    <3>1. unread[s] \in 0 .. MaxUnread
      BY DEF HubInv, Shape
    <3>2. Write(s) => unread'[s] \in 0 .. MaxUnread
      BY <3>1, RealtimeAssumption DEF Write, HubInv, Shape
    <3> QED BY <1>2, <3>2 DEF Filter, Write, HubInv, Shape
  <2>7. Shape'
    BY <1>2, <2>1, <2>3, <2>5, <2>6 DEF Filter, Write, HubInv, Shape, hub
  <2>8. TypeOK'
    <3>1. \A q \in Stream :
              /\ stream'[q].hand \in Seq(Event)
              /\ (stream'[q].hand # <<>>) <=> stream'[q].pc \in {"filter", "write"}
      BY <2>c, <2>1, EmptyChannel DEF HubInv, TypeOK
    <3>2. /\ subs' = {q \in Stream : stream'[q].pc \notin {"none", "subscribe", "ended"}}
          /\ closed' = {q \in Stream : stream'[q].pc = "ended"}
      <4>1. \A q \in Stream :
                /\ stream'[q].pc \in {"none", "subscribe", "ended"}
                       <=> stream[q].pc \in {"none", "subscribe", "ended"}
                /\ stream'[q].pc = "ended" <=> stream[q].pc = "ended"
        BY <2>c, <2>1
      <4>2. UNCHANGED <<subs, closed>>
        BY <1>2 DEF Filter, Write, hub
      <4> QED BY <4>1, <4>2 DEF HubInv, TypeOK
    <3>3. UNCHANGED <<chan, wants, pub, gone, server, timedOut, published, due>>
      BY <1>2 DEF Filter, Write, hub
    <3> QED BY <2>3, <2>5, <2>6, <3>1, <3>2, <3>3 DEF HubInv, TypeOK
  <2>9. Visiting'
    BY <1>2 DEF Filter, Write, HubInv, Visiting, hub
  <2>10. ClosedAfterRequests'
    BY <1>2, <2>1 DEF Filter, Write, HubInv, ClosedAfterRequests
  <2> QED BY <2>7, <2>8, <2>9, <2>10 DEF HubInv
<1> QED BY <1>1, <1>2

LEMMA EndStep ==
    ASSUME HubInv, NEW s \in Stream, Leave(s) \/ Unsubscribe(s)
    PROVE  HubInv'
<1> USE DEF Goto, At
<1>1. stream' \in [Stream -> StreamState]
  <2>1. \A pc \in {"unsubscribe", "ended"} : [pc |-> pc, hand |-> stream[s].hand] \in StreamState
    BY DEF HubInv, Shape, StreamState, StreamPCs
  <2> QED BY <2>1 DEF Leave, Unsubscribe, HubInv, Shape
<1>2. /\ stream[s].pc \in {"loop", "unsubscribe"}
      /\ stream'[s].pc = IF Leave(s) THEN "unsubscribe" ELSE "ended"
      /\ stream'[s].hand = stream[s].hand
      /\ \A q \in Stream : q # s => stream'[q] = stream[q]
  BY DEF Leave, Unsubscribe, HubInv, Shape, StreamState, StreamPCs
<1>3. /\ subs' = {q \in Stream : stream'[q].pc \notin {"none", "subscribe", "ended"}}
      /\ closed' = {q \in Stream : stream'[q].pc = "ended"}
  <2>1. CASE Leave(s)
    BY <2>1, <1>2 DEF Leave, HubInv, TypeOK, hub
  <2>2. CASE Unsubscribe(s)
    BY <2>2, <1>2 DEF Leave, Unsubscribe, HubInv, TypeOK
  <2> QED BY <2>1, <2>2
<1>4. Visiting'
  <2>1. CASE Leave(s)
    BY <2>1 DEF Leave, HubInv, Visiting, hub
  <2>2. CASE Unsubscribe(s)
    BY <2>2 DEF Unsubscribe, MuFree, HubInv, Visiting
  <2> QED BY <2>1, <2>2
<1>5. Shape'
  BY <1>1 DEF Leave, Unsubscribe, HubInv, Shape, hub, history
<1>6. TypeOK'
  <2>1. \A q \in Stream :
            /\ stream'[q].hand \in Seq(Event)
            /\ (stream'[q].hand # <<>>) <=> stream'[q].pc \in {"filter", "write"}
    BY <1>2 DEF HubInv, TypeOK
  <2>2. UNCHANGED <<chan, wants, pub, gone, unread, server, timedOut, published, sent, skipped, due>>
    BY DEF Leave, Unsubscribe, hub, history
  <2> QED BY <1>3, <2>1, <2>2 DEF HubInv, TypeOK
<1>7. ClosedAfterRequests'
  BY <1>2 DEF Leave, Unsubscribe, HubInv, ClosedAfterRequests
<1> QED BY <1>4, <1>5, <1>6, <1>7 DEF HubInv

\* The clients, and the shutdown.
LEMMA ClientStep ==
    ASSUME HubInv, NEW s \in Stream, Read(s) \/ GoAway(s)
    PROVE  HubInv'
<1>1. unread' \in [Stream -> 0 .. MaxUnread]
  <2>1. unread[s] \in 0 .. MaxUnread
    BY DEF HubInv, Shape
  <2>2. Read(s) => unread[s] - 1 \in 0 .. MaxUnread
    BY <2>1, RealtimeAssumption DEF Read
  <2> QED BY <2>2 DEF Read, GoAway, HubInv, Shape
<1>2. gone' \subseteq Stream
  BY DEF Read, GoAway, HubInv, TypeOK, Connected
<1>3. Shape'
  BY <1>1 DEF Read, GoAway, HubInv, Shape, hub, history
<1>4. TypeOK'
  BY <1>1, <1>2 DEF Read, GoAway, HubInv, TypeOK, At, hub, history
<1>5. Visiting' /\ ClosedAfterRequests'
  BY DEF Read, GoAway, HubInv, Visiting, ClosedAfterRequests, hub
<1> QED BY <1>3, <1>4, <1>5 DEF HubInv

LEMMA ShutdownStep ==
    ASSUME HubInv, Stop \/ Stopped \/ TimeOut \/ CloseEngine
    PROVE  HubInv'
<1>1. UNCHANGED <<hub, wants, pub, stream, gone, unread, published, history>>
  BY DEF Stop, Stopped, TimeOut, CloseEngine, Server
<1>2. server' \in {"up", "stopping", "stopped", "closed"} /\ timedOut' \in BOOLEAN
  BY DEF Stop, Stopped, TimeOut, CloseEngine, Server, HubInv, TypeOK
<1>3. Shape' /\ Visiting'
  BY <1>1 DEF HubInv, Shape, Visiting, hub, history
<1>4. TypeOK'
  BY <1>1, <1>2 DEF HubInv, TypeOK, At, hub, history
<1>5. ClosedAfterRequests'
  <2>1. CASE Stopped
    BY <2>1, <1>1 DEF Stopped, Handling, Server, ClosedAfterRequests
  <2>2. CASE TimeOut
    BY <2>2 DEF TimeOut, ClosedAfterRequests
  <2>3. CASE Stop \/ CloseEngine
    BY <2>3, <1>1 DEF Stop, CloseEngine, Server, HubInv, ClosedAfterRequests
  <2> QED BY <2>1, <2>2, <2>3
<1> QED BY <1>3, <1>4, <1>5 DEF HubInv

LEMMA HubNext == HubInv /\ [Next]_vars => HubInv'
<1> SUFFICES ASSUME HubInv, [Next]_vars PROVE HubInv'
    OBVIOUS
<1>1. ASSUME NEW r \in Request, Arrive(r) \/ RequestStep(r) PROVE HubInv'
  BY <1>1, ArriveStep, PublishBeginStep, DeliverStep, PublishEndStep DEF RequestStep
<1>2. ASSUME NEW s \in Stream,
             \/ \E topics \in SUBSET Topic \ {{}} : Connect(s, topics)
             \/ StreamStep(s) \/ Read(s) \/ GoAway(s)
      PROVE  HubInv'
  BY <1>2, ConnectStep, HandleStep, EndStep, ClientStep DEF StreamStep
<1>3. CASE Stop \/ Stopped \/ TimeOut \/ CloseEngine
  BY <1>3, ShutdownStep
<1>4. CASE UNCHANGED vars
  BY <1>4 DEF vars, hub, history, HubInv, Shape, TypeOK, Visiting, ClosedAfterRequests, At
<1> QED BY <1>1, <1>2, <1>3, <1>4 DEF Next

\* Whoever a Publish has still to visit is subscribed, nobody else is, and
\* the engine is not closed before its requests are over (hub.go, main.go).
THEOREM HubInvariant == Spec => []HubInv
BY HubInit, HubNext, PTL DEF Spec

\* Every variable keeps its type; a stream is subscribed from Subscribe
\* until unsubscribe, and its channel is closed afterwards.
THEOREM RealtimeTypeCorrect == Spec => []TypeOK
BY HubInvariant, PTL DEF HubInv

\* Publish never sends on a channel that unsubscribe has closed, and unless
\* the time limit ran out the engine is closed after the last request.
THEOREM NothingIsUsedAfterClose == Spec => []NothingUsedAfterClose
<1>1. HubInv => NothingUsedAfterClose
  BY DEF HubInv, TypeOK, At, Visiting, NoSendOnClosed, NothingUsedAfterClose
<1> QED BY HubInvariant, <1>1, PTL

----------------------------------------------------------------------------
(* Which events reach a stream.                                            *)

\* The handlers that have told their client that it is connected.
Told == {"loop", "filter", "write", "unsubscribe", "ended"}

\* What happened to an event on its way to s.
Accounted(s) == Range(sent[s]) \cup Range(stream[s].hand) \cup Range(chan[s]) \cup skipped[s]

\* What is owed by a Publish under way is wanted and still to be delivered, or
\* has been; and nothing is owed or due to a stream that is not connected yet.
Owing ==
    /\ \A s \in Stream : due[s] # {} => stream[s].pc \in Told
    /\ \A s \in Connected : due[s] \subseteq Accounted(s)
    /\ \A r \in Request : pub[r].pc = "sending" =>
          \A s \in pub[r].owed :
              /\ stream[s].pc \in Told /\ pub[r].event.topic \in wants[s]
              /\ s \in Connected /\ s \notin pub[r].todo => pub[r].event \in Accounted(s)

LEMMA RangeOfAppend ==
    ASSUME NEW S, NEW q \in Seq(S), NEW e \in S
    PROVE  Range(Append(q, e)) = Range(q) \cup {e}
<1>1. \A i \in 1 .. Len(q) : Append(q, e)[i] = q[i]
  OBVIOUS
<1>2. Append(q, e)[Len(q) + 1] = e /\ Len(q) \in Nat /\ Len(Append(q, e)) = Len(q) + 1
  OBVIOUS
<1>3. DOMAIN q = 1 .. Len(q) /\ DOMAIN Append(q, e) = 1 .. Len(q) + 1
  BY <1>2
<1>4. 1 .. Len(q) + 1 = (1 .. Len(q)) \cup {Len(q) + 1}
  BY <1>2
<1>5. ASSUME NEW x \in Range(Append(q, e)) PROVE x \in Range(q) \cup {e}
  BY <1>1, <1>2, <1>3, <1>4 DEF Range
<1>6. ASSUME NEW x \in Range(q) \cup {e} PROVE x \in Range(Append(q, e))
  BY <1>1, <1>2, <1>3, <1>4 DEF Range
<1> QED BY <1>5, <1>6

LEMMA RangeOfConcat ==
    ASSUME NEW S, NEW q \in Seq(S), NEW t \in Seq(S)
    PROVE  Range(q \o t) = Range(q) \cup Range(t)
<1>0. /\ Len(q) \in Nat /\ Len(t) \in Nat /\ Len(q \o t) = Len(q) + Len(t)
      /\ DOMAIN q = 1 .. Len(q) /\ DOMAIN t = 1 .. Len(t) /\ DOMAIN (q \o t) = 1 .. Len(q) + Len(t)
  OBVIOUS
<1>1. \A i \in 1 .. Len(q) : (q \o t)[i] = q[i]
  OBVIOUS
<1>2. \A i \in 1 .. Len(t) : (q \o t)[Len(q) + i] = t[i] /\ Len(q) + i \in 1 .. Len(q) + Len(t)
  OBVIOUS
<1>3. ASSUME NEW i \in 1 .. Len(q) + Len(t), i \notin 1 .. Len(q)
      PROVE  i - Len(q) \in 1 .. Len(t) /\ i = Len(q) + (i - Len(q))
  BY <1>0, <1>3
<1>4. ASSUME NEW i \in DOMAIN (q \o t) PROVE (q \o t)[i] \in Range(q) \cup Range(t)
  <2>1. CASE i \in 1 .. Len(q)
    BY <1>0, <1>1, <2>1 DEF Range
  <2>2. CASE i \notin 1 .. Len(q)
    <3>1. i - Len(q) \in 1 .. Len(t) /\ (q \o t)[i] = t[i - Len(q)]
      BY <1>0, <1>2, <1>3, <2>2
    <3> QED BY <1>0, <3>1 DEF Range
  <2> QED BY <2>1, <2>2
<1>5. ASSUME NEW i \in DOMAIN q PROVE q[i] \in Range(q \o t)
  BY <1>0, <1>1 DEF Range
<1>6. ASSUME NEW i \in DOMAIN t PROVE t[i] \in Range(q \o t)
  <2>1. Len(q) + i \in DOMAIN (q \o t) /\ (q \o t)[Len(q) + i] = t[i]
    BY <1>0, <1>2
  <2> QED BY <2>1 DEF Range
<1> QED BY <1>4, <1>5, <1>6 DEF Range

LEMMA RangeOfHead ==
    ASSUME NEW S, NEW q \in Seq(S), q # <<>>
    PROVE  Range(q) = Range(<<Head(q)>>) \cup Range(Tail(q))
<1>1. Head(q) \in S /\ Tail(q) \in Seq(S) /\ q = <<Head(q)>> \o Tail(q)
  OBVIOUS
<1>2. <<Head(q)>> \in Seq(S)
  BY <1>1
<1> QED BY <1>1, <1>2, RangeOfConcat

\* The handlers of the streams, as far as an account is concerned.
LEMMA StreamMoves ==
    ASSUME HubInv, [Next]_vars, NEW s \in Stream
    PROVE  /\ stream[s].pc \in Told => stream'[s].pc \in Told /\ wants'[s] = wants[s]
           /\ s \in Connected' => s \in Connected \/ stream[s].pc = "hello"
           /\ \/ Receive(s) \/ Filter(s) \/ Write(s)
              \/ stream'[s].hand = stream[s].hand /\ sent'[s] = sent[s]
           /\ \/ Receive(s)
              \/ chan'[s] = chan[s]
              \/ \E r \in Request : Deliver(r)
           /\ \/ Filter(s)
              \/ skipped'[s] = skipped[s]
              \/ \E r \in Request : Deliver(r)
<1> USE DEF hub, history
<1>0. /\ stream \in [Stream -> StreamState] /\ chan \in [Stream -> Seq(Event)]
      /\ sent \in [Stream -> Seq(Event)] /\ skipped \in [Stream -> SUBSET Event]
      /\ wants \in [Stream -> SUBSET Topic]
  BY DEF HubInv, Shape, TypeOK
<1>1. ASSUME NEW r \in Request, Arrive(r) \/ RequestStep(r)
      PROVE  /\ UNCHANGED <<stream, wants, sent>>
             /\ Deliver(r) \/ UNCHANGED <<chan, skipped>>
  BY <1>1 DEF Arrive, RequestStep, Refuse, PublishBegin, Deliver, PublishEnd
<1>2. ASSUME NEW q \in Stream, NEW topics \in SUBSET Topic, Connect(q, topics)
      PROVE  /\ UNCHANGED <<chan, sent, skipped>>
             /\ stream[q].pc = "none" /\ wants' = [wants EXCEPT ![q] = topics]
             /\ stream' = [stream EXCEPT ![q] = [pc |-> "subscribe", hand |-> stream[q].hand]]
  BY <1>2 DEF Connect, At, Goto
<1>3. ASSUME NEW q \in Stream, Subscribe(q) \/ Hello(q) \/ Leave(q) \/ Unsubscribe(q)
      PROVE  /\ UNCHANGED <<chan, sent, skipped, wants>>
             /\ \E from, to \in StreamPCs :
                  /\ stream[q].pc = from
                  /\ <<from, to>> \in {<<"subscribe", "hello">>, <<"hello", "loop">>,
                                       <<"loop", "unsubscribe">>, <<"unsubscribe", "ended">>}
                  /\ stream' = [stream EXCEPT ![q] = [pc |-> to, hand |-> stream[q].hand]]
  BY <1>3 DEF Subscribe, Hello, Leave, Unsubscribe, At, Goto, StreamPCs
<1>4. ASSUME NEW q \in Stream, Receive(q) \/ Filter(q) \/ Write(q)
      PROVE  /\ UNCHANGED wants
             /\ stream[q].pc \in {"loop", "filter", "write"}
             /\ stream'[q].pc \in {"loop", "filter", "write"}
             /\ \A x \in Stream \ {q} : stream'[x] = stream[x] /\ sent'[x] = sent[x]
                                        /\ chan'[x] = chan[x] /\ skipped'[x] = skipped[x]
             /\ Receive(q) \/ UNCHANGED chan
             /\ Filter(q) \/ UNCHANGED skipped
  BY <1>0, <1>4 DEF Receive, Filter, Write, At, Goto
<1>5. ASSUME \/ \E q \in Stream : Read(q) \/ GoAway(q)
             \/ Stop \/ Stopped \/ TimeOut \/ CloseEngine \/ UNCHANGED vars
      PROVE  UNCHANGED <<stream, chan, sent, skipped, wants>>
  BY <1>5 DEF Read, GoAway, Stop, Stopped, TimeOut, CloseEngine, Server, vars
<1> USE DEF Told, Connected
<1>6. CASE \E r \in Request : Arrive(r) \/ RequestStep(r)
  BY <1>1, <1>6
<1>7. CASE \E q \in Stream, topics \in SUBSET Topic : Connect(q, topics)
  <2>1. PICK q \in Stream, topics \in SUBSET Topic : Connect(q, topics)
    BY <1>7
  <2>2. stream'[s] = IF s = q THEN [pc |-> "subscribe", hand |-> stream[q].hand] ELSE stream[s]
    BY <1>0, <1>2, <2>1
  <2>3. stream[q].pc = "none" /\ (s # q => wants'[s] = wants[s])
    BY <1>0, <1>2, <2>1
  <2> QED BY <1>2, <2>1, <2>2, <2>3
<1>8. CASE \E q \in Stream : Subscribe(q) \/ Hello(q) \/ Leave(q) \/ Unsubscribe(q)
  <2>1. PICK q \in Stream : Subscribe(q) \/ Hello(q) \/ Leave(q) \/ Unsubscribe(q)
    BY <1>8
  <2>2. PICK from, to \in StreamPCs :
            /\ stream[q].pc = from
            /\ <<from, to>> \in {<<"subscribe", "hello">>, <<"hello", "loop">>,
                                 <<"loop", "unsubscribe">>, <<"unsubscribe", "ended">>}
            /\ stream' = [stream EXCEPT ![q] = [pc |-> to, hand |-> stream[q].hand]]
    BY <1>3, <2>1
  <2>3. stream'[s] = IF s = q THEN [pc |-> to, hand |-> stream[q].hand] ELSE stream[s]
    BY <1>0, <2>2
  <2> QED BY <1>3, <2>1, <2>2, <2>3
<1>9. CASE \E q \in Stream : Receive(q) \/ Filter(q) \/ Write(q)
  BY <1>4, <1>9
<1>10. CASE \/ \E q \in Stream : Read(q) \/ GoAway(q)
            \/ Stop \/ Stopped \/ TimeOut \/ CloseEngine \/ UNCHANGED vars
  BY <1>5, <1>10
<1> QED BY <1>6, <1>7, <1>8, <1>9, <1>10 DEF Next, StreamStep

\* No step takes an event out of an account: it moves from the channel to the
\* handler's hand, and from there to the client or to what was kept back.
LEMMA AccountGrows ==
    ASSUME HubInv, [Next]_vars, NEW s \in Stream
    PROVE  Accounted(s) \subseteq Accounted(s)'
<1>0. /\ stream \in [Stream -> StreamState] /\ chan \in [Stream -> Seq(Event)]
      /\ sent \in [Stream -> Seq(Event)] /\ skipped \in [Stream -> SUBSET Event]
      /\ chan[s] \in Seq(Event) /\ sent[s] \in Seq(Event) /\ stream[s].hand \in Seq(Event)
      /\ stream[s].pc = "loop" => stream[s].hand = <<>>
  BY DEF HubInv, Shape, TypeOK
<1>a. Accounted(s)' = Range(sent'[s]) \cup Range(stream'[s].hand) \cup Range(chan'[s])
                      \cup skipped'[s]
  BY DEF Accounted
<1>e. Range(<<>>) = {}
  BY DEF Range
<1>1. CASE Receive(s)
  <2>1. /\ stream[s].pc = "loop" /\ chan[s] # <<>> /\ chan'[s] = Tail(chan[s])
        /\ stream'[s].hand = <<Head(chan[s])>>
        /\ sent'[s] = sent[s] /\ skipped'[s] = skipped[s]
    BY <1>0, <1>1 DEF Receive, At, history
  <2>2. Range(chan[s]) = Range(stream'[s].hand) \cup Range(chan'[s])
    BY <1>0, <2>1, RangeOfHead
  <2> QED BY <1>0, <1>a, <1>e, <2>1, <2>2 DEF Accounted
<1>2. CASE Filter(s)
  <2>1. /\ sent'[s] = sent[s] /\ chan'[s] = chan[s]
        /\ \/ stream'[s].hand = stream[s].hand /\ skipped'[s] = skipped[s]
           \/ skipped'[s] = skipped[s] \cup Range(stream[s].hand)
    BY <1>0, <1>2 DEF Filter, Goto, At, hub
  <2> QED BY <1>a, <2>1 DEF Accounted
<1>3. CASE Write(s)
  <2>1. /\ sent'[s] = sent[s] \o stream[s].hand /\ chan'[s] = chan[s]
        /\ skipped'[s] = skipped[s]
    BY <1>0, <1>3 DEF Write, hub
  <2>2. Range(sent'[s]) = Range(sent[s]) \cup Range(stream[s].hand)
    BY <1>0, <2>1, RangeOfConcat
  <2> QED BY <1>a, <2>1, <2>2 DEF Accounted
<1>4. CASE \E r \in Request : Deliver(r)
  <2>0. PICK r \in Request : Deliver(r)
    BY <1>4
  <2>1. PICK q \in pub[r].todo :
            /\ Skip(r, q) \/ Send(r, q) \/ Drop(r, q)
            /\ UNCHANGED <<stream, sent>>
    BY <2>0 DEF Deliver
  <2>2. pub[r].event \in Event
    BY <2>1 DEF HubInv, Visiting
  <2>3. chan'[s] = chan[s] \/ chan'[s] = Append(chan[s], pub[r].event)
    BY <1>0, <2>1 DEF Skip, Send, Drop
  <2>a. Range(Append(chan[s], pub[r].event)) = Range(chan[s]) \cup {pub[r].event}
    BY <1>0, <2>2, RangeOfAppend
  <2>4. Range(chan[s]) \subseteq Range(chan'[s])
    BY <2>3, <2>a
  <2>5. skipped[s] \subseteq skipped'[s]
    BY <1>0, <2>1 DEF Skip, Send, Drop
  <2> QED BY <1>a, <2>1, <2>4, <2>5 DEF Accounted
<1>5. CASE ~Receive(s) /\ ~Filter(s) /\ ~Write(s) /\ ~\E r \in Request : Deliver(r)
  BY <1>a, <1>5, StreamMoves DEF Accounted
<1> QED BY <1>1, <1>2, <1>3, <1>4, <1>5

\* What a Publish does with its own record, and who else may change it.
LEMMA PublishMoves ==
    ASSUME HubInv, [Next]_vars, NEW r \in Request, pub'[r].pc = "sending"
    PROVE  \/ pub'[r] = pub[r]
           \/ \E t \in Topic : PublishBegin(r, t)
           \/ Deliver(r)
<1>0. pub \in [Request -> PubState]
  BY DEF HubInv, Shape
<1>1. ASSUME NEW q \in Request, q # r, Arrive(q) \/ RequestStep(q) PROVE pub'[r] = pub[r]
  BY <1>0, <1>1 DEF Arrive, RequestStep, Refuse, PublishBegin, Deliver, PublishEnd
<1>2. ASSUME Arrive(r) \/ Refuse(r) \/ PublishEnd(r) PROVE FALSE
  BY <1>0, <1>2 DEF Arrive, Refuse, PublishEnd, IdlePub
<1>3. ASSUME \/ \E q \in Stream : \/ \E topics \in SUBSET Topic : Connect(q, topics)
                                  \/ StreamStep(q) \/ Read(q) \/ GoAway(q)
             \/ Stop \/ Stopped \/ TimeOut \/ CloseEngine \/ UNCHANGED vars
      PROVE  UNCHANGED pub
  BY <1>3 DEF Connect, StreamStep, Subscribe, Hello, Receive, Filter, Write, Leave, Unsubscribe,
              Read, GoAway, Stop, Stopped, TimeOut, CloseEngine, Server, vars
<1>4. CASE \E q \in Request : Arrive(q) \/ RequestStep(q)
  BY <1>1, <1>2, <1>4 DEF RequestStep
<1>5. CASE ~\E q \in Request : Arrive(q) \/ RequestStep(q)
  BY <1>3, <1>5 DEF Next
<1> QED BY <1>4, <1>5

LEMMA DueMoves ==
    ASSUME HubInv, [Next]_vars, NEW s \in Stream
    PROVE  \/ due'[s] = due[s]
           \/ \E r \in Request :
                 /\ pub[r].pc = "sending" /\ pub[r].todo = {} /\ s \in pub[r].owed
                 /\ due'[s] = due[s] \cup {pub[r].event}
<1>1. ASSUME NEW r \in Request, PublishEnd(r)
      PROVE  \/ due'[s] = due[s]
             \/ /\ pub[r].pc = "sending" /\ pub[r].todo = {} /\ s \in pub[r].owed
                /\ due'[s] = due[s] \cup {pub[r].event}
  BY <1>1 DEF PublishEnd
<1>2. ASSUME ~\E r \in Request : PublishEnd(r) PROVE UNCHANGED due
  <2>1. ASSUME NEW r \in Request, Arrive(r) \/ RequestStep(r) PROVE UNCHANGED due
    BY <1>2, <2>1 DEF Arrive, RequestStep, Refuse, PublishBegin, Deliver, history
  <2>2. ASSUME \/ \E q \in Stream : \/ \E topics \in SUBSET Topic : Connect(q, topics)
                                    \/ StreamStep(q) \/ Read(q) \/ GoAway(q)
               \/ Stop \/ Stopped \/ TimeOut \/ CloseEngine \/ UNCHANGED vars
        PROVE  UNCHANGED due
    BY <2>2 DEF Connect, StreamStep, Subscribe, Hello, Receive, Filter, Write, Leave, Unsubscribe,
                Read, GoAway, Stop, Stopped, TimeOut, CloseEngine, Server, vars, history
  <2> QED BY <2>1, <2>2 DEF Next
<1> QED BY <1>1, <1>2

LEMMA OwingStep ==
    ASSUME HubInv, Owing, [Next]_vars
    PROVE  Owing'
<1>t. /\ pub \in [Request -> PubState] /\ chan \in [Stream -> Seq(Event)]
      /\ skipped \in [Stream -> SUBSET Event] /\ Connected \subseteq Stream
      /\ \A r \in Request : pub[r].owed \subseteq Stream
  BY DEF HubInv, Shape, PubState, Connected
<1>1. ASSUME NEW s \in Stream, due'[s] # {} PROVE stream'[s].pc \in Told
  BY <1>1, DueMoves, StreamMoves DEF Owing
<1>c. ASSUME NEW s \in Stream, s \in Connected', stream[s].pc \in Told
      PROVE  s \in Connected
  BY <1>c, StreamMoves DEF Told
<1>2. ASSUME NEW s \in Stream, s \in Connected' PROVE due'[s] \subseteq Accounted(s)'
  <2>1. CASE due'[s] = due[s]
    <3>1. due[s] = {} \/ s \in Connected
      BY <1>2, <1>c DEF Owing
    <3> QED BY <2>1, <3>1, AccountGrows DEF Owing
  <2>2. CASE due'[s] # due[s]
    <3>1. PICK r \in Request :
              /\ pub[r].pc = "sending" /\ pub[r].todo = {} /\ s \in pub[r].owed
              /\ due'[s] = due[s] \cup {pub[r].event}
      BY <2>2, DueMoves
    <3>2. s \in Connected
      BY <1>2, <1>c, <3>1 DEF Owing
    <3>3. due[s] \subseteq Accounted(s) /\ pub[r].event \in Accounted(s)
      BY <3>1, <3>2 DEF Owing
    <3> QED BY <3>1, <3>3, AccountGrows
  <2> QED BY <2>1, <2>2
<1>3. ASSUME NEW r \in Request, pub'[r].pc = "sending", NEW s \in pub'[r].owed
      PROVE  /\ s \in Stream
             /\ stream'[s].pc \in Told /\ pub'[r].event.topic \in wants'[s]
             /\ s \in Connected' /\ s \notin pub'[r].todo => pub'[r].event \in Accounted(s)'
  <2>1. CASE pub'[r] = pub[r]
    <3>1. s \in pub[r].owed /\ s \in Stream /\ pub[r].pc = "sending"
      BY <1>3, <1>t, <2>1
    <3>2. stream[s].pc \in Told /\ pub[r].event.topic \in wants[s]
      BY <3>1 DEF Owing
    <3>3. s \in Connected' => s \in Connected
      BY <1>c, <3>1, <3>2
    <3> QED BY <2>1, <3>1, <3>2, <3>3, StreamMoves, AccountGrows DEF Owing
  <2>2. ASSUME NEW t \in Topic, PublishBegin(r, t)
        PROVE  /\ s \in Stream
               /\ stream'[s].pc \in Told /\ pub'[r].event.topic \in wants'[s]
               /\ s \in Connected' /\ s \notin pub'[r].todo => pub'[r].event \in Accounted(s)'
    <3>1. /\ pub'[r] = [pc |-> "sending", event |-> [n |-> published + 1, topic |-> t],
                        todo |-> subs, owed |-> {x \in Connected : t \in wants[x]}]
          /\ UNCHANGED <<stream, wants>>
      BY <1>t, <2>2 DEF PublishBegin
    <3>2. s \in Connected /\ t \in wants[s]
      BY <1>3, <3>1
    <3>3. s \in subs
      BY <3>2 DEF Connected, HubInv, TypeOK
    <3> QED BY <1>t, <3>1, <3>2, <3>3 DEF Connected, Told
  <2>3. CASE Deliver(r)
    <3>1. PICK q \in pub[r].todo :
              /\ Skip(r, q) \/ Send(r, q) \/ Drop(r, q)
              /\ pub' = [pub EXCEPT ![r] = [pub[r] EXCEPT !.todo = pub[r].todo \ {q}]]
              /\ UNCHANGED <<stream, wants>>
      BY <2>3 DEF Deliver, Rest
    <3>2. /\ pub'[r].owed = pub[r].owed /\ pub'[r].event = pub[r].event
          /\ pub'[r].todo = pub[r].todo \ {q}
          /\ pub[r].event \in Event /\ pub[r].pc = "sending" /\ q \in Stream
      BY <1>t, <3>1 DEF PubState, HubInv, Visiting
    <3>3. s \in Stream /\ stream[s].pc \in Told /\ pub[r].event.topic \in wants[s]
      BY <1>3, <1>t, <3>2 DEF Owing
    <3>4. ASSUME s = q PROVE pub[r].event \in Accounted(s)'
      <4>1. CASE Send(r, q)
        <5>1. chan'[s] = Append(chan[s], pub[r].event) /\ chan[s] \in Seq(Event)
          BY <1>t, <3>3, <3>4, <4>1 DEF Send
        <5>2. pub[r].event \in Range(chan'[s])
          BY <3>2, <5>1, RangeOfAppend
        <5> QED BY <5>2 DEF Accounted
      <4>2. CASE Drop(r, q)
        <5>1. pub[r].event \in skipped'[s]
          BY <1>t, <3>3, <3>4, <4>2 DEF Drop
        <5> QED BY <5>1 DEF Accounted
      <4>3. ~Skip(r, q)
        BY <3>3, <3>4 DEF Skip
      <4> QED BY <3>1, <4>1, <4>2, <4>3
    <3>5. ASSUME s # q, s \in Connected', s \notin pub'[r].todo PROVE pub[r].event \in Accounted(s)'
      <4>1. s \notin pub[r].todo /\ s \in Connected
        BY <1>c, <3>2, <3>3, <3>5
      <4>2. pub[r].event \in Accounted(s)
        BY <1>3, <3>2, <4>1 DEF Owing
      <4> QED BY <3>3, <4>2, AccountGrows
    <3> QED BY <3>1, <3>2, <3>3, <3>4, <3>5
  <2> QED BY <1>3, <2>1, <2>2, <2>3, PublishMoves
<1> QED BY <1>1, <1>2, <1>3 DEF Owing, Connected

\* A connected stream gets every event it asked for that was published since
\* it told its client so, unless its own channel was full or the rules kept
\* the event back: however many subscribe, leave or are slow in the meantime.
THEOREM ConnectedStreamsMissNothing == Spec => []NothingElseIsLost
<1>1. Init => Owing
  BY DEF Init, Owing, Connected, NoStream, IdlePub
<1>2. HubInv /\ Owing /\ [Next]_vars => Owing'
  BY OwingStep
<1>3. HubInv /\ Owing => NothingElseIsLost
  <2> SUFFICES ASSUME HubInv, Owing, NEW s \in Connected
               PROVE  due[s] \subseteq Range(Path(s)) \cup skipped[s]
    BY DEF NothingElseIsLost
  <2>1. sent[s] \in Seq(Event) /\ stream[s].hand \in Seq(Event) /\ chan[s] \in Seq(Event)
    BY DEF HubInv, TypeOK, Connected
  <2> DEFINE q == sent[s] \o stream[s].hand
  <2>2. q \in Seq(Event) /\ Range(q) = Range(sent[s]) \cup Range(stream[s].hand)
    BY <2>1, RangeOfConcat
  <2>3. Path(s) = q \o chan[s]
    BY DEF Path
  <2> HIDE DEF q
  <2>4. Range(q \o chan[s]) = Range(q) \cup Range(chan[s])
    BY <2>1, <2>2, RangeOfConcat
  <2> QED BY <2>2, <2>3, <2>4 DEF Owing, Accounted
<1> QED BY <1>1, <1>2, <1>3, HubInvariant, PTL DEF Spec

----------------------------------------------------------------------------
(* The request log and the view that follows it.                           *)

Loading == [pc : {"idle", "asked", "answered"}, tail : Seq(Nat), upTo : Nat]

LogTyped ==
    /\ entries \in Seq(Nat) /\ nextSeq \in Nat /\ handler \in [Handler -> Nat]
    /\ open \in BOOLEAN /\ queue \in Seq(Nat) /\ load \in Loading
    /\ view \in Seq(Nat) /\ upTo \in Nat

\* The buffer holds the numbers up to the last one, without a gap.
Buffered ==
    /\ Len(entries) = IF nextSeq < Limit THEN nextSeq ELSE Limit
    /\ \A i \in 1 .. Len(entries) : entries[i] = nextSeq - Len(entries) + i

\* Of the entries up to top, s has those that a buffer has.
HasNewest(s, top) == \A n \in 1 .. top : n + Limit <= top \/ n \in Log!ToSet(s)

\* What the view was told of the tail is still to be seen, unless it is full.
TailShown ==
    /\ load.pc = "answered" => HasNewest(load.tail, load.upTo)
    /\ Len(view) < Limit => HasNewest(view, upTo)

\* The inductive invariant.
LogInv == LogTyped /\ Buffered /\ TailShown /\ Log!MissesOnlyWhileLoading

LEMMA ReverseFacts ==
    ASSUME NEW s \in Seq(Nat)
    PROVE  /\ Log!Reverse(s) \in Seq(Nat) /\ Len(Log!Reverse(s)) = Len(s)
           /\ \A i \in 1 .. Len(s) : Log!Reverse(s)[i] = s[Len(s) - i + 1]
BY DEF Log!Reverse

LEMMA LastOfFacts ==
    ASSUME NEW s \in Seq(Nat), NEW n \in Nat
    PROVE  /\ Log!LastOf(s, n) \in Seq(Nat)
           /\ Len(Log!LastOf(s, n)) = IF Len(s) <= n THEN Len(s) ELSE n
           /\ \A i \in 1 .. Len(Log!LastOf(s, n)) :
                 Log!LastOf(s, n)[i] = s[Len(s) - Len(Log!LastOf(s, n)) + i]
<1>1. CASE Len(s) <= n
  BY <1>1 DEF Log!LastOf
<1>2. CASE ~(Len(s) <= n)
  <2>1. Len(s) \in Nat /\ Len(s) - n + 1 \in 1 .. Len(s) + 1
    BY <1>2
  <2>2. Log!LastOf(s, n) = SubSeq(s, Len(s) - n + 1, Len(s))
    BY <1>2 DEF Log!LastOf
  <2> DEFINE t == SubSeq(s, Len(s) - n + 1, Len(s))
  <2>3. t \in Seq(Nat) /\ Len(t) = n
    BY <1>2, <2>1
  <2>4. \A i \in 1 .. n : t[i] = s[Len(s) - n + i]
    <3> TAKE i \in 1 .. n
    <3>1. t[i] = s[Len(s) - n + 1 + i - 1]
      BY <2>1
    <3>2. Len(s) - n + 1 + i - 1 = Len(s) - n + i
      BY <2>1
    <3> QED BY <3>1, <3>2
  <2> HIDE DEF t
  <2> QED BY <1>2, <2>2, <2>3, <2>4 DEF t
<1> QED BY <1>1, <1>2

\* Tail answers with the last numbers, the last one first.
LEMMA TailFacts ==
    ASSUME Log!LogAssumption, LogTyped, Buffered, NEW limit \in Nat
    PROVE  /\ Log!TailOf(limit) \in Seq(Nat)
           /\ Len(Log!TailOf(limit)) =
                 IF limit = 0 \/ Len(entries) <= limit THEN Len(entries) ELSE limit
           /\ \A i \in 1 .. Len(Log!TailOf(limit)) : Log!TailOf(limit)[i] = nextSeq - i + 1
<1> DEFINE m == IF limit = 0 THEN Len(entries) ELSE limit
           last == Log!LastOf(entries, m)
<1>1. entries \in Seq(Nat) /\ Len(entries) \in Nat /\ m \in Nat /\ nextSeq \in Nat
  BY DEF LogTyped
<1>2. /\ last \in Seq(Nat) /\ Len(last) = (IF Len(entries) <= m THEN Len(entries) ELSE m)
      /\ \A i \in 1 .. Len(last) : last[i] = entries[Len(entries) - Len(last) + i]
  BY <1>1, LastOfFacts
<1>3. Log!TailOf(limit) = Log!Reverse(last)
  BY DEF Log!TailOf
<1> HIDE DEF last
<1>4. /\ Log!Reverse(last) \in Seq(Nat) /\ Len(Log!Reverse(last)) = Len(last)
      /\ \A i \in 1 .. Len(last) : Log!Reverse(last)[i] = last[Len(last) - i + 1]
  BY <1>2, ReverseFacts
<1>5. Len(last) \in Nat /\ Len(last) <= Len(entries)
  BY <1>1, <1>2
<1>6. \A i \in 1 .. Len(last) : last[i] = nextSeq - Len(last) + i
  <2> TAKE i \in 1 .. Len(last)
  <2>1. Len(entries) - Len(last) + i \in 1 .. Len(entries)
    BY <1>1, <1>5
  <2>2. entries[Len(entries) - Len(last) + i] = nextSeq - Len(entries) + (Len(entries) - Len(last) + i)
    BY <2>1 DEF Buffered
  <2>3. last[i] = entries[Len(entries) - Len(last) + i]
    BY <1>2
  <2> QED BY <1>1, <1>5, <2>2, <2>3
<1>7. \A i \in 1 .. Len(last) : Log!Reverse(last)[i] = nextSeq - i + 1
  <2> TAKE i \in 1 .. Len(last)
  <2>1. Len(last) - i + 1 \in 1 .. Len(last)
    BY <1>5
  <2>2. last[Len(last) - i + 1] = nextSeq - Len(last) + (Len(last) - i + 1)
    BY <1>6, <2>1
  <2> QED BY <1>1, <1>4, <1>5, <2>2
<1>8. Len(last) = IF limit = 0 \/ Len(entries) <= limit THEN Len(entries) ELSE limit
  BY <1>1, <1>2
<1> QED BY <1>3, <1>4, <1>7, <1>8

LEMMA SetOfSequence ==
    ASSUME NEW s \in Seq(Nat)
    PROVE  /\ \A x \in Nat : Log!ToSet(Append(s, x)) = Log!ToSet(s) \cup {x}
           /\ s # <<>> => Log!ToSet(s) = {Head(s)} \cup Log!ToSet(Tail(s))
<1>1. \A q : Log!ToSet(q) = Range(q)
  BY DEF Log!ToSet, Range
<1>2. \A x \in Nat : Range(Append(s, x)) = Range(s) \cup {x}
  BY RangeOfAppend
<1>3. ASSUME s # <<>> PROVE Range(s) = {Head(s)} \cup Range(Tail(s))
  <2> DEFINE h == Head(s)
  <2>1. Range(s) = Range(<<h>>) \cup Range(Tail(s))
    BY <1>3, RangeOfHead
  <2>2. Range(<<h>>) = {h}
    BY DEF Range
  <2> QED BY <2>1, <2>2
<1> QED BY <1>1, <1>2, <1>3

\* A new entry goes on top of the view; nothing falls out unless it is full.
LEMMA OnTop ==
    ASSUME NEW s \in Seq(Nat), NEW x \in Nat, NEW n \in Nat, NEW t,
           t = Log!First(<<x>> \o s, n)
    PROVE  t \in Seq(Nat) /\ (Len(t) < n => Len(s) < n /\ Log!ToSet(t) = {x} \cup Log!ToSet(s))
<1> DEFINE q == <<x>> \o s
<1>1. /\ q \in Seq(Nat) /\ Len(q) = Len(s) + 1 /\ Len(s) \in Nat
      /\ q[1] = x /\ \A i \in 1 .. Len(s) : q[i + 1] = s[i]
  OBVIOUS
<1>2. t = Log!First(q, n)
  OBVIOUS
<1> HIDE DEF q
<1>3. Log!ToSet(q) = {x} \cup Log!ToSet(s)
  <2>1. DOMAIN q = 1 .. Len(s) + 1 /\ DOMAIN s = 1 .. Len(s)
    BY <1>1
  <2>2. \A i \in DOMAIN q : i = 1 \/ (i - 1 \in DOMAIN s /\ q[i] = s[i - 1])
    <3> TAKE i \in DOMAIN q
    <3>1. i # 1 => i - 1 \in 1 .. Len(s) /\ q[(i - 1) + 1] = s[i - 1]
      BY <1>1, <2>1
    <3> QED BY <1>1, <2>1, <3>1
  <2>3. 1 \in DOMAIN q /\ \A i \in DOMAIN s : i + 1 \in DOMAIN q /\ q[i + 1] = s[i]
    BY <1>1, <2>1
  <2>4. ASSUME NEW y \in Log!ToSet(q) PROVE y \in {x} \cup Log!ToSet(s)
    <3>1. PICK i \in DOMAIN q : y = q[i]
      BY <2>4 DEF Log!ToSet
    <3> QED BY <1>1, <2>2, <3>1 DEF Log!ToSet
  <2>5. ASSUME NEW y \in Log!ToSet(s) PROVE y \in Log!ToSet(q)
    <3>1. PICK i \in DOMAIN s : y = s[i]
      BY <2>5 DEF Log!ToSet
    <3>2. y = q[i + 1] /\ i + 1 \in DOMAIN q
      BY <2>3, <3>1
    <3> QED BY <3>2 DEF Log!ToSet
  <2>6. x \in Log!ToSet(q)
    BY <1>1, <2>3 DEF Log!ToSet
  <2> QED BY <2>4, <2>5, <2>6
<1>4. CASE Len(q) <= n
  <2>1. t = q
    BY <1>2, <1>4 DEF Log!First
  <2>2. Len(s) < n
    BY <1>1, <1>4
  <2>3. t \in Seq(Nat) /\ Log!ToSet(t) = {x} \cup Log!ToSet(s)
    BY <1>1, <1>3, <2>1
  <2> QED BY <2>2, <2>3
<1>5. CASE ~(Len(q) <= n)
  <2>1. t = SubSeq(q, 1, n)
    BY <1>2, <1>5 DEF Log!First
  <2>2. Len(q) \in Nat /\ n < Len(q)
    BY <1>1, <1>5
  <2>3. SubSeq(q, 1, n) = [i \in 1 .. n |-> q[i]]
    BY <1>1, <2>2
  <2>4. \A i \in 1 .. n : q[i] \in Nat
    BY <1>1, <2>2
  <2>5. t \in Seq(Nat) /\ Len(t) = n
    BY <2>1, <2>3, <2>4
  <2> QED BY <2>5
<1> QED BY <1>4, <1>5

LEMMA LogInit ==
    ASSUME Log!LogAssumption, Log!Init
    PROVE  LogInv
<1>a. Log!NotLoading \in Loading
  BY DEF Log!NotLoading, Loading
<1>b. <<>> \in Seq(Nat) /\ [h \in Handler |-> 0] \in [Handler -> Nat]
  OBVIOUS
<1>1. LogTyped
  BY <1>a, <1>b DEF Log!Init, LogTyped
<1>2. Buffered
  BY DEF Log!Init, Buffered, Log!LogAssumption
<1>3. TailShown /\ Log!MissesOnlyWhileLoading
  BY DEF Log!Init, TailShown, HasNewest, Log!NotLoading, Log!MissesOnlyWhileLoading
<1> QED BY <1>1, <1>2, <1>3 DEF LogInv

LEMMA AppendStep ==
    ASSUME Log!LogAssumption, LogInv, NEW h \in Handler, Log!AppendEntry(h)
    PROVE  LogInv'
<1>1. /\ handler[h] = 0 /\ nextSeq' = nextSeq + 1
      /\ entries' = Log!LastOf(Append(entries, nextSeq + 1), Limit)
      /\ handler' = [handler EXCEPT ![h] = nextSeq + 1]
      /\ UNCHANGED <<open, queue, load, view, upTo, early, missed>>
  BY DEF Log!AppendEntry
<1>2. /\ entries \in Seq(Nat) /\ nextSeq \in Nat /\ Limit \in Nat \ {0} /\ Len(entries) \in Nat
      /\ handler \in [Handler -> Nat]
  BY DEF LogInv, LogTyped, Log!LogAssumption
<1> DEFINE s == Append(entries, nextSeq + 1)
<1>3. /\ s \in Seq(Nat) /\ Len(s) = Len(entries) + 1 /\ s[Len(entries) + 1] = nextSeq + 1
      /\ \A i \in 1 .. Len(entries) : s[i] = entries[i]
  BY <1>2
<1>4. \A i \in 1 .. Len(s) : s[i] = nextSeq + 1 - Len(s) + i
  <2> TAKE i \in 1 .. Len(s)
  <2>1. CASE i = Len(entries) + 1
    BY <1>2, <1>3, <2>1
  <2>2. CASE i \in 1 .. Len(entries)
    <3>1. entries[i] = nextSeq - Len(entries) + i
      BY <2>2 DEF LogInv, Buffered
    <3> QED BY <1>2, <1>3, <2>2, <3>1
  <2> QED BY <1>2, <1>3, <2>1, <2>2
<1> HIDE DEF s
<1>5. /\ entries' \in Seq(Nat)
      /\ Len(entries') = (IF Len(s) <= Limit THEN Len(s) ELSE Limit)
      /\ \A i \in 1 .. Len(entries') : entries'[i] = s[Len(s) - Len(entries') + i]
  <2>1. entries' = Log!LastOf(s, Limit)
    BY <1>1 DEF s
  <2> QED BY <1>2, <1>3, <2>1, LastOfFacts
<1>6. LogTyped'
  BY <1>1, <1>2, <1>5 DEF LogInv, LogTyped
<1>7. Buffered'
  <2>1. Len(entries) = IF nextSeq < Limit THEN nextSeq ELSE Limit
    BY DEF LogInv, Buffered
  <2>2. Len(entries') = IF nextSeq' < Limit THEN nextSeq' ELSE Limit
    BY <1>1, <1>2, <1>3, <1>5, <2>1
  <2>3. ASSUME NEW i \in 1 .. Len(entries') PROVE entries'[i] = nextSeq' - Len(entries') + i
    <3>1. Len(s) - Len(entries') + i \in 1 .. Len(s) /\ Len(entries') \in Nat /\ Len(s) \in Nat
      BY <1>2, <1>3, <1>5
    <3>2. s[Len(s) - Len(entries') + i] = nextSeq + 1 - Len(s) + (Len(s) - Len(entries') + i)
      BY <1>4, <3>1
    <3>3. entries'[i] = s[Len(s) - Len(entries') + i]
      BY <1>5
    <3> QED BY <1>1, <1>2, <3>1, <3>2, <3>3
  <2> QED BY <2>2, <2>3 DEF Buffered
<1>8. TailShown'
  BY <1>1 DEF LogInv, TailShown, HasNewest
<1>9. Log!MissesOnlyWhileLoading'
  <2> SUFFICES ASSUME open, Len(view) < Limit, NEW n \in 1 .. nextSeq + 1
               PROVE  \/ n \in Log!Coming'
                      \/ n > upTo /\ n \in early \cup missed
                      \/ n + Limit <= upTo
    BY <1>1 DEF Log!MissesOnlyWhileLoading
  <2>1. \A g \in Handler : handler'[g] = IF g = h THEN nextSeq + 1 ELSE handler[g]
    BY <1>1, <1>2
  <2>2. CASE n = nextSeq + 1
    BY <2>1, <2>2 DEF Log!Coming
  <2>3. CASE n \in 1 .. nextSeq
    <3>1. n \in Log!Coming => n \in Log!Coming'
      BY <1>1, <1>2, <2>1, <2>3 DEF Log!Coming
    <3> QED BY <2>3, <3>1 DEF LogInv, Log!MissesOnlyWhileLoading
  <2> QED BY <1>2, <2>2, <2>3
<1> QED BY <1>6, <1>7, <1>8, <1>9 DEF LogInv

LEMMA PublishStep ==
    ASSUME Log!LogAssumption, LogInv, NEW h \in Handler, Log!Publish(h)
    PROVE  LogInv'
<1>1. /\ \/ ~open /\ UNCHANGED <<queue, missed>>
         \/ queue' = Append(queue, handler[h]) /\ missed' = missed
         \/ queue' = queue /\ missed' = missed \cup {handler[h]}
      /\ handler' = [handler EXCEPT ![h] = 0]
      /\ UNCHANGED <<entries, nextSeq, open, load, view, upTo, early>>
  BY DEF Log!Publish, Log!Deliver
<1>2. handler \in [Handler -> Nat] /\ handler[h] \in Nat /\ queue \in Seq(Nat)
  BY DEF LogInv, LogTyped
<1>3. Append(queue, handler[h]) \in Seq(Nat)
  BY <1>2
<1>4. LogTyped'
  BY <1>1, <1>2, <1>3 DEF LogInv, LogTyped
<1>5. Buffered' /\ TailShown'
  BY <1>1 DEF LogInv, Buffered, TailShown, HasNewest
<1>6. Log!MissesOnlyWhileLoading'
  <2> SUFFICES ASSUME open, Len(view) < Limit, NEW n \in 1 .. nextSeq
               PROVE  \/ n \in Log!Coming'
                      \/ n > upTo /\ n \in early \cup missed'
                      \/ n + Limit <= upTo
    BY <1>1 DEF Log!MissesOnlyWhileLoading
  <2>1. \A g \in Handler : handler'[g] = IF g = h THEN 0 ELSE handler[g]
    BY <1>1, <1>2
  <2>2. \/ n \in Log!Coming
        \/ n > upTo /\ n \in early \cup missed
        \/ n + Limit <= upTo
    BY DEF LogInv, Log!MissesOnlyWhileLoading
  <2>3. CASE queue' = Append(queue, handler[h]) /\ missed' = missed
    <3>1. Log!ToSet(queue') = Log!ToSet(queue) \cup {handler[h]}
      BY <1>2, <2>3, SetOfSequence
    <3>2. n \in Log!Coming => n \in Log!Coming'
      BY <1>1, <2>1, <3>1 DEF Log!Coming
    <3> QED BY <2>2, <2>3, <3>2
  <2>4. CASE queue' = queue /\ missed' = missed \cup {handler[h]}
    <3>1. n \in Log!Coming => n \in Log!Coming' \/ n = handler[h]
      BY <1>1, <2>1, <2>4 DEF Log!Coming
    <3>2. n = handler[h] /\ ~(n > upTo) => n \in Log!ToSet(view) \/ n + Limit <= upTo
      <4>1. upTo \in Nat /\ HasNewest(view, upTo) /\ n \in Nat /\ nextSeq \in Nat /\ n >= 1
        BY DEF LogInv, LogTyped, TailShown
      <4> QED BY <4>1 DEF HasNewest
    <3>3. n \in Log!ToSet(view) => n \in Log!Coming'
      BY <1>1 DEF Log!Coming
    <3> QED BY <2>2, <2>4, <3>1, <3>2, <3>3
  <2> QED BY <1>1, <2>3, <2>4
<1> QED BY <1>4, <1>5, <1>6 DEF LogInv

\* What the stream has behind it, the view shows or the tail let it pass.
LEMMA PastOrComing ==
    ASSUME NEW n \in 1 .. nextSeq
    PROVE  n \in Log!Past \/ n \in Log!ToSet(queue) \cup {handler[h] : h \in Handler}
BY DEF Log!Past

LEMMA SubscribeStep ==
    ASSUME Log!LogAssumption, LogInv, Log!Subscribe
    PROVE  LogInv'
<1>1. /\ open' = TRUE /\ early' = Log!Past
      /\ UNCHANGED <<entries, nextSeq, handler, queue, load, view, upTo, missed>>
  BY DEF Log!Subscribe
<1>2. LogTyped' /\ Buffered' /\ TailShown'
  BY <1>1 DEF LogInv, LogTyped, Buffered, TailShown, HasNewest
<1>3. Log!MissesOnlyWhileLoading'
  <2> SUFFICES ASSUME Len(view) < Limit, NEW n \in 1 .. nextSeq
               PROVE  \/ n \in Log!Coming
                      \/ n > upTo /\ n \in Log!Past \cup missed
                      \/ n + Limit <= upTo
    BY <1>1 DEF Log!MissesOnlyWhileLoading, Log!Coming
  <2>1. CASE n > upTo
    BY <2>1, PastOrComing DEF Log!Coming
  <2>2. CASE ~(n > upTo)
    <3>1. upTo \in Nat /\ HasNewest(view, upTo) /\ n \in Nat /\ nextSeq \in Nat /\ n >= 1
      BY DEF LogInv, LogTyped, TailShown
    <3>2. n \in 1 .. upTo
      BY <2>2, <3>1
    <3>3. n + Limit <= upTo \/ n \in Log!ToSet(view)
      BY <3>1, <3>2 DEF HasNewest
    <3> QED BY <3>3 DEF Log!Coming
  <2> QED BY <2>1, <2>2
<1> QED BY <1>2, <1>3 DEF LogInv

LEMMA AnswerStep ==
    ASSUME Log!LogAssumption, LogInv, Log!Answer
    PROVE  LogInv'
<1> DEFINE s == Log!TailOf(Limit)
<1>1. /\ load' = [pc |-> "answered", tail |-> s, upTo |-> nextSeq]
      /\ UNCHANGED <<entries, nextSeq, handler, open, queue, view, upTo, early, missed>>
  BY DEF Log!Answer
<1>2. /\ s \in Seq(Nat) /\ Len(s) = (IF Len(entries) <= Limit THEN Len(entries) ELSE Limit)
      /\ \A i \in 1 .. Len(s) : s[i] = nextSeq - i + 1
  <2>1. LogTyped /\ Buffered /\ Limit \in Nat /\ Limit # 0
    BY DEF LogInv, Log!LogAssumption
  <2> QED BY <2>1, TailFacts
<1> HIDE DEF s
<1>3. nextSeq \in Nat /\ Limit \in Nat \ {0} /\ Len(entries) = (IF nextSeq < Limit THEN nextSeq ELSE Limit)
  BY DEF LogInv, LogTyped, Buffered, Log!LogAssumption
<1>4. Len(s) = IF nextSeq < Limit THEN nextSeq ELSE Limit
  BY <1>2, <1>3
<1>5. HasNewest(s, nextSeq)
  <2> SUFFICES ASSUME NEW n \in 1 .. nextSeq, ~(n + Limit <= nextSeq)
               PROVE  n \in Log!ToSet(s)
    BY DEF HasNewest
  <2>1. nextSeq - n + 1 \in 1 .. Len(s)
    BY <1>3, <1>4
  <2>2. s[nextSeq - n + 1] = nextSeq - (nextSeq - n + 1) + 1
    BY <1>2, <2>1
  <2>3. s[nextSeq - n + 1] = n
    BY <1>3, <2>2
  <2>4. DOMAIN s = 1 .. Len(s)
    BY <1>2
  <2> QED BY <2>1, <2>3, <2>4 DEF Log!ToSet
<1>6. load' \in Loading /\ load'.tail = s /\ load'.upTo = nextSeq
  BY <1>1, <1>2, <1>3 DEF Loading
<1>7. LogTyped' /\ Buffered'
  BY <1>1, <1>6 DEF LogInv, LogTyped, Buffered
<1>8. TailShown'
  BY <1>1, <1>5, <1>6 DEF LogInv, TailShown, HasNewest
<1>9. Log!MissesOnlyWhileLoading'
  BY <1>1 DEF LogInv, Log!MissesOnlyWhileLoading, Log!Coming
<1> QED BY <1>7, <1>8, <1>9 DEF LogInv

LEMMA ShowStep ==
    ASSUME Log!LogAssumption, LogInv, Log!Show
    PROVE  LogInv'
<1>1. /\ load.pc = "answered" /\ view' = load.tail /\ upTo' = load.upTo
      /\ load' = Log!NotLoading /\ early' = Log!Past
      /\ UNCHANGED <<entries, nextSeq, handler, open, queue, missed>>
  BY DEF Log!Show
<1>2. load.tail \in Seq(Nat) /\ load.upTo \in Nat /\ HasNewest(load.tail, load.upTo)
  BY <1>1 DEF LogInv, LogTyped, TailShown, Loading
<1>3. Log!NotLoading \in Loading /\ Log!NotLoading.pc = "idle"
  BY DEF Log!NotLoading, Loading
<1>4. LogTyped' /\ Buffered'
  BY <1>1, <1>2, <1>3 DEF LogInv, LogTyped, Buffered
<1>5. TailShown'
  BY <1>1, <1>2, <1>3 DEF TailShown, HasNewest
<1>6. Log!MissesOnlyWhileLoading'
  <2> SUFFICES ASSUME NEW n \in 1 .. nextSeq
               PROVE  \/ n \in Log!Coming'
                      \/ n > load.upTo /\ n \in Log!Past \cup missed
                      \/ n + Limit <= load.upTo
    BY <1>1 DEF Log!MissesOnlyWhileLoading
  <2>1. n \in Log!Past \/ n \in Log!Coming'
    BY <1>1, PastOrComing DEF Log!Coming
  <2>2. CASE ~(n > load.upTo)
    <3>1. n \in Nat /\ nextSeq \in Nat /\ n >= 1
      BY DEF LogInv, LogTyped
    <3>2. n \in 1 .. load.upTo
      BY <1>2, <2>2, <3>1
    <3>3. n + Limit <= load.upTo \/ n \in Log!ToSet(load.tail)
      BY <1>2, <3>2 DEF HasNewest
    <3> QED BY <1>1, <3>3 DEF Log!Coming
  <2> QED BY <2>1, <2>2
<1> QED BY <1>4, <1>5, <1>6 DEF LogInv

LEMMA HearStep ==
    ASSUME Log!LogAssumption, LogInv, Log!Hear
    PROVE  LogInv'
<1>1. /\ queue # <<>> /\ view' = Log!First(<<Head(queue)>> \o view, Limit)
      /\ queue' = Tail(queue)
      /\ UNCHANGED <<entries, nextSeq, handler, open, load, upTo, early, missed>>
  BY DEF Log!Hear
<1>2. /\ queue \in Seq(Nat) /\ view \in Seq(Nat) /\ Limit \in Nat
      /\ Head(queue) \in Nat /\ Tail(queue) \in Seq(Nat)
  BY <1>1 DEF LogInv, LogTyped, Log!LogAssumption
<1>3. /\ view' \in Seq(Nat)
      /\ Len(view') < Limit =>
            Len(view) < Limit /\ Log!ToSet(view') = {Head(queue)} \cup Log!ToSet(view)
  <2> DEFINE x == Head(queue)
  <2>1. view' = Log!First(<<x>> \o view, Limit) /\ x \in Nat
    BY <1>1, <1>2
  <2> HIDE DEF x
  <2>2. /\ view' \in Seq(Nat)
        /\ Len(view') < Limit => Len(view) < Limit /\ Log!ToSet(view') = {x} \cup Log!ToSet(view)
    BY <1>2, <2>1, OnTop
  <2> QED BY <2>2 DEF x
<1>4. Log!ToSet(queue) = {Head(queue)} \cup Log!ToSet(queue')
  BY <1>1, <1>2, SetOfSequence
<1>5. LogTyped' /\ Buffered'
  BY <1>1, <1>2, <1>3 DEF LogInv, LogTyped, Buffered
<1>6. TailShown'
  BY <1>1, <1>3 DEF LogInv, TailShown, HasNewest
<1>7. Log!MissesOnlyWhileLoading'
  <2>1. Len(view') < Limit => Len(view) < Limit /\ Log!Coming' = Log!Coming
    BY <1>1, <1>3, <1>4 DEF Log!Coming
  <2> QED BY <1>1, <2>1 DEF LogInv, Log!MissesOnlyWhileLoading
<1> QED BY <1>5, <1>6, <1>7 DEF LogInv

LEMMA LogNext ==
    ASSUME Log!LogAssumption, LogInv, [Log!Next]_(Log!vars)
    PROVE  LogInv'
<1>1. CASE Log!Ask
  <2>1. /\ load' = [Log!NotLoading EXCEPT !.pc = "asked"]
        /\ UNCHANGED <<entries, nextSeq, handler, open, queue, view, upTo, early, missed>>
    BY <1>1 DEF Log!Ask
  <2>2. Log!NotLoading = [pc |-> "idle", tail |-> <<>>, upTo |-> 0]
    BY DEF Log!NotLoading
  <2>3. load' = [pc |-> "asked", tail |-> <<>>, upTo |-> 0]
    BY <2>1, <2>2
  <2>4. <<>> \in Seq(Nat)
    OBVIOUS
  <2>5. load' \in Loading /\ load'.pc = "asked"
    BY <2>3, <2>4 DEF Loading
  <2> QED BY <2>1, <2>5
      DEF LogInv, LogTyped, Buffered, TailShown, HasNewest, Log!MissesOnlyWhileLoading, Log!Coming
<1>2. CASE UNCHANGED Log!vars
  BY <1>2 DEF LogInv, LogTyped, Buffered, TailShown, HasNewest, Log!MissesOnlyWhileLoading,
              Log!Coming, Log!vars
<1> QED BY <1>1, <1>2, AppendStep, PublishStep, SubscribeStep, AnswerStep, ShowStep, HearStep
        DEF Log!Next

\* The least of a few numbers is as many as the buffer has to answer with.
LEMMA TailIsNewestHolds ==
    ASSUME Log!LogAssumption, LogTyped, Buffered
    PROVE  Log!TailIsNewest
<1> SUFFICES ASSUME NEW limit \in 0 .. Limit + 1
             PROVE  /\ Len(Log!TailOf(limit)) = Log!Min({nextSeq, Limit} \cup ({limit} \ {0}))
                    /\ \A i \in 1 .. Len(Log!TailOf(limit)) : Log!TailOf(limit)[i] = nextSeq - i + 1
  BY DEF Log!TailIsNewest
<1>1. Limit \in Nat \ {0} /\ limit \in Nat /\ nextSeq \in Nat
  BY DEF Log!LogAssumption, LogTyped
<1>2. /\ Len(Log!TailOf(limit)) =
            (IF limit = 0 \/ Len(entries) <= limit THEN Len(entries) ELSE limit)
      /\ \A i \in 1 .. Len(Log!TailOf(limit)) : Log!TailOf(limit)[i] = nextSeq - i + 1
  BY <1>1, TailFacts
<1>3. Len(entries) = IF nextSeq < Limit THEN nextSeq ELSE Limit
  BY DEF Buffered
<1> DEFINE S == {nextSeq, Limit} \cup ({limit} \ {0})
           m == Len(Log!TailOf(limit))
<1>4. m \in S /\ \A y \in S : m <= y
  BY <1>1, <1>2, <1>3
<1>5. S \subseteq Nat
  BY <1>1
<1>6. Log!Min(S) = CHOOSE x \in S : \A y \in S : x <= y
  BY DEF Log!Min
<1> HIDE DEF S, m
<1>7. Log!Min(S) \in S /\ \A y \in S : Log!Min(S) <= y
  BY <1>4, <1>6
<1>8. m = Log!Min(S)
  <2>1. m <= Log!Min(S) /\ Log!Min(S) <= m
    BY <1>4, <1>7
  <2>2. m \in Nat /\ Log!Min(S) \in Nat
    BY <1>4, <1>5, <1>7
  <2> HIDE DEF m
  <2> DEFINE k == Log!Min(S)
  <2>3. m <= k /\ k <= m /\ m \in Nat /\ k \in Nat
    BY <2>1, <2>2
  <2> HIDE DEF k
  <2>4. m = k
    BY <2>3
  <2> QED BY <2>4 DEF k
<1> QED BY <1>2, <1>8 DEF S, m

\* Whatever the limit, the tail is the newest entries of all that were
\* appended, in order; and a view that is not full misses none of them, but
\* those that the stream carried while it was still loading and those that the
\* hub dropped because the view did not keep up: the callback publishes after
\* the unlock, which by itself loses nothing.
THEOREM TailIsRight ==
    ASSUME Log!LogAssumption
    PROVE  Log!Spec => []TailIsFollowed
<1>1. Log!Init => LogInv
  BY LogInit
<1>2. LogInv /\ [Log!Next]_(Log!vars) => LogInv'
  BY LogNext
<1>3. LogInv => TailIsFollowed
  BY TailIsNewestHolds DEF LogInv, TailIsFollowed, Log!TailIsFollowed
<1> QED BY <1>1, <1>2, <1>3, PTL DEF Log!Spec

----------------------------------------------------------------------------
(* The client of one stream.                                               *)

Line == [is : {"comment", "event", "data", "blank"}, event : Nat]

SdkTyped ==
    /\ handling \in [pc : {"none", "request", "hello", "loop", "write", "ended"}, event : Nat]
    /\ subscribed \in BOOLEAN /\ buffer \in Seq(Nat) /\ wire \in Seq(Line) /\ cut \in BOOLEAN
    /\ client \in {"idle", "open", "read", "check", "handle", "ended"}
    /\ data \in Seq(Nat) /\ stopped \in BOOLEAN /\ handled \in Seq(Nat) /\ sentSoFar \in Nat

\* How far each side is, and what the other may rely on.
Phases ==
    /\ handling.pc \in {"none", "request", "hello"} => wire = <<>>
    /\ handling.pc \in {"hello", "loop", "write"} => subscribed
    /\ handling.pc = "ended" => cut
    /\ client \in {"read", "check", "handle"} => handling.pc \in {"loop", "write", "ended"}
    /\ lateCalls \in {0, 1}
    /\ lateCalls # 0 => stopped /\ client \in {"check", "ended"}

\* A payload is followed by the blank line that ends its event, unless the
\* stream was cut there; so the client never has more than one.
Lined ==
    /\ \A i \in 1 .. Len(wire) :
          wire[i].is = "data" => IF i < Len(wire) THEN wire[i + 1].is = "blank" ELSE cut
    /\ Len(data) <= 1
    /\ data # <<>> /\ client # "handle" => IF wire # <<>> THEN wire[1].is = "blank" ELSE cut

\* Where events are, from the function back to the hub.
OnWire == {wire[i].event : i \in {j \in 1 .. Len(wire) : wire[j].is = "data"}}

InHand == IF handling.pc = "write" THEN {handling.event} ELSE {}

Rising(q) == \A i, j \in 1 .. Len(q) : i < j => q[i] < q[j]

Before(A, B) == \A a \in A, b \in B : a < b

\* What is farther on its way was published earlier.
Ordered ==
    /\ Rising(handled) /\ Rising(buffer)
    /\ \A i, j \in 1 .. Len(wire) :
          i < j /\ wire[i].is = "data" /\ wire[j].is = "data" => wire[i].event < wire[j].event
    /\ Before(Range(handled), Range(data) \cup OnWire \cup InHand \cup Range(buffer))
    /\ Before(Range(data), OnWire \cup InHand \cup Range(buffer))
    /\ Before(OnWire, InHand \cup Range(buffer))
    /\ Before(InHand, Range(buffer))
    /\ \A e \in Range(handled) \cup Range(data) \cup OnWire \cup InHand \cup Range(buffer) :
          e <= sentSoFar

\* PromisedAreHandled, in these terms.
Promised ==
    ~stopped /\ ~cut =>
        promised \subseteq Range(handled) \cup dropped \cup Range(buffer) \cup InHand
            \cup OnWire \cup Range(data)

\* The inductive invariant.
SdkInv == SdkTyped /\ Phases /\ Lined /\ Ordered /\ Promised

LEMMA SdkInit == Sdk!Init => SdkInv
<1> SUFFICES ASSUME Sdk!Init PROVE SdkInv
  OBVIOUS
<1>1. <<>> \in Seq(Nat) /\ <<>> \in Seq(Line) /\ Len(<<>>) = 0
  OBVIOUS
<1>2. Range(<<>>) = {}
  BY DEF Range
<1>3. /\ handling = [pc |-> "none", event |-> 0] /\ subscribed = FALSE /\ buffer = <<>>
      /\ wire = <<>> /\ cut = FALSE /\ client = "idle" /\ data = <<>> /\ stopped = FALSE
      /\ handled = <<>> /\ sentSoFar = 0 /\ promised = {} /\ lateCalls = 0
  BY DEF Sdk!Init
<1>4. SdkTyped /\ Phases
  BY <1>1, <1>3 DEF SdkTyped, Phases
<1>5. OnWire = {} /\ InHand = {}
  BY <1>1, <1>3 DEF OnWire, InHand
<1>6. Lined /\ Promised
  BY <1>1, <1>3 DEF Lined, Promised
<1>7. Ordered
  BY <1>1, <1>2, <1>3, <1>5 DEF Ordered, Rising, Before
<1> QED BY <1>4, <1>6, <1>7 DEF SdkInv

LEMMA RisingQueue ==
    ASSUME NEW q \in Seq(Nat), Rising(q)
    PROVE  /\ q # <<>> => /\ Rising(Tail(q)) /\ Before({Head(q)}, Range(Tail(q)))
                          /\ Tail(q) \in Seq(Nat) /\ Head(q) \in Nat
                          /\ Range(q) = {Head(q)} \cup Range(Tail(q))
           /\ \A x \in Nat : /\ Append(q, x) \in Seq(Nat)
                             /\ Range(Append(q, x)) = Range(q) \cup {x}
                             /\ Before(Range(q), {x}) => Rising(Append(q, x))
<1>1. ASSUME q # <<>>
      PROVE  /\ Rising(Tail(q)) /\ Before({Head(q)}, Range(Tail(q)))
             /\ Tail(q) \in Seq(Nat) /\ Head(q) \in Nat
             /\ Range(q) = {Head(q)} \cup Range(Tail(q))
  <2>1. /\ Len(q) \in Nat \ {0} /\ Head(q) = q[1] /\ Len(Tail(q)) = Len(q) - 1
        /\ \A i \in 1 .. Len(q) - 1 : Tail(q)[i] = q[i + 1]
        /\ Tail(q) \in Seq(Nat) /\ Head(q) \in Nat
    BY <1>1
  <2>2. Rising(Tail(q))
    <3> SUFFICES ASSUME NEW i \in 1 .. Len(q) - 1, NEW j \in 1 .. Len(q) - 1, i < j
                 PROVE  Tail(q)[i] < Tail(q)[j]
      BY <2>1 DEF Rising
    <3>1. i + 1 \in 1 .. Len(q) /\ j + 1 \in 1 .. Len(q) /\ i + 1 < j + 1
      BY <2>1
    <3>2. q[i + 1] < q[j + 1]
      BY <3>1 DEF Rising
    <3> QED BY <2>1, <3>2
  <2>3. Before({Head(q)}, Range(Tail(q)))
    <3> SUFFICES ASSUME NEW y \in Range(Tail(q)) PROVE q[1] < y
      BY <2>1 DEF Before
    <3>1. PICK i \in 1 .. Len(q) - 1 : y = Tail(q)[i]
      BY <2>1 DEF Range
    <3>2. y = q[i + 1]
      BY <2>1, <3>1
    <3>3. 1 \in 1 .. Len(q) /\ i + 1 \in 1 .. Len(q) /\ 1 < i + 1
      BY <2>1
    <3>4. q[1] < q[i + 1]
      BY <3>3 DEF Rising
    <3> QED BY <3>2, <3>4
  <2>4. Range(q) = {Head(q)} \cup Range(Tail(q))
    <3> DEFINE h == Head(q)
    <3>1. Range(q) = Range(<<h>>) \cup Range(Tail(q))
      BY <1>1, RangeOfHead
    <3>2. Range(<<h>>) = {h}
      BY DEF Range
    <3> QED BY <3>1, <3>2
  <2> QED BY <2>1, <2>2, <2>3, <2>4
<1>2. ASSUME NEW x \in Nat
      PROVE  /\ Append(q, x) \in Seq(Nat)
             /\ Range(Append(q, x)) = Range(q) \cup {x}
             /\ Before(Range(q), {x}) => Rising(Append(q, x))
  <2>1. /\ Append(q, x) \in Seq(Nat) /\ Len(q) \in Nat /\ Len(Append(q, x)) = Len(q) + 1
        /\ Append(q, x)[Len(q) + 1] = x
        /\ \A i \in 1 .. Len(q) : Append(q, x)[i] = q[i] /\ q[i] \in Range(q)
    BY DEF Range
  <2>2. ASSUME Before(Range(q), {x}) PROVE Rising(Append(q, x))
    <3> SUFFICES ASSUME NEW i \in 1 .. Len(q) + 1, NEW j \in 1 .. Len(q) + 1, i < j
                 PROVE  Append(q, x)[i] < Append(q, x)[j]
      BY <2>1 DEF Rising
    <3>1. i \in 1 .. Len(q)
      BY <2>1
    <3>2. CASE j = Len(q) + 1
      BY <2>1, <2>2, <3>1, <3>2 DEF Before
    <3>3. CASE j # Len(q) + 1
      <4>1. j \in 1 .. Len(q)
        BY <2>1, <3>3
      <4>2. q[i] < q[j]
        BY <3>1, <4>1 DEF Rising
      <4> QED BY <2>1, <3>1, <4>1, <4>2
    <3> QED BY <3>2, <3>3
  <2> QED BY <2>1, <2>2, RangeOfAppend
<1> QED BY <1>1, <1>2

\* Steps that leave the events where they are: what both sides do between.
LEMMA QuietStep ==
    ASSUME SdkInv, SdkTyped', Phases',
           UNCHANGED <<buffer, wire, data, handled, sentSoFar, promised, dropped>>,
           InHand' = InHand,
           cut => cut', stopped => stopped',
           client = "handle" => client' = "handle"
    PROVE  SdkInv'
<1>1. OnWire' = OnWire
  BY DEF OnWire
<1>2. Ordered'
  BY <1>1 DEF SdkInv, Ordered, Rising, Before
<1>3. Lined'
  BY DEF SdkInv, Lined, SdkTyped
<1>4. Promised'
  BY <1>1 DEF SdkInv, Promised, SdkTyped
<1> QED BY <1>2, <1>3, <1>4 DEF SdkInv

LEMMA QuietSteps ==
    ASSUME SdkInv,
           \/ Sdk!CallSubscribe \/ Sdk!HubSubscribe \/ Sdk!Opened \/ Sdk!OpenFails
           \/ Sdk!Check \/ Sdk!ReadFails \/ Sdk!Stop
    PROVE  SdkInv'
<1> USE DEF Sdk!conn, Sdk!caller, Sdk!history, Sdk!Serving, Sdk!Serve
<1>t. SdkTyped /\ Phases
  BY DEF SdkInv
<1>0. /\ UNCHANGED <<buffer, wire, data, handled, sentSoFar, promised, dropped, lateCalls>>
      /\ cut => cut'
      /\ stopped => stopped'
      /\ client = "handle" => client' = "handle"
  <2>1. CASE Sdk!CallSubscribe
    BY <1>t, <2>1 DEF Sdk!CallSubscribe, SdkTyped
  <2>2. CASE Sdk!HubSubscribe
    BY <1>t, <2>2 DEF Sdk!HubSubscribe, SdkTyped
  <2>3. CASE Sdk!Opened
    BY <1>t, <2>3 DEF Sdk!Opened, SdkTyped
  <2>4. CASE Sdk!OpenFails
    BY <1>t, <2>4 DEF Sdk!OpenFails, SdkTyped
  <2>5. CASE Sdk!Check
    BY <1>t, <2>5 DEF Sdk!Check, SdkTyped
  <2>6. CASE Sdk!ReadFails
    BY <1>t, <2>6 DEF Sdk!ReadFails, SdkTyped
  <2>7. CASE Sdk!Stop
    BY <1>t, <2>7 DEF Sdk!Stop, SdkTyped
  <2> QED BY <2>1, <2>2, <2>3, <2>4, <2>5, <2>6, <2>7
<1>1. CASE Sdk!CallSubscribe
  <2>1. /\ client' = "open" /\ handling.pc = "none"
        /\ handling' = [handling EXCEPT !.pc = "request"]
        /\ UNCHANGED <<subscribed, cut, stopped>>
    BY <1>1 DEF Sdk!CallSubscribe
  <2>2. handling' = [pc |-> "request", event |-> handling.event] /\ handling.event \in Nat
    BY <1>t, <2>1 DEF SdkTyped
  <2>3. client = "idle"
    BY <1>1 DEF Sdk!CallSubscribe
  <2>4. SdkTyped' /\ Phases' /\ InHand' = InHand
    BY <1>0, <1>t, <2>1, <2>2, <2>3 DEF SdkTyped, Phases, InHand
  <2> QED BY <1>0, <2>4, QuietStep
<1>2. CASE Sdk!HubSubscribe
  <2>1. /\ subscribed' = TRUE /\ handling.pc = "request"
        /\ handling' = [handling EXCEPT !.pc = "hello"]
        /\ UNCHANGED <<cut, client, stopped>>
    BY <1>2 DEF Sdk!HubSubscribe
  <2>2. handling' = [pc |-> "hello", event |-> handling.event] /\ handling.event \in Nat
    BY <1>t, <2>1 DEF SdkTyped
  <2>3. SdkTyped' /\ Phases' /\ InHand' = InHand
    BY <1>0, <1>t, <2>1, <2>2 DEF SdkTyped, Phases, InHand
  <2> QED BY <1>0, <2>3, QuietStep
<1>3. CASE Sdk!Opened
  <2>1. SdkTyped' /\ Phases' /\ InHand' = InHand
    BY <1>3, <1>t DEF SdkTyped, Phases, InHand, Sdk!Opened
  <2> QED BY <1>0, <2>1, QuietStep
<1>4. CASE Sdk!OpenFails
  <2>1. SdkTyped' /\ Phases' /\ InHand' = InHand
    BY <1>4, <1>t DEF SdkTyped, Phases, InHand, Sdk!OpenFails
  <2> QED BY <1>0, <2>1, QuietStep
<1>5. CASE Sdk!Check
  <2>1. SdkTyped' /\ Phases' /\ InHand' = InHand
    BY <1>5, <1>t DEF SdkTyped, Phases, InHand, Sdk!Check
  <2> QED BY <1>0, <2>1, QuietStep
<1>6. CASE Sdk!ReadFails
  <2>1. SdkTyped' /\ Phases' /\ InHand' = InHand
    BY <1>6, <1>t DEF SdkTyped, Phases, InHand, Sdk!ReadFails
  <2> QED BY <1>0, <2>1, QuietStep
<1>7. CASE Sdk!Stop
  <2>1. SdkTyped' /\ Phases' /\ InHand' = InHand
    BY <1>7, <1>t DEF SdkTyped, Phases, InHand, Sdk!Stop
  <2> QED BY <1>0, <2>1, QuietStep
<1> QED BY <1>1, <1>2, <1>3, <1>4, <1>5, <1>6, <1>7

\* The hub: a later event at the end of the channel, or none.
LEMMA SdkPublishStep ==
    ASSUME SdkInv, Sdk!Publish
    PROVE  SdkInv'
<1> DEFINE x == sentSoFar + 1
<1>1. /\ sentSoFar' = x
      /\ promised' = IF client \in {"read", "check", "handle"} /\ ~stopped
                     THEN promised \cup {x} ELSE promised
      /\ \/ buffer' = Append(buffer, x) /\ dropped' = dropped
         \/ buffer' = buffer /\ dropped' = (IF subscribed THEN dropped \cup {x} ELSE dropped)
      /\ UNCHANGED <<handling, subscribed, wire, cut, client, data, stopped, handled, lateCalls>>
  BY DEF Sdk!Publish, Sdk!caller
<1>2. SdkTyped /\ x \in Nat /\ buffer \in Seq(Nat) /\ sentSoFar \in Nat /\ Rising(buffer)
  BY DEF SdkInv, SdkTyped, Ordered
<1>3. /\ Append(buffer, x) \in Seq(Nat)
      /\ Range(Append(buffer, x)) = Range(buffer) \cup {x}
      /\ Before(Range(buffer), {x}) => Rising(Append(buffer, x))
  BY <1>2, RisingQueue
<1>4. \A e \in Range(handled) \cup Range(data) \cup OnWire \cup InHand \cup Range(buffer) :
         e \in Nat /\ e < x
  <2>1. Range(handled) \subseteq Nat /\ Range(data) \subseteq Nat /\ Range(buffer) \subseteq Nat
    BY <1>2 DEF SdkTyped, Range
  <2>2. OnWire \subseteq Nat /\ InHand \subseteq Nat
    <3>1. \A i \in 1 .. Len(wire) : wire[i] \in Line
      BY <1>2 DEF SdkTyped
    <3>2. \A i \in 1 .. Len(wire) : wire[i].event \in Nat
      BY <3>1 DEF Line
    <3>3. handling.event \in Nat
      BY <1>2 DEF SdkTyped
    <3> QED BY <3>2, <3>3 DEF OnWire, InHand
  <2>3. \A e \in Range(handled) \cup Range(data) \cup OnWire \cup InHand \cup Range(buffer) :
           e <= sentSoFar
    BY DEF SdkInv, Ordered
  <2> TAKE e \in Range(handled) \cup Range(data) \cup OnWire \cup InHand \cup Range(buffer)
  <2>4. e \in Nat /\ e <= sentSoFar
    BY <2>1, <2>2, <2>3
  <2> QED BY <1>2, <2>4
<1> HIDE DEF x
<1>5. OnWire' = OnWire /\ InHand' = InHand
  BY <1>1 DEF OnWire, InHand
<1>6. /\ Rising(buffer') /\ Range(buffer') \subseteq Range(buffer) \cup {x}
      /\ buffer' \in Seq(Nat)
  BY <1>1, <1>2, <1>3, <1>4 DEF Before
<1>7. SdkTyped' /\ Phases' /\ Lined'
  BY <1>1, <1>2, <1>6 DEF SdkInv, SdkTyped, Phases, Lined
<1>8. Ordered'
  <2>1. Ordered
    BY DEF SdkInv
  <2>2. /\ Before(Range(handled), Range(data) \cup OnWire \cup InHand \cup Range(buffer'))
        /\ Before(Range(data), OnWire \cup InHand \cup Range(buffer'))
        /\ Before(OnWire, InHand \cup Range(buffer'))
        /\ Before(InHand, Range(buffer'))
    BY <1>4, <1>6, <2>1 DEF Ordered, Before
  <2>3. \A e \in Range(handled) \cup Range(data) \cup OnWire \cup InHand \cup Range(buffer') :
           e <= x
    <3>1. \A e \in Range(handled) \cup Range(data) \cup OnWire \cup InHand \cup Range(buffer') :
             e = x \/ (e \in Nat /\ e < x)
      BY <1>4, <1>6
    <3> QED BY <1>2, <3>1
  <2> QED BY <1>1, <1>5, <1>6, <2>1, <2>2, <2>3 DEF Ordered, Rising
<1>9. Promised'
  <2> SUFFICES ASSUME ~stopped, ~cut, NEW e \in promised'
               PROVE  e \in Range(handled) \cup dropped' \cup Range(buffer') \cup InHand
                         \cup OnWire \cup Range(data)
    BY <1>1, <1>5 DEF Promised
  <2>1. CASE e \in promised
    BY <1>1, <1>3, <2>1 DEF SdkInv, Promised
  <2>2. CASE e = x /\ client \in {"read", "check", "handle"}
    <3>1. subscribed
      BY <2>2 DEF SdkInv, Phases
    <3> QED BY <1>1, <1>3, <2>2, <3>1
  <2> QED BY <1>1, <2>1, <2>2
<1> QED BY <1>7, <1>8, <1>9 DEF SdkInv

\* The handler takes an event out of the channel; the rules may keep it back.
LEMMA SdkReceiveStep ==
    ASSUME SdkInv, Sdk!Receive
    PROVE  SdkInv'
<1> DEFINE h == Head(buffer)
           rest == Tail(buffer)
<1>1. /\ handling.pc = "loop" /\ buffer # <<>> /\ buffer' = rest
      /\ \/ handling' = [pc |-> "write", event |-> h] /\ dropped' = dropped
         \/ handling' = handling /\ dropped' = dropped \cup {h}
      /\ UNCHANGED <<subscribed, wire, cut, client, data, stopped, handled, sentSoFar,
                     promised, lateCalls>>
  BY DEF Sdk!Receive, Sdk!Serving, Sdk!caller
<1>2. SdkTyped /\ buffer \in Seq(Nat) /\ Rising(buffer) /\ Ordered
  BY DEF SdkInv, SdkTyped, Ordered
<1>3. /\ rest \in Seq(Nat) /\ h \in Nat /\ Rising(rest)
      /\ Before({h}, Range(rest)) /\ Range(buffer) = {h} \cup Range(rest)
  BY <1>1, <1>2, RisingQueue
<1> HIDE DEF h, rest
<1>4. InHand = {} /\ InHand' \subseteq {h} /\ OnWire' = OnWire
  BY <1>1 DEF InHand, OnWire
<1>5. SdkTyped' /\ Phases' /\ Lined'
  BY <1>1, <1>3 DEF SdkInv, SdkTyped, Phases, Lined
<1>6. Ordered'
  <2>1. /\ Before(Range(handled), Range(data) \cup OnWire \cup InHand' \cup Range(rest))
        /\ Before(Range(data), OnWire \cup InHand' \cup Range(rest))
        /\ Before(OnWire, InHand' \cup Range(rest))
        /\ Before(InHand', Range(rest))
        /\ \A e \in Range(handled) \cup Range(data) \cup OnWire \cup InHand' \cup Range(rest) :
              e <= sentSoFar
    BY <1>2, <1>3, <1>4 DEF Ordered, Before
  <2> QED BY <1>1, <1>2, <1>3, <1>4, <2>1 DEF Ordered, Rising
<1>7. Promised'
  <2>1. h \in dropped' \cup InHand' /\ dropped \subseteq dropped'
    BY <1>1 DEF InHand
  <2> QED BY <1>1, <1>3, <1>4, <2>1 DEF SdkInv, Promised
<1> QED BY <1>5, <1>6, <1>7 DEF SdkInv

\* Comments, which carry nothing.
LEMMA CommentStep ==
    ASSUME SdkInv, Sdk!Hello \/ Sdk!KeepAlive
    PROVE  SdkInv'
<1> DEFINE l == <<Sdk!Comment, Sdk!Blank>>
           v == wire \o l
<1>1. /\ wire' = (IF cut THEN wire ELSE v)
      /\ \/ handling.pc = "hello" /\ handling' = [handling EXCEPT !.pc = "loop"]
         \/ handling.pc = "loop" /\ handling' = handling
      /\ UNCHANGED <<subscribed, buffer, cut, client, data, stopped, handled, sentSoFar,
                     promised, dropped, lateCalls>>
  BY DEF Sdk!Hello, Sdk!KeepAlive, Sdk!Put, Sdk!Serving, Sdk!Serve, Sdk!caller, Sdk!history
<1>2. SdkTyped /\ Phases /\ Ordered /\ Lined
  BY DEF SdkInv
<1>3. /\ wire \in Seq(Line) /\ l \in Seq(Line) /\ Len(l) = 2
      /\ l[1].is = "comment" /\ l[2].is = "blank"
  BY <1>2 DEF SdkTyped, Line, Sdk!Comment, Sdk!Blank
<1>v. v = wire \o l
  OBVIOUS
<1> HIDE DEF l, v
<1>4. /\ v \in Seq(Line) /\ Len(v) = Len(wire) + Len(l)
      /\ \A i \in 1 .. Len(wire) : v[i] = wire[i]
      /\ \A i \in 1 .. Len(l) : v[Len(wire) + i] = l[i]
  <2>1. wire \in Seq(Line) /\ l \in Seq(Line)
    BY <1>3
  <2>2. /\ (wire \o l) \in Seq(Line) /\ Len(wire \o l) = Len(wire) + Len(l)
        /\ \A i \in 1 .. Len(wire) : (wire \o l)[i] = wire[i]
        /\ \A i \in 1 .. Len(l) : (wire \o l)[Len(wire) + i] = l[i]
    BY <2>1
  <2> QED BY <1>v, <2>2
<1>a. /\ Len(wire) \in Nat /\ Len(v) = Len(wire) + 2
      /\ v[Len(wire) + 1].is = "comment" /\ v[Len(wire) + 2].is = "blank"
  BY <1>3, <1>4
<1>5. \A i \in 1 .. Len(v) : v[i].is = "data" => i \in 1 .. Len(wire) /\ v[i] = wire[i]
  <2> SUFFICES ASSUME NEW i \in 1 .. Len(v), v[i].is = "data"
               PROVE  i \in 1 .. Len(wire)
    BY <1>4
  <2>1. i # Len(wire) + 1 /\ i # Len(wire) + 2
    BY <1>a
  <2> QED BY <1>a, <2>1
<1>6. OnWire' = OnWire
  <2>1. CASE cut
    BY <1>1, <2>1 DEF OnWire
  <2>2. CASE ~cut
    <3>1. wire' = v
      BY <1>1, <2>2
    <3>2. ASSUME NEW e \in OnWire' PROVE e \in OnWire
      <4>1. PICK i \in 1 .. Len(v) : v[i].is = "data" /\ e = v[i].event
        BY <3>1 DEF OnWire
      <4> QED BY <1>5, <4>1 DEF OnWire
    <3>3. ASSUME NEW e \in OnWire PROVE e \in OnWire'
      <4>1. PICK i \in 1 .. Len(wire) : wire[i].is = "data" /\ e = wire[i].event
        BY DEF OnWire
      <4>2. i \in 1 .. Len(v) /\ v[i] = wire[i]
        BY <1>4, <1>a
      <4> QED BY <3>1, <4>1, <4>2 DEF OnWire
    <3> QED BY <3>2, <3>3
  <2> QED BY <2>1, <2>2
<1>7. handling' \in [pc : {"loop"}, event : Nat] /\ InHand' = {} /\ InHand = {}
  <2>1. handling \in [pc : {"none", "request", "hello", "loop", "write", "ended"}, event : Nat]
    BY <1>2 DEF SdkTyped
  <2> QED BY <1>1, <2>1 DEF InHand
<1>8. SdkTyped' /\ Phases'
  BY <1>1, <1>2, <1>4, <1>7 DEF SdkTyped, Phases
<1>9. Lined'
  <2>1. CASE cut
    BY <1>1, <1>2, <2>1 DEF Lined
  <2>2. CASE ~cut
    <3>1. wire' = v /\ wire' # <<>>
      BY <1>1, <1>a, <1>4, <2>2
    <3>2. ASSUME NEW i \in 1 .. Len(v), v[i].is = "data"
          PROVE  i < Len(v) /\ v[i + 1].is = "blank"
      <4>1. i \in 1 .. Len(wire) /\ v[i] = wire[i] /\ wire[i].is = "data"
        BY <1>5, <3>2
      <4>2. i < Len(wire) /\ wire[i + 1].is = "blank"
        BY <1>2, <2>2, <4>1 DEF Lined
      <4>3. i + 1 \in 1 .. Len(wire)
        BY <1>a, <4>1, <4>2
      <4> QED BY <1>4, <1>a, <4>2, <4>3
    <3>3. data # <<>> /\ client # "handle" => v[1].is = "blank"
      <4> SUFFICES ASSUME data # <<>>, client # "handle" PROVE v[1].is = "blank"
        OBVIOUS
      <4>1. wire # <<>> /\ wire[1].is = "blank"
        BY <1>2, <2>2 DEF Lined
      <4>2. 1 \in 1 .. Len(wire)
        BY <1>3, <1>a, <4>1
      <4> QED BY <1>4, <4>1, <4>2
    <3> QED BY <1>1, <1>2, <3>1, <3>2, <3>3 DEF Lined
  <2> QED BY <2>1, <2>2
<1>b. Ordered'
  <2>1. \A i, j \in 1 .. Len(wire') :
           i < j /\ wire'[i].is = "data" /\ wire'[j].is = "data" => wire'[i].event < wire'[j].event
    <3>1. CASE cut
      BY <1>1, <1>2, <3>1 DEF Ordered
    <3>2. CASE ~cut
      BY <1>1, <1>2, <1>5, <3>2 DEF Ordered
    <3> QED BY <3>1, <3>2
  <2> QED BY <1>1, <1>2, <1>6, <1>7, <2>1 DEF Ordered, Rising
<1>c. Promised'
  BY <1>1, <1>6, <1>7 DEF SdkInv, Promised
<1> QED BY <1>8, <1>9, <1>b, <1>c DEF SdkInv

\* The event in hand becomes three lines, or is lost with the connection.
LEMMA SdkWriteStep ==
    ASSUME SdkInv, Sdk!Write
    PROVE  SdkInv'
<1> DEFINE e == handling.event
           l == <<Sdk!Name(e), Sdk!Payload(e), Sdk!Blank>>
           v == wire \o l
<1>1. /\ handling.pc = "write" /\ handling' = [pc |-> "loop", event |-> 0]
      /\ wire' = (IF cut THEN wire ELSE v)
      /\ UNCHANGED <<subscribed, buffer, cut, client, data, stopped, handled, sentSoFar,
                     promised, dropped, lateCalls>>
  BY DEF Sdk!Write, Sdk!Put, Sdk!Serving, Sdk!caller, Sdk!history
<1>2. SdkTyped /\ Phases /\ Ordered /\ Lined
  BY DEF SdkInv
<1>3. /\ wire \in Seq(Line) /\ l \in Seq(Line) /\ Len(l) = 3 /\ e \in Nat
      /\ l[1].is = "event" /\ l[2].is = "data" /\ l[2].event = e /\ l[3].is = "blank"
  <2>1. e \in Nat /\ wire \in Seq(Line)
    BY <1>2 DEF SdkTyped
  <2> HIDE DEF e
  <2> QED BY <2>1 DEF Line, Sdk!Name, Sdk!Payload, Sdk!Blank
<1>v. v = wire \o l
  OBVIOUS
<1>i. InHand = {e} /\ InHand' = {}
  BY <1>1 DEF InHand
<1> HIDE DEF e, l, v
<1>4. /\ v \in Seq(Line) /\ Len(v) = Len(wire) + 3 /\ Len(wire) \in Nat
      /\ \A i \in 1 .. Len(wire) : v[i] = wire[i]
      /\ v[Len(wire) + 1].is = "event" /\ v[Len(wire) + 3].is = "blank"
      /\ v[Len(wire) + 2].is = "data" /\ v[Len(wire) + 2].event = e
  <2>1. wire \in Seq(Line) /\ l \in Seq(Line)
    BY <1>3
  <2>2. /\ (wire \o l) \in Seq(Line) /\ Len(wire \o l) = Len(wire) + Len(l) /\ Len(wire) \in Nat
        /\ \A i \in 1 .. Len(wire) : (wire \o l)[i] = wire[i]
        /\ \A i \in 1 .. Len(l) : (wire \o l)[Len(wire) + i] = l[i]
    BY <2>1
  <2>3. 1 \in 1 .. Len(l) /\ 2 \in 1 .. Len(l) /\ 3 \in 1 .. Len(l)
    BY <1>3
  <2> QED BY <1>3, <1>v, <2>2, <2>3
<1>5. \A i \in 1 .. Len(v) : v[i].is = "data" =>
         i = Len(wire) + 2 \/ (i \in 1 .. Len(wire) /\ v[i] = wire[i])
  <2> SUFFICES ASSUME NEW i \in 1 .. Len(v), v[i].is = "data", i # Len(wire) + 2
               PROVE  i \in 1 .. Len(wire)
    BY <1>4
  <2>1. i # Len(wire) + 1 /\ i # Len(wire) + 3
    BY <1>4
  <2> QED BY <1>4, <2>1
<1>6. /\ OnWire' \subseteq OnWire \cup {e}
      /\ OnWire \subseteq OnWire' /\ (~cut => e \in OnWire')
  <2>1. CASE cut
    BY <1>1, <2>1 DEF OnWire
  <2>2. CASE ~cut
    <3>1. wire' = v
      BY <1>1, <2>2
    <3>2. ASSUME NEW x \in OnWire' PROVE x \in OnWire \cup {e}
      <4>1. PICK i \in 1 .. Len(v) : v[i].is = "data" /\ x = v[i].event
        BY <3>1 DEF OnWire
      <4> QED BY <1>4, <1>5, <4>1 DEF OnWire
    <3>3. ASSUME NEW x \in OnWire PROVE x \in OnWire'
      <4>1. PICK i \in 1 .. Len(wire) : wire[i].is = "data" /\ x = wire[i].event
        BY DEF OnWire
      <4>2. i \in 1 .. Len(v) /\ v[i] = wire[i]
        BY <1>4
      <4> QED BY <3>1, <4>1, <4>2 DEF OnWire
    <3>4. e \in OnWire'
      <4>1. Len(wire) + 2 \in 1 .. Len(v)
        BY <1>4
      <4> QED BY <1>4, <3>1, <4>1 DEF OnWire
    <3> QED BY <3>2, <3>3, <3>4
  <2> QED BY <2>1, <2>2
<1>7. SdkTyped' /\ Phases'
  <2>1. wire' \in Seq(Line)
    BY <1>1, <1>3, <1>4
  <2> QED BY <1>1, <1>2, <2>1 DEF SdkTyped, Phases
<1>8. Lined'
  <2>1. CASE cut
    BY <1>1, <1>2, <2>1 DEF Lined
  <2>2. CASE ~cut
    <3>1. wire' = v /\ wire' # <<>>
      BY <1>1, <1>4, <2>2
    <3>2. ASSUME NEW i \in 1 .. Len(v), v[i].is = "data"
          PROVE  i < Len(v) /\ v[i + 1].is = "blank"
      <4>1. CASE i = Len(wire) + 2
        BY <1>4, <4>1
      <4>2. CASE i # Len(wire) + 2
        <5>1. i \in 1 .. Len(wire) /\ v[i] = wire[i] /\ wire[i].is = "data"
          BY <1>5, <3>2, <4>2
        <5>2. i < Len(wire) /\ wire[i + 1].is = "blank"
          BY <1>2, <2>2, <5>1 DEF Lined
        <5>3. i + 1 \in 1 .. Len(wire)
          BY <1>4, <5>1, <5>2
        <5> QED BY <1>4, <5>2, <5>3
      <4> QED BY <4>1, <4>2
    <3>3. data # <<>> /\ client # "handle" => v[1].is = "blank"
      <4> SUFFICES ASSUME data # <<>>, client # "handle" PROVE v[1].is = "blank"
        OBVIOUS
      <4>1. wire # <<>> /\ wire[1].is = "blank"
        BY <1>2, <2>2 DEF Lined
      <4>2. 1 \in 1 .. Len(wire)
        BY <1>3, <1>4, <4>1
      <4> QED BY <1>4, <4>1, <4>2
    <3> QED BY <1>1, <1>2, <3>1, <3>2, <3>3 DEF Lined
  <2> QED BY <2>1, <2>2
<1>9. Ordered'
  <2>1. \A i, j \in 1 .. Len(wire') :
           i < j /\ wire'[i].is = "data" /\ wire'[j].is = "data" => wire'[i].event < wire'[j].event
    <3>1. CASE cut
      BY <1>1, <1>2, <3>1 DEF Ordered
    <3>2. CASE ~cut
      <4> SUFFICES ASSUME NEW i \in 1 .. Len(v), NEW j \in 1 .. Len(v), i < j,
                          v[i].is = "data", v[j].is = "data"
                   PROVE  v[i].event < v[j].event
        BY <1>1, <3>2
      <4>1. i \in 1 .. Len(wire) /\ v[i] = wire[i]
        BY <1>4, <1>5
      <4>2. CASE j = Len(wire) + 2
        <5>1. wire[i].event \in OnWire
          BY <4>1 DEF OnWire
        <5>2. wire[i].event < e
          BY <1>2, <1>i, <5>1 DEF Ordered, Before
        <5> QED BY <1>4, <4>1, <4>2, <5>2
      <4>3. CASE j # Len(wire) + 2
        <5>1. j \in 1 .. Len(wire) /\ v[j] = wire[j]
          BY <1>5, <4>3
        <5> QED BY <1>2, <4>1, <5>1 DEF Ordered
      <4> QED BY <4>2, <4>3
    <3> QED BY <3>1, <3>2
  <2>2. /\ Before(Range(handled), Range(data) \cup OnWire' \cup InHand' \cup Range(buffer))
        /\ Before(Range(data), OnWire' \cup InHand' \cup Range(buffer))
        /\ Before(OnWire', InHand' \cup Range(buffer))
        /\ \A x \in Range(handled) \cup Range(data) \cup OnWire' \cup InHand' \cup Range(buffer) :
              x <= sentSoFar
    BY <1>2, <1>6, <1>i DEF Ordered, Before
  <2> QED BY <1>1, <1>2, <1>i, <2>1, <2>2 DEF Ordered, Rising, Before
<1>b. Promised'
  BY <1>1, <1>6, <1>i DEF SdkInv, Promised
<1> QED BY <1>7, <1>8, <1>9, <1>b DEF SdkInv

LEMMA SdkLeaveStep ==
    ASSUME SdkInv, Sdk!Leave
    PROVE  SdkInv'
<1>1. /\ handling.pc = "loop" /\ cut /\ handling' = [handling EXCEPT !.pc = "ended"]
      /\ subscribed' = FALSE /\ buffer' = <<>>
      /\ UNCHANGED <<wire, cut, client, data, stopped, handled, sentSoFar, promised, dropped,
                     lateCalls>>
  BY DEF Sdk!Leave, Sdk!Serving, Sdk!Serve, Sdk!caller, Sdk!history
<1>2. SdkTyped /\ Phases /\ Ordered /\ Lined
  BY DEF SdkInv
<1>3. handling' = [pc |-> "ended", event |-> handling.event] /\ handling.event \in Nat
  BY <1>1, <1>2 DEF SdkTyped
<1>4. <<>> \in Seq(Nat) /\ Len(<<>>) = 0 /\ Range(<<>>) = {}
  BY DEF Range
<1>5. OnWire' = OnWire /\ InHand' = {} /\ InHand = {}
  BY <1>1, <1>3 DEF OnWire, InHand
<1>6. SdkTyped' /\ Phases' /\ Lined' /\ Promised'
  BY <1>1, <1>2, <1>3, <1>4 DEF SdkTyped, Phases, Lined, Promised
<1>7. Ordered'
  BY <1>1, <1>2, <1>4, <1>5 DEF Ordered, Rising, Before
<1> QED BY <1>6, <1>7 DEF SdkInv

\* A line is read: a payload is gathered, the blank line after it makes a call.
LEMMA SdkReadStep ==
    ASSUME SdkInv, Sdk!ReadLine
    PROVE  SdkInv'
<1> DEFINE line == Head(wire)
           rest == Tail(wire)
<1>1. /\ client = "read" /\ wire # <<>> /\ wire' = rest
      /\ data' = (IF line.is = "data" THEN Append(data, line.event) ELSE data)
      /\ client' = (IF line.is = "blank" /\ data # <<>> THEN "handle" ELSE "check")
      /\ UNCHANGED <<handling, subscribed, buffer, cut, stopped, handled, sentSoFar, promised,
                     dropped, lateCalls>>
  BY DEF Sdk!ReadLine, Sdk!AfterLine, Sdk!history
<1>2. SdkTyped /\ Phases /\ Ordered /\ Lined
  BY DEF SdkInv
<1>3. /\ line = wire[1] /\ line \in Line /\ rest \in Seq(Line) /\ Len(wire) \in Nat \ {0}
      /\ Len(rest) = Len(wire) - 1 /\ \A i \in 1 .. Len(rest) : rest[i] = wire[i + 1]
      /\ 1 \in 1 .. Len(wire)
  BY <1>1, <1>2 DEF SdkTyped
<1>4. line.event \in Nat /\ data \in Seq(Nat)
  BY <1>2, <1>3 DEF Line, SdkTyped
<1> HIDE DEF line, rest
<1>5. \A i \in 1 .. Len(rest) : i + 1 \in 1 .. Len(wire) /\ rest[i] = wire[i + 1]
  BY <1>3
<1>6. \A i \in 1 .. Len(wire) : i = 1 \/ (i - 1 \in 1 .. Len(rest) /\ rest[i - 1] = wire[i])
  <2> SUFFICES ASSUME NEW i \in 1 .. Len(wire), i # 1
               PROVE  i - 1 \in 1 .. Len(rest) /\ rest[i - 1] = wire[i]
    OBVIOUS
  <2>1. i - 1 \in 1 .. Len(rest) /\ (i - 1) + 1 = i
    BY <1>3
  <2> QED BY <1>3, <2>1
<1>7. /\ OnWire' \subseteq OnWire
      /\ line.is = "data" => line.event \in OnWire /\ Before({line.event}, OnWire')
      /\ OnWire \subseteq OnWire' \cup (IF line.is = "data" THEN {line.event} ELSE {})
  <2>1. ASSUME NEW x \in OnWire'
        PROVE  x \in OnWire /\ (line.is = "data" => line.event < x)
    <3>1. PICK i \in 1 .. Len(rest) : rest[i].is = "data" /\ x = rest[i].event
      BY <1>1, <2>1 DEF OnWire
    <3>2. i + 1 \in 1 .. Len(wire) /\ 1 < i + 1 /\ wire[i + 1].is = "data" /\ x = wire[i + 1].event
      BY <1>3, <1>5, <3>1
    <3>3. x \in OnWire
      BY <3>2 DEF OnWire
    <3>4. line.is = "data" => wire[1].event < wire[i + 1].event
      BY <1>2, <1>3, <3>2 DEF Ordered
    <3> QED BY <1>3, <3>2, <3>3, <3>4
  <2>2. ASSUME NEW x \in OnWire
        PROVE  x \in OnWire' \/ (line.is = "data" /\ x = line.event)
    <3>1. PICK i \in 1 .. Len(wire) : wire[i].is = "data" /\ x = wire[i].event
      BY DEF OnWire
    <3>2. CASE i = 1
      BY <1>3, <3>1, <3>2
    <3>3. CASE i # 1
      <4>1. i - 1 \in 1 .. Len(rest) /\ rest[i - 1].is = "data" /\ x = rest[i - 1].event
        BY <1>6, <3>1, <3>3
      <4> QED BY <1>1, <4>1 DEF OnWire
    <3> QED BY <3>2, <3>3
  <2>3. line.is = "data" => line.event \in OnWire
    BY <1>3 DEF OnWire
  <2> QED BY <2>1, <2>2, <2>3 DEF Before
<1>8. line.is = "data" => data = <<>>
  BY <1>1, <1>2, <1>3 DEF Lined
<1>9. /\ data' \in Seq(Nat) /\ Len(data') <= 1
      /\ Range(data') = Range(data) \cup (IF line.is = "data" THEN {line.event} ELSE {})
  <2>1. CASE line.is = "data"
    <3>1. data' = Append(data, line.event) /\ Len(data) = 0
      BY <1>1, <1>8, <2>1
    <3>2. Range(Append(data, line.event)) = Range(data) \cup {line.event}
      BY <1>4, RangeOfAppend
    <3> QED BY <1>4, <2>1, <3>1, <3>2
  <2>2. CASE line.is # "data"
    BY <1>1, <1>2, <1>4, <2>2 DEF Lined
  <2> QED BY <2>1, <2>2
<1>a. InHand' = InHand
  BY <1>1 DEF InHand
<1>b. SdkTyped' /\ Phases'
  <2>1. wire' \in Seq(Line)
    BY <1>1, <1>3
  <2> QED BY <1>1, <1>2, <1>9, <2>1 DEF SdkTyped, Phases
<1>c. Lined'
  <2>1. ASSUME NEW i \in 1 .. Len(rest), rest[i].is = "data"
        PROVE  IF i < Len(rest) THEN rest[i + 1].is = "blank" ELSE cut
    <3>1. i + 1 \in 1 .. Len(wire) /\ wire[i + 1].is = "data"
      BY <1>5, <2>1
    <3>2. IF i + 1 < Len(wire) THEN wire[i + 1 + 1].is = "blank" ELSE cut
      BY <1>2, <3>1 DEF Lined
    <3>3. CASE i < Len(rest)
      <4>1. i + 1 < Len(wire) /\ i + 1 \in 1 .. Len(rest)
        BY <1>3, <3>3
      <4>2. rest[i + 1] = wire[i + 1 + 1]
        BY <1>5, <4>1
      <4> QED BY <3>2, <3>3, <4>1, <4>2
    <3>4. CASE ~(i < Len(rest))
      <4>1. ~(i + 1 < Len(wire))
        BY <1>3, <3>4
      <4> QED BY <3>2, <3>4, <4>1
    <3> QED BY <3>3, <3>4
  <2>2. data' # <<>> /\ client' # "handle" => IF rest # <<>> THEN rest[1].is = "blank" ELSE cut
    <3> SUFFICES ASSUME data' # <<>>, client' # "handle"
                 PROVE  IF rest # <<>> THEN rest[1].is = "blank" ELSE cut
      OBVIOUS
    <3>1. line.is = "data"
      BY <1>1, <1>2, <1>3 DEF Lined
    <3>2. IF 1 < Len(wire) THEN wire[1 + 1].is = "blank" ELSE cut
      BY <1>2, <1>3, <3>1 DEF Lined
    <3>3. CASE rest # <<>>
      <4>1. 1 \in 1 .. Len(rest) /\ 1 < Len(wire)
        BY <1>3, <3>3
      <4> QED BY <1>5, <3>2, <3>3, <4>1
    <3>4. CASE rest = <<>>
      <4>1. Len(rest) = 0
        BY <3>4
      <4> DEFINE k == Len(wire)
      <4>2. k \in Nat /\ k - 1 = 0
        BY <1>3, <4>1
      <4> HIDE DEF k
      <4>3. ~(1 < k)
        BY <4>2
      <4>4. ~(1 < Len(wire))
        BY <4>3 DEF k
      <4> QED BY <3>2, <3>4, <4>4
    <3> QED BY <3>3, <3>4
  <2> QED BY <1>1, <1>9, <2>1, <2>2 DEF Lined
<1>d. Ordered'
  <2>1. \A i, j \in 1 .. Len(rest) :
           i < j /\ rest[i].is = "data" /\ rest[j].is = "data" => rest[i].event < rest[j].event
    <3> SUFFICES ASSUME NEW i \in 1 .. Len(rest), NEW j \in 1 .. Len(rest), i < j,
                        rest[i].is = "data", rest[j].is = "data"
                 PROVE  rest[i].event < rest[j].event
      OBVIOUS
    <3>1. i + 1 \in 1 .. Len(wire) /\ j + 1 \in 1 .. Len(wire) /\ i + 1 < j + 1
      BY <1>5
    <3>2. wire[i + 1].event < wire[j + 1].event
      BY <1>2, <1>5, <3>1 DEF Ordered
    <3> QED BY <1>5, <3>2
  <2>2. /\ Before(Range(handled), Range(data') \cup OnWire' \cup InHand \cup Range(buffer))
        /\ Before(Range(data'), OnWire' \cup InHand \cup Range(buffer))
        /\ Before(OnWire', InHand \cup Range(buffer))
        /\ \A x \in Range(handled) \cup Range(data') \cup OnWire' \cup InHand \cup Range(buffer) :
              x <= sentSoFar
    BY <1>2, <1>7, <1>9 DEF Ordered, Before
  <2> QED BY <1>1, <1>2, <1>a, <2>1, <2>2 DEF Ordered, Rising
<1>e. Promised'
  BY <1>1, <1>7, <1>9, <1>a DEF SdkInv, Promised
<1> QED BY <1>b, <1>c, <1>d, <1>e DEF SdkInv

\* The call.
LEMMA SdkHandleStep ==
    ASSUME SdkInv, Sdk!Handle
    PROVE  SdkInv'
<1>1. /\ client = "handle" /\ client' = "check" /\ data' = <<>>
      /\ handled' = (IF Len(data) = 1 THEN handled \o data ELSE handled)
      /\ lateCalls' = (IF Len(data) = 1 /\ stopped THEN lateCalls + 1 ELSE lateCalls)
      /\ UNCHANGED <<handling, subscribed, buffer, wire, cut, stopped, sentSoFar, promised,
                     dropped>>
  BY DEF Sdk!Handle, Sdk!Emptied, Sdk!AfterLine, Sdk!conn
<1>2. SdkTyped /\ Phases /\ Ordered /\ Lined
  BY DEF SdkInv
<1>3. <<>> \in Seq(Nat) /\ Len(<<>>) = 0 /\ Range(<<>>) = {}
  BY DEF Range
<1>4. handled \in Seq(Nat) /\ data \in Seq(Nat) /\ Rising(handled) /\ Len(data) <= 1
  BY <1>2 DEF SdkTyped, Ordered, Lined
<1>5. /\ handled' \in Seq(Nat) /\ Rising(handled')
      /\ Range(handled') = Range(handled) \cup Range(data)
  <2>1. CASE Len(data) = 1
    <3> DEFINE d == data[1]
    <3>1. d \in Nat /\ d \in Range(data) /\ handled \o data = Append(handled, d)
      <4>1. data = <<d>> /\ d \in Nat /\ 1 \in DOMAIN data
        BY <1>4, <2>1
      <4>2. handled \o <<d>> = Append(handled, d)
        BY <1>4, <4>1
      <4> QED BY <4>1, <4>2 DEF Range
    <3>2. Range(data) = {d}
      BY <1>4, <2>1 DEF Range
    <3> HIDE DEF d
    <3>3. Before(Range(handled), {d})
      BY <1>2, <3>1 DEF Ordered, Before
    <3>4. handled' = Append(handled, d)
      BY <1>1, <2>1, <3>1
    <3>5. /\ Append(handled, d) \in Seq(Nat) /\ Rising(Append(handled, d))
          /\ Range(Append(handled, d)) = Range(handled) \cup {d}
      BY <1>4, <3>1, <3>3, RisingQueue
    <3> QED BY <3>2, <3>4, <3>5
  <2>2. CASE Len(data) # 1
    <3>1. Len(data) = 0
      <4> DEFINE k == Len(data)
      <4>1. k \in Nat /\ k <= 1 /\ k # 1
        BY <1>4, <2>2
      <4> HIDE DEF k
      <4>2. k = 0
        BY <4>1
      <4> QED BY <4>2 DEF k
    <3>2. data = <<>>
      BY <1>4, <3>1
    <3> QED BY <1>1, <1>3, <1>4, <2>2, <3>2
  <2> QED BY <2>1, <2>2
<1>6. OnWire' = OnWire /\ InHand' = InHand
  BY <1>1 DEF OnWire, InHand
<1>7. SdkTyped' /\ Phases' /\ Lined'
  BY <1>1, <1>2, <1>3, <1>5 DEF SdkTyped, Phases, Lined
<1>8. Ordered'
  <2>1. Before(Range(handled'), OnWire \cup InHand \cup Range(buffer))
    BY <1>2, <1>5 DEF Ordered, Before
  <2>2. \A x \in Range(handled') \cup OnWire \cup InHand \cup Range(buffer) : x <= sentSoFar
    BY <1>2, <1>5 DEF Ordered
  <2> QED BY <1>1, <1>2, <1>3, <1>5, <1>6, <2>1, <2>2 DEF Ordered, Rising, Before
<1>9. Promised'
  BY <1>1, <1>5, <1>6 DEF SdkInv, Promised
<1> QED BY <1>7, <1>8, <1>9 DEF SdkInv

\* The connection is lost anywhere between two lines.
LEMMA SdkLostStep ==
    ASSUME SdkInv, Sdk!Lost
    PROVE  SdkInv'
<1>1. PICK n \in 0 .. Len(wire) :
          /\ cut' = TRUE /\ wire' = SubSeq(wire, 1, n)
          /\ UNCHANGED <<handling, subscribed, buffer, client, data, stopped, handled, sentSoFar,
                         promised, dropped, lateCalls>>
  BY DEF Sdk!Lost, Sdk!caller, Sdk!history
<1>2. SdkTyped /\ Phases /\ Ordered /\ Lined
  BY DEF SdkInv
<1>3. /\ wire \in Seq(Line) /\ Len(wire) \in Nat /\ n \in Nat /\ n <= Len(wire)
  BY <1>2 DEF SdkTyped
<1>4. /\ wire' \in Seq(Line) /\ Len(wire') = n
      /\ \A i \in 1 .. n : i \in 1 .. Len(wire) /\ wire'[i] = wire[i]
  <2>1. SubSeq(wire, 1, n) = [i \in 1 .. n |-> wire[i]]
    BY <1>3
  <2>2. \A i \in 1 .. n : i \in 1 .. Len(wire) /\ wire[i] \in Line
    BY <1>3
  <2> QED BY <1>1, <1>3, <2>1, <2>2
<1>5. OnWire' \subseteq OnWire /\ InHand' = InHand
  BY <1>1, <1>4 DEF OnWire, InHand
<1>6. Phases'
  <2>1. wire = <<>> => wire' = <<>>
    BY <1>3, <1>4
  <2> QED BY <1>1, <1>2, <2>1 DEF Phases
<1>7. SdkTyped'
  BY <1>1, <1>2, <1>4 DEF SdkTyped
<1>8. Lined'
  <2>1. ASSUME NEW i \in 1 .. n, wire'[i].is = "data"
        PROVE  IF i < n THEN wire'[i + 1].is = "blank" ELSE TRUE
    <3> SUFFICES ASSUME i < n PROVE wire'[i + 1].is = "blank"
      OBVIOUS
    <3>1. i + 1 \in 1 .. n /\ i < Len(wire)
      BY <1>3
    <3> QED BY <1>2, <1>4, <2>1, <3>1 DEF Lined
  <2>2. ASSUME data # <<>>, client # "handle", wire' # <<>>
        PROVE  wire'[1].is = "blank"
    <3>1. 1 \in 1 .. n /\ wire # <<>>
      BY <1>3, <1>4, <2>2
    <3> QED BY <1>2, <1>4, <2>2, <3>1 DEF Lined
  <2> QED BY <1>1, <1>2, <1>4, <2>1, <2>2 DEF Lined
<1>9. Ordered'
  <2>1. \A i, j \in 1 .. n :
           i < j /\ wire'[i].is = "data" /\ wire'[j].is = "data" => wire'[i].event < wire'[j].event
    BY <1>2, <1>4 DEF Ordered
  <2>2. /\ Before(Range(handled), Range(data) \cup OnWire' \cup InHand \cup Range(buffer))
        /\ Before(Range(data), OnWire' \cup InHand \cup Range(buffer))
        /\ Before(OnWire', InHand \cup Range(buffer))
        /\ \A x \in Range(handled) \cup Range(data) \cup OnWire' \cup InHand \cup Range(buffer) :
              x <= sentSoFar
    BY <1>2, <1>5 DEF Ordered, Before
  <2> QED BY <1>1, <1>2, <1>4, <1>5, <2>1, <2>2 DEF Ordered, Rising
<1> QED BY <1>1, <1>6, <1>7, <1>8, <1>9 DEF SdkInv, Promised

LEMMA SdkNext == SdkInv /\ [Sdk!Next]_(Sdk!vars) => SdkInv'
<1> SUFFICES ASSUME SdkInv, [Sdk!Next]_(Sdk!vars) PROVE SdkInv'
  OBVIOUS
<1>1. CASE UNCHANGED Sdk!vars
  BY <1>1 DEF Sdk!vars, Sdk!conn, Sdk!caller, Sdk!history, SdkInv, SdkTyped, Phases, Lined,
              Ordered, Promised, OnWire, InHand, Rising, Before
<1> QED BY <1>1, QuietSteps, SdkPublishStep, SdkReceiveStep, CommentStep, SdkWriteStep,
           SdkLeaveStep, SdkReadStep, SdkHandleStep, SdkLostStep
        DEF Sdk!Next, Sdk!ClientStep, Sdk!ServerStep

\* However the connection is cut and whenever stop is called, the function is
\* called with each event at most once and in the order of publication, at
\* most once after stop; and every event published since Subscribe returned
\* was passed to it, is on its way, or was dropped by the hub or kept back.
THEOREM TheCallerGetsEveryEvent == Sdk!Spec => []CallsAreSound
<1>1. SdkInv /\ [Sdk!Next]_(Sdk!vars) => SdkInv'
  BY SdkNext
<1>2. SdkInv => CallsAreSound
  <2> SUFFICES ASSUME SdkInv PROVE CallsAreSound
    OBVIOUS
  <2>1. handled \in Seq(Nat) /\ data \in Seq(Nat) /\ wire \in Seq(Line) /\ Len(data) <= 1
    BY DEF SdkInv, SdkTyped, Lined
  <2>2. Sdk!HandledInOrder
    <3>1. DOMAIN handled = 1 .. Len(handled)
      BY <2>1
    <3>2. Rising(handled)
      BY DEF SdkInv, Ordered
    <3> QED BY <3>1, <3>2 DEF Rising, Sdk!HandledInOrder
  <2>3. Sdk!OneCallAfterStop
    BY DEF SdkInv, Phases, Sdk!OneCallAfterStop
  <2>4. Sdk!PromisedAreHandled
    <3>1. \A q : Sdk!ToSet(q) = Range(q)
      BY DEF Sdk!ToSet, Range
    <3>2. InHand \subseteq {handling.event}
      BY DEF InHand
    <3>3. Range(data) \subseteq IF Len(data) = 1 THEN Range(data) ELSE {}
      <4>1. Len(data) \in Nat /\ DOMAIN data = 1 .. Len(data)
        BY <2>1
      <4>2. Len(data) = 0 \/ Len(data) = 1
        BY <2>1, <4>1
      <4>3. Len(data) = 0 => Range(data) = {}
        BY <4>1 DEF Range
      <4> QED BY <4>2, <4>3
    <3>4. OnWire = {wire[i].event : i \in {i \in DOMAIN wire : wire[i].is = "data"}}
      BY <2>1 DEF OnWire
    <3> QED BY <3>1, <3>2, <3>3, <3>4 DEF SdkInv, Promised, Sdk!PromisedAreHandled
  <2> QED BY <2>2, <2>3, <2>4 DEF CallsAreSound, Sdk!CallsAreSound
<1> QED BY <1>1, <1>2, SdkInit, PTL DEF Sdk!Spec

\* The three run side by side as each does by itself, so that what is proved
\* of one holds of the process they make up.
THEOREM StreamsRunApart == StreamsSpec => Spec /\ Sdk!Spec /\ Log!Spec
<1>1. StreamsInit => Init /\ Sdk!Init /\ Log!Init
  BY DEF StreamsInit
<1>2. [HubStep \/ SdkStep \/ LogStep]_<<vars, sdkVars, logVars>> =>
         [Next]_vars /\ [Sdk!Next]_(Sdk!vars) /\ [Log!Next]_(Log!vars)
  BY DEF HubStep, SdkStep, LogStep, sdkVars, logVars, Sdk!vars, Sdk!conn, Sdk!caller,
         Sdk!history, Log!vars
<1> QED BY <1>1, <1>2, PTL DEF StreamsSpec, Spec, Sdk!Spec, Log!Spec
=============================================================================
