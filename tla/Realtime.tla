------------------------------ MODULE Realtime ------------------------------
(***************************************************************************)
(* internal/realtime/hub.go with the goroutines around it: requests that   *)
(* publish what they wrote, the event streams of internal/api/server.go    *)
(* (handleRealtime), and the shutdown of main.go, which stops the server   *)
(* and then closes the engine.                                             *)
(*                                                                         *)
(* Publish holds h.mu for reading from its first to its last delivery; who *)
(* takes it for writing does so in one step, when no Publish is under way. *)
(* Which topics match is left to Topics: here a stream wants a set of      *)
(* topics, fixed when it subscribes.                                       *)
(***************************************************************************)
EXTENDS Naturals, Sequences, FiniteSets, SequencesExt

CONSTANTS
    Request,        \* requests that publish
    Stream,         \* requests to /api/realtime
    Topic,
    Nothing,        \* no event
    BufferLen,      \* Hub.bufferLen
    MaxUnread,      \* what a client's connection holds before a write blocks
    MaxEvents,      \* bound: events published
    MayStop,        \* whether the application may be shut down
    TimeLimit       \* whether the time limit of shutdown may run out

ASSUME RealtimeAssumption ==
    /\ BufferLen \in Nat /\ MaxUnread \in Nat /\ MaxEvents \in Nat
    /\ MayStop \in BOOLEAN /\ TimeLimit \in BOOLEAN

VARIABLES
    subs,           \* the streams in Hub.subs
    chan,           \* the channel of each
    closed,         \* those whose channel was closed
    wants,          \* the topics each asked for
    pub,            \* Publish calls in progress
    stream,         \* handleRealtime: pc and the event it has in hand
    gone,           \* streams whose client went away
    unread,         \* events written to a client that it has not read
    server,         \* "up", "stopping" (Stop), "stopped" (svc.Close next), "closed"
    timedOut,       \* Stop gave up waiting
    published,      \* number of events published
    sent,           \* history: what each client was sent
    skipped,        \* history: what canReceive kept back, or a full channel lost
    due             \* history: events that a stream is owed: published after
                    \* it told its client that it is connected

hub == <<subs, chan, closed>>
history == <<sent, skipped, due>>
vars == <<hub, wants, pub, stream, gone, unread, server, timedOut, published, history>>

IdlePub == [pc |-> "idle", event |-> Nothing, todo |-> {}, owed |-> {}]

NoStream == [pc |-> "none", hand |-> <<>>]

Init ==
    /\ subs = {} /\ closed = {}
    /\ chan = [s \in Stream |-> <<>>]
    /\ wants = [s \in Stream |-> {}]
    /\ pub = [r \in Request |-> IdlePub]
    /\ stream = [s \in Stream |-> NoStream]
    /\ gone = {} /\ unread = [s \in Stream |-> 0]
    /\ server = "up" /\ timedOut = FALSE
    /\ published = 0
    /\ sent = [s \in Stream |-> <<>>]
    /\ skipped = [s \in Stream |-> {}]
    /\ due = [s \in Stream |-> {}]

----------------------------------------------------------------------------
(* Definitions named X_Y are variants of X with the mistake Y, which the   *)
(* properties are there to notice; no other definition uses them.          *)

At(s, pc) == stream[s].pc = pc

Goto(s, pc) == stream' = [stream EXCEPT ![s] = [pc |-> pc, hand |-> stream[s].hand]]

MuFree_ForReaders == TRUE

\* h.mu can be taken for writing.
MuFree == \A r \in Request : pub[r].pc # "sending"

Cancelled_ByClientOnly(s) == s \in gone

\* The context of the request has ended: the client went away, or Shutdown
\* has cancelled the context all requests derive from.
Cancelled(s) == s \in gone \/ server # "up"

Connected == {s \in Stream : stream[s].pc \in {"loop", "filter", "write"}}

----------------------------------------------------------------------------
(* A request that writes, and Publish.                                     *)

Arrive(r) ==
    /\ pub[r].pc = "idle" /\ server = "up"
    /\ pub' = [pub EXCEPT ![r] = [IdlePub EXCEPT !.pc = "writing"]]
    /\ UNCHANGED <<hub, wants, stream, gone, unread, server, timedOut, published, history>>

\* The write fails: nothing is published.
Refuse(r) ==
    /\ pub[r].pc = "writing"
    /\ pub' = [pub EXCEPT ![r] = IdlePub]
    /\ UNCHANGED <<hub, wants, stream, gone, unread, server, timedOut, published, history>>

\* RLock; from here to the return the set of subscribers stays the same.
PublishBegin(r, t) ==
    /\ pub[r].pc = "writing" /\ published < MaxEvents
    /\ published' = published + 1
    /\ pub' = [pub EXCEPT ![r] =
          [pc |-> "sending", event |-> [n |-> published + 1, topic |-> t],
           todo |-> subs, owed |-> {s \in Connected : t \in wants[s]}]]
    /\ UNCHANGED <<hub, wants, stream, gone, unread, server, timedOut, history>>

\* A subscriber that does not match is passed over.
Skip(r, s) ==
    /\ pub[r].event.topic \notin wants[s]
    /\ UNCHANGED <<chan, skipped>>

Send(r, s) ==
    /\ pub[r].event.topic \in wants[s] /\ Len(chan[s]) < BufferLen
    /\ chan' = [chan EXCEPT ![s] = Append(@, pub[r].event)]
    /\ UNCHANGED skipped

\* The channel is full: the event is lost for this subscriber.
Drop(r, s) ==
    /\ pub[r].event.topic \in wants[s] /\ Len(chan[s]) >= BufferLen
    /\ skipped' = [skipped EXCEPT ![s] = @ \cup {pub[r].event}]
    /\ UNCHANGED chan

Rest_StopAtFull(r, s) == IF Len(chan[s]) < BufferLen THEN pub[r].todo \ {s} ELSE {}

\* Whom the loop still has to visit after s.
Rest(r, s) == pub[r].todo \ {s}

\* The next subscriber, in the random order of a Go map.
Deliver(r) ==
    \E s \in pub[r].todo :
        /\ Skip(r, s) \/ Send(r, s) \/ Drop(r, s)
        /\ pub' = [pub EXCEPT ![r] = [pub[r] EXCEPT !.todo = Rest(r, s)]]
        /\ UNCHANGED <<subs, closed, wants, stream, gone, unread, server,
                       timedOut, published, sent, due>>

\* RUnlock and the return; what was owed is due now.
PublishEnd(r) ==
    /\ pub[r].pc = "sending" /\ pub[r].todo = {}
    /\ due' = [s \in Stream |->
          IF s \in pub[r].owed THEN due[s] \cup {pub[r].event} ELSE due[s]]
    /\ pub' = [pub EXCEPT ![r] = IdlePub]
    /\ UNCHANGED <<hub, wants, stream, gone, unread, server, timedOut, published,
                   sent, skipped>>

RequestStep(r) ==
    \/ Refuse(r)
    \/ \E t \in Topic : PublishBegin(r, t)
    \/ Deliver(r)
    \/ PublishEnd(r)

----------------------------------------------------------------------------
(* handleRealtime.                                                         *)

\* The request arrives while the listener is open.
Connect(s, topics) ==
    /\ At(s, "none") /\ server = "up"
    /\ wants' = [wants EXCEPT ![s] = topics]
    /\ Goto(s, "subscribe")
    /\ UNCHANGED <<hub, pub, gone, unread, server, timedOut, published, history>>

\* hub.Subscribe.
Subscribe(s) ==
    /\ At(s, "subscribe") /\ MuFree
    /\ subs' = subs \cup {s}
    /\ Goto(s, "hello")
    /\ UNCHANGED <<chan, closed, wants, pub, gone, unread, server, timedOut,
                   published, history>>

\* The headers and the first comment are flushed to the client.
Hello(s) ==
    /\ At(s, "hello")
    /\ Goto(s, "loop")
    /\ UNCHANGED <<hub, wants, pub, gone, unread, server, timedOut, published, history>>

\* The select takes an event; the context may have ended as well.
Receive(s) ==
    /\ At(s, "loop") /\ chan[s] # <<>>
    /\ chan' = [chan EXCEPT ![s] = Tail(@)]
    /\ stream' = [stream EXCEPT ![s] = [pc |-> "filter", hand |-> <<Head(chan[s])>>]]
    /\ UNCHANGED <<subs, closed, wants, pub, gone, unread, server, timedOut,
                   published, history>>

\* canReceive reads the rules of this moment: either answer.
Filter(s) ==
    /\ At(s, "filter")
    /\ \/ Goto(s, "write") /\ UNCHANGED skipped
       \/ /\ stream' = [stream EXCEPT ![s] = [pc |-> "loop", hand |-> <<>>]]
          /\ skipped' = [skipped EXCEPT ![s] = @ \cup Range(stream[s].hand)]
    /\ UNCHANGED <<hub, wants, pub, gone, unread, server, timedOut, published, sent, due>>

\* The event is written to the client: waits while its connection is full,
\* and fails silently when it is gone.
Write(s) ==
    /\ At(s, "write")
    /\ s \in gone \/ unread[s] < MaxUnread
    /\ unread' = [unread EXCEPT ![s] = IF s \in gone THEN @ ELSE @ + 1]
    /\ sent' = [sent EXCEPT ![s] = @ \o stream[s].hand]
    /\ stream' = [stream EXCEPT ![s] = [pc |-> "loop", hand |-> <<>>]]
    /\ UNCHANGED <<hub, wants, pub, gone, server, timedOut, published, skipped, due>>

\* The select takes the end of the context.
Leave(s) ==
    /\ At(s, "loop") /\ Cancelled(s)
    /\ Goto(s, "unsubscribe")
    /\ UNCHANGED <<hub, wants, pub, gone, unread, server, timedOut, published, history>>

\* The deferred unsubscribe; the handler returns.
Unsubscribe(s) ==
    /\ At(s, "unsubscribe") /\ MuFree
    /\ subs' = subs \ {s}
    /\ closed' = closed \cup {s}
    /\ Goto(s, "ended")
    /\ UNCHANGED <<chan, wants, pub, gone, unread, server, timedOut, published, history>>

StreamStep(s) ==
    Subscribe(s) \/ Hello(s) \/ Receive(s) \/ Filter(s) \/ Write(s) \/ Leave(s) \/ Unsubscribe(s)

\* The client.
Read(s) ==
    /\ unread[s] > 0
    /\ unread' = [unread EXCEPT ![s] = @ - 1]
    /\ UNCHANGED <<hub, wants, pub, stream, gone, server, timedOut, published, history>>

GoAway(s) ==
    /\ s \in Connected \ gone
    /\ gone' = gone \cup {s}
    /\ UNCHANGED <<hub, wants, pub, stream, unread, server, timedOut, published, history>>

----------------------------------------------------------------------------
(* App.shutdown: Stop with its time limit, then svc.Close.                 *)

\* Requests that are still being handled.
Handling ==
    \/ \E r \in Request : pub[r].pc # "idle"
    \/ \E s \in Stream : stream[s].pc \notin {"none", "ended"}

Server(from, to) ==
    /\ server = from /\ server' = to
    /\ UNCHANGED <<hub, wants, pub, stream, gone, unread, published, history>>

\* Shutdown closes the listener and cancels the requests' context.
Stop == MayStop /\ Server("up", "stopping") /\ UNCHANGED timedOut

Stopped == ~Handling /\ Server("stopping", "stopped") /\ UNCHANGED timedOut

TimeOut == TimeLimit /\ Handling /\ Server("stopping", "stopped") /\ timedOut' = TRUE

\* svc.Close, whatever Stop returned.
CloseEngine == Server("stopped", "closed") /\ UNCHANGED timedOut

Next ==
    \/ \E r \in Request : Arrive(r) \/ RequestStep(r)
    \/ \E s \in Stream :
          \/ \E topics \in SUBSET Topic \ {{}} : Connect(s, topics)
          \/ StreamStep(s) \/ Read(s) \/ GoAway(s)
    \/ Stop \/ Stopped \/ TimeOut \/ CloseEngine

Spec == Init /\ [][Next]_vars

\* A goroutine that can run does, and gets the lock it waits for: a waiting
\* writer keeps new readers of a sync.RWMutex out.  Nothing is assumed of the
\* clients here, nor of who asks for a shutdown.
Fairness ==
    /\ \A r \in Request : WF_vars(RequestStep(r))
    /\ \A s \in Stream : SF_vars(StreamStep(s))
    /\ WF_vars(Stopped \/ CloseEngine)

\* Clients read what they are sent.
ClientsRead == \A s \in Stream : WF_vars(Read(s))

FairSpec == Spec /\ Fairness /\ ClientsRead

----------------------------------------------------------------------------
(* Properties.                                                             *)

Event == [n : 1 .. MaxEvents, topic : Topic]

\* Every variable keeps its type, and a stream is in Hub.subs from Subscribe
\* until unsubscribe.
TypeOK ==
    /\ subs = {s \in Stream : stream[s].pc \notin {"none", "subscribe", "ended"}}
    /\ closed = {s \in Stream : At(s, "ended")}
    /\ \A s \in Stream :
          /\ chan[s] \in Seq(Event) /\ Len(chan[s]) <= BufferLen
          /\ stream[s].hand \in Seq(Event)
          /\ (stream[s].hand # <<>>) <=> stream[s].pc \in {"filter", "write"}
          /\ sent[s] \in Seq(Event) /\ skipped[s] \subseteq Event /\ due[s] \subseteq Event
          /\ unread[s] \in 0 .. MaxUnread
    /\ wants \in [Stream -> SUBSET Topic]
    /\ \A r \in Request : pub[r].event \in Event \cup {Nothing} /\ pub[r].todo \subseteq Stream
    /\ gone \subseteq Stream /\ published \in 0 .. MaxEvents
    /\ server \in {"up", "stopping", "stopped", "closed"} /\ timedOut \in BOOLEAN

\* No Publish is about to send on a closed channel, which would bring the
\* process down (Hub.mu between Publish and unsubscribe).
NoSendOnClosed == \A r \in Request : pub[r].todo \cap closed = {}

\* What a client is sent, has in the channel or in hand.
Path(s) == sent[s] \o stream[s].hand \o chan[s]

\* A stream that said it is connected gets every event it asked for, once it
\* was published, unless its own channel was full or the rules keep it back;
\* a slow subscriber costs nobody else an event (Publish, Subscribe before
\* the headers).
NothingElseIsLost ==
    \A s \in Connected : due[s] \subseteq Range(Path(s)) \cup skipped[s]

\* The engine is closed under a request only when the time limit ran out
\* (App.shutdown after Shutdown).
ClosedAfterRequests ==
    server \in {"stopped", "closed"} /\ ~timedOut =>
        /\ \A r \in Request : pub[r].pc = "idle"
        /\ \A s \in Stream : stream[s].pc \in {"none", "ended"}

\* Stop needs no time limit when the clients read: open streams end because
\* their context does (RegisterOnShutdown).
StopNeedsNoLimit == server = "stopping" ~> server = "closed"

\* Neither a channel nor the engine is used after it was closed.
NothingUsedAfterClose == NoSendOnClosed /\ ClosedAfterRequests
=============================================================================
