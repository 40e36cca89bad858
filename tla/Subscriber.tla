----------------------------- MODULE Subscriber -----------------------------
(***************************************************************************)
(* sdk/solderdb-go, CollectionAPI.Subscribe, with the handler of           *)
(* internal/api/server.go that it talks to: how events become lines of a   *)
(* stream and calls of the caller's function.  Module Realtime has the hub *)
(* with many publishers and streams; here is one stream, down to the       *)
(* lines, and its client.                                                  *)
(***************************************************************************)
EXTENDS Naturals, Sequences, SequencesExt

CONSTANTS
    BufferLen,  \* capacity of the subscriber's channel
    MaxEvents,  \* bound: events published
    MaxBeats    \* bound: keep-alives

SubscriberAssumption ==
    BufferLen \in Nat \ {0} /\ MaxEvents \in Nat /\ MaxBeats \in Nat

VARIABLES
    server,     \* handleRealtime: pc and the event in hand
    subscribed, \* whether the hub has its channel
    chan,
    wire,       \* lines on their way to the client
    cut,        \* whether the connection is gone
    client,     \* Subscribe and streamLoop
    data,       \* the payloads streamLoop has gathered
    stopped,    \* whether the context was cancelled, by stop or by the caller
    handled,    \* the events the function was called with
    published,
    promised,   \* history: events published since Subscribe returned
    dropped,    \* history: events the hub dropped, or canReceive kept back
    lateCalls,  \* history: calls begun after stop
    beats

conn == <<server, subscribed, chan, wire, cut>>
caller == <<client, data, stopped, handled>>
history == <<promised, dropped, lateCalls>>
vars == <<conn, caller, published, history, beats>>

Init ==
    /\ server = [pc |-> "none", event |-> 0] /\ subscribed = FALSE /\ chan = <<>>
    /\ wire = <<>> /\ cut = FALSE
    /\ client = "idle" /\ data = <<>> /\ stopped = FALSE /\ handled = <<>>
    /\ published = 0 /\ promised = {} /\ dropped = {} /\ lateCalls = 0
    /\ beats = 0

----------------------------------------------------------------------------
(* Definitions named X_Y are variants of X with the mistake Y, which the   *)
(* properties are there to notice; no other definition uses them.          *)

\* The kinds of lines: a payload has the number of its event.
Comment == [is |-> "comment", event |-> 0]
Name(e) == [is |-> "event", event |-> e]
Payload(e) == [is |-> "data", event |-> e]
Blank == [is |-> "blank", event |-> 0]

Serving(pc) == server.pc = pc

Serve(pc) == server' = [server EXCEPT !.pc = pc]

----------------------------------------------------------------------------
(* The server.                                                             *)

\* hub.Publish, for this subscriber.
Publish ==
    /\ published < MaxEvents
    /\ published' = published + 1
    /\ promised' = IF client \in {"read", "check", "handle"} /\ ~stopped
                   THEN promised \cup {published + 1} ELSE promised
    /\ IF subscribed /\ Len(chan) < BufferLen
       THEN chan' = Append(chan, published + 1) /\ UNCHANGED dropped
       ELSE /\ dropped' = IF subscribed THEN dropped \cup {published + 1} ELSE dropped
            /\ UNCHANGED chan
    /\ UNCHANGED <<server, subscribed, wire, cut, caller, lateCalls, beats>>

HubSubscribe ==
    /\ Serving("request")
    /\ subscribed' = TRUE
    /\ Serve("hello")
    /\ UNCHANGED <<chan, wire, cut, caller, published, history, beats>>

\* Lines go to the client, or nowhere.
Put(lines) == wire' = IF cut THEN wire ELSE wire \o lines

\* The status and the first comment.
Hello ==
    /\ Serving("hello")
    /\ Put(<<Comment, Blank>>)
    /\ Serve("loop")
    /\ UNCHANGED <<subscribed, chan, cut, caller, published, history, beats>>

\* canReceive, by the rules of this moment, lets the event through or not.
Receive ==
    /\ Serving("loop") /\ chan # <<>>
    /\ chan' = Tail(chan)
    /\ \/ /\ server' = [pc |-> "write", event |-> Head(chan)]
          /\ UNCHANGED dropped
       \/ dropped' = dropped \cup {Head(chan)} /\ UNCHANGED server
    /\ UNCHANGED <<subscribed, wire, cut, caller, published, promised, lateCalls, beats>>

Write ==
    /\ Serving("write")
    /\ Put(<<Name(server.event), Payload(server.event), Blank>>)
    /\ server' = [pc |-> "loop", event |-> 0]
    /\ UNCHANGED <<subscribed, chan, cut, caller, published, history, beats>>

KeepAlive ==
    /\ Serving("loop") /\ beats < MaxBeats
    /\ beats' = beats + 1
    /\ Put(<<Comment, Blank>>)
    /\ UNCHANGED <<server, subscribed, chan, cut, caller, published, history>>

Leave_AtEventOnly ==
    /\ Serving("write") /\ cut
    /\ Serve("ended") /\ subscribed' = FALSE /\ chan' = <<>>
    /\ UNCHANGED <<wire, cut, caller, published, history, beats>>

\* The context of the request ends with the connection; unsubscribe.
Leave ==
    /\ Serving("loop") /\ cut
    /\ Serve("ended") /\ subscribed' = FALSE /\ chan' = <<>>
    /\ UNCHANGED <<wire, cut, caller, published, history, beats>>

ServerStep == HubSubscribe \/ Hello \/ Receive \/ Write \/ Leave

----------------------------------------------------------------------------
(* The client.                                                             *)

\* Subscribe: the request is on its way.
CallSubscribe ==
    /\ client = "idle" /\ Serving("none")
    /\ client' = "open"
    /\ Serve("request")
    /\ UNCHANGED <<subscribed, chan, wire, cut, data, stopped, handled, published, history, beats>>

\* The response is there, with the first line, and Subscribe returns.
Opened ==
    /\ client = "open" /\ wire # <<>>
    /\ client' = "read"
    /\ UNCHANGED <<conn, data, stopped, handled, published, history, beats>>

\* There will be no response, or the context has ended: Subscribe returns
\* the error.
OpenFails ==
    /\ client = "open" /\ (stopped \/ (cut /\ wire = <<>>))
    /\ client' = "ended" /\ cut' = TRUE
    /\ UNCHANGED <<server, subscribed, chan, wire, data, stopped, handled, published, history, beats>>

\* After each line, and each call, the context is looked at.
AfterLine == "check"

Emptied_Forgotten == data

Emptied == <<>>

\* A line that is neither blank nor a payload is passed over.
ReadLine ==
    /\ client = "read" /\ wire # <<>>
    /\ wire' = Tail(wire)
    /\ LET line == Head(wire)
       IN  /\ data' = IF line.is = "data" THEN Append(data, line.event) ELSE data
           /\ client' = IF line.is = "blank" /\ data # <<>> THEN "handle" ELSE AfterLine
    /\ UNCHANGED <<server, subscribed, chan, cut, stopped, handled, published, history, beats>>

\* The call of the function with what the payloads decode to: one event; two
\* one after the other are no JSON value, and there is no call.
Handle ==
    /\ client = "handle"
    /\ handled' = IF Len(data) = 1 THEN handled \o data ELSE handled
    /\ lateCalls' = IF Len(data) = 1 /\ stopped THEN lateCalls + 1 ELSE lateCalls
    /\ data' = Emptied
    /\ client' = AfterLine
    /\ UNCHANGED <<conn, stopped, published, promised, dropped, beats>>

Check ==
    /\ client = "check"
    /\ client' = IF stopped THEN "ended" ELSE "read"
    /\ cut' = (cut \/ stopped)
    /\ UNCHANGED <<server, subscribed, chan, wire, data, stopped, handled, published, history, beats>>

\* The connection is gone and the buffered lines are read; or the context has
\* ended, which may stop a read although there are lines.
ReadFails ==
    /\ client = "read" /\ (stopped \/ (cut /\ wire = <<>>))
    /\ client' = "ended" /\ cut' = TRUE
    /\ UNCHANGED <<server, subscribed, chan, wire, data, stopped, handled, published, history, beats>>

\* stop is called, or the context of the caller ends; the transport closes
\* the connection some time later.
Stop ==
    /\ client \notin {"idle", "ended"} /\ ~stopped
    /\ stopped' = TRUE
    /\ UNCHANGED <<conn, client, data, handled, published, history, beats>>

\* The connection is lost, with some of what is on its way.
Lost ==
    /\ ~cut /\ client # "idle"
    /\ cut' = TRUE
    /\ \E n \in 0 .. Len(wire) : wire' = SubSeq(wire, 1, n)
    /\ UNCHANGED <<server, subscribed, chan, caller, published, history, beats>>

ClientStep == Opened \/ OpenFails \/ ReadLine \/ Handle \/ Check \/ ReadFails

Next ==
    \/ CallSubscribe \/ ClientStep \/ Stop
    \/ Publish \/ ServerStep \/ KeepAlive
    \/ Lost

Spec == Init /\ [][Next]_vars

----------------------------------------------------------------------------
(* Properties.                                                             *)

\* The function is called with whole events, each once and in the order in
\* which they were published, however the stream is cut.
HandledInOrder == \A i, j \in DOMAIN handled : i < j => handled[i] < handled[j]

\* Once stop was called, no more than the call already due is begun
\* (streamLoop looks at the context after every line).
OneCallAfterStop == lateCalls <= 1

\* "The stream is opened before Subscribe returns": from then on every event
\* gets to the function, or was dropped or kept back, or is on its way, as
\* long as nobody ends the stream.
PromisedAreHandled ==
    ~stopped /\ ~cut =>
        promised \subseteq ToSet(handled) \cup dropped \cup ToSet(chan) \cup {server.event}
            \cup {wire[i].event : i \in {i \in DOMAIN wire : wire[i].is = "data"}}
            \cup (IF Len(data) = 1 THEN ToSet(data) ELSE {})

\* A stream that was stopped, or lost, ends: the goroutine of streamLoop
\* returns and the hub forgets the subscriber.
StreamEnds ==
    (stopped \/ cut) /\ client # "idle" ~> client = "ended" /\ ~subscribed

\* All three: what the function is called with, and when.
CallsAreSound == HandledInOrder /\ OneCallAfterStop /\ PromisedAreHandled
=============================================================================
