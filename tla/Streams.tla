------------------------------ MODULE Streams -------------------------------
(***************************************************************************)
(* What carries events, beside each other: the hub with its streams and    *)
(* its shutdown, the client of one stream, line by line, and the request   *)
(* log with its view.  Each is modelled with what it needs of the others,  *)
(* so they share no state, and a step is one of a single part.             *)
(***************************************************************************)
EXTENDS Realtime

CONSTANTS MaxSent, MaxBeats, ChanLen, Handler, Limit, QueueLen, MaxEntries, MaxLoads

VARIABLES
    handling, subscribed, buffer, wire, cut, client, data, stopped, handled, sentSoFar,
    promised, dropped, lateCalls, beats,
    entries, nextSeq, handler, open, queue, load, loads, view, upTo, early, missed

sdkVars ==
    <<handling, subscribed, buffer, wire, cut, client, data, stopped, handled, sentSoFar,
      promised, dropped, lateCalls, beats>>
logVars ==
    <<entries, nextSeq, handler, open, queue, load, loads, view, upTo, early, missed>>

Sdk == INSTANCE Subscriber
    WITH server <- handling, chan <- buffer, published <- sentSoFar,
         BufferLen <- ChanLen, MaxEvents <- MaxSent

Log == INSTANCE RequestLog

ASSUME StreamsAssumption == Sdk!SubscriberAssumption /\ Log!LogAssumption

StreamsInit == Init /\ Sdk!Init /\ Log!Init

HubStep == Next /\ UNCHANGED <<sdkVars, logVars>>

SdkStep == Sdk!Next /\ UNCHANGED <<vars, logVars>>

LogStep == Log!Next /\ UNCHANGED <<vars, sdkVars>>

\* What Realtime and Subscriber assume, for liveness.
StreamsFairness ==
    /\ Fairness /\ ClientsRead
    /\ WF_sdkVars(Sdk!ClientStep) /\ WF_sdkVars(Sdk!ServerStep)

StreamsSpec ==
    StreamsInit /\ [][HubStep \/ SdkStep \/ LogStep]_<<vars, sdkVars, logVars>>

\* Of Subscriber: the function gets every promised event, once and in order.
CallsAreSound == Sdk!CallsAreSound

\* Of Subscriber: a stream that was stopped or lost ends on both sides.
StreamEnds == Sdk!StreamEnds

\* Of RequestLog: what the tail is, and what the view may miss of it.
TailIsFollowed == Log!TailIsFollowed
=============================================================================
