----------------------------- MODULE RequestLog -----------------------------
(***************************************************************************)
(* internal/logs, the callback of main.go that publishes its entries, and  *)
(* the view of the user interface that follows them: it loads the tail     *)
(* over REST and subscribes to the stream, one independently of the other. *)
(*                                                                         *)
(* An entry is the number under which it was appended.  The subscriber's   *)
(* channel and the connection behind it are one queue here; see Realtime.  *)
(***************************************************************************)
EXTENDS Naturals, Sequences, SequencesExt

CONSTANTS
    Handler,    \* goroutines that append: requests that are over
    Limit,      \* entries the buffer keeps, and those the view keeps
    QueueLen,   \* events the subscriber's channel holds
    MaxEntries, \* bound: entries appended
    MaxLoads    \* bound: times the view loads the tail

LogAssumption ==
    /\ Limit \in Nat \ {0} /\ QueueLen \in Nat /\ MaxEntries \in Nat /\ MaxLoads \in Nat

VARIABLES
    entries,    \* Buffer.entries
    nextSeq,    \* Buffer.nextSeq
    handler,    \* the entry a handler has yet to publish, or 0
    open,       \* whether the view's subscription is in the hub
    queue,      \* events on their way to the view
    load,       \* the view's request for the tail
    loads,
    view,       \* the entries the view shows, newest first
    upTo,       \* history: nextSeq when the tail that is shown was taken
    early,      \* history: entries the stream had had before the view was whole
    missed      \* history: entries the hub dropped, the view's channel being full

vars ==
    <<entries, nextSeq, handler, open, queue, load, loads, view, upTo, early, missed>>

NotLoading == [pc |-> "idle", tail |-> <<>>, upTo |-> 0]

Init ==
    /\ entries = <<>> /\ nextSeq = 0 /\ handler = [h \in Handler |-> 0]
    /\ open = FALSE /\ queue = <<>>
    /\ load = NotLoading /\ loads = 0
    /\ view = <<>> /\ upTo = 0 /\ early = {} /\ missed = {}

\* The first n of a sequence, or the last n, or all when there are fewer.
First(s, n) == IF Len(s) <= n THEN s ELSE SubSeq(s, 1, n)

LastOf(s, n) == IF Len(s) <= n THEN s ELSE SubSeq(s, Len(s) - n + 1, Len(s))

----------------------------------------------------------------------------
\* Tail: the newest entries, newest first; 0 asks for all.
TailOf(limit) ==
    Reverse(LastOf(entries, IF limit = 0 THEN Len(entries) ELSE limit))

AppendEntry_SilentWhenFull(h) ==
    /\ handler[h] = 0 /\ nextSeq < MaxEntries
    /\ nextSeq' = nextSeq + 1
    /\ entries' = LastOf(Append(entries, nextSeq'), Limit)
    /\ handler' = IF Len(entries) = Limit THEN handler ELSE [handler EXCEPT ![h] = nextSeq']
    /\ UNCHANGED <<open, queue, load, loads, view, upTo, early, missed>>

\* Append, under the mutex of the buffer.
AppendEntry(h) ==
    /\ handler[h] = 0 /\ nextSeq < MaxEntries
    /\ nextSeq' = nextSeq + 1
    /\ entries' = LastOf(Append(entries, nextSeq'), Limit)
    /\ handler' = [handler EXCEPT ![h] = nextSeq']
    /\ UNCHANGED <<open, queue, load, loads, view, upTo, early, missed>>

\* hub.Publish to who is subscribed.  Of what is on its way some has left the
\* channel, so it may be full, and not has to be, when that is as much as it
\* holds; then the event is dropped.
Deliver(n) ==
    \/ ~open /\ UNCHANGED <<queue, missed>>
    \/ open /\ queue' = Append(queue, n) /\ UNCHANGED missed
    \/ open /\ Len(queue) >= QueueLen /\ missed' = missed \cup {n} /\ UNCHANGED queue

\* The callback, after the unlock.
Publish(h) ==
    /\ handler[h] # 0 /\ Deliver(handler[h])
    /\ handler' = [handler EXCEPT ![h] = 0]
    /\ UNCHANGED <<entries, nextSeq, open, load, loads, view, upTo, early>>

----------------------------------------------------------------------------
(* The view.                                                               *)

\* Entries the stream carried, or did not have to, by now.
Past == (1 .. nextSeq) \ (ToSet(queue) \cup {handler[h] : h \in Handler})

\* The EventSource connects.
Subscribe ==
    /\ ~open
    /\ open' = TRUE
    /\ early' = Past
    /\ UNCHANGED <<entries, nextSeq, handler, queue, load, loads, view, upTo, missed>>

\* refresh: ask for the tail; it is taken under the read lock, and replaces
\* what the view shows when it arrives.
Ask ==
    /\ load.pc = "idle" /\ loads < MaxLoads
    /\ load' = [NotLoading EXCEPT !.pc = "asked"] /\ loads' = loads + 1
    /\ UNCHANGED <<entries, nextSeq, handler, open, queue, view, upTo, early, missed>>

Answer ==
    /\ load.pc = "asked"
    /\ load' = [pc |-> "answered", tail |-> TailOf(Limit), upTo |-> nextSeq]
    /\ UNCHANGED <<entries, nextSeq, handler, open, queue, loads, view, upTo, early, missed>>

Show ==
    /\ load.pc = "answered"
    /\ view' = load.tail /\ upTo' = load.upTo
    /\ load' = NotLoading
    /\ early' = Past
    /\ UNCHANGED <<entries, nextSeq, handler, open, queue, loads, missed>>

\* An event: its entry goes to the top.
Hear ==
    /\ queue # <<>>
    /\ view' = First(<<Head(queue)>> \o view, Limit)
    /\ queue' = Tail(queue)
    /\ UNCHANGED <<entries, nextSeq, handler, open, load, loads, upTo, early, missed>>

Next ==
    \/ \E h \in Handler : AppendEntry(h) \/ Publish(h)
    \/ Subscribe \/ Ask \/ Answer \/ Show \/ Hear

Spec == Init /\ [][Next]_vars

----------------------------------------------------------------------------
(* Properties.                                                             *)

\* Whatever the limit, the tail is the newest entries of all that were ever
\* appended, newest first, as many as the buffer keeps (Append, Tail).
TailIsNewest ==
    \A limit \in 0 .. Limit + 1 :
        LET n == Len(TailOf(limit))
        IN  /\ n = Min({nextSeq, Limit} \cup ({limit} \ {0}))
            /\ \A i \in 1 .. n : TailOf(limit)[i] = nextSeq - i + 1

\* What the view shows, is about to hear, or will be published.
Coming == ToSet(view) \cup ToSet(queue) \cup {handler[h] : h \in Handler}

\* A view that is not full shows, or is about to, every entry that was in
\* the buffer when its tail was taken and every later one, except those that
\* the stream carried before the tail was shown or the subscription made,
\* and those the hub has dropped since because the view did not keep up.
\* With Publish after the unlock, no other entry may fall in between.
MissesOnlyWhileLoading ==
    open /\ Len(view) < Limit =>
        \A n \in 1 .. nextSeq :
            \/ n \in Coming
            \/ n > upTo /\ n \in early \cup missed
            \/ n + Limit <= upTo

\* Both: what the buffer answers, and what the view makes of it.
TailIsFollowed == TailIsNewest /\ MissesOnlyWhileLoading

----------------------------------------------------------------------------
(* What a document or a comment says and the code does not do: TLC refutes *)
(* each of these statements.                                               *)

\* LogsView.tsx: "Live tail of every API request hitting this database."
\* When everything has arrived, the view shows what the buffer holds.
LiveTailOfEveryRequest ==
    open /\ loads > 0 /\ load.pc = "idle" /\ queue = <<>> /\ (\A h \in Handler : handler[h] = 0) =>
        \A i \in DOMAIN entries : entries[i] \in ToSet(view)
=============================================================================
