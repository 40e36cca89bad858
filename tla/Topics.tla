------------------------------- MODULE Topics -------------------------------
(***************************************************************************)
(* internal/realtime/hub.go, matches: which subscriptions an event is for. *)
(* A topic is a sequence of characters, since the code compares prefixes   *)
(* of characters where its users think in segments.  The machine types a   *)
(* subscription and a topic, one character at a time.                      *)
(***************************************************************************)
EXTENDS Naturals, Sequences, FiniteSets, SequencesExt

CONSTANTS
    Char,           \* letters
    MaxLen          \* bound: length of a topic

VARIABLES sub, topic

vars == <<sub, topic>>

Alphabet == Char \cup {":", "*"}

----------------------------------------------------------------------------
(* matches, for one topic of a subscription.                               *)

Parent_AnyPrefix(t, top) == Len(top) > Len(t) /\ IsPrefix(t, top)

\* A subscription to a parent receives what is below it.
Parent(t, top) == Len(top) > Len(t) /\ IsPrefix(t, top) /\ top[Len(t) + 1] = ":"

\* A trailing * stands for any rest.
Wildcard(t, top) == Len(t) > 1 /\ Last(t) = "*" /\ IsPrefix(Front(t), top)

matches(t, top) ==
    t = top \/ t = <<"*">> \/ Wildcard(t, top) \/ Parent(t, top)

----------------------------------------------------------------------------
Init == sub = <<>> /\ topic = <<>>

TypeSub(ch) ==
    /\ Len(sub) < MaxLen
    /\ sub' = Append(sub, ch)
    /\ UNCHANGED topic

TypeTopic(ch) ==
    /\ Len(topic) < MaxLen
    /\ topic' = Append(topic, ch)
    /\ UNCHANGED sub

Next == \E ch \in Alphabet : TypeSub(ch) \/ TypeTopic(ch)

Spec == Init /\ [][Next]_vars

----------------------------------------------------------------------------
(* What docs/realtime.md says: topics are matched by segments.             *)

Colons(s) == {i \in DOMAIN s : s[i] = ":"}

\* The i-th of the segments of s, counted from 0.
Segment(s, i) ==
    LET ends == Colons(s) \cup {0, Len(s) + 1}
        after(n) == CHOOSE e \in ends : Cardinality({x \in ends : x < e}) = n
    IN  SubSeq(s, after(i) + 1, after(i + 1) - 1)

SegmentPrefix(s, t) ==
    /\ Cardinality(Colons(s)) <= Cardinality(Colons(t))
    /\ \A i \in 0 .. Cardinality(Colons(s)) : Segment(s, i) = Segment(t, i)

\* A subscription with a trailing * gets what begins with the rest of it,
\* any other one what begins with the same segments: coll:note is not a
\* parent of coll:notes:1.
MatchesBySegments ==
    matches(sub, topic) <=>
        IF sub # <<>> /\ Last(sub) = "*" THEN IsPrefix(Front(sub), topic)
        ELSE SegmentPrefix(sub, topic)

----------------------------------------------------------------------------
(* What a document or a comment says and the code does not do: TLC refutes *)
(* each of these statements.                                               *)

\* The comment of package logs: entries are published "under the logs:*
\* topic".  main.go publishes them on the topic that is here the letters alone.
LogsUnderWildcard ==
    \A ch \in Char : sub = <<ch, ":", "*">> /\ topic = <<ch>> => matches(sub, topic)
=============================================================================
