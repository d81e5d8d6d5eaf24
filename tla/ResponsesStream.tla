-------------------------- MODULE ResponsesStream --------------------------
(***************************************************************************)
(* ResponsesStreamDesanitizer: the typed events of one streamed answer of  *)
(* the Responses API.  Every output field has a StreamingDesanitizer under *)
(* its key; the tails it keeps back go out as events of their own, so all  *)
(* events are numbered again.                                              *)
(*                                                                         *)
(* A key is <<output item, content part>>; part 0 stands for a field of    *)
(* the item itself (tool arguments).  A fragment of a field counts one and *)
(* any number of a field's fragments may be kept back.                     *)
(***************************************************************************)
EXTENDS Integers, Sequences, FiniteSets, SequencesExt

CONSTANTS
    Items,      \* output items
    ItemParts,  \* content parts of an item, 0 among them
    FirstNumber,\* sequence_number of the upstream's first event
    MaxEvents   \* bound: events of the upstream

Keys == Items \X ItemParts
Unset == -1

VARIABLES
    upstream,  \* "open", "over", then "eof"
    count,     \* how many events it has sent
    numbered,  \* whether its events carry a sequence_number
    given,     \* history: fragments of each field it has sent
    finished,  \* history: the fields its own events have ended
    kept,      \* fragments kept back in the field's desanitizer
    streams,   \* _streams and _metadata: the keys, in the order they came
    stamp,     \* _metadata[key]["sequence_number"]
    last,      \* _last_sequence
    reader     \* what the client has read

\* An event on its way out: n fragments of a field, the fields it ends, and
\* the number it carries before it is renumbered.
Out(k, n, ends, seq) == [key |-> k, n |-> n, ends |-> ends, seq |-> seq]

\* The sequence_number of the upstream's event, if it has one.
Number == IF numbered THEN FirstNumber + count ELSE Unset

Nothing == Out(<<>>, 0, {}, Unset)
Plain(ends) == Out(<<>>, 0, ends, Number)

\* _numbered: the first event keeps its number, the next ones count on; an
\* event without a number stays without.  _last_sequence after i events:
Numbers(es) ==
    LET at[i \in 0..Len(es)] ==
            IF i = 0 THEN last
            ELSE IF es[i].seq = Unset THEN at[i - 1]
            ELSE IF at[i - 1] = Unset THEN es[i].seq ELSE at[i - 1] + 1
    IN  at

Renumbered(es) ==
    [i \in DOMAIN es |->
        [es[i] EXCEPT !.seq = IF @ = Unset THEN Unset ELSE Numbers(es)[i]]]

\* The client reads an event: text of a field that has ended comes too late,
\* and a number has to follow the one before.
Read(c, e) ==
    [got  |-> IF e.n = 0 THEN c.got ELSE [c.got EXCEPT ![e.key] = @ + e.n],
     late |-> IF e.n > 0 /\ e.key \in c.shut THEN c.late \union {e.key} ELSE c.late,
     shut |-> c.shut \union e.ends,
     seq  |-> IF e.seq = Unset THEN c.seq ELSE e.seq,
     gaps |-> IF e.seq # Unset /\ c.seq # Unset /\ e.seq # c.seq + 1
              THEN c.gaps \union {e.seq} ELSE c.gaps]

Reading(c, es) ==
    LET at[i \in 0..Len(es)] == IF i = 0 THEN c ELSE Read(at[i - 1], es[i])
    IN  at[Len(es)]

\* feed and flush renumber what they return.
Send(es) ==
    /\ reader' = Reading(reader, Renumbered(es))
    /\ last' = Numbers(es)[Len(es)]

TypeOK ==
    /\ upstream \in {"open", "over", "eof"}
    /\ count \in 0..MaxEvents /\ numbered \in BOOLEAN
    /\ given \in [Keys -> Nat] /\ kept \in [Keys -> Nat]
    /\ finished \subseteq Keys
    /\ streams \in Seq(Keys) /\ IsInjective(streams)
    /\ stamp \in [Keys -> Nat \union {Unset}]
    /\ \A k \in Keys \ ToSet(streams) : kept[k] = 0 /\ stamp[k] = Unset

Init ==
    /\ upstream = "open" /\ numbered \in BOOLEAN
    /\ count = 0
    /\ given = [k \in Keys |-> 0] /\ finished = {}
    /\ kept = [k \in Keys |-> 0] /\ streams = <<>>
    /\ stamp = [k \in Keys |-> Unset] /\ last = Unset
    /\ reader = [got |-> [k \in Keys |-> 0], late |-> {}, shut |-> {},
                 seq |-> Unset, gaps |-> {}]

Event ==
    /\ upstream = "open"
    /\ count < MaxEvents /\ count' = count + 1
    /\ UNCHANGED numbered

\* The field at place i of the loop has a tail to send.
HasTail(i, S) == streams[i] \in S /\ kept[streams[i]] > 0

\* Mutant: the loop ends with the first tail.
TailsFirst(S) ==
    [i \in DOMAIN streams |->
        IF HasTail(i, S) /\ \A j \in 1..(i - 1) : ~HasTail(j, S)
        THEN Out(streams[i], kept[streams[i]], {}, stamp[streams[i]]) ELSE Nothing]

\* _flush_where: the tails of the selected fields, which are gone then.
Tails(S) ==
    [i \in DOMAIN streams |->
        IF HasTail(i, S) THEN Out(streams[i], kept[streams[i]], {}, stamp[streams[i]])
        ELSE Nothing]

\* What is left of streams without S, in its order.
Remaining(S) ==
    LET upTo[i \in 0..Len(streams)] ==
            IF i = 0 THEN <<>>
            ELSE IF streams[i] \in S THEN upTo[i - 1] ELSE Append(upTo[i - 1], streams[i])
    IN  upTo[Len(streams)]

Drop(S) ==
    /\ streams' = Remaining(S)
    /\ kept' = [k \in Keys |-> IF k \in S THEN 0 ELSE kept[k]]
    /\ stamp' = [k \in Keys |-> IF k \in S THEN Unset ELSE stamp[k]]

\* A *.delta event.  Nothing goes out when all of it is kept back.
DeltaEvent(k) ==
    /\ Event
    /\ k \notin finished
    /\ given' = [given EXCEPT ![k] = @ + 1]
    /\ streams' = IF k \in ToSet(streams) THEN streams ELSE Append(streams, k)
    /\ stamp' = [stamp EXCEPT ![k] = Number]
    /\ \E keep \in 0..(kept[k] + 1) :
           /\ kept' = [kept EXCEPT ![k] = keep]
           /\ Send(IF keep = kept[k] + 1 THEN <<>>
                   ELSE <<Out(k, kept[k] + 1 - keep, {}, Number)>>)
    /\ UNCHANGED <<upstream, finished>>

\* _item_matcher: with a content index that part's field, else all of the item's.
Matched(i, c) == {k \in Keys : k[1] = i /\ (c = Unset \/ k[2] = c)}

\* An event that ends the fields S: the tails of the selected ones go first.
Closing(S, selected) ==
    /\ Event
    /\ Send(Tails(selected) \o <<Plain(S)>>)
    /\ Drop(selected)
    /\ finished' = finished \union S
    /\ UNCHANGED <<upstream, given>>

FieldDone(k)   == Closing({k}, {k})                           \* *.done
PartDone(i, c) == Closing({<<i, c>>}, Matched(i, c))          \* content_part.done
ItemDone(i)    == Closing({i} \X ItemParts, Matched(i, Unset)) \* output_item.done

\* Any other event passes.
OtherEvent ==
    /\ Event
    /\ Send(<<Plain({})>>)
    /\ UNCHANGED <<upstream, given, finished, kept, streams, stamp>>

\* response.completed, .failed or .incomplete: every tail goes before it.
Terminal ==
    /\ upstream = "open" /\ upstream' = "over"
    /\ Send(Tails(Keys) \o <<Plain(Keys)>>)
    /\ Drop(Keys)
    /\ finished' = Keys
    /\ UNCHANGED <<count, numbered, given>>

\* An event that ends the stream and does not come this way: every tail goes
\* before it, it keeps the number it has.
Overtaken ==
    /\ upstream = "open" /\ upstream' = "over"
    /\ Send(Tails(Keys) \o <<Out(<<>>, 0, Keys, Unset)>>)
    /\ Drop(Keys)
    /\ finished' = Keys
    /\ UNCHANGED <<count, numbered, given>>

\* The upstream closes, with or without a terminal event: flush.
Flush ==
    /\ upstream # "eof" /\ upstream' = "eof"
    /\ Send(Tails(Keys))
    /\ Drop(Keys)
    /\ UNCHANGED <<count, numbered, given, finished>>

TypedEvent ==
    \/ \E k \in Keys : DeltaEvent(k) \/ FieldDone(k)
    \/ \E i \in Items, c \in ItemParts \ {0} : PartDone(i, c)
    \/ \E i \in Items : ItemDone(i)
    \/ OtherEvent \/ Terminal

NoneLate == reader.late = {}

GotAll == upstream = "eof" => reader.got = given

InSequence == reader.gaps = {}
=============================================================================
