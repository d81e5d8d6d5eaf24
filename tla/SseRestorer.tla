---------------------------- MODULE SseRestorer ----------------------------
(***************************************************************************)
(* _SseRestorer: one streamed response through its two adapters, events of *)
(* the Responses API through ResponsesStream, all others through SseStream.*)
(* An error event and the end of the stream concern both.                  *)
(***************************************************************************)
EXTENDS Integers, Sequences, FiniteSets

CONSTANTS
    NBlocks, NChoices, NTools, Deltas,    \* of SseStream
    Items, ItemParts, FirstNumber,        \* of ResponsesStream
    MaxEvents                             \* bound: events of the upstream

VARIABLES
    protocol, up, events, fed, ended, held, live, chat, tool_index, client,
    upstream, count, numbered, given, finished, kept, streams, stamp, last, reader

Events == INSTANCE SseStream
Responses == INSTANCE ResponsesStream

ASSUME RestorerAssumption ==
    /\ NBlocks \in Nat /\ NChoices \in Nat /\ NTools \in Nat
    /\ Deltas \subseteq Events!Delta
    /\ Items \subseteq Nat /\ ItemParts \subseteq Nat /\ 0 \in ItemParts
    /\ FirstNumber \in Nat /\ MaxEvents \in Nat

eventVars == <<protocol, up, events, fed, ended, held, live, chat, tool_index, client>>
responsesVars ==
    <<upstream, count, numbered, given, finished, kept, streams, stamp, last, reader>>
sseVars == <<eventVars, responsesVars>>

SseTypeOK == Events!TypeOK /\ Responses!TypeOK

SseInit == Events!Init /\ Responses!Init /\ (numbered => protocol = "responses")

\* An event of type response.*.
ResponsesEvent ==
    /\ protocol = "responses"
    /\ Responses!TypedEvent
    /\ UNCHANGED eventVars

OtherEvent ==
    /\ Events!ContentEvent
    /\ UNCHANGED responsesVars

\* An error event: the tails of the Responses adapter, those of the other, then
\* the event.
ErrorEvent == Events!ErrorEvent /\ Responses!Overtaken

\* data: [DONE], also after an error.
DoneEvent ==
    /\ Events!DoneEvent
    /\ \/ Responses!Overtaken
       \/ upstream # "open" /\ UNCHANGED responsesVars

\* The end of the body.
Flush == Responses!Flush /\ Events!Flush

SseNext == ResponsesEvent \/ OtherEvent \/ ErrorEvent \/ DoneEvent \/ Flush

SseSpec == SseInit /\ [][SseNext]_sseVars

-----------------------------------------------------------------------------
(* Properties *)

\* Text that was kept back never trails the event that ends it: a block's stop,
\* a choice's finish_reason, the start of the next tool call, the done of a
\* field, of its part or of its item, a terminal or an error event, or [DONE]
\* (SseStreamDesanitizer._process_event, _rewrite_choice,
\* ResponsesStreamDesanitizer._feed, _item_matcher, _SseRestorer._event).
NeverLate == Events!NoneLate /\ Responses!NoneLate

\* When the stream is over, cut short or not, the client has every fragment of
\* every part once: none is lost with a buffer that was dropped, none is sent
\* twice (the StreamingDesanitizer buffers of both adapters, flush).
AllDelivered == Events!GotAll /\ Responses!GotAll

\* The numbers the client sees on response.* events have no gap and no
\* repetition, although deltas are swallowed and tails are added, with numbers
\* of deltas that went out long before (ResponsesStreamDesanitizer._numbered).
NumbersFollow == Responses!InSequence

\* What the client reads is in order: no kept text after the event that ends
\* it, and sequence numbers that follow on although deltas are swallowed and
\* tails added (_process_event, _feed, _numbered).
TailsInOrder == NeverLate /\ NumbersFollow

=============================================================================
