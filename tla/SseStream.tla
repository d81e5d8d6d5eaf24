----------------------------- MODULE SseStream -----------------------------
(***************************************************************************)
(* SseStreamDesanitizer: the events of one streamed answer, Anthropic      *)
(* content blocks or OpenAI chat choices, on their way to the client.      *)
(*                                                                         *)
(* A part is one text that grows over the stream: a content block, or the  *)
(* content, the legacy function call or one tool call of a choice.  Each   *)
(* has a StreamingDesanitizer of its own, which keeps the end of the text  *)
(* back; here a fragment counts one and any number of the fragments of a   *)
(* part may be kept back.  The questions are what happens to text kept     *)
(* back when the part, or the stream, ends.                                *)
(***************************************************************************)
EXTENDS Integers, Sequences, FiniteSets, SequencesExt

CONSTANTS
    NBlocks,   \* how many content blocks,
    NChoices,  \* choices,
    NTools,    \* and tool calls of a choice: all are counted from 0
    Deltas,    \* what a delta of a choice may carry, see Delta
    MaxEvents  \* bound: events of the upstream

Blocks      == 0..(NBlocks - 1)
ChatChoices == 0..(NChoices - 1)
Tools       == 0..(NTools - 1)

\* calls are the indexes of tool_calls; a call that has no arguments (args is
\* FALSE) is the announcement of its id and name.
Delta == [content : BOOLEAN, calls : Seq(Tools), args : BOOLEAN, function : BOOLEAN]

Block(b)   == <<"block", b>>
Content(c) == <<"content", c>>
Function(c) == <<"function", c>>
Tool(c, t) == <<"tool", c, t>>

OfChoice(c) == {Content(c), Function(c)} \union {Tool(c, t) : t \in Tools}
Parts == {Block(b) : b \in Blocks} \union UNION {OfChoice(c) : c \in ChatChoices}

None == -1

VARIABLES
    protocol,    \* "anthropic", "chat" or, of another adapter, "responses"
    up,          \* the upstream: "open", "failed" or "done", then "eof"
    events,      \* how many events it has sent
    fed,         \* history: fragments of each part it has sent
    ended,       \* history: the parts its own events have ended
    held,        \* fragments kept back in the part's desanitizer
    live,        \* the parts that have a desanitizer
    chat,        \* _chat: the choices with state
    tool_index,  \* tool_index of each choice's state
    client       \* what the client has read

\* Events as the client reads them.
Text(p, n) == [tag |-> "text", part |-> p, n |-> n]
Ends(ps)   == [tag |-> "ends", parts |-> ps]
Nothing    == Ends({})

\* The tail of p, if it is flushed and holds text.
HeldTail(p, flushed) ==
    IF p \in live \intersect flushed /\ held[p] > 0 THEN Text(p, held[p]) ELSE Nothing

\* A tool call that starts ends the content and the earlier calls of its choice.
EndedBy(e) ==
    IF e.tag = "ends" THEN e.parts
    ELSE IF e.part[1] = "tool"
         THEN LET c == e.part[2]
              IN  {Content(c)} \union {Tool(c, t) : t \in 0..(e.part[3] - 1)}
         ELSE {}

\* The client reads one event: text of a part that has ended comes too late.
Read(c, e) ==
    [got  |-> IF e.tag = "text" THEN [c.got EXCEPT ![e.part] = @ + e.n] ELSE c.got,
     late |-> IF e.tag = "text" /\ e.n > 0 /\ e.part \in c.shut
              THEN c.late \union {e.part} ELSE c.late,
     shut |-> c.shut \union EndedBy(e)]

Reading(c, es) ==
    LET at[i \in 0..Len(es)] == IF i = 0 THEN c ELSE Read(at[i - 1], es[i])
    IN  at[Len(es)]

Send(es) == client' = Reading(client, es)

TypeOK ==
    /\ protocol \in {"anthropic", "chat", "responses"}
    /\ up \in {"open", "failed", "done", "eof"}
    /\ events \in 0..MaxEvents
    /\ fed \in [Parts -> Nat] /\ held \in [Parts -> Nat]
    /\ ended \subseteq Parts /\ live \subseteq Parts /\ chat \subseteq ChatChoices
    /\ tool_index \in [ChatChoices -> Tools \union {None}]
    /\ client \in [got : [Parts -> Nat], late : SUBSET Parts, shut : SUBSET Parts]
    \* A desanitizer that is gone keeps nothing, and a choice without state has none.
    /\ \A p \in Parts \ live : held[p] = 0
    /\ \A c \in ChatChoices \ chat : OfChoice(c) \intersect live = {}

Init ==
    /\ protocol \in {"anthropic", "chat", "responses"}
    /\ up = "open" /\ events = 0
    /\ fed = [p \in Parts |-> 0] /\ ended = {}
    /\ held = [p \in Parts |-> 0] /\ live = {}
    /\ chat = {} /\ tool_index = [c \in ChatChoices |-> None]
    /\ client = [got |-> [p \in Parts |-> 0], late |-> {}, shut |-> {}]

-----------------------------------------------------------------------------
(* Content blocks *)

Event(p) == up = "open" /\ protocol = p /\ events < MaxEvents /\ events' = events + 1

\* content_block_start of a text or tool_use block.  A block of another type
\* gets no desanitizer and all of it passes through: nothing to ask of it.
BlockStart(b) ==
    /\ Event("anthropic")
    /\ Block(b) \notin live \union ended
    /\ live' = live \union {Block(b)}
    /\ UNCHANGED <<protocol, up, fed, ended, held, chat, tool_index, client>>

BlockDelta(b) ==
    /\ Event("anthropic")
    /\ Block(b) \in live
    /\ fed' = [fed EXCEPT ![Block(b)] = @ + 1]
    /\ \E keep \in 0..(held[Block(b)] + 1) :
           /\ held' = [held EXCEPT ![Block(b)] = keep]
           /\ Send(<<Text(Block(b), held[Block(b)] + 1 - keep)>>)
    /\ UNCHANGED <<protocol, up, ended, live, chat, tool_index>>

\* content_block_stop: the block's tail goes out first.
BlockStop(b) ==
    /\ Event("anthropic")
    /\ Block(b) \in live
    /\ ended' = ended \union {Block(b)}
    /\ live' = live \ {Block(b)}
    /\ held' = [held EXCEPT ![Block(b)] = 0]
    /\ Send(<<HeldTail(Block(b), {Block(b)}), Ends({Block(b)})>>)
    /\ UNCHANGED <<protocol, up, fed, chat, tool_index>>

-----------------------------------------------------------------------------
(* Chat choices *)

CallsIn(c, d) == [i \in DOMAIN d.calls |-> Tool(c, d.calls[i])]

\* The parts a delta speaks of, in the order they go out.
PartsIn(c, d) ==
    (IF d.content THEN <<Content(c)>> ELSE <<>>)
        \o (IF d.function THEN <<Function(c)>> ELSE <<>>)
        \o CallsIn(c, d)

\* Those it has text for.
FedBy(c, d) == ToSet(PartsIn(c, d)) \ (IF d.args THEN {} ELSE ToSet(CallsIn(c, d)))

\* The upstream keeps to its own protocol: nothing more of what it has ended,
\* and the tool calls one after another.
WellFormed(c, d) ==
    /\ Function(c) \notin ended
    /\ ToSet(PartsIn(c, d)) \intersect ended = {}
    /\ \A i, j \in DOMAIN d.calls : i < j => d.calls[i] < d.calls[j]

CurrentCall(c) == Tool(c, tool_index[c])

\* Mutant: only the current call is flushed before the next one.
DueBeforeCallOnly(c, d) ==
    IF d.calls # <<>> /\ Head(d.calls) # tool_index[c] THEN {CurrentCall(c)} ELSE {}

\* What goes out before a delta whose first tool call is not the current one:
\* flush_before_tool_call, and the two buffers are gone.
DueBefore(c, d) ==
    IF d.calls # <<>> /\ Head(d.calls) # tool_index[c]
    THEN {Content(c), CurrentCall(c)} ELSE {}

\* The tails in the order of _ChatChoice.flush.
FlushTails(c, flushed) ==
    <<HeldTail(Content(c), flushed), HeldTail(CurrentCall(c), flushed),
      HeldTail(Function(c), flushed)>>
        \o [t \in 1..NTools |-> HeldTail(Tool(c, t - 1), flushed \ {CurrentCall(c)})]

\* A chunk whose choice goes out as it came.
ChatPass(c, d, finishing) ==
    /\ FedBy(c, d) = {} /\ d.calls = <<>> /\ ~(finishing /\ c \in chat)
    /\ Send(IF finishing THEN <<Ends(OfChoice(c))>> ELSE <<>>)
    /\ UNCHANGED <<fed, held, live, chat, tool_index>>

\* What each part has to send with d: what it held, unless that is due before,
\* and the fragment of d;
Have(c, d) ==
    [p \in OfChoice(c) |-> (IF p \in DueBefore(c, d) THEN 0 ELSE held[p])
                               + (IF p \in FedBy(c, d) THEN 1 ELSE 0)]

\* and what of it stays in the buffers, of which those that are fed keep some.
Kept(c, d, finishing, keep) ==
    [p \in OfChoice(c) |-> IF finishing THEN 0
                           ELSE IF p \in FedBy(c, d) THEN keep[p] ELSE Have(c, d)[p]]

\* n[p] fragments of every part p in parts.
TextsOf(parts, n) == [i \in DOMAIN parts |-> Text(parts[i], n[parts[i]])]

\* _rewrite_choice: the tails due before the delta, the delta with what its
\* buffers let go, and the choice's other tails when it finishes.
ChatRewrite(c, d, finishing) ==
    LET have == Have(c, d)
        due  == DueBefore(c, d)
        rest == OfChoice(c) \ (ToSet(PartsIn(c, d)) \union due)
    IN  /\ FedBy(c, d) # {} \/ d.calls # <<>> \/ (finishing /\ c \in chat)
        /\ fed' = [p \in Parts |-> fed[p] + (IF p \in FedBy(c, d) THEN 1 ELSE 0)]
        /\ \E keep \in [FedBy(c, d) -> 0..(MaxEvents + 1)] :
               LET kept == Kept(c, d, finishing, keep)
               IN  /\ \A p \in DOMAIN keep :
                          keep[p] <= have[p] /\ (finishing => keep[p] = 0)
                   /\ held' = [p \in Parts |-> IF p \in OfChoice(c) THEN kept[p] ELSE held[p]]
                   /\ Send(FlushTails(c, due)
                           \o TextsOf(PartsIn(c, d), [p \in OfChoice(c) |-> have[p] - kept[p]])
                           \o (IF finishing THEN FlushTails(c, rest) \o <<Ends(OfChoice(c))>>
                               ELSE <<>>))
        /\ live' = IF finishing THEN live \ OfChoice(c) ELSE (live \ due) \union FedBy(c, d)
        /\ chat' = IF finishing THEN chat \ {c} ELSE chat \union {c}
        /\ tool_index' = [tool_index EXCEPT ![c] =
               IF finishing THEN None
               ELSE IF d.args /\ d.calls # <<>> THEN Last(d.calls) ELSE @]

\* One chunk: a delta of one choice, with or without its finish_reason.
ChatDelta(c, d, finishing) ==
    /\ Event("chat")
    /\ WellFormed(c, d)
    /\ ChatPass(c, d, finishing) \/ ChatRewrite(c, d, finishing)
    /\ ended' = ended \union (UNION {EndedBy(Text(p, 0)) : p \in ToSet(CallsIn(c, d))})
                      \union (IF finishing THEN OfChoice(c) ELSE {})
    /\ UNCHANGED <<protocol, up>>

-----------------------------------------------------------------------------
(* The end of the stream *)

\* The tails of the first n choices, choice after choice.
ChoiceTails[n \in 0..NChoices] ==
    IF n = 0 THEN <<>> ELSE ChoiceTails[n - 1] \o FlushTails(n - 1, Parts)

\* _held_tails: every tail, and no buffer is left.
AllTails == [b \in 1..NBlocks |-> HeldTail(Block(b - 1), Parts)] \o ChoiceTails[NChoices]

ReleaseAll ==
    /\ held' = [p \in Parts |-> 0] /\ live' = {}
    /\ chat' = {} /\ tool_index' = [c \in ChatChoices |-> None]
    /\ ended' = Parts
    /\ UNCHANGED <<protocol, events, fed>>

\* An error event, after which the client expects nothing.
ErrorEvent ==
    /\ up = "open" /\ up' = "failed"
    /\ Send(AllTails \o <<Ends(Parts)>>)
    /\ ReleaseAll

\* data: [DONE], also after an error.
DoneEvent ==
    /\ protocol = "chat" /\ up \in {"open", "failed"} /\ up' = "done"
    /\ Send(AllTails \o <<Ends(Parts)>>)
    /\ ReleaseAll

\* The upstream closes, early or not: flush.
Flush ==
    /\ up # "eof" /\ up' = "eof"
    /\ Send(AllTails \o <<Ends(Parts)>>)
    /\ ReleaseAll

ContentEvent ==
    \/ \E b \in Blocks : BlockStart(b) \/ BlockDelta(b) \/ BlockStop(b)
    \/ \E c \in ChatChoices, d \in Deltas, finishing \in BOOLEAN : ChatDelta(c, d, finishing)

NoneLate == client.late = {}

GotAll == up = "eof" => client.got = fed
=============================================================================
