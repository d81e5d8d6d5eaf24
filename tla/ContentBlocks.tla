---------------------------- MODULE ContentBlocks ----------------------------
(***************************************************************************)
(* sanitizer/content_blocks.py: the walk over the content of a message or  *)
(* of a Responses item.  The code walks three times, with three copies of  *)
(* the same traversal: Collect (what Stage 0 and the Stage 5 guard are     *)
(* shown), Sanitize (what is rewritten before egress) and Desanitize (what *)
(* is restored when the provider sends the text back).                     *)
(*                                                                         *)
(* What a walk does to one leaf depends only on the way from the root to   *)
(* it, so a value is modelled by one path: a sequence of steps, the last   *)
(* of which is the leaf.  A step says what kind of value stands there:     *)
(*   dict  a dict with a "type", entered at "key"; "has" says that the     *)
(*         dict carries the field its type's branch asks for, in the shape *)
(*         the branch asks for;                                            *)
(*   list  a list, entered at one item;                                    *)
(*   json  a string that is JSON, whose parsed value follows;              *)
(*   str, num, null  leaves (json is one too, to a walk that does not      *)
(*         parse).                                                         *)
(* The operators below are a walk's verdict from step k of path p on: "hit"*)
(* when the text is handed to the callback, "miss" when it is not, "deep"  *)
(* and "refuse" when the walk raises.                                      *)
(***************************************************************************)
EXTENDS Naturals, Sequences

CONSTANT MaxDepth       \* _MAX_JSON_DEPTH

------------------------------------------------------------------------------
JsonOpaqueKeys == {"encrypted_content"}
BlockFallbackOpaqueKeys == JsonOpaqueKeys \cup {"signature"}

TextBlockField ==
    [t \in {"text", "input_text", "output_text", "reasoning_text", "summary_text", "refusal"}
        |-> IF t = "refusal" THEN "refusal" ELSE "text"]

OpaqueBlockTypes ==
    {"image", "image_url", "thinking", "redacted_thinking", "container_upload",
     "input_image", "input_file", "file", "input_audio", "output_audio"}

ToolUseBlockTypes == {"tool_use", "server_tool_use", "mcp_tool_use"}
JsonResultBlockTypes ==
    {"web_search_tool_result", "code_execution_tool_result", "mcp_tool_result"}

IsStr(p, k) == p[k].in \in {"str", "json"}
IsTree(p, k) == p[k].in \in {"dict", "list"}
Key(p, k) == p[k].key

\* A path goes on below a dict, a list and a JSON string, and ends at any other
\* value; a text field counts only when it is a string.
WellFormed(p) ==
    /\ Len(p) > 0
    /\ \A k \in 1..Len(p) : k < Len(p) <=> p[k].in \in {"dict", "list", "json"}
    /\ \A k \in 1..Len(p) :
           p[k].in = "dict" /\ p[k].has /\ p[k].type \in DOMAIN TextBlockField
               /\ Key(p, k) = TextBlockField[p[k].type] => IsStr(p, k + 1)

------------------------------------------------------------------------------
(* Any JSON value: every string leaf it reaches.  The recursion goes into a *)
(* list's item, and into a dict's value but for the signed ones, and ends   *)
(* at the first step it does not enter.  Past the depth bound Sanitize      *)
(* raises, the other two give up quietly.                                   *)

Enters(p, k) ==
    p[k].in = "list" \/ (p[k].in = "dict" /\ Key(p, k) \notin JsonOpaqueKeys)
JsonEnd(p, k) ==
    CHOOSE j \in k..Len(p) : ~Enters(p, j) /\ \A i \in k..(j - 1) : Enters(p, i)
JsonDepth(p, k, depth) == depth + (JsonEnd(p, k) - k)

SanitizeJson(p, k, depth) ==
    IF JsonDepth(p, k, depth) > MaxDepth THEN "deep"
    ELSE IF IsStr(p, JsonEnd(p, k)) THEN "hit" ELSE "miss"

\* Mutant: the answer's JSON walk with a bound that is one short.
DesanitizeJsonShort(p, k, depth) ==
    IF JsonDepth(p, k, depth) >= MaxDepth THEN "miss"
    ELSE IF IsStr(p, JsonEnd(p, k)) THEN "hit" ELSE "miss"

DesanitizeJson(p, k, depth) ==
    IF JsonDepth(p, k, depth) > MaxDepth THEN "miss"
    ELSE IF IsStr(p, JsonEnd(p, k)) THEN "hit" ELSE "miss"

CollectJsonText(p, k, depth) ==
    IF JsonDepth(p, k, depth) > MaxDepth THEN "miss"
    ELSE IF IsStr(p, JsonEnd(p, k)) THEN "hit" ELSE "miss"

(* Tool-call arguments: a JSON string is parsed, any other string is taken
   whole, a value that is already parsed is walked, a bare scalar refuses.   *)
SanitizeArguments(p, k) == IF p[k].in = "json" THEN SanitizeJson(p, k + 1, 0) ELSE "hit"
DesanitizeArguments(p, k) == IF p[k].in = "json" THEN DesanitizeJson(p, k + 1, 0) ELSE "hit"
CollectArgumentsText(p, k) == IF p[k].in = "json" THEN CollectJsonText(p, k + 1, 0) ELSE "hit"

SanitizeToolArguments(p, k) ==
    CASE IsStr(p, k) -> SanitizeArguments(p, k)
      [] IsTree(p, k) -> SanitizeJson(p, k, 0)
      [] p[k].in = "null" -> "miss"
      [] OTHER -> "refuse"

DesanitizeToolArguments(p, k) ==
    CASE IsStr(p, k) -> DesanitizeArguments(p, k)
      [] IsTree(p, k) -> DesanitizeJson(p, k, 0)
      [] OTHER -> "miss"

CollectToolArgumentsText(p, k) ==
    CASE IsStr(p, k) -> CollectArgumentsText(p, k)
      [] IsTree(p, k) -> CollectJsonText(p, k, 0)
      [] OTHER -> "miss"

------------------------------------------------------------------------------
(* The content walk.  A block's type picks the branch, provided the block   *)
(* has the branch's field; a block of an unknown type is walked as JSON.    *)
(* The walk of a content calls the walk of a block and is called by it:     *)
(* "content" is its verdict for every step of the path.                     *)

Branch(p, k, types) == p[k].type \in types /\ p[k].has
Only(p, k, field, verdict) == IF Key(p, k) = field THEN verdict ELSE "miss"
FieldText(p, k, fields) == Key(p, k) \in fields /\ IsStr(p, k + 1)
SourceIs(p, k, type, key) ==
    Key(p, k) = "source" /\ p[k + 1].in = "dict" /\ p[k + 1].type = type /\ p[k + 1].key = key
SourceText(p, k) == SourceIs(p, k, "text", "data") /\ IsStr(p, k + 2)
SourceContent(p, k) == SourceIs(p, k, "content", "content")

\* Mutant: a document is taken for a file, whatever its source.
SanitizeBlockNoSource(p, k, content) ==
    CASE Branch(p, k, DOMAIN TextBlockField) -> Only(p, k, TextBlockField[p[k].type], "hit")
      [] Branch(p, k, {"tool_result"}) -> Only(p, k, "content", content[k + 1])
      [] Branch(p, k, ToolUseBlockTypes) -> Only(p, k, "input", SanitizeJson(p, k + 1, 0))
      [] p[k].type \in OpaqueBlockTypes \cup {"document"} -> "miss"
      [] OTHER -> IF Key(p, k) \in {"type"} \cup BlockFallbackOpaqueKeys
                  THEN "miss" ELSE SanitizeJson(p, k + 1, 1)

SanitizeBlock(p, k, content) ==
    CASE Branch(p, k, DOMAIN TextBlockField) -> Only(p, k, TextBlockField[p[k].type], "hit")
      [] Branch(p, k, {"tool_result"}) -> Only(p, k, "content", content[k + 1])
      [] Branch(p, k, ToolUseBlockTypes) -> Only(p, k, "input", SanitizeJson(p, k + 1, 0))
      [] Branch(p, k, JsonResultBlockTypes) -> Only(p, k, "content", SanitizeJson(p, k + 1, 0))
      [] p[k].type = "search_result" ->
            IF FieldText(p, k, {"title"}) THEN "hit" ELSE Only(p, k, "content", content[k + 1])
      [] p[k].type = "document" ->
            IF FieldText(p, k, {"title", "context"}) \/ SourceText(p, k) THEN "hit"
            ELSE IF SourceContent(p, k) THEN content[k + 2] ELSE "miss"
      [] p[k].type \in OpaqueBlockTypes -> "miss"
      [] OTHER -> IF Key(p, k) \in {"type"} \cup BlockFallbackOpaqueKeys
                  THEN "miss" ELSE SanitizeJson(p, k + 1, 1)

SanitizeValue(p, k, content) ==
    CASE IsStr(p, k) -> "hit"
      [] p[k].in = "list" -> IF p[k + 1].in = "dict" THEN SanitizeBlock(p, k + 1, content) ELSE "miss"
      [] p[k].in = "dict" -> SanitizeBlock(p, k, content)
      [] OTHER -> "miss"
SanitizeContent(p, k) == LET content[i \in 1..Len(p)] == SanitizeValue(p, i, content) IN content[k]

DesanitizeBlock(p, k, content) ==
    CASE Branch(p, k, DOMAIN TextBlockField) -> Only(p, k, TextBlockField[p[k].type], "hit")
      [] Branch(p, k, {"tool_result"}) -> Only(p, k, "content", content[k + 1])
      [] Branch(p, k, ToolUseBlockTypes) -> Only(p, k, "input", DesanitizeJson(p, k + 1, 0))
      [] Branch(p, k, JsonResultBlockTypes) -> Only(p, k, "content", DesanitizeJson(p, k + 1, 0))
      [] p[k].type = "search_result" ->
            IF FieldText(p, k, {"title"}) THEN "hit" ELSE Only(p, k, "content", content[k + 1])
      [] p[k].type = "document" ->
            IF FieldText(p, k, {"title", "context"}) \/ SourceText(p, k) THEN "hit"
            ELSE IF SourceContent(p, k) THEN content[k + 2] ELSE "miss"
      [] p[k].type \in OpaqueBlockTypes -> "miss"
      [] OTHER -> IF Key(p, k) \in {"type"} \cup BlockFallbackOpaqueKeys
                  THEN "miss" ELSE DesanitizeJson(p, k + 1, 1)

DesanitizeValue(p, k, content) ==
    CASE IsStr(p, k) -> "hit"
      [] p[k].in = "list" -> IF p[k + 1].in = "dict" THEN DesanitizeBlock(p, k + 1, content) ELSE "miss"
      [] p[k].in = "dict" -> DesanitizeBlock(p, k, content)
      [] OTHER -> "miss"
DesanitizeContent(p, k) == LET content[i \in 1..Len(p)] == DesanitizeValue(p, i, content) IN content[k]

\* Mutant: the read-only walk without the generic scan of an unknown block.
CollectBlockTextKnownOnly(p, k, content) ==
    IF Branch(p, k, DOMAIN TextBlockField) THEN Only(p, k, TextBlockField[p[k].type], "hit") ELSE "miss"
CollectBlockText(p, k, content) ==
    CASE Branch(p, k, DOMAIN TextBlockField) -> Only(p, k, TextBlockField[p[k].type], "hit")
      [] Branch(p, k, {"tool_result"}) -> Only(p, k, "content", content[k + 1])
      [] Branch(p, k, ToolUseBlockTypes) -> Only(p, k, "input", CollectJsonText(p, k + 1, 0))
      [] Branch(p, k, JsonResultBlockTypes) -> Only(p, k, "content", CollectJsonText(p, k + 1, 0))
      [] p[k].type = "search_result" ->
            IF FieldText(p, k, {"title"}) THEN "hit" ELSE Only(p, k, "content", content[k + 1])
      [] p[k].type = "document" ->
            IF FieldText(p, k, {"title", "context"}) \/ SourceText(p, k) THEN "hit"
            ELSE IF SourceContent(p, k) THEN content[k + 2] ELSE "miss"
      [] p[k].type \in OpaqueBlockTypes -> "miss"
      \* A signature is shown to the scan although it is never rewritten.
      [] OTHER -> IF Key(p, k) \in {"type"} \cup JsonOpaqueKeys
                  THEN "miss" ELSE CollectJsonText(p, k + 1, 1)

CollectValue(p, k, content) ==
    CASE IsStr(p, k) -> "hit"
      [] p[k].in = "list" -> IF p[k + 1].in = "dict" THEN CollectBlockText(p, k + 1, content) ELSE "miss"
      [] p[k].in = "dict" -> CollectBlockText(p, k, content)
      [] OTHER -> "miss"
CollectText(p, k) == LET content[i \in 1..Len(p)] == CollectValue(p, i, content) IN content[k]

------------------------------------------------------------------------------
(* A chat message: its content, the arguments of its tool calls (the key    *)
(* "tool_calls" stands for tool_calls[i].function.arguments, "function_call"*)
(* for function_call.arguments), and the two Responses items that travel    *)
(* as messages.  An empty or absent content is no path.                     *)

OutputTypes == {"function_call_output", "custom_tool_call_output"}
CallKeys == {"tool_calls", "function_call"}
IsCall(p) == Key(p, 1) \in CallKeys \/ (Key(p, 1) = "arguments" /\ p[1].type = "function_call")
IsOutput(p) == Key(p, 1) = "output" /\ p[1].type \in OutputTypes

SanitizeMessage(p) ==
    CASE Key(p, 1) = "content" -> SanitizeContent(p, 2)
      [] IsCall(p) -> SanitizeToolArguments(p, 2)
      [] IsOutput(p) -> SanitizeJson(p, 2, 0)
      [] OTHER -> "miss"

CollectMessageText(p) ==
    CASE Key(p, 1) = "content" -> CollectText(p, 2)
      [] IsCall(p) -> CollectToolArgumentsText(p, 2)
      [] IsOutput(p) -> CollectJsonText(p, 2, 0)
      [] OTHER -> "miss"

DesanitizeToolCalls(p) ==
    CASE IsCall(p) -> DesanitizeToolArguments(p, 2)
      [] IsOutput(p) -> DesanitizeJson(p, 2, 0)
      [] OTHER -> "miss"

\* A choice of a chat completion: content only as a string or a list.
ReverseChoice(p) ==
    IF Key(p, 1) = "content"
    THEN IF IsStr(p, 2) \/ p[2].in = "list" THEN DesanitizeContent(p, 2) ELSE "miss"
    ELSE DesanitizeToolCalls(p)

(* A Responses item: known fields by their own walk, every other field as   *)
(* JSON, identifiers and signed or binary fields not at all.                *)

ResponsesTextFields ==
    {"arguments", "content", "delta", "input", "output", "reasoning", "refusal",
     "summary", "text", "transcript"}
ResponsesStructuralFields ==
    {"type", "id", "call_id", "status", "role", "container_id", "name", "server_label"}
OpaqueItemField(p) ==
    \/ p[1].type = "computer_call_output" /\ Key(p, 1) = "output"
    \/ p[1].type = "image_generation_call" /\ Key(p, 1) = "result"
SkippedField(p) ==
    Key(p, 1) \in JsonOpaqueKeys \cup ResponsesStructuralFields \/ OpaqueItemField(p)

SanitizeResponsesItem(p) ==
    CASE SkippedField(p) -> "miss"
      [] ~SkippedField(p) /\ Key(p, 1) \in CallKeys \cup {"arguments"} -> SanitizeToolArguments(p, 2)
      [] ~SkippedField(p) /\ Key(p, 1) \in {"content", "summary"} -> SanitizeContent(p, 2)
      [] ~SkippedField(p) /\ Key(p, 1) = "output" -> SanitizeJson(p, 2, 0)
      [] OTHER -> CASE IsStr(p, 2) -> "hit"
                    [] IsTree(p, 2) -> SanitizeJson(p, 2, 0)
                    [] p[2].in = "num" /\ Key(p, 1) \in ResponsesTextFields -> "refuse"
                    [] OTHER -> "miss"

CollectResponsesItemText(p) ==
    CASE SkippedField(p) -> "miss"
      [] ~SkippedField(p) /\ Key(p, 1) \in CallKeys \cup {"arguments"} -> CollectToolArgumentsText(p, 2)
      [] ~SkippedField(p) /\ Key(p, 1) \in {"content", "summary"} -> CollectText(p, 2)
      [] ~SkippedField(p) /\ Key(p, 1) = "output" -> CollectJsonText(p, 2, 0)
      [] OTHER -> CASE IsStr(p, 2) -> "hit"
                    [] IsTree(p, 2) -> CollectJsonText(p, 2, 0)
                    [] OTHER -> "miss"

\* The answer's walk goes by field name alone: it enters every dict and list,
\* and a list passes its own field's name on to its items.  An item of the
\* answer stands two levels down, in the list of its "output".
PayloadEnd(p) ==
    CHOOSE j \in 1..Len(p) : ~IsTree(p, j) /\ \A i \in 1..(j - 1) : IsTree(p, i)
PayloadDepth(p) == 2 + (PayloadEnd(p) - 1)
DictsBefore(p, j) == {i \in 1..(j - 1) : p[i].in = "dict"}
PayloadField(p, j) ==
    IF DictsBefore(p, j) = {} THEN "output"
    ELSE Key(p, CHOOSE i \in DictsBefore(p, j) : \A d \in DictsBefore(p, j) : d <= i)

DesanitizeResponsesPayload(p) ==
    LET end == PayloadEnd(p)
        field == PayloadField(p, end)
    IN  CASE \/ PayloadDepth(p) > MaxDepth \/ ~IsStr(p, end)
             \/ \E i \in DictsBefore(p, end) : Key(p, i) \in JsonOpaqueKeys -> "miss"
          [] OTHER -> CASE field = "arguments" -> DesanitizeArguments(p, end)
                        [] field \in ResponsesTextFields \ {"arguments"} -> "hit"
                        [] OTHER -> "miss"

------------------------------------------------------------------------------
(* A text item of a list is the text itself; an item that is neither a text *)
(* nor a dict is left alone.  What shape the request has picks the walker.  *)

Collect(s, p) ==
    CASE IsStr(p, 1) -> "hit"
      [] p[1].in = "dict" -> IF s = "messages" THEN CollectMessageText(p) ELSE CollectResponsesItemText(p)
      [] OTHER -> "miss"
Sanitize(s, p) ==
    CASE IsStr(p, 1) -> "hit"
      [] p[1].in = "dict" -> IF s = "messages" THEN SanitizeMessage(p) ELSE SanitizeResponsesItem(p)
      [] OTHER -> "miss"
Desanitize(s, p) ==
    IF s = "messages" THEN IF p[1].in = "dict" THEN ReverseChoice(p) ELSE "miss"
    ELSE DesanitizeResponsesPayload(p)
==============================================================================
