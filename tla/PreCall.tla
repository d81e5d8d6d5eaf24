------------------------------- MODULE PreCall -------------------------------
(***************************************************************************)
(* CorpLlmGuardrail.pre_call (litellm_hook.py): one request's way through  *)
(* the stages that stand between a client and a provider, up to the        *)
(* provider's answer.  The stages run in one task; what other requests and *)
(* the client's leaving do to the audit record is GuardrailAudit.          *)
(*                                                                         *)
(* A body field is [as, items]: "as" says what JSON value it is, "items"   *)
(* the texts in it, each a path of ContentBlocks with the kind of its      *)
(* text.  Kinds: "plain" has nothing to hide, "pii" is found by a detector,*)
(* "identity" is a client identity preamble that a rule would rewrite,     *)
(* "dump" a config or log dump, "secret" and "canary" what only the egress *)
(* guard knows, and the keys of Raised what makes the sanitizer raise.     *)
(* Left out: the output-token clamp, the wire headers and the response     *)
(* mapping, which no stage below reads.                                    *)
(***************************************************************************)
EXTENDS ContentBlocks, SequencesExt

CONSTANTS
    Groups,         \* groups of requests, each with the settings it meets:
    RequestsOf(_),  \* [body, callType, provider, bearer, extra, token]
    SettingsOf(_)   \* [stage0, dlp, canaries, bridge, allowed, late, sink]

VARIABLES
    req, cfg,
    stage,          \* where the pre-call stands
    at,             \* the item the message loop is at
    data,           \* the request body, rewritten in place
    body,           \* litellm's proxy_server_request.body snapshot
    logged,         \* the items litellm's logging object was given
    kept,           \* the client's metadata and user, <<where, field>>
    token,          \* the places that hold the corp token
    state,          \* _req_state has the request
    seen,           \* the items Stage 0 was shown
    answer,         \* the error code of the refusal, or "none"
    record,         \* the audit record: "none", "unknown" or the "user"'s
    failures        \* gateway_failure counted

content == <<data, body, logged, kept, token, seen>>
outcome == <<state, answer, record, failures>>
vars == <<req, cfg, stage, at, content, outcome>>

Fields == {"messages", "input", "system", "instructions"}
Prompts == {"system", "instructions"}

\* What a text makes the sanitizer raise, and the code it is answered with.
Raised ==
    [oversize |-> "E_OVERSIZE_BLOCKED", down |-> "E_CORP_LLM_DOWN",
     ner |-> "E_NER_UNAVAILABLE", contract |-> "E_DETECTOR_CONTRACT",
     stale |-> "E_SPAN_INVALID", crash |-> "E_INTERNAL"]
Texts ==
    {"plain", "pii", "identity", "billing", "dump", "secret", "canary", "placeholder", "restored"}
        \cup DOMAIN Raised

\* What a request may hold.  A field that is absent or null has no items, one
\* that is a string is one text; a placeholder is made by the gateway alone.
Steps ==
    [in : {"dict", "list", "json", "str", "num", "null"}, type : STRING, key : STRING, has : BOOLEAN]
Items == [path : Seq(Steps), text : Texts]
Bodies == [Fields -> [as : {"absent", "null", "string", "list", "dict", "bad"}, items : Seq(Items)]]
FieldFits(field) ==
    /\ field.as \in {"absent", "null"} => field.items = <<>>
    /\ field.as = "string" => \A i \in 1..Len(field.items) : field.items[i].path[1].in \in {"str", "json"}
    /\ \A i \in 1..Len(field.items) :
           /\ WellFormed(field.items[i].path)
           /\ field.items[i].text \notin {"placeholder", "restored"}

------------------------------------------------------------------------------
(* The corp token.  A place is <<holder, side, bucket, copy>>: the holder is *)
(* the request itself, its litellm_params, the logging object's details or  *)
(* one of the litellm_params of that object; "body" is the side of the      *)
(* holder's proxy_server_request.body; a metadata bucket has the headers    *)
(* themselves and litellm's requester_metadata copy of them.                *)

Metadata == {"metadata", "litellm_metadata"}
Holders == {"data", "params", "details", "details_params", "logged_params"}
Places ==
    Holders \X {"request", "body"} \X ({"headers", "secret_fields", "proxy"} \cup Metadata)
        \X {"own", "requester"}

AuthPlaces ==
    ({"data"} \X {"request"} \X ({"headers", "secret_fields", "proxy"} \cup Metadata) \X {"own"})
        \cup ({"params"} \X {"request"} \X {"proxy", "metadata"} \X {"own"})

\* litellm, before it calls the hook: the headers go into the request and its
\* metadata, the metadata is copied into itself and into the body snapshot, and
\* the request into its litellm_params and the logging object.
Deepcopied(S) == S \cup {<<x[1], x[2], x[3], "requester">> : x \in {y \in S : y[3] \in Metadata}}
Snapshot(S) == S \cup {<<x[1], "body", x[3], x[4]>> : x \in {y \in S : y[3] \in Metadata}}
Shared(S) ==
    S \cup {<<"details", x[2], x[3], x[4]>> : x \in S}
      \cup UNION {{<<h, x[2], x[3], x[4]>> : x \in {y \in S : y[3] \in Metadata \cup {"proxy"}}} :
                     h \in {"params", "details_params", "logged_params"}}
TokenPlaces ==
    Shared(Snapshot(Deepcopied(
        {"data"} \X {"request"} \X ({"headers", "secret_fields", "proxy"} \cup Metadata) \X {"own"})))

\* What the strip goes through.
DropFromMetadata(h, side) == {h} \X {side} \X Metadata \X {"own", "requester"}
DropFromRequest(h) ==
    DropFromMetadata(h, "request") \cup {<<h, "request", "proxy", "own">>} \cup DropFromMetadata(h, "body")
StripEverywhere(h, params) ==
    {<<h, "request", "headers", "own">>, <<h, "request", "secret_fields", "own">>}
        \cup DropFromRequest(h) \cup DropFromRequest(params)
StripLoggingObj == StripEverywhere("details", "details_params") \cup DropFromRequest("logged_params")
StripPlaces == StripEverywhere("data", "params") \cup StripLoggingObj

\* Where litellm keeps the client's metadata and user when the hook runs.
ExtraHolders == Holders \cup {"body"}

ASSUME RequestAssumption ==
    /\ MaxDepth \in Nat
    /\ \A g \in Groups : \A r \in RequestsOf(g) :
           /\ r.body \in Bodies /\ \A f \in Fields : FieldFits(r.body[f])
           /\ r.extra \subseteq {"metadata", "user"} /\ r.token \subseteq Places

------------------------------------------------------------------------------
(* The shape of the request.                                                *)

NonChatInputCallTypes == {"aembedding", "amoderation", "aspeech", "pass_through_endpoint"}

RequestShape(d) ==
    CASE d.messages.as # "absent" -> "messages"
      [] d.messages.as = "absent" /\ req.callType \in NonChatInputCallTypes -> "unmanaged"
      [] d.messages.as = "absent" /\ d.input.as = "absent"
            /\ req.callType \notin NonChatInputCallTypes -> "messages"
      [] OTHER -> CASE d.input.as = "null" -> "unmanaged"
                    [] d.input.as = "string" -> "input_string"
                    [] OTHER -> "input_list"

Shape == RequestShape(req.body)
Managed == IF Shape = "messages" THEN "messages" ELSE "input"

\* The items of the loop: none of an unmanaged input.
RequestItems(d) == IF Shape = "unmanaged" THEN <<>> ELSE d[Managed].items
NotAList == Shape # "unmanaged" /\ req.body[Managed].as = "bad"

ContentStep == [in |-> "dict", type |-> "", key |-> "content", has |-> TRUE]
ItemPath(it) == IF Shape = "input_string" THEN <<ContentStep>> \o it.path ELSE it.path
ListStep == [in |-> "list", type |-> "", key |-> "", has |-> FALSE]
PromptPath(field, it) == IF field.as = "list" THEN <<ListStep>> \o it.path ELSE it.path

\* The texts of d a scan is shown: items, prompt fields, and an input that is
\* never rewritten.
ShownItems(d) ==
    {i \in 1..Len(RequestItems(d)) : Collect(Shape, ItemPath(RequestItems(d)[i])) = "hit"}
UnmanagedTexts(d) ==
    IF Shape = "unmanaged" /\ d.input.as # "absent"
    THEN {it.text : it \in {x \in ToSet(d.input.items) : CollectJsonText(x.path, 1, 0) = "hit"}}
    ELSE {}
PromptTexts(d) ==
    UNION {{it.text : it \in {x \in ToSet(d[f].items) : CollectText(PromptPath(d[f], x), 1) = "hit"}} :
               f \in Prompts}
ShownTexts(d) ==
    {RequestItems(d)[i].text : i \in ShownItems(d)} \cup UnmanagedTexts(d) \cup PromptTexts(d)

------------------------------------------------------------------------------
(* Answers.                                                                 *)

Goto(next) == stage' = next

\* _record_failure, the inline audit() and the raise.  A sink that fails turns
\* the answer into the safety net's, which writes the record again and counts
\* nothing twice; a record that lands takes the request's state with it.
Refuse(code, known) ==
    /\ Goto("refused")
    /\ answer' = IF cfg.sink = "up" THEN code ELSE "E_INTERNAL"
    /\ record' = IF cfg.sink = "down" THEN "none" ELSE IF known THEN "user" ELSE "unknown"
    /\ state' = (known /\ cfg.sink = "down")
    /\ failures' = failures + 1

\* An exception no branch maps: the safety net's audit() is the only attempt.
Crash(known) ==
    /\ Goto("refused")
    /\ answer' = "E_INTERNAL"
    /\ record' = IF cfg.sink # "up" THEN "none" ELSE IF known THEN "user" ELSE "unknown"
    /\ state' = (known /\ cfg.sink # "up")
    /\ failures' = failures + 1

\* What the sanitizer's verdict and the text's kind raise: "none" for nothing.
ErrorOf(verdict, text) ==
    CASE verdict \in {"deep", "refuse"} -> "E_BAD_REQUEST"
      [] verdict = "hit" /\ text \in DOMAIN Raised -> Raised[text]
      [] OTHER -> "none"

\* A raise inside the sanitizer, once the state is registered.
FailClosed(code) == IF code = "E_INTERNAL" THEN Crash(TRUE) ELSE Refuse(code, TRUE)

\* What sanitize_one leaves of a text.
SanitizeOne(text) == IF text \in {"pii", "identity"} THEN "placeholder" ELSE text
Rewritten(it, verdict) == [it EXCEPT !.text = IF verdict = "hit" THEN SanitizeOne(@) ELSE @]

------------------------------------------------------------------------------
Init ==
    /\ \E g \in Groups : req \in RequestsOf(g) /\ cfg \in SettingsOf(g)
    /\ stage = "entry" /\ at = 1
    /\ data = req.body /\ body = req.body
    /\ logged = RequestItems(req.body)
    /\ kept = ExtraHolders \X req.extra
    /\ token = req.token
    /\ seen = {} /\ state = FALSE
    /\ answer = "none" /\ record = "none" /\ failures = 0

\* The token is read, then removed before anything can refuse; a request whose
\* client has already left is turned away with nothing bound.
Enter ==
    /\ stage = "entry"
    /\ token' = token \ StripPlaces
    /\ IF cfg.late
       THEN /\ Goto("refused") /\ answer' = "E_CLIENT_DISCONNECTED"
            /\ failures' = failures + 1 /\ UNCHANGED <<state, record>>
       ELSE Goto("auth") /\ UNCHANGED outcome
    /\ UNCHANGED <<req, cfg, at, data, body, logged, kept, seen>>

AuthErrors == {"E_TOKEN_EXPIRED", "E_TOKEN_REVOKED", "E_TOKEN_INVALID", "E_STORE_UNAVAILABLE"}

Authenticate ==
    /\ stage = "auth"
    /\ LET inbound == req.token \cap AuthPlaces # {}
       IN  \/ ~inbound /\ Refuse("E_MISSING_TOKEN", FALSE)
           \/ inbound /\ \E code \in AuthErrors : Refuse(code, FALSE)
           \/ inbound /\ Crash(FALSE)
           \/ inbound /\ Goto("bridge") /\ UNCHANGED outcome
    /\ UNCHANGED <<req, cfg, at, content>>

\* The ChatGPT bridge takes every request, the Anthropic one its own provider's.
Bridged ==
    \/ cfg.bridge = "chatgpt"
    \/ cfg.bridge = "anthropic" /\ req.provider = "anthropic"

\* The metadata, and on Anthropic's the user, come off the request, and both off
\* model_call_details and its litellm_params; the body snapshot keeps them.
Scrubbed ==
    ({"data"} \X (IF cfg.bridge = "chatgpt" THEN {"metadata"} ELSE {"metadata", "user"}))
        \cup ({"details", "details_params"} \X {"metadata", "user"})

Bridge ==
    /\ stage = "bridge"
    /\ IF Bridged /\ ~req.bearer
       THEN Refuse("E_PROVIDER_AUTH", TRUE) /\ UNCHANGED kept
       ELSE /\ Goto("shape") /\ UNCHANGED outcome
            /\ kept' = IF Bridged THEN kept \ Scrubbed ELSE kept
    /\ UNCHANGED <<req, cfg, at, data, body, logged, token, seen>>

\* Items that are no list are refused before the state is there, a body with
\* both fields after.
CheckShape ==
    /\ stage = "shape"
    /\ CASE NotAList -> Refuse("E_BAD_REQUEST", FALSE)
         [] ~NotAList /\ req.body.messages.as # "absent" /\ req.body.input.as # "absent" ->
                Refuse("E_POLICY_BLOCKED", TRUE)
         [] OTHER -> Goto("profile") /\ state' = TRUE /\ UNCHANGED <<answer, record, failures>>
    /\ UNCHANGED <<req, cfg, at, content>>

ResolveProfile ==
    /\ stage = "profile"
    /\ \/ Refuse("E_PROFILE_UNAVAILABLE", TRUE)
       \/ req.provider \notin cfg.allowed /\ Refuse("E_PROVIDER_BLOCKED", TRUE)
       \/ req.provider \in cfg.allowed /\ Goto("stage0") /\ UNCHANGED outcome
    /\ UNCHANGED <<req, cfg, at, content>>

\* Stage 0, forced on by the flag or by the policy: the size of an input that
\* is not rewritten, then the classifier over all the texts.
Stage0 ==
    /\ stage = "stage0"
    /\ CASE cfg.stage0 /\ "oversize" \in UnmanagedTexts(data) -> Refuse("E_OVERSIZE_BLOCKED", TRUE)
         [] cfg.stage0 /\ "oversize" \notin UnmanagedTexts(data) /\ "dump" \in ShownTexts(data) ->
                Refuse("E_POLICY_BLOCKED", TRUE)
         [] OTHER -> Goto("items") /\ UNCHANGED outcome
    /\ seen' = IF cfg.stage0 THEN ShownItems(data) ELSE seen
    /\ UNCHANGED <<req, cfg, at, data, body, logged, kept, token>>

\* One round of the message loop: a raise refuses the request with the items
\* before it rewritten and the rest as they came.
RewriteItem ==
    /\ stage = "items" /\ at <= Len(RequestItems(data))
    /\ LET it == RequestItems(data)[at]
           verdict == Sanitize(Shape, ItemPath(it))
           code == ErrorOf(verdict, it.text)
       IN  IF code # "none" THEN FailClosed(code) /\ UNCHANGED <<at, data>>
           ELSE /\ data' = [data EXCEPT ![Managed].items[at] = Rewritten(it, verdict)]
                /\ at' = at + 1
                /\ UNCHANGED <<stage, outcome>>
    /\ UNCHANGED <<req, cfg, body, logged, kept, token, seen>>

\* The identity block: the first one that is no billing marker, in a list of
\* text blocks or alone in a string.
IsText(field, it) ==
    \/ field.as = "string"
    \/ /\ field.as = "list" /\ it.path[1].in = "dict" /\ it.path[1].has
       /\ it.path[1].type = "text" /\ it.path[1].key = "text"
LeadingIdentity(field) ==
    {i \in 1..Len(field.items) :
        /\ field.items[i].text = "identity"
        /\ \A j \in 1..i : IsText(field, field.items[j])
        /\ \A j \in 1..(i - 1) : field.items[j].text = "billing"}
Exempt(f, field) ==
    IF cfg.bridge = "anthropic" /\ req.provider = "anthropic" /\ f = "system"
    THEN LeadingIdentity(field) ELSE {}

RewrittenPrompt(f, field) ==
    [i \in 1..Len(field.items) |->
        IF i \in Exempt(f, field) THEN field.items[i]
        ELSE Rewritten(field.items[i], SanitizeContent(PromptPath(field, field.items[i]), 1))]
PromptError(f, field) ==
    LET code(i) == ErrorOf(SanitizeContent(PromptPath(field, field.items[i]), 1), field.items[i].text)
        bad == {i \in 1..Len(field.items) : i \notin Exempt(f, field) /\ code(i) # "none"}
    IN  IF bad = {} THEN "none" ELSE code(CHOOSE i \in bad : \A j \in bad : i <= j)

\* A field is replaced as a whole or not at all.
RewritePrompt(f, now, next) ==
    /\ stage = now
    /\ LET code == PromptError(f, data[f])
       IN  IF code # "none" THEN FailClosed(code) /\ UNCHANGED data
           ELSE /\ data' = [data EXCEPT ![f].items = RewrittenPrompt(f, data[f])]
                /\ Goto(next) /\ UNCHANGED outcome
    /\ UNCHANGED <<req, cfg, at, body, logged, kept, token, seen>>

StoreItems ==
    /\ stage = "items" /\ at > Len(RequestItems(data)) /\ Goto("system")
    /\ UNCHANGED <<req, cfg, at, content, outcome>>

\* Mutant: the request-body snapshot keeps what litellm took before the hook.
RefreshSnapshotsLogOnly ==
    /\ stage = "refresh"
    /\ logged' = IF Shape = "unmanaged" THEN logged ELSE RequestItems(data)
    /\ Goto("stage5") /\ UNCHANGED <<req, cfg, at, data, body, kept, token, seen, outcome>>

\* _refresh_logging_snapshot and _refresh_request_body_snapshot.
RefreshSnapshots ==
    /\ stage = "refresh"
    /\ logged' = IF Shape = "unmanaged" THEN logged ELSE RequestItems(data)
    /\ body' = [f \in Fields |-> IF body[f].as # "absent" THEN data[f] ELSE body[f]]
    /\ Goto("stage5") /\ UNCHANGED <<req, cfg, at, data, kept, token, seen, outcome>>

\* Stage 5 over the rewritten request; a policy's canaries force it on.
Stage5 ==
    /\ stage = "stage5"
    /\ LET on == cfg.dlp \/ cfg.canaries
           hit == "secret" \in ShownTexts(data) \/ (cfg.canaries /\ "canary" \in ShownTexts(data))
       IN  CASE on /\ "oversize" \in UnmanagedTexts(data) -> Refuse("E_OVERSIZE_BLOCKED", TRUE)
             [] on /\ "oversize" \notin UnmanagedTexts(data) /\ hit -> Refuse("E_DLP_BLOCKED", TRUE)
             [] OTHER -> Goto("forwarded") /\ UNCHANGED outcome
    /\ UNCHANGED <<req, cfg, at, content>>

\* The provider repeats every item where it was sent, and the answer's walk
\* puts the originals back.
Answer ==
    /\ stage = "forwarded" /\ Goto("answered")
    /\ data' = IF Shape = "unmanaged" THEN data
               ELSE [data EXCEPT ![Managed].items = [i \in 1..Len(@) |->
                        IF @[i].text = "placeholder" /\ Desanitize(Shape, ItemPath(@[i])) = "hit"
                        THEN [@[i] EXCEPT !.text = "restored"] ELSE @[i]]]
    /\ UNCHANGED <<req, cfg, at, body, logged, kept, token, seen, outcome>>

Next ==
    \/ Enter \/ Authenticate \/ Bridge \/ CheckShape \/ ResolveProfile \/ Stage0
    \/ RewriteItem \/ StoreItems
    \/ RewritePrompt("system", "system", "instructions")
    \/ RewritePrompt("instructions", "instructions", "refresh")
    \/ RefreshSnapshots \/ Stage5 \/ Answer

Spec == Init /\ [][Next]_vars
------------------------------------------------------------------------------
\* Stage 0 is shown every text that the loop rewrites: the read-only walk goes
\* wherever the rewriting walk goes, so no text is replaced that the payload
\* classifier never saw (_collect_block_text mirrors _sanitize_block).
PreScanSees ==
    cfg.stage0 => \A i \in 1..Len(RequestItems(data)) :
                      RequestItems(data)[i].text = "placeholder" => i \in seen

\* A block whose type has a branch of its own, and the fields that branch goes
\* into: the text, a tool's input, a result's content, what a search result or a
\* document has of either.
NamedBlock(step) ==
    \/ step.type \in OpaqueBlockTypes \cup {"search_result", "document"}
    \/ step.has /\ step.type \in DOMAIN TextBlockField \cup ToolUseBlockTypes
                                     \cup JsonResultBlockTypes \cup {"tool_result"}
SourceDict(p, k) == Key(p, k) = "source" /\ p[k + 1].in = "dict"
OwnField(p, k) ==
    \/ p[k].type \in DOMAIN TextBlockField /\ Key(p, k) = TextBlockField[p[k].type]
    \/ p[k].type \in ToolUseBlockTypes /\ Key(p, k) = "input"
    \/ p[k].type \in JsonResultBlockTypes \cup {"tool_result", "search_result"} /\ Key(p, k) = "content"
    \/ p[k].type = "search_result" /\ FieldText(p, k, {"title"})
    \/ p[k].type = "document" /\ (FieldText(p, k, {"title", "context"}) \/ SourceDict(p, k))

\* What step k of a path of field f is to a reader of the API, the step above it
\* being what "above" says: an item of the request, a content (a text, a block or
\* a list of blocks), a block of such a list, the source of a document, or any
\* other value.
IsBlock(p, k, role) == p[k].in = "dict" /\ role \in {"content", "block"}
RoleOf(f, p, k, above) ==
    CASE k = 1 -> IF f \in Prompts THEN "content" ELSE "item"
      [] k > 1 /\ above = "item" ->
            IF p[1].in = "dict" /\ Key(p, 1) \in {"content", "summary"} THEN "content" ELSE "value"
      [] k > 1 /\ above = "content" /\ p[k - 1].in = "list" -> "block"
      [] k > 1 /\ IsBlock(p, k - 1, above) ->
            CASE p[k - 1].type = "document" /\ SourceDict(p, k - 1) -> "source"
              [] /\ Key(p, k - 1) = "content"
                 /\ p[k - 1].type = "search_result" \/ (p[k - 1].type = "tool_result" /\ p[k - 1].has) -> "content"
              [] OTHER -> "value"
      [] k > 1 /\ above = "source" ->
            IF p[k - 1].type = "content" /\ Key(p, k - 1) = "content"
            THEN "content" ELSE "value"
      [] OTHER -> "value"
Roles(f, p) ==
    LET role[k \in 1..Len(p)] == RoleOf(f, p, k, IF k = 1 THEN "item" ELSE role[k - 1]) IN role

\* Step k of path p of field f names a reason to leave the text below it alone:
\* a signed field; a field of a known block that is not its branch's, and the
\* type or signature of any other block; an item of a content list that is no
\* block; a document's source that is a file or a link; an item of the request
\* that is no text and no dict; an identifier.
LeftAlone(f, p, k, role) ==
    \/ p[k].in = "dict" /\ p[k].key = "encrypted_content"
    \/ IsBlock(p, k, role) /\ NamedBlock(p[k]) /\ ~OwnField(p, k)
    \/ IsBlock(p, k, role) /\ ~NamedBlock(p[k]) /\ p[k].key \in {"type", "signature"}
    \/ role = "content" /\ p[k].in = "list" /\ p[k + 1].in # "dict"
    \/ role = "source" /\ ~(\/ p[k].type = "text" /\ FieldText(p, k, {"data"})
                            \/ p[k].type = "content" /\ Key(p, k) = "content")
    \/ k = 1 /\ f \notin Prompts /\ p[k].in = "list"
    \/ k = 1 /\ f = "messages" /\ p[k].in = "dict" /\ Key(p, 1) # "content" /\ ~IsCall(p) /\ ~IsOutput(p)
    \/ k = 1 /\ f = "input" /\ p[k].in = "dict" /\ SkippedField(p)

\* The way to the text of an item of field f.
PathOf(f, it) == IF f \in Prompts THEN PromptPath(data[f], it) ELSE ItemPath(it)

\* A string leaf of field f that nothing on its way excuses from the scans.
Loose(f, it) ==
    LET p == PathOf(f, it)
        roles == Roles(f, p)
    IN  p[Len(p)].in = "str" /\ \A k \in 1..(Len(p) - 1) : ~LeftAlone(f, p, k, roles[k])

\* The fields the request's shape has rewritten, and the texts of an input it
\* only has scanned.
Rewrites == Prompts \cup (IF Shape = "unmanaged" THEN {} ELSE {Managed})
LooseTexts ==
    UNION {{it.text : it \in {x \in ToSet(data[f].items) : Loose(f, x)}} : f \in Rewrites}
RawTexts ==
    IF Shape # "unmanaged" THEN {}
    ELSE {it.text : it \in {x \in ToSet(data.input.items) :
            /\ x.path[Len(x.path)].in = "str" /\ Len(x.path) - 1 <= MaxDepth
            /\ \A k \in 1..(Len(x.path) - 1) :
                   x.path[k].in = "dict" => x.path[k].key # "encrypted_content"}}

\* A text goes out as it came only for a reason LeftAlone names: in a tool's input
\* or result, a document, a block type or a field nobody has heard of everything
\* else is rewritten, or the request is refused; an identity preamble is spared only at the head of "system", on
\* a request the Anthropic bridge takes.
UnknownIsScanned ==
    stage = "forwarded" =>
        /\ "pii" \notin LooseTexts
        /\ \A f \in Rewrites : \A i \in 1..Len(data[f].items) :
            data[f].items[i].text = "identity" /\ Loose(f, data[f].items[i]) =>
                /\ f = "system" /\ cfg.bridge = "anthropic" /\ req.provider = "anthropic"
                /\ \A j \in 1..(i - 1) : data[f].items[j].text = "billing"

\* Every text of a request is looked at: what the loop rewrites the classifier
\* saw before, and what goes out as it came is exempt for a reason LeftAlone
\* names (_collect_block_text, _sanitize_block, sanitize_content).
EveryTextScanned == PreScanSees /\ UnknownIsScanned

\* What a guard that is on was there to stop has not gone out, in whichever
\* field and shape it came but for those of LeftAlone: a dump, a secret or a
\* canary, a text that the sanitizer failed on, an unbounded input; and never two
\* bodies in one.
GuardsHold ==
    stage = "forwarded" =>
        /\ LooseTexts \cap DOMAIN Raised = {}
        /\ cfg.stage0 => "dump" \notin LooseTexts \cup RawTexts
        /\ cfg.dlp \/ cfg.canaries => "secret" \notin LooseTexts \cup RawTexts
        /\ cfg.canaries => "canary" \notin LooseTexts \cup RawTexts
        /\ cfg.stage0 \/ cfg.dlp => "oversize" \notin RawTexts
        /\ data.messages.as = "absent" \/ data.input.as = "absent"

\* What the pre-call takes out survives in no copy that litellm made of it and
\* that a provider or a log event is given: the corp token in none of litellm's
\* copies from the first step on; a bridged request's metadata neither in what
\* is sent nor in model_call_details (where an Anthropic request has no user
\* either); the originals of the four rewritten fields neither in the body
\* snapshot nor in the logged items, from the moment a refusal or the call may
\* show them.  Of metadata and user this says nothing about the body snapshot:
\* there a request that is refused after its bridge still has them.
NoCopyKept ==
    /\ stage # "entry" => token \cap TokenPlaces = {}
    /\ Bridged /\ stage \in {"stage5", "forwarded"} =>
        /\ \A h \in {"data", "details", "details_params"} : <<h, "metadata">> \notin kept
        /\ cfg.bridge = "anthropic" => \A h \in {"data", "details", "details_params"} : <<h, "user">> \notin kept
    /\ stage \in {"stage5", "forwarded"} \/ answer = "E_DLP_BLOCKED" =>
        /\ \A f \in Fields : body[f].as # "absent" => body[f] = data[f]
        /\ Shape # "unmanaged" => logged = RequestItems(data)

\* The field a string stands in: the key of the last dict around it.
FieldOf(p) ==
    LET text1 == CHOOSE i \in 1..Len(p) : IsStr(p, i) /\ \A j \in 1..(i - 1) : ~IsStr(p, j)
        dicts == {i \in 1..text1 : p[i].in = "dict"}
    IN  p[CHOOSE i \in dicts : \A j \in dicts : j =< i].key
Signed(p) == \E k \in 1..Len(p) : p[k].in = "dict" /\ p[k].key = "encrypted_content"

\* What was rewritten comes back as it was typed when the provider repeats it:
\* everywhere in a chat message whose content is a text or a list, and in a
\* Responses item in every field the answer's walk knows, down to the depth it
\* reaches from the top of the answer, but for a signed value in a JSON string
\* that was rewritten as a whole and is taken apart on the way back.
EchoRestored ==
    stage = "answered" =>
        \A it \in ToSet(RequestItems(data)) :
            LET p == ItemPath(it)
            IN  it.text = "placeholder" /\ p[Len(p)].in = "str" /\ p[1].in = "dict" =>
                    IF Shape = "messages" THEN Key(p, 1) = "content" /\ p[2].in = "dict"
                    ELSE \/ FieldOf(p) \notin ResponsesTextFields
                         \/ Len(p) + 1 > MaxDepth
                         \/ FieldOf(p) = "arguments" /\ Signed(p)
==============================================================================
