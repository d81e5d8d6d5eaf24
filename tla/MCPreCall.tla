------------------------------ MODULE MCPreCall ------------------------------
EXTENDS PreCall

Leaf(kind) == [in |-> kind, type |-> "", key |-> "", has |-> FALSE]
Dict(type, key, has) == [in |-> "dict", type |-> type, key |-> key, has |-> has]
List == [in |-> "list", type |-> "", key |-> "", has |-> FALSE]
Json == [in |-> "json", type |-> "", key |-> "", has |-> FALSE]

Leaves == {Leaf("str"), Leaf("num"), Leaf("null")}

\* The field a type's branch asks for.
Field == [t \in {"text"} |-> "text"] @@ [t \in {"refusal"} |-> "refusal"]
         @@ [t \in {"tool_result", "web_search_tool_result"} |-> "content"]
         @@ [t \in {"tool_use"} |-> "input"]

\* Blocks of every branch and of a type nobody has heard of ("novel"), entered
\* at the branch's field, at another one and at the signed ones.
Blocks ==
    {Dict(t, k, h) : t \in DOMAIN Field, k \in {"text", "refusal", "content", "input", "other"},
                     h \in BOOLEAN}
    \cup {Dict("search_result", k, TRUE) : k \in {"title", "content", "other"}}
    \cup {Dict("document", k, TRUE) : k \in {"title", "source", "other"}}
    \cup {Dict("thinking", "other", TRUE)}
    \cup {Dict("novel", k, TRUE) : k \in {"other", "text", "type", "signature", "encrypted_content"}}

\* What stands below a block: a source, another block, a list, a JSON string.
Inner ==
    {Dict("text", "data", TRUE), Dict("content", "content", TRUE), Dict("base64", "data", TRUE),
     Dict("text", "text", TRUE), Dict("novel", "other", TRUE), Dict("novel", "encrypted_content", TRUE),
     Dict("tool_result", "content", TRUE), List, Json}

\* A block entered at its branch's field has that field; a text field counts
\* only when it is a string.
Fits(p) ==
    \A i \in 1..(Len(p) - 1) :
        p[i].in = "dict" /\ p[i].type \in DOMAIN Field /\ p[i].key = Field[p[i].type] =>
            p[i].has = (p[i].type \in {"text", "refusal"} => p[i + 1].in \in {"str", "json"})

Values == {<<l>> : l \in Leaves}
Trees1 ==
    {<<s, l>> : s \in Inner \cup {Dict("novel", "arguments", TRUE), Dict("novel", "type", TRUE)}, l \in Leaves}
Trees2 == {<<s, t, l>> : s \in Inner, t \in Inner, l \in Leaves}
Trees3 == {<<s, t, u, l>> : s \in {List, Json, Dict("novel", "other", TRUE)},
                            t \in {List, Dict("novel", "other", TRUE)},
                            u \in {List, Dict("novel", "other", TRUE), Dict("novel", "text", TRUE)},
                            l \in {Leaf("str")}}
Below == Values \cup Trees1 \cup Trees2 \cup Trees3
\* Trees on both sides of the depth bound, parsed from a string or not.
Deep(n) == [i \in 1..n |-> IF i % 2 = 0 THEN List ELSE Dict("novel", "text", TRUE)] \o <<Leaf("str")>>
Chains == {Deep(n) : n \in 4..8} \cup {<<Json>> \o Deep(n) : n \in 4..8}
          \cup {<<Dict("novel", "arguments", TRUE), Json, Dict("novel", k, TRUE), Leaf("str")>> :
                    k \in {"other", "encrypted_content"}}
Contents ==
    Below \cup {<<b>> \o v : b \in Blocks, v \in Below}
          \cup {<<List, b>> \o v : b \in Blocks, v \in Values \cup Trees1 \cup Trees2}

Roots(s) ==
    IF s = "message"
    THEN {Dict("", "content", TRUE), Dict("", "tool_calls", TRUE), Dict("", "name", TRUE),
          Dict("function_call", "arguments", TRUE), Dict("function_call_output", "output", TRUE)}
    ELSE {Dict("novel", "content", TRUE), Dict("novel", "summary", TRUE), Dict("novel", "input", TRUE),
          Dict("novel", "arguments", TRUE), Dict("novel", "output", TRUE), Dict("novel", "id", TRUE),
          Dict("computer_call_output", "output", TRUE), Dict("novel", "action", TRUE),
          Dict("novel", "encrypted_content", TRUE)}

PathsOf(s) ==
    {p \in {<<r>> \o v : r \in {d \in Roots(s) : d.key \in {"content", "summary"}}, v \in Contents}
           \cup {<<r>> \o v : r \in Roots(s), v \in Below \cup Chains} : Fits(p)}

------------------------------------------------------------------------------
Item(p, text) == [path |-> p, text |-> text]
Absent == [as |-> "absent", items |-> <<>>]
Of(as, items) == [as |-> as, items |-> items]
Body(m, i, s, n) == [messages |-> m, input |-> i, system |-> s, instructions |-> n]
Req(b, call, provider, bearer, more, places) ==
    [body |-> b, callType |-> call, provider |-> provider, bearer |-> bearer,
     extra |-> more, token |-> places]
Cfg(s0, dlp, canaries, bridge, allowed, late, sink) ==
    [stage0 |-> s0, dlp |-> dlp, canaries |-> canaries, bridge |-> bridge,
     allowed |-> allowed, late |-> late, sink |-> sink]

Bearer == <<"data", "request", "headers", "own">>

Str == <<Leaf("str")>>
TextBlock == <<Dict("text", "text", TRUE), Leaf("str")>>
Message == <<Dict("", "content", TRUE), Leaf("str")>>
TooDeep == <<Dict("", "tool_calls", TRUE), Json>> \o Deep(7)
Kinds == {"plain", "pii", "dump", "secret", "canary", "identity"} \cup DOMAIN Raised

\* One item: every path of up to six steps.
OneItem(g, p) ==
    LET items == Of("list", <<Item(p, "pii")>>)
    IN  Req(IF g = "message" THEN Body(items, Absent, Absent, Absent)
            ELSE Body(Absent, items, Absent, Absent),
            IF g = "message" THEN "acompletion" ELSE "aresponses",
            "openai", TRUE, {}, {Bearer})

\* A tool's input and results, a search result, a document with its own blocks,
\* a block type nobody has heard of.
Nested ==
    {<<List, Dict("tool_use", "input", TRUE), Dict("novel", "other", TRUE), Leaf("str")>>,
     <<List, Dict("tool_result", "content", TRUE), List>> \o TextBlock,
     <<List, Dict("tool_result", "content", TRUE), List, Dict("search_result", "content", TRUE), List>>
        \o TextBlock,
     <<List, Dict("web_search_tool_result", "content", TRUE), List, Dict("novel", "other", TRUE), Leaf("str")>>,
     <<Dict("document", "source", TRUE), Dict("text", "data", TRUE), Leaf("str")>>,
     <<List, Dict("document", "source", TRUE), Dict("content", "content", TRUE), List>> \o TextBlock,
     <<List, Dict("novel", "other", TRUE), List, Leaf("str")>>}

\* Two items and the prompt fields, of every kind.
Lists ==
    {Of("list", <<Item(Message, a), Item(Str, b)>>) : a \in {"plain", "pii", "stale"}, b \in Kinds}
    \cup {Of("list", <<Item(<<Dict("", "content", TRUE)>> \o n, a)>>) : n \in Nested, a \in Kinds}
    \cup {Of("list", <<Item(TooDeep, "pii")>>), Of("list", <<>>), Of("null", <<>>), Of("bad", <<>>),
          Of("list", <<Item(Message, "identity")>>), Of("list", <<Item(<<Leaf("num")>>, "plain")>>),
          Of("list", <<Item(<<List, Dict("novel", "other", TRUE), Leaf("str")>>, "pii")>>)}
Inputs ==
    Lists \cup {Of("string", <<Item(Str, a)>>) : a \in Kinds}
    \cup {Of("list", <<Item(<<List, Leaf("str")>>, a)>>) : a \in Kinds}
    \cup {Of("list", <<Item(<<Leaf("num")>>, "plain")>>)}
Systems ==
    {Absent} \cup {Of("string", <<Item(Str, a)>>) : a \in Kinds}
    \cup {Of("list", <<Item(TextBlock, a), Item(TextBlock, b)>>) :
              a \in {"billing", "plain", "identity"}, b \in {"identity", "pii", "down"}}
    \cup {Of("list", <<Item(Str, "billing"), Item(TextBlock, "identity")>>),
          Of("list", <<Item(<<Dict("novel", "other", TRUE), Leaf("str")>>, "pii"), Item(Str, "pii")>>),
          Of("dict", <<Item(TextBlock, "identity")>>)}

\* The shape is decided by the fields that are there; the rest is varied one
\* field at a time.
Ask(b, call) == Req(b, call, "openai", TRUE, {"metadata"}, {Bearer})
BodyRequests ==
    {Ask(Body(m, Absent, Absent, Absent), "acompletion") : m \in Lists}
    \cup {Ask(Body(Absent, i, Absent, Absent), c) : i \in Inputs, c \in {"aresponses", "aembedding"}}
    \cup {Ask(Body(m, i, Absent, Absent), "acompletion") :
              m \in {Of("null", <<>>), Of("list", <<>>)}, i \in {Of("string", <<Item(Str, "pii")>>)}}
    \cup {Ask(Body(Absent, Absent, s, n), "acompletion") :
              s \in Systems, n \in {Absent, Of("string", <<Item(Str, "pii")>>),
                                    Of("string", <<Item(Str, "identity")>>)}}

\* The bridges and the token's places.
Good == Body(Of("list", <<Item(Message, "pii")>>), Absent,
             Of("list", <<Item(TextBlock, "billing"), Item(TextBlock, "identity")>>), Absent)
Prompted == {Body(Absent, Absent, s, Absent) : s \in Systems}
BridgeRequests ==
    {Req(b, "acompletion", p, bearer, {"metadata", "user"}, TokenPlaces) :
        b \in {Good} \cup Prompted, p \in {"openai", "anthropic"}, bearer \in BOOLEAN}
    \cup {Req(Good, "acompletion", "openai", TRUE, {}, {Bearer, place}) : place \in Places}
    \cup {Req(Good, "acompletion", "openai", TRUE, {}, {place}) : place \in AuthPlaces}
    \cup {Req(Good, "acompletion", "openai", TRUE, {}, {})}

Both == {"openai", "anthropic"}
MCConfigs ==
    {Cfg(s0, dlp, c, "none", Both, FALSE, "up") : s0 \in BOOLEAN, dlp \in BOOLEAN, c \in BOOLEAN}
    \cup {Cfg(TRUE, TRUE, FALSE, b, a, FALSE, s) :
              b \in {"chatgpt", "anthropic"}, a \in {Both, {"anthropic"}}, s \in {"up", "once", "down"}}
    \cup {Cfg(TRUE, TRUE, FALSE, "none", Both, TRUE, "up")}

\* Every path under the shipped configuration; the small bodies under all.
MCRequestsOf(g) ==
    CASE g = "bodies" -> BodyRequests
      [] g = "bridges" -> BridgeRequests
      [] OTHER -> {OneItem(g, p) : p \in PathsOf(g)}
MCSettingsOf(g) ==
    IF g \in {"bodies", "bridges"} THEN MCConfigs
    ELSE {Cfg(TRUE, TRUE, FALSE, "none", Both, FALSE, "up")}
==============================================================================
