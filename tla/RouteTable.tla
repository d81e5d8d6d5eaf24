----------------------------- MODULE RouteTable -----------------------------
(***************************************************************************)
(* The route gate's tables and how a request is judged by them             *)
(* (route_gate/table.py, route_gate/classify.py).  The tables hold over    *)
(* nine hundred rows; the few below are taken from them so that every      *)
(* verdict, every way two rows can meet on one path, and a path no table   *)
(* knows occur.  What the other rows say is data and is not modelled.      *)
(***************************************************************************)
EXTENDS Naturals, Sequences

Methods == {"GET", "HEAD", "POST", "OPTIONS", "DELETE"}   \* of HTTP_METHODS
Verdicts == {"rewritten", "passthrough", "refuse"}
None == "none"

------------------------------------------------------------------------------
(* LITELLM_ROUTE_TABLE, by method: the paths that are spelled out.          *)

LitellmGet ==
    [path \in {"/models", "/health/readiness", "/health/drain"} |->
        IF path = "/health/drain" THEN "refuse" ELSE "passthrough"]

LitellmPost ==
    [path \in {"/v1/messages", "/v1/moderations", "/v1/responses"} |->
        IF path = "/v1/moderations" THEN "refuse" ELSE "rewritten"]

LitellmOther ==
    [key \in {<<"OPTIONS", "/health/readiness">>, <<"DELETE", "/mcp">>} |->
        IF key[1] = "DELETE" THEN "refuse" ELSE "passthrough"]

GatewayRouteTable ==
    [key \in {<<"GET", "/healthz/ready">>, <<"GET", "/metrics">>,
              <<"POST", "/internal/issue-token">>} |-> "passthrough"]

\* LITELLM_REGEX_TABLE: the paths a row's pattern matches.  {model:path} spans
\* segments, so that the later engines row matches the chat path as well, and
\* the openai catch-all the stored response.
LitellmRegexTable == <<
    [method |-> "GET",  matches |-> {"/openai/v1/responses/r1"}, verdict |-> "passthrough"],
    [method |-> "POST", matches |-> {"/engines/m/chat/completions"}, verdict |-> "rewritten"],
    [method |-> "POST", matches |-> {"/engines/m/chat/completions", "/engines/m/completions"},
                        verdict |-> "refuse"],
    [method |-> "GET",  matches |-> {"/openai/v1/responses/r1", "/openai/any"},
                        verdict |-> "refuse"] >>

At(table, key) == IF key \in DOMAIN table THEN table[key] ELSE None

Exact(method, path) ==
    LET own == CASE method = "GET"  -> At(LitellmGet, path)
                 [] method = "POST" -> At(LitellmPost, path)
                 [] OTHER           -> At(LitellmOther, <<method, path>>)
    IN  IF own # None THEN own ELSE At(GatewayRouteTable, <<method, path>>)

\* The exact tables, then the first row of the regex table that matches.
Lookup(method, path) ==
    LET rows  == {i \in DOMAIN LitellmRegexTable :
                     /\ LitellmRegexTable[i].method = method
                     /\ path \in LitellmRegexTable[i].matches}
        first == CHOOSE i \in rows : \A j \in rows : i <= j
    IN  IF Exact(method, path) # None THEN Exact(method, path)
        ELSE IF rows = {} THEN None ELSE LitellmRegexTable[first].verdict

------------------------------------------------------------------------------
(* CORP_LLM_ROUTE_GATE_EXTRA_PASSTHROUGH: items [method, path, form].       *)

\* _refused: a HEAD extra is judged by the path's GET as well.
Refused(method, path) ==
    \E verb \in {method} \union (IF method = "HEAD" THEN {"GET"} ELSE {}) :
        Lookup(verb, path) = "refuse"

ExtraProblem(item) ==
    \/ item.form = "malformed"      \* fields, method name, path tokens
    \/ Refused(item.method, item.path)

ParseExtras(items) == {<<item.method, item.path>> : item \in items}

------------------------------------------------------------------------------
(* classify: a verdict, or the reason a request is refused for.             *)

\* Mutant: an extra is looked at before the tables.
DirectExtrasFirst(method, path, extras) ==
    IF <<method, path>> \in extras THEN "passthrough" ELSE Lookup(method, path)

\* The tables first; an extra only adds a passthrough row.
Direct(method, path, extras) ==
    IF Lookup(method, path) # None THEN Lookup(method, path)
    ELSE IF <<method, path>> \in extras THEN "passthrough" ELSE None

First(a, b) == IF a # None THEN a ELSE b

\* HEAD runs the GET handler: both tables speak before any extra, and there is
\* no body to rewrite.
Resolve(method, path, extras) ==
    IF method # "HEAD" THEN Direct(method, path, extras)
    ELSE LET tables == First(Lookup("HEAD", path), Lookup("GET", path))
             entry  == First(tables, First(Direct("HEAD", path, extras),
                                           Direct("GET", path, extras)))
         IN  IF entry = "rewritten" THEN "refuse" ELSE entry

\* A request: [type, upgrade, malformed, method, path, ...].
Classify(r, extras) ==
    IF r.type = "websocket" \/ r.upgrade THEN "route_gate_websocket"
    ELSE IF r.type # "http" THEN "route_gate_error"
    ELSE IF r.malformed THEN "route_gate_malformed"
    ELSE LET entry == Resolve(r.method, r.path, extras)
         IN  IF entry = None THEN "route_gate_unlisted"
             ELSE IF entry = "refuse" THEN "route_gate_listed"
             ELSE entry

=============================================================================
