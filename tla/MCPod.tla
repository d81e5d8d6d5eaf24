-------------------------------- MODULE MCPod --------------------------------
(* Pods with at most two things unusual about their configuration, each sent  *)
(* every kind of request; and sound pods that issue tokens.                   *)
EXTENDS Pod

IssuanceOff == [issuer |-> "", audience |-> "dev", client |-> "cli", operatorAudience |-> "ops",
                jwks |-> "https", teams |-> {"t"}, bounded |-> TRUE, dsn |-> TRUE,
                extras |-> TRUE, ca |-> "ok", strictTls |-> FALSE]
IssuanceOn == [IssuanceOff EXCEPT !.issuer = "https"]

Capacity == [inflight |-> <<2>>, drainingSet |-> FALSE, draining |-> <<0>>, grace |-> <<5>>,
             bodyRead |-> <<30>>, bytes |-> <<256>>]

Sound == [port |-> "ok", litellm |-> "ok", issuance |-> IssuanceOff, db |-> "reachable",
          schema |-> "current", capacity |-> Capacity, prod |-> TRUE,
          allowDebug |-> FALSE, extras |-> {}, prisma |-> "none", startup |-> "ok",
          guardrail |-> "ok", debug |-> FALSE, compressor |-> FALSE,
          keycloak |-> "up"]

Item(method, path) == [method |-> method, path |-> path, form |-> "ok"]

Unusual(c) ==
    {[c EXCEPT !.port = "bad"], [c EXCEPT !.prod = FALSE],
     [c EXCEPT !.allowDebug = TRUE], [c EXCEPT !.debug = TRUE], [c EXCEPT !.compressor = TRUE],
     [c EXCEPT !.startup = "raises"]}
    \union {[c EXCEPT !.litellm = x] : x \in {"missing", "empty", "pass-through endpoints"}}
    \union {[c EXCEPT !.capacity.inflight = x] : x \in {Unparsed, <<-1>>, <<0>>, <<10001>>}}
    \union {[c EXCEPT !.capacity.drainingSet = TRUE, !.capacity.draining = x] : x \in {Unparsed, <<0>>, <<1>>, <<2>>}}
    \union {[c EXCEPT !.capacity.bytes = x] : x \in {<<24>>, <<25>>}}
    \union {[c EXCEPT !.capacity.grace = <<0>>], [c EXCEPT !.capacity.bodyRead = <<301>>]}
    \union {[c EXCEPT !.prisma = x] : x \in {"done", "failed", "failed, enforced", "cannot proceed"}}
    \union {[c EXCEPT !.guardrail = x] :
               x \in {"guardrail_absent", "apply_guardrail", "scan_raw_request", "run_in_parallel"}}
    \union {[c EXCEPT !.extras = x] :
               x \in {{Item("POST", "/v1/messages")}, {Item("HEAD", "/health/drain")},
                      {Item("HEAD", "/new"), Item("POST", "/new")}, {Item("GET", "/v1/messages")},
                      {Item("GET", "/internal/issue-token")},
                      {[method |-> "GET", path |-> "/new", form |-> "malformed"]}}}

Configs == {Sound} \union UNION {{c} \union Unusual(c) : c \in Unusual(Sound)}

Plain(method, path) ==
    [type |-> "http", upgrade |-> FALSE, malformed |-> FALSE, method |-> method, path |-> path,
     ctype |-> "json", body |-> "plain", callId |-> FALSE]

Paths == {"/v1/messages", "/models", "/health/drain", "/v1/moderations", "/engines/m/chat/completions",
          "/openai/v1/responses/r1", "/openai/any", "/metrics", "/healthz/ready", "/new"}

Offered ==
    {Plain(m, p) : m \in {"GET", "HEAD", "POST"}, p \in Paths}
    \union {[Plain("POST", "/v1/messages") EXCEPT !.ctype = t, !.body = b, !.callId = i] :
               t \in {"json", "other charset", "other", "missing", "ambiguous"},
               b \in {"empty", "plain", "not utf-8", "policies", "escaped policies", "unparsable"},
               i \in BOOLEAN}
    \union {[Plain("GET", "/models") EXCEPT !.type = t, !.upgrade = u, !.malformed = f] :
               t \in {"http", "websocket", "other"}, u \in BOOLEAN, f \in BOOLEAN}

Issuing(c, clients) == [config |-> c, requests |-> {}, clients |-> clients]

\* One thing wrong with the issuance settings.
IssuanceFaults(i) ==
    {[i EXCEPT !.audience = x] : x \in {"", "ops"}}
    \union {[i EXCEPT !.issuer = x] : x \in {"not absolute", "http"}}
    \union {[i EXCEPT !.jwks = "http"], [i EXCEPT !.client = ""], [i EXCEPT !.bounded = FALSE],
            [i EXCEPT !.dsn = FALSE], [i EXCEPT !.extras = FALSE], [i EXCEPT !.ca = "unusable"]}
    \union {[i EXCEPT !.teams = x] : x \in {{}, {""}}}

IssuingPods ==
    LET on  == [Sound EXCEPT !.issuance = IssuanceOn]
        tls == [IssuanceOn EXCEPT !.strictTls = TRUE]
    IN  {Issuing([on EXCEPT !.schema = d], {"a", "b"}) : d \in {"current", "old"}}
        \union {Issuing([on EXCEPT !.db = "unreachable", !.schema = "old"], {"a", "c"}),
                Issuing([on EXCEPT !.keycloak = "down"], {"a", "b", "c"})}
        \union {Issuing([on EXCEPT !.db = d, !.schema = "old"], {}) : d \in {"no TLS", "no privilege"}}
        \union {Issuing([on EXCEPT !.issuance = tls, !.db = "no TLS"], {})}
        \union {Issuing([on EXCEPT !.issuance = i], {}) : i \in IssuanceFaults(IssuanceOn)}
        \union {Issuing([on EXCEPT !.issuance.jwks = "http", !.prod = FALSE], {"a"})}
        \union {Issuing([Sound EXCEPT !.extras = {Item("GET", "/internal/issue-token")},
                                      !.issuance = i], {"a"}) : i \in {IssuanceOn, IssuanceOff}}

MCScenarios == {[config |-> c, requests |-> Offered, clients |-> {}] : c \in Configs}
               \union IssuingPods

\* "c" is sent with a key id that Keycloak never publishes.
MCKid == [r \in Clients |-> IF r = "c" THEN "k2" ELSE "k1"]
MCJti == [r \in Clients |-> "j"]
==============================================================================
