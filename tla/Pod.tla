--------------------------------- MODULE Pod ---------------------------------
(***************************************************************************)
(* One gateway pod from its boot to its shutdown: asgi.py's checks in      *)
(* their order, the arming lifespan, and the route gate (route_gate/       *)
(* middleware.py) that stands in front of everything the pod serves.  A    *)
(* request the gate lets through reaches the gateway's own routes          *)
(* (ControlListener) or litellm's app.                                     *)
(***************************************************************************)
EXTENDS RouteTable, ControlListener, BootConfig

CONSTANT Scenarios      \* [config, requests, clients]: a pod and what it is sent

ASSUME ScenarioAssumption ==
    \A s \in Scenarios :
        /\ s.config.schema \in {"old", "current"}
        /\ s.config.issuance.jwks \in {"https", "http", "not absolute"}
        /\ s.config.guardrail # "debug"
        /\ s.requests \subseteq
               [type : STRING, upgrade : BOOLEAN, malformed : BOOLEAN, method : STRING,
                path : STRING, ctype : STRING, body : STRING, callId : BOOLEAN]

VARIABLES
    config,         \* the settings and the state of the world the boot meets
    offered,        \* the HTTP requests a client may send
    invited,        \* the issuance clients that come
    boot,           \* the step the boot is at
    exit,           \* its exit code; 0 while it runs
    extras,         \* ROUTE_GATE_EXTRAS
    issuing,        \* ISSUANCE_ENABLED
    bound,          \* what the lifespan has bound, in order of need
    armed,          \* gate.armed
    req, at,        \* the request at the gate, and where it is
    reason,         \* why it was refused
    blocks, failures, records,      \* block and failure metrics, audit records
    reached         \* requests that were handed on, with where to

bootVars == <<boot, exit, extras, issuing>>
lifeVars == <<bound, armed>>
callVars == <<req, at, reason>>
seenVars == <<blocks, failures, records>>
gatewayVars == <<config, offered, invited, bootVars, lifeVars, callVars, seenVars, reached>>
vars == <<gatewayVars, listenerVars>>

NoRequest == [type |-> None]
EXIT_CONFIG == 78
EXIT_NO_CALLBACK == 70
Hooks == {"worker", "task factory", "response mappings", "ticket hook", "cancel hook"}

Init ==
    /\ \E s \in Scenarios :
          config = s.config /\ offered = s.requests /\ invited = s.clients
    /\ boot = "port" /\ exit = 0 /\ extras = {} /\ issuing = FALSE
    /\ bound = {} /\ armed = FALSE
    /\ req = NoRequest /\ at = "idle" /\ reason = None
    /\ blocks = 0 /\ failures = 0 /\ records = 0
    /\ reached = {}
    /\ schema = config.schema
    /\ verified = FALSE /\ checkedAt = Never
    /\ ListenerInit

------------------------------------------------------------------------------
(* The boot, in the order of asgi.py.                                       *)

Exit(code) == boot' = "exited" /\ exit' = code
Proceed(step) == boot' = step /\ UNCHANGED exit

\* serve.py: the port, before uvicorn imports the app.
CheckPort ==
    /\ boot = "port"
    /\ IF config.port = "ok" THEN Proceed("config") ELSE Exit(EXIT_CONFIG)
    /\ UNCHANGED <<extras, issuing, verified>>

CheckConfig ==
    /\ boot = "config"
    /\ IF LitellmProblem(config.litellm) THEN Exit(EXIT_CONFIG) ELSE Proceed("issuance")
    /\ UNCHANGED <<extras, issuing, verified>>

\* _token_schema_problem: the refusal, or whether the schema was seen current.
Reachable == config.db = "reachable"
SchemaRefused ==
    \/ Reachable /\ schema = "old"
    \/ ~Reachable /\ BootProbeOutcome(config.db, config.issuance.strictTls) = "refuse"

CheckIssuance ==
    /\ boot = "issuance"
    /\ LET i == config.issuance
       IN  \/ i.issuer = "" /\ Proceed("capacity") /\ UNCHANGED <<issuing, verified>>
           \/ /\ i.issuer # ""
              /\ IssuanceProblem(i, config.prod) \/ IssuanceRuntimeProblem(i) \/ SchemaRefused
              /\ Exit(EXIT_CONFIG) /\ UNCHANGED <<issuing, verified>>
           \/ /\ i.issuer # ""
              /\ ~IssuanceProblem(i, config.prod) /\ ~IssuanceRuntimeProblem(i) /\ ~SchemaRefused
              /\ issuing' = TRUE /\ verified' = Reachable
              /\ Proceed("capacity")
    /\ UNCHANGED extras

\* _check_capacity, _check_litellm_debug, _route_gate_extras.
CheckCapacity ==
    /\ boot = "capacity"
    /\ IF CapacityProblem(config.capacity, config.prod) THEN Exit(EXIT_CONFIG) ELSE Proceed("debug")
    /\ UNCHANGED <<extras, issuing, verified>>

CheckDebug ==
    /\ boot = "debug"
    /\ IF config.allowDebug /\ config.prod THEN Exit(EXIT_CONFIG) ELSE Proceed("extras")
    /\ UNCHANGED <<extras, issuing, verified>>

CheckExtras ==
    /\ boot = "extras"
    /\ IF \E item \in config.extras : ExtraProblem(item)
       THEN Exit(EXIT_CONFIG) /\ UNCHANGED extras
       ELSE Proceed("prisma") /\ extras' = ParseExtras(config.extras)
    /\ UNCHANGED <<issuing, verified>>

\* _setup_prisma: no database, no prisma or updates disabled leave it alone.
SetupPrisma ==
    /\ boot = "prisma"
    /\ \/ config.prisma = "cannot proceed" /\ Exit(2)
       \/ config.prisma = "failed, enforced" /\ Exit(1)
       \/ config.prisma \in {"none", "done", "failed"} /\ Proceed("startup")
    /\ UNCHANGED <<extras, issuing, verified>>

Booting ==
    /\ \/ CheckPort
       \/ CheckConfig
       \/ CheckIssuance
       \/ CheckCapacity
       \/ CheckDebug
       \/ CheckExtras
       \/ SetupPrisma
    /\ UNCHANGED <<config, offered, invited, lifeVars, callVars, seenVars, reached,
                   now, schema, checkedAt, probe, ready, phase, answer, slotVars, published,
                   jwksVars, poolVars>>

------------------------------------------------------------------------------
(* The lifespan.                                                            *)

\* arm_checks: guardrail_problems, debug_problems, compressor_problem.
LiveProblems ==
    (IF config.guardrail = "ok" THEN {} ELSE {config.guardrail})
    \union (IF config.debug THEN {"debug"} ELSE {})
    \union (IF config.compressor THEN {"compressor"} ELSE {})

\* DEBUG output is let through by the test-only key.
ArmProblems == IF config.allowDebug THEN LiveProblems \ {"debug"} ELSE LiveProblems

\* litellm's startup ran and nothing is wrong: everything is bound, then the
\* gate is armed.  One turn of the loop.
ArmLifespan ==
    /\ boot = "startup" /\ config.startup = "ok" /\ ArmProblems = {}
    /\ bound' = Hooks
    /\ armed' = TRUE
    /\ Proceed("serving")

\* os._exit: an exception here would leave the server running.
RefuseToArm ==
    /\ boot = "startup" /\ config.startup = "ok" /\ ArmProblems # {}
    /\ Exit(EXIT_NO_CALLBACK)
    /\ UNCHANGED lifeVars

\* litellm's own startup raises: uvicorn logs it and serves, unarmed.
StartupFails ==
    /\ boot = "startup" /\ config.startup = "raises"
    /\ Proceed("serving")
    /\ UNCHANGED lifeVars

\* Shutdown, once uvicorn has finished every request: the terminal records drain,
\* then the task factory is put back.
Shutdown ==
    /\ boot = "serving" /\ at \in {"idle", "done", "refused"}
    /\ \A r \in Clients : phase[r] \in {"idle", "done"}
    /\ boot' = "stopped" /\ UNCHANGED exit
    /\ bound' = bound \ {"task factory"}
    /\ UNCHANGED armed

Lifespan ==
    /\ \/ ArmLifespan
       \/ RefuseToArm
       \/ StartupFails
       \/ Shutdown
    /\ UNCHANGED <<config, offered, invited, extras, issuing, callVars, seenVars, reached,
                   listenerVars>>

------------------------------------------------------------------------------
(* RouteGateMiddleware: one request at a time.                              *)

Receive ==
    /\ boot = "serving" /\ at = "idle"
    /\ req' \in offered /\ at' = "called"
    /\ UNCHANGED <<reason, seenVars, reached>>

\* _refuse, up to its await: the block is counted, and the gate's own faults.
Refuses(why) ==
    /\ reason' = why /\ at' = "audit"
    /\ blocks' = blocks + 1
    /\ failures' = IF why \in {"route_gate_unarmed", "route_gate_error", "oversize_blocked"}
                   THEN failures + 1 ELSE failures
    /\ UNCHANGED <<req, records, reached>>

\* HealthRouter's paths, then /metrics, then litellm's app.
Destination(r) ==
    CASE r.path \in {"/healthz/ready", "/internal/issue-token"} -> "health"
      [] r.path = "/metrics" /\ r.method \in {"GET", "HEAD"}    -> "metrics"
      [] OTHER -> "litellm"

\* _without_call_id: the id litellm keys a request by is litellm's own.
WithoutCallId(r) == [r EXCEPT !.callId = FALSE]

HandsOn ==
    /\ reached' = reached \union {[request |-> WithoutCallId(req), to |-> Destination(req)]}
    /\ at' = "done"
    /\ UNCHANGED <<req, reason, seenVars>>

\* __call__, up to the first await of the branch it takes.
Judge ==
    /\ at = "called"
    /\ LET verdict == Classify(req, extras)
       IN  \/ verdict \notin Verdicts /\ Refuses(verdict)
           \/ verdict = "rewritten" /\ ~armed /\ Refuses("route_gate_unarmed")
           \/ /\ verdict = "rewritten" /\ armed
              /\ at' = "draining"
              /\ UNCHANGED <<req, reason, seenVars, reached>>
           \/ verdict = "passthrough" /\ HandsOn

\* _is_json, _utf8_charset, _utf8: JSON in UTF-8, or nothing at all.
NotJson(r) ==
    \/ r.ctype # "json" /\ (r.body # "empty" \/ r.ctype # "missing")
    \/ r.body = "not utf-8"

\* _body_problem: the key is found however it is escaped, in a body that parses;
\* an "unparsable" one is litellm's to refuse.
BodyProblem(r) ==
    IF NotJson(r) THEN "route_gate_body_not_json"
    ELSE IF r.body \in {"policies", "escaped policies"} THEN "route_gate_body_policies"
    ELSE None

\* limiter.run (InflightLimiter): refused for want of room, time or size, left by
\* the client with nobody to answer, or drained and checked.
Drain ==
    /\ at = "draining"
    /\ \/ MaxInflight(config.capacity) > 0 /\ Refuses("route_gate_capacity")
       \/ Refuses("route_gate_body_timeout")
       \/ Refuses("oversize_blocked")
       \/ at' = "done" /\ UNCHANGED <<req, reason, seenVars, reached>>
       \/ BodyProblem(req) # None /\ Refuses(BodyProblem(req))
       \/ BodyProblem(req) = None /\ HandsOn

\* _emit_audit: the refusal stands either way.  Then the answer; a handshake
\* has its connect event to wait for, another scope type has no answer.
Audit ==
    /\ at = "audit"
    /\ \/ records' = records + 1 /\ UNCHANGED failures
       \/ failures' = failures + 1 /\ UNCHANGED records
    /\ at' = IF req.type = "websocket" THEN "handshake" ELSE "refused"
    /\ UNCHANGED <<req, reason, blocks, reached>>

\* _refuse_handshake: denied, closed, or gone before it connected.
Handshake ==
    /\ at = "handshake"
    /\ at' = "refused"
    /\ UNCHANGED <<req, reason, seenVars, reached>>

Gate ==
    /\ \/ Receive
       \/ Judge
       \/ Drain
       \/ Audit
       \/ Handshake
    /\ UNCHANGED <<config, offered, invited, bootVars, lifeVars, listenerVars>>

------------------------------------------------------------------------------
(* The gateway's own routes, behind the gate.                               *)

IssueRequest(method) == [type |-> "http", upgrade |-> FALSE, malformed |-> FALSE,
                         method |-> method, path |-> "/internal/issue-token"]

\* POST, or another method that an extra lets past the gate.
Admit(r) ==
    /\ boot = "serving" /\ r \in invited
    /\ \E method \in {"POST", "GET"} :
          /\ Classify(IssueRequest(method), extras) = "passthrough"
          /\ Issue(r, issuing, method)

Listener ==
    /\ boot = "serving"
    /\ \/ \E r \in Clients : Admit(r) \/ Serve(r)
       \/ issuing /\ (Probes \/ Fetching \/ Tick \/ Migrate)
       \/ issuing /\ config.keycloak = "up" /\ Rotate
    /\ UNCHANGED gatewayVars

\* The operator migrates while the pod is down or booting.
MigrateEarly ==
    boot = "port" /\ config.issuance.issuer # "" /\ Migrate /\ UNCHANGED gatewayVars

Ended == boot \in {"exited", "stopped"} /\ UNCHANGED vars

Next == Booting \/ Lifespan \/ Gate \/ Listener \/ MigrateEarly \/ Ended

Spec == Init /\ [][Next]_vars /\ ListenerFairness

------------------------------------------------------------------------------
(* Properties.                                                              *)

\* The handler litellm runs for a request: GET's for HEAD.
Handler(r) == Lookup(IF r.method = "HEAD" THEN "GET" ELSE r.method, r.path)

(* No request runs a litellm handler the tables refuse, whatever the operator *)
(* lists as extras and although HEAD runs the GET handler; and one that runs  *)
(* a rewritten route's handler found the gate armed with the guardrail        *)
(* registered, not bypassed and bound to the response path, litellm not       *)
(* logging requests in prod, a body sent as UTF-8 JSON in which no policies   *)
(* parse, no call id of the client's, and a limiter that keeps what           *)
(* InflightLimiter assumes of its bounds (route_gate/middleware.py, asgi.py's *)
(* order, settings.py).                                                       *)
OnlyGuarded ==
    \A h \in reached :
        h.to = "litellm" =>
            /\ Handler(h.request) # "refuse"
            /\ Handler(h.request) = "rewritten" =>
                  /\ h.request.method # "HEAD"
                  /\ armed /\ {"response mappings", "ticket hook", "cancel hook"} \subseteq bound
                  /\ config.guardrail = "ok" /\ ~config.compressor
                  /\ config.prod => ~config.debug /\ MaxInflight(config.capacity) > 0
                  /\ MaxDraining(config.capacity) >= MaxInflight(config.capacity)
                  /\ config.capacity.bytes[1] >= MAX_DRAINING_BYTES_FLOOR
                  /\ ~NotJson(h.request)
                  /\ h.request.body \notin {"policies", "escaped policies"}
                  /\ ~h.request.callId

(* What the issuance route answers is what the store did: a 200 is stored, a  *)
(* refusal is not and never will be, also when its transaction was abandoned  *)
(* with a COMMIT on the wire; the two store answers are the only ambiguous    *)
(* ones (HealthRouter._issue).                                                *)
AnsweredTruthfully ==
    \A r \in Clients : phase[r] = "done" =>
        /\ answer[r] = "ok" => tx[r] = "committed"
        /\ answer[r] \in Refusals => tx[r] \in {"none", "ended"}

(* The route's slots are the requests inside it, whatever way they leave, and *)
(* a connection out of the pool is one a request or its background release    *)
(* still answers for.                                                         *)
IssuanceAccounted ==
    /\ inflight = Cardinality({r \in Clients : phase[r] \in Inside})
    /\ inflight <= Slots
    /\ \A c \in Connections : holder[c] # Pool => phase[holder[c]] \in Holding \union {"done"}
    /\ \A r \in Clients : Cardinality(Held(r)) <= 1

(* Callers with key ids nobody knows cannot make the pod fetch Keycloak's     *)
(* keys faster than the shorter of the cooldown and the failure backoff, with *)
(* any number of them waiting (JwksClient's single flight and its gap between *)
(* the end of a fetch and its done callback).                                 *)
FetchesBounded ==
    \/ fetches <= 1 + now \div Cooldown
    \/ fetches <= 1 + now \div Backoff

(* No token is minted, and no readiness reported, before the token schema was *)
(* seen current: at boot, or later by the gate, which one failed or early     *)
(* check must not open; and none by a pod that would take an operator's token *)
(* for a developer's, or keys over plain HTTP in prod (IssuanceSchemaGate,    *)
(* _check_issuance, _build_issuance).                                         *)
MintingGuarded ==
    /\ ready \/ Minted # {} => schema = "current"
    /\ Minted # {} =>
          /\ config.issuance.audience # config.issuance.operatorAudience
          /\ config.prod => config.issuance.jwks = "https"

(* Every issuance request ends, its slot and its connection come back, with a *)
(* Postgres and a Keycloak that never answer.                                 *)
IssueEnds ==
    \A r \in Clients :
        phase[r] # "idle" ~> phase[r] = "done" /\ (Held(r) = {} \/ boot = "stopped")

==============================================================================
