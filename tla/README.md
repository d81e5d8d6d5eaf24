# corp-llm-gateway: TLA+ models, checks and proofs

The gateway sits between developers' tools and an LLM provider. It
authenticates a corp token, replaces sensitive text in the request by
placeholders, lets litellm call the provider, restores the originals in the
response, and writes one audit record per request. This directory models the
parts whose correctness depends on the order of things: several coroutines on
one event loop, replicas sharing a Postgres, callers that leave, writes whose
answer is lost.

All paths below are relative to `src/src/corp_llm_gateway/` unless they start
with `src/`.

## 1. The system

### Parts, state and operations

| part | source | state | operations |
|---|---|---|---|
| in-flight limiter | `route_gate/inflight.py` | slots, draining seats, byte budget, one ticket per request | admit, drain the body, serve, watch for a disconnect, cancel, sweep child tasks, notify |
| terminal audit | `route_gate/terminal_audit.py`, `audit/langfuse_sink.py` | per ticket: facts, outcome, attempts, retry flag; the set of writes under way | deposit, decide, publish, write, close, drain |
| authentication | `tokens/middleware.py` | token cache with time stamps, one lookup task per token | authenticate, shared lookup, forget |
| token issuance | `tokens/issuance_policy.py`, `tokens/postgres_store.py`, `pg_session.py` | table `corp_tokens`, advisory and row locks, open transactions | issue_for_subject, revoke_user, abandon a connection |
| placeholder allocation | `sanitizer/placeholder_allocator.py`, `sanitizer/placeholder.py` | four dictionaries and a set per request, the request's mapping | forbid, remap, mint, alias, build the reverse map |
| guardrail | `litellm_hook.py` | request states, dedup tables, deferred cancels | pre-call in stages, post-call, audit and its retry, cancel hook |
| content blocks | `sanitizer/content_blocks.py` | none: three walks over a message | collect, rewrite, restore |
| response desanitiser | `route_gate/desanitize_middleware.py` | mapping per ticket, response under way | register, restore, publish the outcome |
| streaming desanitiser | `sanitizer/streaming.py` | hold-back buffers per block | feed, flush |
| orchestrator | `sanitizer/orchestrator.py` and helpers | Cache A (sanitized segments), Cache B (conversation mappings) | detect, plan spans, substitute, cache |
| route gate | `route_gate/middleware.py`, `classify.py`, `table.py`, `arm_checks.py` | the tables, the operator's extras, armed or not | classify, refuse, audit, check the body, pass on |
| boot and lifespan | `asgi.py`, `serve.py`, `bootstrap.py`, `settings.py`, `litellm_config.py` | exit code, what is bound | check, arm, refuse to arm, shut down |
| control listener | `healthz/server.py`, `healthz/checks.py` | in-flight issue count, token bucket, the schema gate | readiness, issue-token |
| OIDC verifier | `tokens/oidc_verifier.py` | JWKS cache, one shared fetch, failure backoff | key_for, refresh |
| profiles and rules | `profiles/`, `rules/cached.py` | merged bundles, rules with a time to live | resolve extends, merge, load |
| detectors, metrics, CLI | the rest | none that outlives a call | match, count, administer |

### Interactions

A request reaches the route gate, then the limiter, which makes its
*ticket*: an object in a context variable that every task of the request
inherits. Below the limiter the desanitize middleware wraps litellm's app.
litellm runs the guardrail's pre-call (authentication, sanitization), which
deposits the audit facts on the ticket and hands the response mapping to the
desanitize middleware. The response passes back through that middleware, which
decides and publishes the outcome. The limiter closes the ticket when the
request is over, whichever way, and the close settles a record nobody published.

### Behaviours that are hard

* Every `await` is a point at which a client may leave, a cancel may arrive or
  a counter may change; a cancel can arrive inside the handling of a cancel.
* The downstream may ignore a cancel for ever.
* A write may succeed at the far end and fail at this one (audit sink, COMMIT).
* Clocks are read before locks are waited for; rows are read before they are
  cached.
* Placeholders are proposed by several sources that do not know of each other.
* What a cache key leaves out, and what three hand-written walks over one message
  do not have in common, shows only in combinations.
* A pod is refused or armed by a dozen checks in a fixed order; what each leaves
  unchecked the next must not rely on.

`PROJECT.json` lists each hazard at its line with the properties that cover it.

## 2. Modules

| module | models | kind |
|---|---|---|
| `InflightLimiter` | `route_gate/inflight.py` | component |
| `Admission` | what the limiter promises: take, give back, never pass the caps | abstract |
| `Ticket` | what both writers of a request's record see of its ticket | shared state |
| `TerminalAudit` | the terminal record and its writes | component |
| `OneRecord` | a register that stores at most one record and admits to losing it | abstract |
| `AuthMiddleware` | token cache and shared lookups | component |
| `Issuance` | concurrent issuance transactions | component |
| `Minting` | issuance in one atomic step | abstract |
| `PlaceholderAllocator` | allocation and reverse map of one request | component |
| `DesanitizeMiddleware` | the response of one request: mapping, messages, outcome | component |
| `StreamingDesanitizer` | hold-back buffer and reverse substitution, against the unary one | algorithm |
| `SseStream` | held tails in Anthropic and chat event streams | component |
| `ResponsesStream` | held tails and numbers in a Responses event stream | component |
| `SseRestorer` | `_SseRestorer`, which sends each event to one of these two | composition |
| `GuardrailAudit` | the guardrail's record: inline, retry, log events, cancel hook, tables | component |
| `AuditTrail` | both writers of one request's records, joined at the ticket | composition |
| `ContentBlocks` | the three walks, over one path to a text | algorithm |
| `PreCall` | the stages of the pre-call of one request, on `ContentBlocks` | composition |
| `SpanPlan` | which stretches of a text are replaced, and by what | algorithm |
| `Profiles` | extends, layers and their merge | algorithm |
| `Orchestrator` | `sanitize()` on pods that share Cache A, on `SpanPlan` and `Profiles` | composition |
| `RouteTable` | the tables, the extras, classification | algorithm |
| `BootConfig` | what a pod refuses to boot with | algorithm |
| `ControlListener` | the issuance route down to the pooled connection | component |
| `Pod` | boot, arming, gate, with the three above | composition |
| `MC*` | instances for TLC: symmetry, small sets | model checking |
| `*_proofs` | inductive invariants and theorems | proofs |

A definition commented `Mutant:` is a plausible bug next to the definition it
would replace. No specification uses one; they show that the property that
guards the definition can fail.

### InflightLimiter

One request is one `run()` coroutine; `pc` is the await it is suspended in, and
everything between two awaits is one step. `inflight`, `draining`, `buffered`
and `held` are the fields of the limiter; `ticket`, `origin` and `told` belong to
the `RequestTicket`; `watcher`, `down` and `children` are its tasks. `Arrive`
is the path to the first await (refusal, or a seat and a declared hold),
`ChunkRead`/`ChunkRefused` the loop in `_drain`, `Serve` taking the slot,
`Wake` and `Settled` the two waits of `_serve`, `GraceEnds`, `SweepEnds`,
`HookStarts` and `HookEnds` the bounded unwinding of `_cancelled`, and
`ServerCancel`, `ServerCancelEnds` and `Abort` what a cancel thrown in by the
server does at each of those awaits. litellm (`DownstreamEnds`,
`SendFinalBody`) may do anything, or nothing.

### TerminalAudit

Four parties act on a ticket: pre-call (`Deposit`), the response path
(`Decide`, `Publish`), the limiter (`MarkCancelled`, `OnClose`) and the writes
(`SinkStores`, `EmitReturns`, `EmitRaises`, `EmitCancelled`, `CloseWrites`). A
write in flight is `writer`; `arrived` says whether the sink has the record the
writer has no answer for. Which transport errors are classed as ambiguous is
taken from `langfuse_sink.py`. `Deposit` happens once per ticket: litellm runs
the pre-call once, before any response, so facts are never replaced.

### AuthMiddleware

Evidence (a token row as read) carries the moment it was read. The row is read
in `StoreReads`, reaches the cache in `LookupReturns`, at most `Latency` later,
and wakes the callers that share the lookup. `revoke_user` reads the clock
before it has a connection: `Revoke` does that (`stamp`), `RevokeCommits` writes
that time into the rows, any time later, and `RevokeFails` gives up; the history
`committed` is when the store had it. `GiveUp` is a caller cancelled while it
waits, `LookupFails` a timeout or a broken connection. The clock stands while a
woken caller is ready to run; it moves anywhere else.

### Issuance

A call is a READ COMMITTED transaction and each of its statements is one step
that sees what is committed. `locks` are the advisory locks, `evict` with
`wrote` the row locks, `inserted` the entries of the unique index that nobody
else can see yet. `Busy` is `lock_timeout` or `statement_timeout`. `Abandon` is
`run_on_connection` when its caller is cancelled: no ROLLBACK is sent, so the
transaction and its locks live on at the server (`orphan`), and if COMMIT was on
its way it may still take effect (`maybe`). `user_id` and subject are one here;
tokens minted by the command line have no subject and the policy ignores them.

### PlaceholderAllocator

The state is that of `RequestPlaceholderAllocator`, `state.mapping.pairs`, and
`claims`, a history of how each original first came in. `Scan` is the literal
scan before any segment; `Reuse`, `ClaimFound` and `ClaimRule` are the three
ways through `_canonical`, in any order, which covers every way of cutting a
request into segments. `Claimants` and `Restores` give the reverse map
declaratively: the first pair, or alias, that claims a label wins.

### DesanitizeMiddleware

The app's messages are actions (`Start*`, `Body*`, `Dropped`), cut at the awaits
of their handlers: what a handler still has to send is `todo`, the outcome it
publishes after that is `verdict`, and `Sent`, `SendFails` and `Settle` are the
awaits' ends. `AppRaises` is `app_failed`, `Unwind` a cancel going through,
`Cancel` and `Close` the limiter. Restoring works or raises (`Failed`). `wire`
is the response as the ASGI server sees it, and `carried` whether its body had
an error event and in which mode it went by: a restored stream's are noticed
(`saw_error`), those of a body that is passed through are not. An app whose send
raised is assumed to send no more; it raises or returns.

### StreamingDesanitizer

Here text is a sequence of characters, from an alphabet of a few: the property
is about where a text is cut. `ReverseText` is the loop of
`build_reverse_substituter`, with its deferred last match and its protected
prefix; `Feed` and `FlushBuffer` are the methods. `pairs` is chosen at the start
from the mappings of the cfg. `Unambiguous` and `Apart` are not in the code: they
say of which mappings and answers `StreamMatchesUnary` speaks.

### SseStream, ResponsesStream and SseRestorer

Text is counted in fragments, and each delta may be kept back for as long as the
restorer likes, which covers every hold-back. `SseStream` has Anthropic blocks,
and chat choices whose deltas carry content, tool calls and a function call.
`client` is a reader that notes a fragment that arrives after its part was
closed. `ResponsesStream` does the same for the fields of items and parts and
also follows sequence numbers. `SseRestorer` instantiates both over the state of
one response: a `response.*` event goes to one, every other event to the other,
an error event, `[DONE]` and the end of the body to both.

### GuardrailAudit

Who writes one request's record: the pre-call inline before it refuses
(`Refuse`), again from its safety net (`Retry`), litellm's log events
(`LogEvent`) or the cancel hook (`Cancelled`, `Resume`, `CutShort`). A log event
of a request whose state is gone is an orphan: nothing is written, and a failure
of the audit component is counted (`orphans`). `Audit`,
`Resolve` and `Proceed` are `audit()` cut at its awaits, `Delivered` and
`EmitEnds` the sink's two halves. `Put` is an insert into a table with a cap: the
oldest entry is forgotten, and `forgotten` is a history of whose.

### AuditTrail

`Ticket` declares the fields of a ticket that the guardrail and the terminal
writer share; `AuditTrail` extends both writers over it. Three steps are joint:
the guardrail's hand-over is the terminal writer's `Deposit`, a cancel marks the
ticket for both, and the limiter's close settles the terminal record and shuts
the guardrail's way to the ticket. Every other step is one writer's own and
leaves the other's state alone. The question is asked of both sinks together:
whether a request is recorded by the two of them once.

### ContentBlocks and PreCall

A walk's verdict on a text depends on the way from the root to it, so content is
one path (`ContentBlocks`), and the three walks are three operators on paths,
each of which says by the position in the path how far the walk gets.
`LeftAlone` names, step by step, the reasons to let a text go out as it came;
which of them can apply depends on the part the step plays (`Roles`: item,
content, source, value), which is said without the walks. A request of `PreCall`
has items with a path each, and `Enter` to `Stage5` are the stages of
`_pre_call_impl` in their order, each with its refusals: the token is taken out,
the caller authenticated, the bridge and the shape checked, the profile
resolved, Stage 0, the rewrite item by item, the prompts, the snapshots, the
egress guard. `Answer` restores what the provider echoes. Left out: the
output-token clamp and the wire headers. Where litellm puts copies of the corp
token (`TokenPlaces`: deep copies of the metadata, the body snapshot, the
logging object) is said from how litellm builds a request, and where the strip
goes (`StripPlaces`) from the strip's code; `NoCopyKept` compares the two.
`kept` is who still has the client's `metadata` and `user`.

### SpanPlan, Profiles and Orchestrator

`SpanPlan` has the planner (`Winners`, candidates in an order, each kept if it
overlaps none before it), the numbering of placeholders and the windows of an
oversize text. A list of pairs that is cut down keeps its places, so
`FirstPairs` and a plan's pairs are functions on some of the places of the list
they came from. `Profiles` resolves `extends` and merges layers. `Orchestrator`
is `sanitize()` cut at its awaits: the profile's orchestrator is looked up or
built (`Resolve`, in one step although each manifest is read behind an await of
its own; a layer whose rules do not parse is left out), rules are loaded under
their lock (`LoadCached` to `LoadFails`), an oversize text is blocked, delivered
or chunked, Cache A hits or misses, findings are planned and stored. `Edit`,
`RulesExpire` and `DedupExpires` happen at any time between.

### RouteTable, BootConfig, ControlListener and Pod

`RouteTable` keeps a dozen of some nine hundred rows, so that every verdict,
method and way two rows can meet occurs; the first matching pattern wins. What
the other rows say is data, and "map" does not claim their lines. `BootConfig`
says which settings are a problem: a setting that does not parse is `<<>>`, byte
bounds are in MiB, and times are whole seconds (the code takes any positive
float). `Pod` runs the checks in the order of `serve.py` and `asgi.py`, each of
which goes on or exits, then arms (`ArmLifespan`), refuses to (`RefuseToArm`),
or serves unarmed because litellm's own startup raised (`StartupFails`);
`Judge`, `Drain` and `Audit` are the gate, with the limiter reduced to refusing
or draining. `Admit` leads to `ControlListener`: schema gate, cap and bucket,
body, signing key (with the shared fetch and the gap between its end and its
done callback), team, connection, transaction, release. What the transaction
does inside is `Issuance`'s; here it refuses (a COMMIT the server refuses
included), commits or breaks. A body that `json.loads` rejects is handed on
unchecked, as in the code. `Timeout` is the route's one bound; it abandons a
running statement, and a release goes on in the background. One answer code
stands for those that end a request in the same place.

## 3. Runs

| run | instance | distinct states | checks |
|---|---|---|---|
| `limiter` | 2 requests, 1 slot, 2 seats, a budget smaller than 2 bodies; fair | 1.6 * 10^5 | `Accounted`, `OriginRules`, `ImplementsAdmission`, `BodyReadEnds`, `CancelFreesSlot` |
| `terminal_settle` | 2 tickets, of one every error and cancelled writes, of the other errors that tell; fair | 1.1 * 10^5 | `RecordSettled`, `OutcomeRules`, `EveryRecordSettles`, `ImplementsOneRecord` |
| `auth_lag` | 2 callers, 1 token, clock to 4; fair | 2.7 * 10^5 | `RevocationLag`, `CallerAnswered` |
| `issuance_policy` | 3 calls, 2 subjects, 3 jtis, a cap of 2 | 3.2 * 10^5 | `PolicyKept`, `ToldTheTruth`, `ImplementsMinting` |
| `response` | one response, every interleaving; 2 blocks, 2 choices of 2 tool calls, or 2 items with 2 fields each, 4 events; 36 mappings, every text of 5 characters in chunks of 1 or 2 | 3.2 * 10^5 | `WireValid`, `OutcomeTrue`, `OriginalsReleased`, `TailsInOrder`, `AllDelivered`, `StreamMatchesUnary` |
| `sanitize` | 2 calls, 5 pods of different policy, 2 teams, one edit of rules or profiles; 3 originals, 5 texts, 3 typed labels, 3 pairs | 9.1 * 10^5 | `PlanFits`, `CacheTransparent`, `NothingInClear`, `DeliveredIsClean`, `ExtendsSound`, `NoForeignShare`, `RestoresOnlyRedactions` |
| `pre_call` | one request of every shape, paths of up to 6 steps, 2 items | 2.0 * 10^6 | `EveryTextScanned`, `GuardsHold`, `NoCopyKept`, `EchoRestored` |
| `audit_trail` | both writers; 1 request that meets everything, 1 that fills tables of one entry | 1.7 * 10^6 | `OneTrail`, `NothingLost`, `StateFreed` |
| `pod` | pods with up to 2 unusual settings and some 90 requests each; issuing pods with up to 3 clients, 2 slots, 1 connection, 1 key; fair | 5.2 * 10^5 | `OnlyGuarded`, `AnsweredTruthfully`, `IssuanceAccounted`, `FetchesBounded`, `MintingGuarded`, `IssueEnds` |
| `auth_promise` | 1 caller, 1 token, a time to live of 3 and a latency of 2 | violated | `RevokedWithinTTL` |
| `stream_prefix` | `PARTNER` and `PARTNER-A`, as `A` and `A-A` | violated | `StreamAlwaysMatchesUnary` |
| `stream_error_outcome` | one response, every interleaving | violated | `ErrorMeansFailed` |

The last three state what the repository says and the code does not do; each is a
finding of `PROJECT.json`. `response` and `sanitize` put components side by side
that share no state, each running while the others rest (`MCResponse`,
`MCSanitizer`): a layer of the response path each, and what is replaced beside by
which labels.

A property that names several facts of one mechanism is the conjunction of them,
each with its own comment: `Accounted` is `SlotsAccounted`, `SeatsAccounted`,
`BytesAccounted` and `NothingLeftBehind`; `RecordSettled` is `OneRetry`,
`NoSilentLoss` and `DrainMeansSettled`; `PolicyKept` is `JtiMintsOnce` and
`IntervalKept`; `RestoresOnlyRedactions` is `RoundTrip` and `TypedStays`;
`OutcomeTrue` is `OkIsWhole` and `FailureStands`; `TailsInOrder` is `NeverLate`
and `NumbersFollow`; `EveryTextScanned` is `PreScanSees` and `UnknownIsScanned`;
`OneTrail` includes `OneEffect`, which is `RecordedOnce`, `CountedOnce` and
`OrphansExplained`.

**Where the code and its words differ.** The properties above state what holds.
In these places a comment or a document says more:

* `README.md:76` bounds offboarding by 60 s, as do `docs/harness-integration.md:132`
  and `docs/x-corp-auth.md:141`. The cache entry is stamped when the row arrives,
  not when it was read (`tokens/middleware.py:109`), so what holds is the time to
  live plus one lookup, from the commit of the revocation (`RevocationLag`), and
  not the time to live (`RevokedWithinTTL`, violated).
* `docs/audit-schema.md:81`, `docs/security.md:1389` and
  `route_gate/terminal_audit.py:14` record `failed` of "a stream that carried an
  error event". A stream with nothing to restore is passed through unread, and a
  2xx one is recorded `ok` (`route_gate/desanitize_middleware.py:267`):
  `OutcomeTrue` is about restored streams, `ErrorMeansFailed` (violated) about all.
* The comment at `litellm_hook.py:1506` calls an event without state one whose record
  the ticket has, or that had no pre-call. The count it adds also meets requests the
  server stopped, whose inline write was not acknowledged, or that a table has
  forgotten: `OrphansExplained` lists them.
* `_scrub_retained_request_metadata` (`litellm_hook.py:2300`) takes a bridged
  request's `metadata` and `user` off the logging object and not off
  `proxy_server_request.body`, whose refresh (line 2520) covers the four rewritten
  fields only. `NoCopyKept` says nothing of these two fields in that copy; the corp
  token is stripped from its metadata as from the rest.
* `httpx.ReadError` is raised after the request was sent and is not in
  `_AMBIGUOUS_DELIVERY_ERRORS` (`audit/langfuse_sink.py:37`), and a request may be
  cancelled inside `emit()` after its record arrived
  (`route_gate/terminal_audit.py:240`): the record is written twice, against
  "exactly once". `ImplementsOneRecord` is about the tickets in `Honest`, whose
  errors tell.
* Of two bare rule texts, `PARTNER` and `PARTNER-A`, the stream restores the
  shorter one when a chunk ends between them, against
  `sanitizer/streaming.py:31`: `StreamAlwaysMatchesUnary` (violated). An original
  that contains a placeholder is restored again each time the buffer is scanned,
  and one that is restored next to a bare text changes whether that text stands at
  a word boundary. `StreamMatchesUnary` says which mappings and answers it is
  about: no placeholder reads inside another or arises from an original
  (`Unambiguous`), and no bare one is written against another (`Apart`). The
  mappings of `response` include ones that fail either.
* A delta that carries two tool calls, or content and a call, sends the first
  one's tail after the second began, against `sanitizer/streaming.py:455`. The
  deltas of `response` have one part each. A typed `error` event keeps its own
  sequence number although tails were numbered before it (line 222);
  `NumbersFollow` is about `response.*` events. An event whose rewritten form its
  class rejects goes out raw although part of its text is held (line 407).
* `broadest_oracle_mode` ranks `any_local_finding` above `sampled`, but neither
  contains the other: a profile with the former narrows a global sample, against
  "a layer can only widen the oracle" (`profiles/base.py:38`). Merged allowlists
  are a union, so that a layer can also remove redaction.
* The sampled trigger looks at the conversation and Cache A's key does not
  (`sanitizer/orchestrator.py:807`): the first conversation's answer stands for
  the others. `CacheTransparent` leaves that trigger out.
* `_plan_replacements` looks for an original again with `re.finditer`
  (`sanitizer/orchestrator.py:325`), leftmost first and without overlaps. Where an
  original overlaps itself (`ccc` holds `cc` twice) the place a detector found may
  then be passed over for one a character before it, and when a longer rule takes
  that one, nothing replaces the other. The texts of `sanitize` have no such place,
  and `NothingInClear` is no theorem for that reason.
* With regex detectors only, the oracle off and the chunk policy, an oversize
  text raises instead of being chunked. Cache B is written and never read.
* When the guardrail's inline write and its retry both fail, the refused
  request's state is not freed; a write that arrived unacknowledged is repeated;
  a table that has forgotten a request lets it be recorded again. `OneTrail` and
  `StateFreed` say so in their conditions.
* `revoke_user` and issuance's eviction lock a user's rows in different orders
  (`tokens/postgres_store.py:193`); Postgres would break the deadlock. Row locks
  within one statement are not modelled.
* When litellm's startup raises, uvicorn serves on, unarmed: rewritten routes
  answer 503. A signing key Keycloak withdrew stays trusted until an unknown key
  id causes a fetch.

**Bounds.** Two actors suffice for a race on a counter, a lookup or a record; a
third call is what evicts the first of two tokens; three pairs are what it takes
for a rule text to meet a label that an earlier claim has displaced, and both
label properties are theorems for any number. With two requests the draining
seats never run out; the theorem behind `Accounted` covers that case. Five
characters hold the longest placeholder, split anywhere, with a neighbour on
each side that makes or breaks a word boundary, or two short ones. An extends
depth of 2 lets a loop of two profiles end in the ancestor guard and a chain of
four profiles in the depth bound. Four events open two parts, hold text of both,
and end one while the other goes on. One edit between two calls is what makes a
cache entry stale. A table of one entry forgets at the second request. Two
clients compete for one connection, and three with Keycloak down for one fetch.
The clocks run past every interval in play. Deadlock is checked for the pod
only: the other instances have finitely many requests and end.

**Fairness.** Only of what the event loop or a timeout guarantees: a ready
coroutine runs, `asyncio.timeout` and `asyncio.wait(timeout=)` fire, a lookup or
a write ends by its own bound. Nothing is assumed of clients, of litellm, of
Keycloak or of the database, and safety uses no fairness.

## 4. Proofs

The theorems hold for every value of the constants that satisfies the named
`ASSUME` of the component: any number of requests, callers, calls or originals,
any caps, and clocks and pairs without the bounds that TLC needs. Each proofs
module also proves its component's `TypeOK`, which the runs do not list.

* `InflightLimiter_proofs`. `IndInv` is the type, the three counters as
  cardinalities (`Counters`) and who may own what at each `pc` (`Ownership`):
  the counters alone are not inductive, because a step out of an await must know
  that the request still owns what it gives back. From it: `AccountedTheorem`,
  `LetsGoTheorem`, `OriginTheorem`, and `ImplementationTheorem` (the limiter
  implements `Admission`).
* `AuthMiddleware_proofs`. `LagInv` dates each piece of evidence by where it is:
  in flight, handed to a caller, or cached; a row without a revocation was read
  before the commit (`RowInv`). `LagTheorem` adds the two ages.
* `Issuance_proofs`. `IssuanceInv`: one transaction per subject between its lock
  and its end, orphans included (`LockInv`); an inserted jti is nobody else's
  (`IndexInv`); what the rate check found stays true until the commit
  (`SpacedInv`). From it: `PolicyTheorem`, `TruthTheorem`. `ChoiceInv` adds the
  eviction: what a transaction chose to evict leaves fewer live tokens than the
  cap, and a revocation or the clock can only make them fewer until the commit
  (`Shrinks`, a cardinality argument over the rows, which are finite). With it
  each commit is one `Mint` and every other step a `Tick`, a `Revoke` or a
  stutter: `RefinementTheorem` (the transactions implement `Minting`).
* `Sanitizer_proofs`, on `PlaceholderAllocator`. Each label has one owner, its
  first claimant (`OwnerInv`); the owner of a rule text's label is a rule original
  of that text and a detector's original owns its label (`RuleInv`); the mapping
  lists owners first (`MappingInv`). From it: `BijectionTheorem`,
  `RestoresTheorem`.
* `Sanitizer_proofs`, on `Orchestrator`. Detectors, oracle, rules, policies and
  profile layers are arbitrary. The comment of `_plan_replacements` claims that the
  Cache-A hit path "reproduces the miss path bit-for-bit"
  (`sanitizer/orchestrator.py:286`); that is `CacheTransparentTheorem`, and it has
  two halves. First, the key: it holds all that detection reads of a request and
  its orchestrator (`KeyTells`), so an entry is what the request's own orchestrator
  would have planned (`SanitizedSame`; a sampled trigger reads the conversation too,
  which is why the property excepts it). Second, the plan: an entry keeps only the
  pairs that won a span, and the hit plans again from those. `Winners` is one greedy
  pass (`WinnersGreedy`: the recursive function it is defined by has a value because
  the order has a rank, `RankOf`), and a second pass over fewer candidates, but all
  that won, keeps the same ones (`GreedyAgain`); the pairs left out take with them
  only losers (`ActiveAgain`, `UsedPairs`), hence `PlanAgain`. `OrchInvariant` says
  of each request what its hit, its plan to be stored and its delivery stand for,
  and of each entry that it is its key's plan (`CacheSound`); edits, expiries and
  other pods cannot touch that. From it also `DeliveredTheorem` (a clean rescan is a
  detection that finds nothing, `CleanIsUnplanned`) and `PlansApplyTheorem`: the
  winners lie in the text, are disjoint (`KeptApart`), name what they replace and
  keep their pair.
* `Response_proofs`, on `DesanitizeMiddleware`. `IInv`: what a mode holds
  (`Holding`), a failure has decided the outcome (`Breaking`), what is left to
  send fits what the server has (`Sending`), an ok verdict's final body is on its
  way (`Verdict`). From it: `ResponsesAreValid`, `OutcomesAreTrue`,
  `MappingsAreReleased`. The module has no constants: the theorems say why what
  TLC found holds, and `IInv` is the argument.
* `Response_proofs`, on `SseRestorer`. `SseInv` has one half per adapter. For
  each part, what the client has read and what the buffer keeps is what the
  upstream has sent (`NoneLost`): that is inductive with the types alone, so
  `AllDeliveredTheorem` holds whatever the deltas carry and however many blocks,
  choices, calls and items there are. For the order (`NoneTrails`) what holds
  text must not have ended, what its text ends must have, and of a choice's calls
  only the current one may hold text; the last of these is true only if a delta
  carries content or one call at a time (`OneAtATime`), so `TailsInOrderTheorem`
  has that hypothesis, which the deltas of `response` satisfy and section 3
  shows to be needed. `ResponsesInOrder` needs none. What a client has read is a
  recursion over the events sent: `Readings` and `Numberings` show that such a
  recursion has its values place by place (`Iterates`), `ReadNone`, `ReadOnce`
  and `ReadOrder` what a sequence of events adds to a part, and `FlushGot`,
  `LastTails` and `TailsGot` that the flushes send every tail they empty.
* `PreCall_proofs`. The walks of `ContentBlocks` are recursive functions of the
  position in a path; `LastStep` and the lemmas after it show where each one
  stops, so that `NotMissed` and `PromptNotMissed` can compare the walk that
  collects with the one that rewrites, for paths of any length. `IInv` says that
  at every stage the body is a function of the body that came (`DataInv`), which
  checks lie behind it (`PassedInv`), and where copies are (`CopyInv`). From it:
  `StagesInvariant`, `TextsScanned`, `NothingStoppedLeaves`, `CopiesCleared`,
  `EchoesRestored`.
* `Pod_proofs`. The answer never runs ahead of the transaction (`StoryInv`: by
  phase, what the transaction may have done; a step before the acquire is
  `Undecided`); a connection has one user, who got as far as acquiring it
  (`PoolInv`); the slots are the requests inside (`SlotInv`); whoever got past
  the schema gate did so on a pod that issues, after the schema was seen
  (`GateInv`, `ConfigInv`). From it: `AnswersTheorem`, `SlotsTheorem`,
  `MintingTheorem`.
  The key fetches: a finished fetch has left its stamp on one of the two clocks,
  so the number of fetches times the shorter of cooldown and backoff never runs
  ahead of the clock (`FetchInv`); from it `FetchTheorem`. The gate: what the boot
  has passed (`BootInv`), what being armed means (`ArmedInv`), which request is at
  the gate (`CallInv`) and what was handed on (`ReachedInv`), together `RouteInv`.
  Of the tables it uses one fact, that no row is for HEAD. From it:
  `GuardedTheorem`.
* `AuditTrail_proofs`. The guardrail's half: `GuardrailInv` is said of each
  request by itself: in which order its callers meet it (`OrderInv`), that one
  handed over is out of the guardrail's hands (`HandOverInv`), that one record is
  in flight and none beside a marked one (`RecordInv`), what the metrics' tables
  remember (`CountInv`), and that every way to be done with a record led through
  a write (`TouchInv`). None of the properties is inductive alone: a caller that
  finds its record marked, pending or in flight returns without writing, which is
  right only because whoever put it there wrote, or is writing. A step of one
  request does to another only what the tables' caps do (`Elsewhere`), and what
  they drop is noted (`Remembers`). From it: `OneEffectTheorem`,
  `NothingLostTheorem`, `StateFreedTheorem`, for any number of requests and any
  cap. Those properties except a request that a table forgot; `RoomTheorem` shows
  that this is the caps' doing alone: with room for every request nothing is ever
  forgotten (entries are distinct, so by the pigeonhole a table without a request
  has a place for it). An event that gets as far as the orphan rule is one of a
  request that was written for, and whose write was not acknowledged, is forgotten
  or belongs to another (`OrphanReason`); from it `OrphanTheorem`.
  The terminal half: `TicketInv` relates attempts, retry flag, writer and close
  task of each ticket, and says what a returned drain means. From it:
  `SettledTheorem`, `OutcomeTheorem`. `SinkOK` adds, for the tickets in `Honest`,
  what the sink holds at each stage of a write; from it `OneRecordTheorem` (of
  those tickets it implements `OneRecord`, whatever the others meet).
  Together: `TrailJoins` shows that the composition's steps are steps, or
  stutters, of each writer by itself, so that both invariants hold of it, and
  `OneTrailTheorem` that the two sinks together record a request once.

`GuardrailInv`, `PreCall`'s `IInv` and `OrchInvariant` were invariants of the
`audit_trail`, `pre_call` and `sanitize` instances for TLC before they were proved.
Induction over places is done
with sets instead of predicates: a set of naturals that is not empty has a least
element (`LeastNat`), and from that what holds at 0 and goes from each place to the
next holds at every place (`EveryPlace`).

Only model-checked: liveness (`BodyReadEnds`, `CancelFreesSlot`,
`EveryRecordSettles`, `CallerAnswered`, `IssueEnds`), which needs fairness and
ENABLED; `StreamMatchesUnary`, which compares two recursive substitutions character
by character; the second half of `PlanFits` (how placeholders are numbered, a fold
over the findings, and only as good as the oracle's own numbers);
`NothingInClear`, which holds of texts whose originals do not overlap themselves
(section 3); and `ExtendsSound`, whose walk is a recursion within a recursion.

## 5. Plan

Every component of section 1 that has control of its own has its module. What
would come next, in this order:

1. What `_merge_local` numbers, as a theorem under an assumption on the oracle's
   answers, which would complete `PlanFits`.
2. The usage chunk and the token counts of the response path.

## 6. Not modelled

* Detectors, NER models and HTTP clients: no state that outlives a call. What
  they find is a constant of `Orchestrator`, and their failures are its actions.
* Metrics and field-level audit checks: counters without control of their own.
* The command line: a front end to the same stores and the same checks.
* In `bootstrap.py` and the guardrail's constructor, the wiring of clients and
  stores; in `litellm_hook.py`, the output-token clamp and the wire headers.
* The rows of the route table beyond one of each kind; reading and validating
  rule and profile files; prompts to the corp LLM and the parsing of its answers.
* Splitting bytes into events, UTF-8 and JSON. Outside `StreamingDesanitizer` and
  `SpanPlan`, text is never modelled by its characters: placeholders are records
  of family and number, streamed text is counted.
