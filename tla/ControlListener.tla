-------------------------- MODULE ControlListener --------------------------
(***************************************************************************)
(* The gateway's own routes: POST /internal/issue-token and GET            *)
(* /healthz/ready (healthz/server.py, healthz/checks.py), with what the    *)
(* issuance route stands on: the Keycloak key cache (tokens/               *)
(* oidc_verifier.py), the known-team check (bootstrap.py) and the pooled   *)
(* connection a minting runs on (pg_session.py).                           *)
(*                                                                         *)
(* A request runs alone between two awaits.  Keycloak and Postgres answer, *)
(* fail or stay silent; only the gateway's own timers are sure to fire.    *)
(* What the transaction does inside is Issuance; here it refuses, commits, *)
(* or breaks.                                                              *)
(***************************************************************************)
EXTENDS Integers, FiniteSets

CONSTANTS
    Clients,        \* issuance requests
    Kid, Jti,       \* of each client's bearer
    Kids,           \* key ids Keycloak may publish
    Connections,    \* the token store's pool
    Slots, Burst,   \* issue_max_inflight, issue_rate_per_minute
    Cooldown, Backoff,      \* UNKNOWN_KID_COOLDOWN_S, FAILURE_BACKOFF_S
    Recheck,        \* ISSUANCE_SCHEMA_RECHECK_S
    MaxTime         \* bound: the clock stops there

ASSUME ListenerAssumption ==
    /\ IsFiniteSet(Clients) /\ IsFiniteSet(Connections)
    /\ Slots \in Nat \ {0} /\ Burst \in Nat \ {0}
    /\ Cooldown \in Nat \ {0} /\ Backoff \in Nat \ {0} /\ Recheck \in Nat \ {0}
    /\ MaxTime \in Nat
    /\ "pool" \notin Clients       \* Pool, below, is nobody

VARIABLES
    now,
    schema,         \* corp_tokens in Postgres: "old" until it is migrated
    verified, checkedAt,    \* IssuanceSchemaGate
    probe, ready,   \* the readiness probe, and what it last answered
    phase,          \* where each request is
    answer,         \* its outcome, then its answer
    inflight, tokens,       \* _issue_inflight, the bucket
    published,      \* Keycloak's current signing keys
    keys, refreshedAt, failedAt,    \* JwksClient
    fetch,          \* _inflight: "none", "running", or done with a result
    awaited,        \* the result of the fetch each waiter waits on
    fetches,        \* fetches started so far
    holder,         \* who has each connection; Pool when it is idle
    tx              \* each request's transaction in Postgres

gateVars == <<schema, verified, checkedAt, probe, ready>>
slotVars == <<inflight, tokens>>
jwksVars == <<keys, refreshedAt, failedAt, fetch, awaited, fetches>>
poolVars == <<holder, tx>>
listenerVars == <<now, gateVars, phase, answer, slotVars, published, jwksVars, poolVars>>

Never == -1
Pool == "pool"
Results == {"ok", "failed"}

\* issuer.issue() is running, under the route's one time bound.
Working == {"key", "team", "acquire", "store", "commit", "release"}
\* Between `_issue_inflight += 1` and the finally.
Inside == {"body", "cancel"} \union Working
Holding == {"store", "commit", "release", "cancel"}

\* Answers that promise that nothing was minted, and the two that do not.  One
\* code stands for those that end a request in the same place: E_ISSUE_BODY for
\* the body's (its timeout, a disconnect), E_OIDC for the bearer's, and
\* E_ISSUE_REFUSED for the policy's (rate and replay).
Refusals == {"E_ISSUE_DISABLED", "E_METHOD_NOT_ALLOWED", "E_ISSUE_SCHEMA", "E_ISSUE_INFLIGHT",
             "E_ISSUE_THROTTLED", "E_ISSUE_BODY", "E_OIDC", "E_JWKS_UNAVAILABLE",
             "E_ISSUE_NO_TEAM", "E_ISSUE_REFUSED", "E_ISSUE_BUSY", "E_ISSUE_INTERNAL"}
Ambiguous == {"E_ISSUE_STORE_TIMEOUT", "E_ISSUE_STORE_UNAVAILABLE"}

TypeOK ==
    /\ now \in 0..MaxTime
    /\ schema \in {"old", "current"} /\ verified \in BOOLEAN
    /\ checkedAt \in {Never} \union 0..MaxTime
    /\ probe \in {"idle", "schema"} /\ ready \in BOOLEAN
    /\ phase \in [Clients -> {"idle", "schema", "done"} \union Inside]
    /\ answer \in [Clients -> {"none", "ok"} \union Refusals \union Ambiguous]
    /\ inflight \in 0..Slots /\ tokens \in 0..Burst
    /\ published \subseteq Kids /\ keys \subseteq Kids
    /\ refreshedAt \in {Never} \union 0..MaxTime /\ failedAt \in {Never} \union 0..MaxTime
    /\ fetch \in {"none", "running"} \union Results
    /\ awaited \in [Clients -> {"none", "running"} \union Results]
    /\ fetches \in Nat
    /\ holder \in [Connections -> {Pool} \union Clients]
    /\ tx \in [Clients -> {"none", "open", "maybe", "committed", "ended"}]

ListenerInit ==
    /\ now = 0
    /\ probe = "idle" /\ ready = FALSE
    /\ phase = [r \in Clients |-> "idle"]
    /\ answer = [r \in Clients |-> "none"]
    /\ inflight = 0 /\ tokens = Burst
    /\ published = {}
    /\ keys = {} /\ refreshedAt = Never /\ failedAt = Never
    /\ fetch = "none" /\ awaited = [r \in Clients |-> "none"] /\ fetches = 0
    /\ holder = [c \in Connections |-> Pool]
    /\ tx = [r \in Clients |-> "none"]

\* One tick is long enough for the bucket to gain a token.
Tick ==
    /\ now < MaxTime
    /\ now' = now + 1
    /\ tokens' = IF tokens < Burst THEN tokens + 1 ELSE tokens
    /\ UNCHANGED <<gateVars, phase, answer, inflight, published, jwksVars, poolVars>>

\* Keycloak rotates its keys; an operator migrates the token schema.
Rotate ==
    /\ \E new \in SUBSET Kids : published' = new /\ new # published
    /\ UNCHANGED <<now, gateVars, phase, answer, slotVars, jwksVars, poolVars>>

Migrate ==
    /\ schema = "old"
    /\ schema' = "current"
    /\ UNCHANGED <<now, verified, checkedAt, probe, ready, phase, answer, slotVars, published,
                   jwksVars, poolVars>>

------------------------------------------------------------------------------
(* Ends of a request.                                                       *)

Goto(r, p) == phase' = [phase EXCEPT ![r] = p]
Say(r, code) == answer' = [answer EXCEPT ![r] = code]

\* Answered before it had a slot.
Turned(r, code) == Goto(r, "done") /\ Say(r, code) /\ UNCHANGED slotVars

\* Mutant: no finally, and a disconnect returns early.
AnsweredLeaks(r, code) ==
    /\ Goto(r, "done") /\ Say(r, code)
    /\ inflight' = IF code = "E_ISSUE_BODY" THEN inflight ELSE inflight - 1
    /\ UNCHANGED tokens

\* Out of _issue: the finally frees the slot, then the answer goes out.
Answered(r, code) ==
    /\ Goto(r, "done") /\ Say(r, code)
    /\ inflight' = inflight - 1 /\ UNCHANGED tokens

\* _handle_issue_token: the cap before the bucket, so that a refusal is free.
Handle(r) ==
    \/ inflight >= Slots /\ Turned(r, "E_ISSUE_INFLIGHT")
    \/ inflight < Slots /\ tokens = 0 /\ Turned(r, "E_ISSUE_THROTTLED")
    \/ /\ inflight < Slots /\ tokens > 0
       /\ inflight' = inflight + 1 /\ tokens' = tokens - 1
       /\ Goto(r, "body") /\ UNCHANGED answer

------------------------------------------------------------------------------
(* IssuanceSchemaGate.problem(), for the route and for readiness.           *)

RecheckDue == checkedAt = Never \/ now - checkedAt >= Recheck

\* The route, as HealthRouter reaches it: method is the request's.
Issue(r, enabled, method) ==
    /\ phase[r] = "idle"
    /\ \/ ~enabled /\ Turned(r, "E_ISSUE_DISABLED") /\ UNCHANGED checkedAt
       \/ enabled /\ method # "POST" /\ Turned(r, "E_METHOD_NOT_ALLOWED") /\ UNCHANGED checkedAt
       \/ enabled /\ method = "POST" /\ verified /\ Handle(r) /\ UNCHANGED checkedAt
       \/ /\ enabled /\ method = "POST" /\ ~verified /\ ~RecheckDue
          /\ Turned(r, "E_ISSUE_SCHEMA") /\ UNCHANGED checkedAt
       \/ /\ enabled /\ method = "POST" /\ ~verified /\ RecheckDue
          /\ checkedAt' = now
          /\ Goto(r, "schema") /\ UNCHANGED <<answer, slotVars>>
    /\ UNCHANGED <<now, schema, verified, probe, ready, published, jwksVars, poolVars>>

\* Mutant: a check that fails leaves the gate open.
SchemaSeenAnyway(seen) == verified' = TRUE

\* What the check leaves behind: `seen` when it ran and found the schema current.
SchemaSeen(seen) == verified' = (verified \/ seen)

\* The check ends: it saw the schema, or it failed (within its own timeouts).
SchemaChecked(r) ==
    /\ phase[r] = "schema"
    /\ \/ schema = "current" /\ SchemaSeen(TRUE) /\ Handle(r)
       \/ SchemaSeen(FALSE) /\ Turned(r, "E_ISSUE_SCHEMA")
    /\ UNCHANGED <<now, schema, checkedAt, probe, ready, published, jwksVars, poolVars>>

\* GET /healthz/ready: Redis and Postgres answer or not, then the gate.
Ready ==
    /\ probe = "idle"
    /\ \/ ready' = FALSE /\ UNCHANGED <<probe, checkedAt>>
       \/ verified /\ ready' = TRUE /\ UNCHANGED <<probe, checkedAt>>
       \/ ~verified /\ ~RecheckDue /\ ready' = FALSE /\ UNCHANGED <<probe, checkedAt>>
       \/ ~verified /\ RecheckDue /\ checkedAt' = now /\ probe' = "schema" /\ UNCHANGED ready
    /\ UNCHANGED <<now, schema, verified, phase, answer, slotVars, published, jwksVars, poolVars>>

ReadyChecked ==
    /\ probe = "schema"
    /\ probe' = "idle"
    /\ \/ schema = "current" /\ SchemaSeen(TRUE) /\ ready' = TRUE
       \/ SchemaSeen(FALSE) /\ ready' = FALSE
    /\ UNCHANGED <<now, schema, checkedAt, phase, answer, slotVars, published, jwksVars, poolVars>>

------------------------------------------------------------------------------
(* The bearer: the body bound, the key, the claims, the team.               *)

\* The claims: refused, mapped to no group, or mapped to a team to look up.
Decode(r) ==
    /\ \/ Answered(r, "E_OIDC")
       \/ Answered(r, "E_ISSUE_NO_TEAM")
       \/ Goto(r, "team") /\ UNCHANGED <<answer, slotVars>>

Within(since, span) == since # Never /\ now - since < span

\* JwksClient.key_for, up to its await.
KeyFor(r) ==
    \/ Kid[r] \in keys /\ Decode(r) /\ UNCHANGED jwksVars
    \/ /\ Kid[r] \notin keys /\ fetch = "none" /\ Within(failedAt, Backoff)
       /\ Answered(r, "E_JWKS_UNAVAILABLE") /\ UNCHANGED jwksVars
    \/ /\ Kid[r] \notin keys /\ fetch = "none" /\ ~Within(failedAt, Backoff)
       /\ Within(refreshedAt, Cooldown)
       /\ Answered(r, "E_OIDC") /\ UNCHANGED jwksVars
    \/ /\ Kid[r] \notin keys /\ fetch = "none" /\ ~Within(failedAt, Backoff)
       /\ ~Within(refreshedAt, Cooldown)
       /\ fetch' = "running" /\ fetches' = fetches + 1
       /\ awaited' = [awaited EXCEPT ![r] = "running"]
       /\ Goto(r, "key")
       /\ UNCHANGED <<answer, slotVars, keys, refreshedAt, failedAt>>
    \/ /\ Kid[r] \notin keys /\ fetch # "none"       \* even one that is done already
       /\ awaited' = [awaited EXCEPT ![r] = fetch]
       /\ Goto(r, "key")
       /\ UNCHANGED <<answer, slotVars, keys, refreshedAt, failedAt, fetch, fetches>>

\* _refuse_body, the bearer and its header, then the key.
Body(r) ==
    /\ phase[r] = "body"
    /\ \/ /\ \E code \in {"E_ISSUE_BODY", "E_OIDC"} :
                 Answered(r, code)
          /\ UNCHANGED jwksVars
       \/ KeyFor(r)
    /\ UNCHANGED <<now, gateVars, published, poolVars>>

\* Mutant: a failed fetch is not remembered.
FetchFailsForgotten ==
    /\ fetch = "running"
    /\ fetch' = "failed"
    /\ awaited' = [r \in Clients |-> IF awaited[r] = "running" THEN "failed" ELSE awaited[r]]
    /\ UNCHANGED <<now, gateVars, phase, answer, slotVars, published, keys, refreshedAt, failedAt,
                   fetches, poolVars>>

\* Timeout, a status other than 200, a body too large, or no usable key.
FetchFails ==
    /\ fetch = "running"
    /\ fetch' = "failed" /\ failedAt' = now
    /\ awaited' = [r \in Clients |-> IF awaited[r] = "running" THEN "failed" ELSE awaited[r]]
    /\ UNCHANGED <<now, gateVars, phase, answer, slotVars, published, keys, refreshedAt, fetches,
                   poolVars>>

\* The whole set is replaced.
FetchLands ==
    /\ fetch = "running" /\ published # {}
    /\ fetch' = "ok" /\ keys' = published
    /\ refreshedAt' = now /\ failedAt' = Never
    /\ awaited' = [r \in Clients |-> IF awaited[r] = "running" THEN "ok" ELSE awaited[r]]
    /\ UNCHANGED <<now, gateVars, phase, answer, slotVars, published, fetches, poolVars>>

\* The done callback.
ClearInflight ==
    /\ fetch \in Results
    /\ fetch' = "none"
    /\ UNCHANGED <<now, gateVars, phase, answer, slotVars, published, keys, refreshedAt, failedAt,
                   awaited, fetches, poolVars>>

\* A waiter resumes: its own fetch's failure, or the keys as they are now.
KeyResume(r) ==
    /\ phase[r] = "key" /\ awaited[r] \in Results
    /\ awaited' = [awaited EXCEPT ![r] = "none"]
    /\ \/ awaited[r] = "failed" /\ Answered(r, "E_JWKS_UNAVAILABLE")
       \/ awaited[r] = "ok" /\ Kid[r] \notin keys /\ Answered(r, "E_OIDC")
       \/ awaited[r] = "ok" /\ Kid[r] \in keys /\ Decode(r)
    /\ UNCHANGED <<now, gateVars, published, keys, refreshedAt, failedAt, fetch, fetches, poolVars>>

\* The mapped team must exist; the lookup's own failure is the store's.
Team(r) ==
    /\ phase[r] = "team"
    /\ \/ \E code \in {"E_ISSUE_NO_TEAM", "E_ISSUE_STORE_UNAVAILABLE", "E_ISSUE_INTERNAL"} :
             Answered(r, code)
       \/ Goto(r, "acquire") /\ UNCHANGED <<answer, slotVars>>
    /\ UNCHANGED <<now, gateVars, published, jwksVars, poolVars>>

------------------------------------------------------------------------------
(* run_on_connection and in_transaction.                                    *)

Minted == {r \in Clients : tx[r] = "committed"}

Set(f, x, v) == [f EXCEPT ![x] = v]
Held(r) == {c \in Connections : holder[c] = r}

\* Back in the pool, reset, or terminated and to be opened anew.
Freed(r) == holder' = [c \in Connections |-> IF holder[c] = r THEN Pool ELSE holder[c]]

Acquire(r) ==
    /\ phase[r] = "acquire"
    /\ \/ \E c \in Connections :
             /\ holder[c] = Pool
             /\ holder' = Set(holder, c, r) /\ tx' = Set(tx, r, "open")
             /\ Goto(r, "store") /\ UNCHANGED <<answer, slotVars>>
       \/ Answered(r, "E_ISSUE_STORE_UNAVAILABLE") /\ UNCHANGED poolVars   \* acquire timeout
    /\ UNCHANGED <<now, gateVars, published, jwksVars>>

\* ROLLBACK after a policy refusal or any other error, or the server's refusal
\* of the COMMIT, which rolls back as well; then the release.
Refuse(r) ==
    /\ \/ /\ phase[r] = "store"
          /\ \E code \in {"E_ISSUE_REFUSED", "E_ISSUE_BUSY", "E_ISSUE_INTERNAL",
                           "E_ISSUE_STORE_UNAVAILABLE"} : Say(r, code)
       \/ /\ phase[r] = "commit" /\ tx[r] = "maybe"
          /\ \E code \in {"E_ISSUE_BUSY", "E_ISSUE_INTERNAL"} : Say(r, code)
    /\ tx' = Set(tx, r, "ended")
    /\ Goto(r, "release")
    /\ UNCHANGED <<now, gateVars, slotVars, published, jwksVars, holder>>

\* A statement outlives its own client-side bound: no ROLLBACK, the connection
\* is abandoned as when the caller is cancelled.
StatementTimeout(r) ==
    /\ phase[r] = "store"
    /\ Say(r, "E_ISSUE_STORE_UNAVAILABLE") /\ Goto(r, "cancel")
    /\ UNCHANGED <<now, gateVars, slotVars, published, jwksVars, poolVars>>

\* The statements passed, so that the jti is new: COMMIT is sent.
CommitSent(r) ==
    /\ phase[r] = "store"
    /\ \A d \in Minted : Jti[d] # Jti[r]
    /\ \A d \in Clients \ {r} : tx[d] = "maybe" => Jti[d] # Jti[r]
    /\ tx' = Set(tx, r, "maybe")
    /\ Goto(r, "commit")
    /\ UNCHANGED <<now, gateVars, answer, slotVars, published, jwksVars, holder>>

Committed(r) ==
    /\ phase[r] = "commit" /\ tx[r] = "maybe"
    /\ tx' = Set(tx, r, "committed")
    /\ Say(r, "ok") /\ Goto(r, "release")
    /\ UNCHANGED <<now, gateVars, slotVars, published, jwksVars, holder>>

\* The connection is lost before the COMMIT is acknowledged.
CommitLost(r) ==
    /\ phase[r] = "commit"
    /\ Say(r, "E_ISSUE_STORE_UNAVAILABLE") /\ Goto(r, "release")
    /\ UNCHANGED <<now, gateVars, slotVars, published, jwksVars, poolVars>>

\* _release within its budget; _settle drops a connection that was not reset.
Release(r) ==
    /\ phase[r] = "release"
    /\ Freed(r)
    /\ Answered(r, answer[r])
    /\ UNCHANGED <<now, gateVars, published, jwksVars, tx>>

\* Mutant: a time-out while COMMIT runs reads as the statement's own.
TimedOutBusy(r) == IF phase[r] = "commit" THEN "E_ISSUE_BUSY" ELSE "E_ISSUE_STORE_TIMEOUT"

\* What a caller is told whose bound fired.
TimedOut(r) == "E_ISSUE_STORE_TIMEOUT"

\* Mutant: the cancelled work is rolled back first, which waits for the server.
TimeoutRollsBack(r) ==
    /\ phase[r] \in Working \ {"store", "commit"}
    /\ Answered(r, TimedOut(r))
    /\ awaited' = [awaited EXCEPT ![r] = "none"]
    /\ UNCHANGED <<now, gateVars, published, keys, refreshedAt, failedAt, fetch, fetches, poolVars>>

\* asyncio.timeout fires.  A running statement is abandoned, with no ROLLBACK;
\* a release goes on in the background; a key fetch is shared and goes on.
Timeout(r) ==
    /\ phase[r] \in Working
    /\ IF phase[r] \in {"store", "commit"}
       THEN Goto(r, "cancel") /\ Say(r, TimedOut(r)) /\ UNCHANGED slotVars
       ELSE Answered(r, TimedOut(r))
    /\ awaited' = [awaited EXCEPT ![r] = "none"]
    /\ UNCHANGED <<now, gateVars, published, keys, refreshedAt, failedAt, fetch, fetches, poolVars>>

\* _cancel_statement within its budget, then the connection is terminated.
Cancelled(r) ==
    /\ phase[r] = "cancel"
    /\ Freed(r)
    /\ Answered(r, answer[r])
    /\ UNCHANGED <<now, gateVars, published, jwksVars, tx>>

\* _finish_in_background, for a release whose caller was cancelled.
BackgroundRelease(r) ==
    /\ phase[r] = "done" /\ Held(r) # {}
    /\ Freed(r)
    /\ UNCHANGED <<now, gateVars, phase, answer, slotVars, published, jwksVars, tx>>

\* Postgres ends a transaction nobody waits for: rolled back, or committed when
\* it had the COMMIT.
Orphaned(r) == tx[r] \in {"open", "maybe"} /\ phase[r] \notin {"store", "commit"}

OrphanEnds(r) ==
    /\ Orphaned(r)
    /\ tx' = Set(tx, r, "ended")
    /\ UNCHANGED <<now, gateVars, phase, answer, slotVars, published, jwksVars, holder>>

OrphanCommits(r) ==
    /\ Orphaned(r) /\ tx[r] = "maybe"
    /\ tx' = Set(tx, r, "committed")
    /\ UNCHANGED <<now, gateVars, phase, answer, slotVars, published, jwksVars, holder>>

------------------------------------------------------------------------------

Serve(r) ==
    \/ SchemaChecked(r)
    \/ Body(r)
    \/ KeyResume(r)
    \/ Team(r)
    \/ Acquire(r)
    \/ Refuse(r)
    \/ StatementTimeout(r)
    \/ CommitSent(r)
    \/ Committed(r)
    \/ CommitLost(r)
    \/ Release(r)
    \/ Timeout(r)
    \/ Cancelled(r)
    \/ BackgroundRelease(r)
    \/ OrphanEnds(r)
    \/ OrphanCommits(r)

Probes == Ready \/ ReadyChecked
Fetching == FetchFails \/ FetchLands \/ ClearInflight

\* The gateway's own timers and its own turns of the loop; no reply of Postgres
\* or Keycloak is counted on.
ListenerFairness ==
    /\ \A r \in Clients :
          /\ WF_listenerVars(SchemaChecked(r))
          /\ WF_listenerVars(Body(r))
          /\ WF_listenerVars(Timeout(r))
          /\ WF_listenerVars(Cancelled(r))
          /\ WF_listenerVars(BackgroundRelease(r))

=============================================================================
