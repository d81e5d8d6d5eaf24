--------------------------- MODULE AuthMiddleware ---------------------------
(***************************************************************************)
(* X-Corp-Auth validation (tokens/middleware.py): a cache of token rows    *)
(* with a time to live, and one store lookup per token in flight, shared   *)
(* by the concurrent callers of that token.                                *)
(*                                                                         *)
(* A lookup is a query that another machine answers: the row is read at    *)
(* one moment, and reaches the cache later, at most Latency after (the     *)
(* client-side timeout of the statement, then the bounded release of the   *)
(* connection).  In between the row may be revoked.  The loop's own        *)
(* wake-ups take no time: the clock stands while a caller is ready to run. *)
(***************************************************************************)
EXTENDS Integers

CONSTANTS
    Callers,    \* authenticate() calls under way
    Tokens,
    TTL,        \* revocation_cache_seconds
    Latency,    \* LOOKUP_TIMEOUT_S + RELEASE_BUDGET_S + RELEASE_GRACE_S
    Life,       \* how long after its issue a token expires
    MaxTime     \* bound: the clock stops there

ASSUME AuthAssumption ==
    /\ TTL \in Nat \ {0} /\ Latency \in Nat /\ Life \in Nat \ {0}
    /\ MaxTime \in Nat

VARIABLES
    now,        \* the clock, of time.monotonic() and of datetime.now()
    expires,    \* store: expires_at of each row, 0 = there is no row
    revoked,    \* store: revoked_at of each row, or Never
    stamp,      \* the clock a revocation under way has read, or Never
    committed,  \* history: when the revocation of each row took effect, or Never
    cache,      \* _cache
    flight,     \* _inflight: the lookup task of each token
    call,       \* the callers' coroutines
    said        \* the last answer each caller got

store == <<expires, revoked, stamp, committed>>
vars  == <<now, store, cache, flight, call, said>>

Never == -1

\* What a lookup brought back of a row, and when it was read there.
Evidence == [revoked : Nat \union {Never}, read : Nat]
Nothing  == [revoked |-> Never, read |-> 0]

NoFlight == [stage |-> "none", result |-> "failed", info |-> Nothing]
NoCall(t) == [stage |-> "idle", token |-> t, result |-> "failed", info |-> Nothing]

Results  == {"info", "unknown", "failed"}
Verdicts == {"none", "accepted", "revoked", "expired", "unknown", "failed",
             "gone"}     \* the caller gave up

Lookup  == [stage : {"none", "asked", "read", "done"}, result : Results,
            info : Evidence]
Waiting == [stage : {"idle", "waiting", "ready"}, token : Tokens,
            result : Results, info : Evidence]

TypeOK ==
    /\ now \in Nat
    /\ expires \in [Tokens -> Nat]
    /\ revoked \in [Tokens -> Nat \union {Never}]
    /\ stamp \in [Tokens -> Nat \union {Never}]
    /\ committed \in [Tokens -> Nat \union {Never}]
    /\ cache \in [Tokens -> [has : BOOLEAN, info : Evidence, at : Nat]]
    /\ flight \in [Tokens -> Lookup]
    /\ call \in [Callers -> Waiting]
    /\ said \in [Callers -> [verdict : Verdicts, token : Tokens, at : Nat]]

Init ==
    /\ now = 1
    /\ expires = [t \in Tokens |-> 0]
    /\ revoked = [t \in Tokens |-> Never]
    /\ stamp = [t \in Tokens |-> Never]
    /\ committed = [t \in Tokens |-> Never]
    /\ cache = [t \in Tokens |-> [has |-> FALSE, info |-> Nothing, at |-> 0]]
    /\ flight = [t \in Tokens |-> NoFlight]
    /\ \E t \in Tokens :
        /\ call = [c \in Callers |-> NoCall(t)]
        /\ said = [c \in Callers |-> [verdict |-> "none", token |-> t, at |-> 0]]

-----------------------------------------------------------------------------
(* The clock and the store.                                                *)

Tick ==
    /\ now < MaxTime
    /\ \A c \in Callers : call[c].stage # "ready"
    /\ \A t \in Tokens : flight[t].stage # "done"
    /\ now' = now + 1
    /\ UNCHANGED <<store, cache, flight, call, said>>

\* A token is issued.
Issue(t) ==
    /\ expires[t] = 0
    /\ expires' = [expires EXCEPT ![t] = now + Life]
    /\ UNCHANGED <<now, revoked, stamp, committed, cache, flight, call, said>>

\* revoke_user, or an eviction by a later issuance, reads the clock: the row it
\* will write does not have to exist yet, and a connection is still to be had.
Revoke(t) ==
    /\ stamp[t] = Never /\ revoked[t] = Never
    /\ stamp' = [stamp EXCEPT ![t] = now]
    /\ UNCHANGED <<now, expires, revoked, committed, cache, flight, call, said>>

\* Its UPDATE takes effect, any time later: an unrevoked row gets the time that
\* was read, not the time it is.
RevokeCommits(t) ==
    /\ stamp[t] # Never
    /\ stamp' = [stamp EXCEPT ![t] = Never]
    /\ IF expires[t] # 0 /\ revoked[t] = Never
       THEN /\ revoked' = [revoked EXCEPT ![t] = stamp[t]]
            /\ committed' = [committed EXCEPT ![t] = now]
       ELSE UNCHANGED <<revoked, committed>>
    /\ UNCHANGED <<now, expires, cache, flight, call, said>>

\* No connection, a statement that fails: revoke_user raises, nothing is written.
RevokeFails(t) ==
    /\ stamp[t] # Never
    /\ stamp' = [stamp EXCEPT ![t] = Never]
    /\ UNCHANGED <<now, expires, revoked, committed, cache, flight, call, said>>

-----------------------------------------------------------------------------
(* Callers.                                                                *)

\* The answer a caller gets, and when, if it is let in.
Say(c, t, verdict) ==
    said' = [said EXCEPT ![c] = [verdict |-> verdict, token |-> t,
                                 at |-> IF verdict = "accepted" THEN now ELSE 0]]

\* _validate(info, datetime.now()); a row's expiry never changes.
Validate(info, t) ==
    IF info.revoked # Never /\ info.revoked <= now THEN "revoked"
    ELSE IF expires[t] <= now THEN "expired"
    ELSE "accepted"

\* Mutant: the boundary of the cache's time to live is off by one.
FreshInclusive(t) == cache[t].has /\ now - cache[t].at <= TTL

\* _lookup finds a cache entry young enough.
Fresh(t) == cache[t].has /\ now - cache[t].at < TTL

\* A cache hit: no await between the lookup and the answer.
Hit(c, t) ==
    /\ call[c].stage = "idle"
    /\ Fresh(t)
    /\ Say(c, t, Validate(cache[t].info, t))
    /\ UNCHANGED <<now, store, cache, flight, call>>

\* A miss: start the token's lookup, or join the one in flight.  A lookup that
\* is done stays in _inflight until its done callback runs.
Miss(c, t) ==
    /\ call[c].stage = "idle"
    /\ ~Fresh(t)
    /\ call' = [call EXCEPT ![c] =
                   IF flight[t].stage = "done"
                   THEN [stage |-> "ready", token |-> t,
                         result |-> flight[t].result, info |-> flight[t].info]
                   ELSE [NoCall(t) EXCEPT !.stage = "waiting"]]
    /\ flight' = IF flight[t].stage = "none"
                 THEN [flight EXCEPT ![t].stage = "asked"]
                 ELSE flight
    /\ UNCHANGED <<now, store, cache, said>>

\* asyncio.wait returns, task.result() is validated.
Resume(c) ==
    /\ call[c].stage = "ready"
    /\ Say(c, call[c].token,
           IF call[c].result = "info" THEN Validate(call[c].info, call[c].token)
                                      ELSE call[c].result)
    /\ call' = [call EXCEPT ![c] = NoCall(@.token)]
    /\ UNCHANGED <<now, store, cache, flight>>

\* The lookup of t is over with this result: its waiters are ready to run.
Wake(t, result, info) ==
    call' = [c \in Callers |->
                IF call[c].stage = "waiting" /\ call[c].token = t
                THEN [call[c] EXCEPT !.stage = "ready", !.result = result, !.info = info]
                ELSE call[c]]

\* Mutant: a caller that gives up takes the lookup out of _inflight with it.
GiveUpDropsLookup(c) ==
    /\ call[c].stage \in {"waiting", "ready"}
    /\ Say(c, call[c].token, "gone")
    /\ call' = [call EXCEPT ![c] = NoCall(@.token)]
    /\ flight' = [flight EXCEPT ![call[c].token] = NoFlight]
    /\ UNCHANGED <<now, store, cache>>

\* The caller's request is cancelled while it waits: it stops waiting, and the
\* lookup (a task no request owns) runs on.
GiveUp(c) ==
    /\ call[c].stage \in {"waiting", "ready"}
    /\ Say(c, call[c].token, "gone")
    /\ call' = [call EXCEPT ![c] = NoCall(@.token)]
    /\ UNCHANGED <<now, store, cache, flight>>

-----------------------------------------------------------------------------
(* The lookup task.                                                        *)

\* The database executes the query.
StoreReads(t) ==
    /\ flight[t].stage = "asked"
    /\ flight' = [flight EXCEPT ![t] =
                     [stage  |-> "read",
                      result |-> IF expires[t] = 0 THEN "unknown" ELSE "info",
                      info   |-> [revoked |-> revoked[t], read |-> now]]]
    /\ UNCHANGED <<now, store, cache, call, said>>

\* _fetch: the answer arrives, inside its bounds, and a row found is cached.
LookupReturns(t) ==
    LET f == flight[t]
    IN  /\ f.stage = "read"
        /\ now - f.info.read <= Latency
        /\ cache' = IF f.result = "info"
                    THEN [cache EXCEPT ![t] = [has |-> TRUE, info |-> f.info, at |-> now]]
                    ELSE cache
        /\ flight' = [flight EXCEPT ![t].stage = "done"]
        /\ Wake(t, f.result, f.info)
        /\ UNCHANGED <<now, store, said>>

\* No connection, a timeout or a lost connection: nothing is cached.
LookupFails(t) ==
    /\ flight[t].stage \in {"asked", "read"}
    /\ flight' = [flight EXCEPT ![t] = [NoFlight EXCEPT !.stage = "done"]]
    /\ Wake(t, "failed", Nothing)
    /\ UNCHANGED <<now, store, cache, said>>

\* The done callback, _forget.
Forget(t) ==
    /\ flight[t].stage = "done"
    /\ flight' = [flight EXCEPT ![t] = NoFlight]
    /\ UNCHANGED <<now, store, cache, call, said>>

-----------------------------------------------------------------------------

CallerStep(c) ==
    \/ \E t \in Tokens : Hit(c, t)
    \/ \E t \in Tokens : Miss(c, t)
    \/ Resume(c)
    \/ GiveUp(c)

TokenStep(t) ==
    \/ Issue(t)
    \/ Revoke(t)
    \/ RevokeCommits(t)
    \/ RevokeFails(t)
    \/ StoreReads(t)
    \/ LookupReturns(t)
    \/ LookupFails(t)
    \/ Forget(t)

Next ==
    \/ Tick
    \/ \E c \in Callers : CallerStep(c)
    \/ \E t \in Tokens : TokenStep(t)

(***************************************************************************)
(* A ready coroutine or callback runs, and a lookup ends, by its timeouts  *)
(* at the latest.  Nothing is assumed of the database or of the clock.     *)
(***************************************************************************)
Fairness ==
    /\ \A c \in Callers : WF_vars(Resume(c))
    /\ \A t \in Tokens : WF_vars(Forget(t)) /\ WF_vars(LookupReturns(t) \/ LookupFails(t))

SafeSpec == Init /\ [][Next]_vars
Spec     == SafeSpec /\ Fairness

-----------------------------------------------------------------------------
(* Properties.                                                             *)

\* The caller was let in with its token this long after the revocation of that
\* token took effect.
LetInAfterRevoke(c, lag) ==
    LET a == said[c]
    IN  /\ a.verdict = "accepted"
        /\ committed[a.token] # Never
        /\ a.at >= committed[a.token] + lag

(* The offboarding lag: whatever is cached, shared or still on its way from   *)
(* the store, and whatever time the revocation has written into the row, a    *)
(* token whose revocation is in the store is accepted for less than the       *)
(* cache's time to live plus the time an answer may take; and an expired one  *)
(* never (_lookup, _fetch, _validate).                                        *)
RevocationLag ==
    \A c \in Callers :
        /\ ~LetInAfterRevoke(c, TTL + Latency)
        /\ said[c].verdict = "accepted" => said[c].at < expires[said[c].token]

(* What the repository's documents promise of the same lag: the cache's time  *)
(* to live is its upper bound.  The code does not keep it: _fetch dates a     *)
(* cache entry when the answer arrives, not when the row was read.            *)
RevokedWithinTTL ==
    \A c \in Callers : ~LetInAfterRevoke(c, TTL + 1)

(* Whoever else gives up or fails, a caller waiting on a lookup is answered.  *)
CallerAnswered ==
    \A c \in Callers : call[c].stage = "waiting" ~> call[c].stage # "waiting"

=============================================================================
