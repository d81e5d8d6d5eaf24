------------------------------ MODULE Issuance ------------------------------
(***************************************************************************)
(* Developer token issuance: IssuancePolicy.issue and                      *)
(* PostgresTokenStore.issue_for_subject, on several replicas that share    *)
(* one Postgres, with the route's time bound on the caller and             *)
(* pg_session's abandoned connections.                                     *)
(*                                                                         *)
(* Each call is a READ COMMITTED transaction; one statement is one step    *)
(* and sees what is committed when it runs.  The subject's advisory lock   *)
(* is held from its statement to the end of the transaction; a row that    *)
(* was updated, and a jti that was inserted, are locked until then too.    *)
(* A call's token is named after the call: token_factory never repeats.    *)
(***************************************************************************)
EXTENDS Integers, FiniteSets

CONSTANTS
    Calls,        \* issue() calls
    Subjects,     \* verified (iss, sub)
    Jtis,
    MaxActive,    \* max_active
    MinInterval,  \* min_interval
    Life,         \* token_ttl_days
    MaxTime       \* bound: the clock stops there

\* The bounds settings.py puts on the three settings.
ASSUME IssuanceAssumption ==
    /\ IsFiniteSet(Calls)
    /\ MaxActive \in Nat \ {0} /\ MinInterval \in Nat \ {0} /\ Life \in Nat \ {0}
    /\ MaxTime \in Nat

VARIABLES
    now,       \* the replicas' clock (NTP-synced, issue_for_subject says)
    rows,      \* corp_tokens, committed, by the call that minted the row
    pc,        \* the statement each transaction is about to run
    claims,    \* the verified claims of each call
    issued,    \* info.issued_at, read before the transaction
    locks,     \* calls whose transaction holds its subject's lock
    evict,     \* the rows a transaction revokes
    wrote,     \* calls whose UPDATE ran: those rows are locked
    inserted,  \* calls whose INSERT ran, uncommitted
    told       \* the answer of each call

table  == <<now, rows>>
tx     == <<locks, evict, wrote, inserted>>
vars   == <<table, pc, claims, issued, tx, told>>

Never == -1

Statements == {"lock", "seen", "latest", "active", "update", "insert", "commit"}
Phases     == {"idle", "done",
               "orphan",      \* abandoned: the server has not noticed yet
               "maybe"}       \* abandoned, and COMMIT was sent
              \union Statements
Answers    == {"none", "ok", "E_ISSUE_RATE", "E_ISSUE_REPLAY", "E_ISSUE_BUSY",
               "E_ISSUE_STORE_TIMEOUT"}

Row == [subject : Subjects, jti : Jtis, issued : Nat, revoked : Nat \union {Never}]

TypeOK ==
    /\ now \in Nat
    /\ DOMAIN rows \subseteq Calls
    /\ \A c \in DOMAIN rows : rows[c] \in Row
    /\ pc \in [Calls -> Phases]
    /\ claims \in [Calls -> [subject : Subjects, jti : Jtis]]
    /\ issued \in [Calls -> Nat]
    /\ locks \subseteq Calls /\ wrote \subseteq Calls /\ inserted \subseteq Calls
    /\ evict \in [Calls -> SUBSET Calls]
    /\ told \in [Calls -> Answers]

Init ==
    /\ now = 1
    /\ rows = [c \in {} |-> Never]
    /\ pc = [c \in Calls |-> "idle"]
    /\ claims \in [Calls -> [subject : Subjects, jti : Jtis]]
    /\ issued = [c \in Calls |-> 0]
    /\ locks = {} /\ wrote = {} /\ inserted = {}
    /\ evict = [c \in Calls |-> {}]
    /\ told = [c \in Calls |-> "none"]

-----------------------------------------------------------------------------

Tick ==
    /\ now < MaxTime
    /\ now' = now + 1
    /\ UNCHANGED <<rows, pc, claims, issued, tx, told>>

Subject(c) == claims[c].subject
Of(s)      == {d \in DOMAIN rows : rows[d].subject = s}

\* Rows an open transaction has updated.
RowLocks == UNION {evict[d] : d \in wrote}

Goto(c, phase) == pc' = [pc EXCEPT ![c] = phase]

\* The transaction is over: its locks are gone.
Close(c) ==
    /\ locks' = locks \ {c}
    /\ wrote' = wrote \ {c}
    /\ inserted' = inserted \ {c}
    /\ evict' = [evict EXCEPT ![c] = {}]

\* ROLLBACK, then the refusal.
Refuse(c, code) ==
    /\ Goto(c, "done")
    /\ told' = [told EXCEPT ![c] = code]
    /\ Close(c)
    /\ UNCHANGED <<table, claims, issued>>

\* IssuancePolicy.issue: the clock is read, then a connection is acquired and
\* the transaction starts.
Start(c) ==
    /\ pc[c] = "idle"
    /\ issued' = [issued EXCEPT ![c] = now]
    /\ Goto(c, "lock")
    /\ UNCHANGED <<table, claims, tx, told>>

\* pg_advisory_xact_lock.
Lock(c) ==
    /\ pc[c] = "lock"
    /\ \A d \in locks : Subject(d) # Subject(c)
    /\ locks' = locks \union {c}
    /\ Goto(c, "seen")
    /\ UNCHANGED <<table, claims, issued, evict, wrote, inserted, told>>

\* SELECT 1 ... WHERE oidc_jti.
Seen(c) ==
    /\ pc[c] = "seen"
    /\ \/ /\ \E d \in DOMAIN rows : rows[d].jti = claims[c].jti
          /\ Refuse(c, "E_ISSUE_REPLAY")
       \/ /\ \A d \in DOMAIN rows : rows[d].jti # claims[c].jti
          /\ Goto(c, "latest")
          /\ UNCHANGED <<table, claims, issued, tx, told>>

\* now - max(issued_at) < min_interval; revoked and expired rows count.
TooSoon(c) == \E d \in Of(Subject(c)) : issued[c] - rows[d].issued < MinInterval

Latest(c) ==
    /\ pc[c] = "latest"
    /\ \/ TooSoon(c) /\ Refuse(c, "E_ISSUE_RATE")
       \/ /\ ~TooSoon(c)
          /\ Goto(c, "active")
          /\ UNCHANGED <<table, claims, issued, tx, told>>

\* The subject's rows that are unrevoked and unexpired at the call's clock.
ActiveRows(c) ==
    {d \in Of(Subject(c)) : rows[d].revoked = Never /\ rows[d].issued + Life > issued[c]}

Excess(c) == Cardinality(ActiveRows(c)) - MaxActive + 1

\* active[:excess] of ORDER BY issued_at (ties in any order).
Oldest(c, chosen) ==
    /\ chosen \subseteq ActiveRows(c)
    /\ Cardinality(chosen) = IF Excess(c) > 0 THEN Excess(c) ELSE 0
    /\ \A d \in chosen, e \in ActiveRows(c) \ chosen : rows[d].issued <= rows[e].issued

\* SELECT the active rows, and which of them go.
Active(c) ==
    /\ pc[c] = "active"
    /\ \E chosen \in SUBSET DOMAIN rows :
        /\ Oldest(c, chosen)
        /\ evict' = [evict EXCEPT ![c] = chosen]
        /\ Goto(c, IF chosen = {} THEN "insert" ELSE "update")
    /\ UNCHANGED <<table, claims, issued, locks, wrote, inserted, told>>

\* Mutant: the UPDATE commits by itself.
UpdateAutocommits(c) ==
    /\ pc[c] = "update"
    /\ evict[c] \intersect RowLocks = {}
    /\ rows' = [d \in DOMAIN rows |->
                   IF d \in evict[c] THEN [rows[d] EXCEPT !.revoked = issued[c]]
                   ELSE rows[d]]
    /\ Goto(c, "insert")
    /\ UNCHANGED <<now, claims, issued, tx, told>>

\* UPDATE ... SET revoked_at, not yet committed.
Update(c) ==
    /\ pc[c] = "update"
    /\ evict[c] \intersect RowLocks = {}
    /\ wrote' = wrote \union {c}
    /\ Goto(c, "insert")
    /\ UNCHANGED <<table, claims, issued, locks, evict, inserted, told>>

\* Mutant: corp_tokens_oidc_jti_key is not there.
InsertNoIndex(c) ==
    /\ pc[c] = "insert"
    /\ inserted' = inserted \union {c}
    /\ Goto(c, "commit")
    /\ UNCHANGED <<table, claims, issued, locks, evict, wrote, told>>

\* INSERT: waits for another open transaction's row with the same jti, and
\* meets the unique index when one is committed.
Insert(c) ==
    /\ pc[c] = "insert"
    /\ \A d \in inserted : claims[d].jti # claims[c].jti
    /\ \/ /\ \E d \in DOMAIN rows : rows[d].jti = claims[c].jti
          /\ Refuse(c, "E_ISSUE_REPLAY")
       \/ /\ \A d \in DOMAIN rows : rows[d].jti # claims[c].jti
          /\ inserted' = inserted \union {c}
          /\ Goto(c, "commit")
          /\ UNCHANGED <<table, claims, issued, locks, evict, wrote, told>>

\* The transaction's writes become visible, all at once.
Apply(c) ==
    rows' = [d \in DOMAIN rows \union {c} |->
                IF d = c
                THEN [subject |-> Subject(c), jti |-> claims[c].jti,
                      issued |-> issued[c], revoked |-> Never]
                ELSE IF d \in evict[c] THEN [rows[d] EXCEPT !.revoked = issued[c]]
                ELSE rows[d]]

\* Mutant: the transaction is never committed.
CommitForgotten(c) ==
    /\ pc[c] = "commit"
    /\ Close(c)
    /\ Goto(c, "done")
    /\ told' = [told EXCEPT ![c] = "ok"]
    /\ UNCHANGED <<table, claims, issued>>

\* in_transaction's commit, then "ok".
Commit(c) ==
    /\ pc[c] = "commit"
    /\ Apply(c)
    /\ Close(c)
    /\ Goto(c, "done")
    /\ told' = [told EXCEPT ![c] = "ok"]
    /\ UNCHANGED <<now, claims, issued>>

\* lock_timeout or statement_timeout fires: E_ISSUE_BUSY.
Busy(c) ==
    /\ pc[c] \in Statements \ {"commit"}
    /\ Refuse(c, "E_ISSUE_BUSY")

\* The caller is cancelled by the route's bound, or the connection breaks
\* (E_ISSUE_STORE_UNAVAILABLE, told apart by nobody here):
\* run_on_connection abandons the connection, with no ROLLBACK.
Abandon(c) ==
    /\ pc[c] \in Statements
    /\ Goto(c, IF pc[c] = "commit" THEN "maybe" ELSE "orphan")
    /\ told' = [told EXCEPT ![c] = "E_ISSUE_STORE_TIMEOUT"]
    /\ UNCHANGED <<table, claims, issued, tx>>

\* The server notices the closed socket and rolls back.
OrphanEnds(c) ==
    /\ pc[c] \in {"orphan", "maybe"}
    /\ Goto(c, "done")
    /\ Close(c)
    /\ UNCHANGED <<table, claims, issued, told>>

\* It had the COMMIT already.
OrphanCommits(c) ==
    /\ pc[c] = "maybe"
    /\ Apply(c)
    /\ Close(c)
    /\ Goto(c, "done")
    /\ UNCHANGED <<now, claims, issued, told>>

\* revoke_user: one statement, which waits for rows an open transaction updated.
RevokeUser(s) ==
    /\ \E d \in Of(s) : rows[d].revoked = Never
    /\ {d \in Of(s) : rows[d].revoked = Never} \intersect RowLocks = {}
    /\ rows' = [d \in DOMAIN rows |->
                   IF rows[d].subject = s /\ rows[d].revoked = Never
                   THEN [rows[d] EXCEPT !.revoked = now]
                   ELSE rows[d]]
    /\ UNCHANGED <<now, pc, claims, issued, tx, told>>

Step(c) ==
    \/ Start(c)
    \/ Lock(c)
    \/ Seen(c)
    \/ Latest(c)
    \/ Active(c)
    \/ Update(c)
    \/ Insert(c)
    \/ Commit(c)
    \/ Busy(c)
    \/ Abandon(c)
    \/ OrphanEnds(c)
    \/ OrphanCommits(c)

Next ==
    \/ Tick
    \/ \E c \in Calls : Step(c)
    \/ \E s \in Subjects : RevokeUser(s)

Spec == Init /\ [][Next]_vars

-----------------------------------------------------------------------------
(* Properties.                                                             *)

(* "each Keycloak jti mints once": two subjects, whose locks differ, cannot   *)
(* both pass the check with one jti, and an ambiguous commit is not repeated. *)
JtiMintsOnce ==
    \A c, d \in DOMAIN rows : rows[c].jti = rows[d].jti => c = d

(* A subject's tokens are min_interval apart, although each call's clock was  *)
(* read before it waited for the lock.                                        *)
IntervalKept ==
    \A c, d \in DOMAIN rows :
        c # d /\ rows[c].subject = rows[d].subject =>
            \/ rows[c].issued - rows[d].issued >= MinInterval
            \/ rows[d].issued - rows[c].issued >= MinInterval

(* The table obeys the policy: a jti mints once and a subject waits its       *)
(* interval, whatever locks, clocks and abandoned connections did             *)
(* (postgres_store.issue_for_subject, issuance_policy.py).                    *)
PolicyKept == JtiMintsOnce /\ IntervalKept

(* What the caller is told is what the store did: an "ok" is stored, a        *)
(* refusal is not and never will be; only the timeout is ambiguous.           *)
ToldTheTruth ==
    \A c \in Calls :
        /\ told[c] = "ok" => c \in DOMAIN rows
        /\ told[c] \in {"E_ISSUE_RATE", "E_ISSUE_REPLAY", "E_ISSUE_BUSY"} =>
               c \notin DOMAIN rows /\ pc[c] = "done"

Promise == INSTANCE Minting

(* The statements of concurrent transactions amount to one atomic minting     *)
(* each: TokenStore.issue_for_subject is "atomically" what its contract says. *)
(* Never more than max_active live tokens of a subject, whatever the order of *)
(* the calls' clocks and of a concurrent revoke_user; and no minting revokes  *)
(* a token younger than one it leaves live.                                   *)
ImplementsMinting == Promise!Spec

=============================================================================
