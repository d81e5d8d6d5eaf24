--------------------------- MODULE GuardrailAudit ---------------------------
(***************************************************************************)
(* The audit record of a request as the guardrail keeps it                 *)
(* (litellm_hook.py): audit(), on_request_cancelled() and the tables that  *)
(* decide who writes.  Four callers meet in one event loop: the pre-call   *)
(* itself ("pre", inline before it refuses, and again from the safety net),*)
(* litellm's log events (in the request's context, "log", or from a worker *)
(* that has none, "late") and the limiter's cancel hook ("cancel").  A     *)
(* caller runs alone between two awaits; it waits for a record in flight   *)
(* and it suspends in the sink's emit().                                   *)
(*                                                                         *)
(* A pre-call that completes behind the route gate hands its record over   *)
(* to its ticket (TerminalAudit); without the gate the log event writes    *)
(* it.  A request stands for its ids: the gate makes the call id its own.  *)
(***************************************************************************)
EXTENDS Ticket, Naturals, Sequences

CONSTANTS
    Callers,        \* [Requests -> the callers a request can meet]
    EmitOutcomes,   \* [Requests -> what the sink's emit may do for them]
    Cap             \* _AUDIT_DEDUP_CAP and _CANCEL_PENDING_CAP

ASSUME GuardrailAssumption ==
    /\ Cap \in Nat \ {0}
    /\ Callers \in [Requests -> SUBSET {"pre", "log", "late", "cancel"}]
    /\ Cancellable \subseteq Requests
    /\ EmitOutcomes \in [Requests -> SUBSET {"ok", "failed", "unacked", "ambiguous", "unsure"}]

VARIABLES
    gated,          \* the route gate and the ASGI desanitiser are in front
    cancelled, stopped,     \* the ticket: the client left, the server cancelled
    pre,            \* the pre-call: "new", "auth", "work", "inline", "net", "done"
    forwarded,      \* it returned the body to litellm
    call,           \* each caller: "idle", "wait", "emit", "emitCancelled", "done"
    reqState,       \* _req_state
    audited, owned, pending,    \* _audited_ids, _terminal_owned, _cancel_pending
    counted, observed,          \* _failure_recorded_ids, _latency_observed_ids
    failures, latencies,        \* what the metrics were told, per request:
    orphans,                    \* its failure, its latency, its orphan log events
    landed, cut, refused,       \* records in the sink; of those, the ones whose
                                \* writer was told otherwise; writes that failed
    forgotten       \* pairs <<table, request>> that a table's bound has dropped

ticket  == <<cancelled, stopped, closed, facts>>
tables  == <<audited, owned, pending, counted, observed>>
metrics == <<failures, latencies, orphans>>
sink    == <<landed, cut, refused>>
vars    == <<gated, ticket, pre, forwarded, call, reqState, tables, metrics, sink, forgotten>>

AllCallers == {"pre", "log", "late", "cancel"}
Logs == {"log", "late"}

------------------------------------------------------------------------------
(* Bounded tables, oldest first.                                            *)

Has(table, r) == \E i \in 1..Len(table) : table[i] = r
Without(table, r) ==
    IF Has(table, r)
    THEN LET k == CHOOSE i \in 1..Len(table) : table[i] = r
         IN  SubSeq(table, 1, k - 1) \o SubSeq(table, k + 1, Len(table))
    ELSE table

\* table[r] = ..., then the oldest goes when the table is past its cap; an
\* entry that is there keeps its place.
Put(table, r) ==
    IF Has(table, r) THEN table
    ELSE IF Len(table) < Cap THEN Append(table, r) ELSE Append(Tail(table), r)
\* The same, with the entry moved to the end.
PutLast(table, r) == Put(Without(table, r), r)

\* A record in flight for r: _cancel_emitting or _audit_emitting.
Emitting(r) == \E p \in AllCallers : call[r][p] \in {"emit", "emitCancelled"}
InContext(p) == p # "late"

\* Mutant: only the hand-over table is asked.
OwnedInTable(p, r) == Has(owned, r)

\* _terminal_owner: the caller's own ticket, or the hand-over table.
Owned(p, r) == (InContext(p) /\ facts[r]) \/ Has(owned, r)

Set(f, r, v) == [f EXCEPT ![r] = v]
Become(r, p, phase) == call' = [call EXCEPT ![r][p] = phase]

------------------------------------------------------------------------------
Init ==
    /\ gated \in BOOLEAN
    /\ cancelled = [r \in Requests |-> FALSE] /\ stopped = cancelled
    /\ closed = cancelled /\ facts = cancelled /\ forwarded = cancelled
    /\ pre = [r \in Requests |-> "new"]
    /\ call = [r \in Requests |-> [p \in AllCallers |-> "idle"]]
    /\ reqState = {}
    /\ audited = <<>> /\ owned = <<>> /\ pending = <<>>
    /\ counted = <<>> /\ observed = <<>> /\ forgotten = {}
    /\ failures = [r \in Requests |-> 0] /\ latencies = failures /\ orphans = failures
    /\ landed = failures /\ cut = failures /\ refused = failures

------------------------------------------------------------------------------
(* The parts of audit() between its awaits.                                 *)

\* _record_failure.
RecordFailure(r) ==
    /\ counted' = Put(counted, r)
    /\ failures' = Set(failures, r, failures[r] + 1)

\* The latency, once per request the table remembers.
ObserveLatency(r) ==
    /\ observed' = Put(observed, r)
    /\ latencies' = IF Has(observed, r) THEN latencies ELSE Set(latencies, r, latencies[r] + 1)

\* What a caller of audit() that owns nothing does next: wait for the record in
\* flight; nothing, for a record that is written or that the cancel hook will
\* write; the record the client's leaving left behind; nothing but a count, for
\* a log event with no state behind the gate; else the record itself.
Resolve(p, r) ==
    IF Emitting(r) THEN "wait"
    ELSE IF Has(audited, r) THEN "done"
    ELSE IF Has(pending, r) THEN "emitCancelled"
    ELSE IF InContext(p) /\ cancelled[r] THEN "done"
    ELSE IF r \notin reqState /\ p \in Logs /\ gated THEN "orphan" ELSE "emit"

\* audit() from here to its next await.  An orphan log event is counted as a
\* failure of the audit component, whatever else the request has counted.
Proceed(p, r) ==
    LET next == Resolve(p, r)
    IN  /\ Become(r, p, IF next = "orphan" THEN "done" ELSE next)
        /\ orphans' = IF next = "orphan" THEN Set(orphans, r, orphans[r] + 1) ELSE orphans
        /\ IF next = "emit" THEN ObserveLatency(r) ELSE UNCHANGED <<observed, latencies>>

\* audit() from its first line: a log event for a record the ticket owns only
\* tells its latency.
Audit(p, r) ==
    IF Owned(p, r)
    THEN /\ Become(r, p, "done") /\ UNCHANGED orphans
         /\ IF cancelled[r] THEN UNCHANGED <<observed, latencies>> ELSE ObserveLatency(r)
    ELSE Proceed(p, r)

\* _mark_audited.
MarkAudited(r) ==
    /\ reqState' = reqState \ {r}
    /\ pending' = Without(pending, r)
    /\ audited' = Put(audited, r)

\* Mutant: the counts of a cancelled request go with its failed write.
QueueCancelledDropped(r) == UNCHANGED <<pending, reqState, audited>>

\* _queue_cancelled.
QueueCancelled(r) ==
    /\ pending' = PutLast(pending, r)
    /\ UNCHANGED <<reqState, audited>>

------------------------------------------------------------------------------
(* The pre-call.                                                            *)

\* Its task's cancel is on its way, and no await of it will return.
Doomed(r) == stopped[r] \/ (cancelled[r] /\ call[r]["cancel"] # "idle")

Begin(r) ==
    /\ pre[r] = "new" /\ ~stopped[r]
    /\ IF cancelled[r]
       THEN /\ pre' = Set(pre, r, "late") /\ failures' = Set(failures, r, failures[r] + 1)
       ELSE /\ pre' = Set(pre, r, "auth") /\ UNCHANGED failures
    /\ UNCHANGED <<gated, ticket, forwarded, call, reqState, tables, latencies, orphans, sink>>

\* Auth passes and the state is registered; or the ChatGPT or Anthropic bridge
\* seeds it, to refuse.
Register(r) ==
    /\ pre[r] = "auth" /\ ~Doomed(r)
    /\ pre' = Set(pre, r, "work")
    /\ reqState' = reqState \cup {r}
    /\ UNCHANGED <<gated, ticket, forwarded, call, tables, metrics, sink>>

\* A refusal: counted, and audited inline before it is raised.
Refuse(r) ==
    /\ pre[r] \in {"auth", "work"} /\ ~Doomed(r)
    /\ pre' = Set(pre, r, "inline")
    /\ RecordFailure(r) /\ Audit("pre", r)
    /\ UNCHANGED <<gated, ticket, forwarded, reqState, audited, owned, pending, sink>>

\* _report_internal_failure: an exception no branch maps.
Crash(r) ==
    /\ pre[r] \in {"auth", "work"} /\ ~Doomed(r)
    /\ pre' = Set(pre, r, "net")
    /\ RecordFailure(r) /\ Audit("pre", r)
    /\ UNCHANGED <<gated, ticket, forwarded, reqState, audited, owned, pending, sink>>

\* Mutant: the state stays when the record goes to the ticket.
CompleteKeepsState(r) ==
    /\ pre[r] = "work" /\ ~Doomed(r)
    /\ pre' = Set(pre, r, "done") /\ forwarded' = Set(forwarded, r, TRUE)
    /\ IF gated /\ ~closed[r] /\ ~cancelled[r]
       THEN facts' = Set(facts, r, TRUE) /\ owned' = PutLast(owned, r)
       ELSE UNCHANGED <<facts, owned>>
    /\ UNCHANGED <<gated, cancelled, stopped, closed, call, reqState, audited, pending, counted,
                   observed, metrics, sink>>

\* The facts are deposited and the request handed over, unless its ticket no
\* longer takes them.
Complete(r) ==
    /\ pre[r] = "work" /\ ~Doomed(r)
    /\ pre' = Set(pre, r, "done") /\ forwarded' = Set(forwarded, r, TRUE)
    /\ IF gated /\ ~closed[r] /\ ~cancelled[r]
       THEN /\ facts' = Set(facts, r, TRUE)
            /\ owned' = PutLast(owned, r)
            /\ reqState' = reqState \ {r}
       ELSE UNCHANGED <<facts, owned, reqState>>
    /\ UNCHANGED <<gated, cancelled, stopped, closed, call, audited, pending, counted, observed,
                   metrics, sink>>

\* The inline audit() returned: the refusal goes out.
Answered(r) ==
    /\ pre[r] \in {"inline", "net"} /\ call[r]["pre"] = "done"
    /\ pre' = Set(pre, r, "done")
    /\ UNCHANGED <<gated, ticket, forwarded, call, reqState, tables, metrics, sink>>

------------------------------------------------------------------------------
(* The other callers.                                                       *)

LogEvent(p, r) ==
    /\ p \in Logs \cap Callers[r] /\ call[r][p] = "idle" /\ pre[r] = "done"
    /\ Audit(p, r)
    /\ UNCHANGED <<gated, ticket, pre, forwarded, reqState, audited, owned, pending, counted,
                   failures, sink>>

\* on_request_cancelled up to its first await: the state goes at once.
Cancelled(r) ==
    /\ cancelled[r] /\ ~closed[r] /\ ~stopped[r] /\ call[r]["cancel"] = "idle"
    /\ IF Owned("cancel", r)
       THEN pending' = Without(pending, r) /\ Become(r, "cancel", "done") /\ UNCHANGED reqState
       ELSE /\ reqState' = reqState \ {r}
            /\ CASE Emitting(r) -> Become(r, "cancel", "wait") /\ UNCHANGED pending
                 [] ~Emitting(r) /\ Has(audited, r) ->
                        Become(r, "cancel", "done") /\ pending' = Without(pending, r)
                 [] OTHER -> Become(r, "cancel", "emitCancelled") /\ UNCHANGED pending
    /\ UNCHANGED <<gated, ticket, pre, forwarded, audited, owned, counted, observed,
                   metrics, sink>>

\* _emits_resolved returns: the record in flight is decided.
Resume(p, r) ==
    /\ call[r][p] = "wait" /\ ~Emitting(r)
    /\ IF p = "cancel"
       THEN /\ IF Has(audited, r)
               THEN Become(r, p, "done") /\ pending' = Without(pending, r)
               ELSE Become(r, p, "emitCancelled") /\ UNCHANGED pending
            /\ UNCHANGED <<observed, latencies, orphans>>
       ELSE Proceed(p, r) /\ UNCHANGED pending
    /\ UNCHANGED <<gated, ticket, pre, forwarded, reqState, audited, owned, counted, failures, sink>>

\* A write reaches the sink ("ok", "unacked", "ambiguous") or not.
Delivered(r, outcome) ==
    /\ landed' = IF outcome \in {"ok", "unacked", "ambiguous"} THEN Set(landed, r, landed[r] + 1)
                 ELSE landed
    /\ cut' = IF outcome = "unacked" THEN Set(cut, r, cut[r] + 1) ELSE cut
    /\ refused' = IF outcome \in {"failed", "unsure"} THEN Set(refused, r, refused[r] + 1)
                  ELSE refused

\* emit() returns or raises.  The inline caller that is told of a failure, or of
\* an ambiguous write, raises, and the safety net audits once more.
EmitEnds(p, r, outcome) ==
    /\ call[r][p] \in {"emit", "emitCancelled"}
    /\ outcome \in EmitOutcomes[r]
    /\ Delivered(r, outcome)
    /\ CASE outcome \in {"ok", "ambiguous", "unsure"} -> MarkAudited(r)
         [] outcome \in {"failed", "unacked"} /\ call[r][p] = "emitCancelled" -> QueueCancelled(r)
         [] OTHER -> UNCHANGED <<reqState, pending, audited>>
    /\ IF pre[r] = "inline" /\ p = "pre" /\ outcome # "ok"
       THEN pre' = Set(pre, r, "net") /\ Become(r, p, "retry")
       ELSE Become(r, p, "done") /\ UNCHANGED pre
    /\ UNCHANGED <<gated, ticket, forwarded, owned, counted, observed, metrics>>

\* The safety net's own audit(): its count is skipped when the request has one.
Retry(r) ==
    /\ call[r]["pre"] = "retry"
    /\ IF Has(counted, r) THEN UNCHANGED <<counted, failures>> ELSE RecordFailure(r)
    /\ Audit("pre", r)
    /\ UNCHANGED <<gated, ticket, pre, forwarded, reqState, audited, owned, pending, sink>>

\* CancelledError inside a caller: the downstream's cancel in the pre-call, the
\* grace's end in the cancel hook.  Whether a write in flight arrived is open.
CutShort(p, r) ==
    /\ \/ p = "pre" /\ (cancelled[r] \/ stopped[r]) /\ pre[r] \in {"auth", "work", "inline", "net"}
       \/ p = "cancel" /\ call[r][p] \in {"wait", "emitCancelled"}
    /\ \E outcome \in {"failed", "unacked"} :
         IF call[r][p] \in {"emit", "emitCancelled"} THEN Delivered(r, outcome)
         ELSE outcome = "failed" /\ UNCHANGED sink
    /\ Become(r, p, "done")
    /\ pre' = IF p = "pre" THEN Set(pre, r, "done") ELSE pre
    /\ IF call[r][p] = "emitCancelled"
          \/ (p = "cancel" /\ call[r][p] = "wait" /\ ~Has(audited, r) /\ ~Has(pending, r))
       THEN QueueCancelled(r) ELSE UNCHANGED <<reqState, pending, audited>>
    /\ UNCHANGED <<gated, ticket, forwarded, owned, counted, observed, metrics>>

------------------------------------------------------------------------------
(* The ticket (InflightLimiter).                                            *)

ClientLeaves(r) ==
    /\ gated /\ r \in Cancellable /\ ~closed[r] /\ ~cancelled[r] /\ ~stopped[r]
    /\ cancelled' = Set(cancelled, r, TRUE)
    /\ UNCHANGED <<gated, stopped, closed, facts, pre, forwarded, call, reqState, tables, metrics, sink>>

ServerStops(r) ==
    /\ gated /\ r \in Cancellable /\ ~closed[r] /\ ~stopped[r]
    /\ stopped' = Set(stopped, r, TRUE)
    /\ UNCHANGED <<gated, cancelled, closed, facts, pre, forwarded, call, reqState, tables, metrics, sink>>

\* _release_owned.
ReleaseOwned(r) ==
    IF Has(owned, r)
    THEN /\ owned' = Without(owned, r)
         /\ audited' = Put(audited, r)
    ELSE UNCHANGED <<owned, audited>>

\* ticket.close(), once the request has ended one way or another.
Close(r) ==
    /\ gated /\ ~closed[r]
    /\ stopped[r] \/ (IF cancelled[r] THEN call[r]["cancel"] = "done" ELSE pre[r] = "done")
    /\ closed' = Set(closed, r, TRUE)
    /\ ReleaseOwned(r)
    /\ UNCHANGED <<gated, cancelled, stopped, facts, pre, forwarded, call, reqState, pending,
                   counted, observed, metrics, sink>>

PreCallStep(r) == Begin(r) \/ Register(r) \/ Refuse(r) \/ Crash(r) \/ Complete(r) \/ Answered(r) \/ Retry(r)
TicketStep(r) == ClientLeaves(r) \/ ServerStops(r) \/ Close(r)
CallerStep(r) ==
    \/ Cancelled(r)
    \/ \E p \in AllCallers : LogEvent(p, r) \/ Resume(p, r) \/ CutShort(p, r)
    \/ \E p \in AllCallers : \E outcome \in EmitOutcomes[r] : EmitEnds(p, r, outcome)

\* What the step drops from a table at its cap.  _cancel_pending also loses the
\* entries that are written or handed over, which the other tables remember.
Evicted ==
    {<<"audited", r>> : r \in {x \in Requests : Has(audited, x) /\ ~Has(audited', x)}}
    \cup {<<"counted", r>> : r \in {x \in Requests : Has(counted, x) /\ ~Has(counted', x)}}
    \cup {<<"observed", r>> : r \in {x \in Requests : Has(observed, x) /\ ~Has(observed', x)}}
    \cup {<<"pending", r>> : r \in {x \in Requests :
            Has(pending, x) /\ ~Has(pending', x) /\ ~Has(audited', x) /\ ~facts[x]}}

Next ==
    /\ \E r \in Requests : PreCallStep(r) \/ TicketStep(r) \/ CallerStep(r)
    /\ forgotten' = forgotten \cup Evicted

Spec == Init /\ [][Next]_vars
------------------------------------------------------------------------------
\* The guardrail is through with r.
Ended(r) ==
    /\ pre[r] = "done" /\ (gated => closed[r])
    /\ \A p \in AllCallers : call[r][p] \in {"idle", "done"}

\* Whoever calls, and in whatever order, a request has one record: none from
\* the guardrail beside the ticket's own, and a second one only after a write
\* that arrived although its writer was told that it failed (audit()'s dedup,
\* the wait for a record in flight, _release_owned, the orphan rule).
RecordedOnce ==
    \A r \in Requests :
        /\ facts[r] => landed[r] = 0
        /\ <<"audited", r>> \notin forgotten => landed[r] <= 1 + cut[r]

\* A request the guardrail answers for is recorded unless the sink failed; and
\* once the cancel hook is over, a cancelled request is in the audited table,
\* or its counts wait in the pending one, whatever cut the hook short.
NothingLost ==
    \A r \in Requests :
        /\ Ended(r) /\ ~facts[r] /\ ~stopped[r] /\ (forwarded[r] /\ ~gated => call[r]["late"] = "done") =>
               landed[r] > 0 \/ refused[r] > 0
        /\ call[r]["cancel"] = "done" /\ ~facts[r]
               /\ {<<"audited", r>>, <<"pending", r>>} \cap forgotten = {} =>
                   Has(audited, r) \/ Has(pending, r)

\* The request's content does not outlive it: it is gone from _req_state once
\* the ticket owns the record or the cancel hook has begun, and at the end of
\* every request whose record the sink did not refuse.
StateFreed ==
    \A r \in reqState :
        /\ ~facts[r]
        /\ call[r]["cancel"] = "idle"
        /\ ~(Ended(r) /\ ~stopped[r] /\ refused[r] = 0 /\ cut[r] = 0 /\ (forwarded[r] => call[r]["late"] = "done"))

\* A failed request is one failure of its own and one latency in the metrics,
\* however many times audit() runs for it (_failure_recorded_ids,
\* _latency_observed_ids).  Failures of the audit component are beside it.
CountedOnce ==
    \A r \in Requests :
        /\ <<"counted", r>> \notin forgotten => failures[r] <= 1
        /\ <<"observed", r>> \notin forgotten => latencies[r] <= 1

\* The record of r is not for a log event to write: it is the ticket's or the
\* cancel hook's, the server stopped the request, the sink did not acknowledge it
\* when the pre-call wrote it, or a table's bound has dropped what says that it
\* is written.
OthersRecord(r) ==
    \/ facts[r] \/ cancelled[r] \/ stopped[r]
    \/ refused[r] > 0 \/ cut[r] > 0
    \/ <<"audited", r>> \in forgotten

\* A log event is given up as an orphan, and counted as a failure of the audit
\* component, only of such a request, never of one whose record is in the sink
\* and remembered, or waits to be written (audit()'s orphan rule).
OrphansExplained == \A r \in Requests : orphans[r] > 0 => OthersRecord(r)

\* However many callers audit a request, in whatever order, it has one record and
\* counts once, and no event of it is an orphan without a reason (audit()'s dedup
\* tables, the wait for a record in flight, the orphan rule).
OneEffect == RecordedOnce /\ CountedOnce /\ OrphansExplained

==============================================================================
