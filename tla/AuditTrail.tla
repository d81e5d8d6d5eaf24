----------------------------- MODULE AuditTrail -----------------------------
(***************************************************************************)
(* The two writers of a request's audit record together: the guardrail     *)
(* (GuardrailAudit) until its pre-call deposits the facts, the ticket      *)
(* (TerminalAudit) from then on.  They share the ticket: whether its facts *)
(* are deposited and whether it is closed.  A deposit, a cancel and the    *)
(* close are one step of both; every other step is one writer's own.       *)
(***************************************************************************)
EXTENDS GuardrailAudit, TerminalAudit

ticketSide == <<origin, record, writes, drained>>
trail      == <<vars, ticketSide>>

TrailInit == Init /\ TicketInit

------------------------------------------------------------------------------
\* The guardrail on its own.
GuardrailOnly(r) ==
    /\ \/ Begin(r) \/ Register(r) \/ Refuse(r) \/ Crash(r) \/ Answered(r) \/ Retry(r)
       \/ CallerStep(r)
    /\ UNCHANGED ticketSide

\* deposit_audit_facts at the end of the pre-call, and _hand_over if the ticket
\* took the facts.
HandOver(r) ==
    /\ Complete(r)
    /\ IF facts' = facts THEN UNCHANGED ticketSide ELSE Deposit(r)

\* mark_cancelled, by the client's leaving and by the server's cancel: the first
\* origin stays.
ClientGone(r) == ClientLeaves(r) /\ MarkCancelled(r, "client")

ServerGone(r) ==
    /\ ServerStops(r)
    /\ IF cancelled[r] THEN UNCHANGED ticketSide ELSE MarkCancelled(r, "server")

\* RequestTicket.close runs the hooks of both writers, with no await between.
TicketCloses(r) == Close(r) /\ OnClose(r)

\* The response path and the ticket's writes.
TicketOnly(r) ==
    \/ Decide(r)
    \/ \E outcome \in {"ok", "failed", "internal"} : Publish(r, outcome)
    \/ WriteStep(r)

TrailNext ==
    \/ /\ \E r \in Requests : \/ GuardrailOnly(r) \/ HandOver(r)
                              \/ ClientGone(r) \/ ServerGone(r) \/ TicketCloses(r)
       /\ forgotten' = forgotten \cup Evicted
    \/ /\ (\E r \in Requests : TicketOnly(r)) \/ DrainStarts \/ DrainReturns
          \/ DrainTimesOut
       /\ UNCHANGED vars

TrailSpec == TrailInit /\ [][TrailNext]_trail

------------------------------------------------------------------------------
\* The two writers together leave one trail of a request.  The guardrail has one
\* effect (OneEffect), and they never both write: what the ticket has begun to
\* write the guardrail has not written and is not writing.  The sink holds no
\* second record, unless a write arrived whose writer was told otherwise.  And
\* once both are through with it there is a record, a refusal the caller saw, or
\* a counted loss, unless the server stopped it before the hand-over
\* (_hand_over, _terminal_owner, TerminalAudit._on_close).
OneTrail ==
    /\ OneEffect
    /\ \A r \in Requests :
        /\ attempts[r] > 0 => landed[r] = 0 /\ ~Emitting(r)
        /\ r \in Honest /\ <<"audited", r>> \notin forgotten =>
               landed[r] + stored[r] <= 1 + cut[r]
        /\ gated /\ Ended(r) /\ Idle(r) /\ (facts[r] \/ ~stopped[r]) =>
               landed[r] > 0 \/ refused[r] > 0 \/ published[r] \/ lost[r] = 1

==============================================================================
