--------------------------- MODULE TerminalAudit ---------------------------
(***************************************************************************)
(* The terminal audit record of a ticketed request                         *)
(* (route_gate/terminal_audit.py), written through AuditLogger to the      *)
(* Langfuse sink (audit/langfuse_sink.py), whose write is a network call.  *)
(*                                                                         *)
(* For each ticket four parties act: the guardrail's pre-call deposits the *)
(* facts; the response path (the desanitize middleware, in the request's   *)
(* task) decides and publishes; the limiter marks the ticket cancelled and *)
(* closes it; and the writes themselves, which suspend in emit() while the *)
(* other parties go on.  The close's write runs in a task of its own.      *)
(***************************************************************************)
EXTENDS Ticket, Naturals, FiniteSets

CONSTANT
    SinkErrors      \* [Requests -> the transport errors the ticket's writes can meet]

\* httpx's transport errors and an HTTP status >= 400, by when they happen.
BeforeDelivery == {"ConnectError", "WriteTimeout", "PoolTimeout", "status"}
AfterSending   == {"ReadTimeout", "RemoteProtocolError", "ReadError"}

\* Mutant: a response cut short is taken for a failed delivery.
AmbiguousTimeoutsOnly == {"ReadTimeout"}

\* _AMBIGUOUS_DELIVERY_ERRORS: raised as AuditWriteAmbiguousError.
AmbiguousErrors == {"ReadTimeout", "RemoteProtocolError"}

ASSUME TerminalAssumption ==
    /\ IsFiniteSet(Requests)
    /\ SinkErrors \in [Requests -> SUBSET (BeforeDelivery \union AfterSending)]
    /\ Cancellable \subseteq Requests

VARIABLES
    origin,     \* ticket.cancel_origin ("client" is also ticket.cancelled)
    decided,    \* facts.decided, as one of Outcomes, or "undecided"
    published,  \* facts.published
    writer,     \* who is inside emit(): "none" (not publishing) or a writer
    attempts,   \* facts.attempts
    retry,      \* facts.retry_on_failure
    closing,    \* the ticket's close task is in _closing
    arrived,    \* the record of the write in flight has reached the sink
    stored,     \* records of this ticket in the sink
    lost,       \* gateway_failure{component="desanitize"} counted for it
    drained     \* drain() at shutdown: "no", "waiting", "yes" or "timeout"

request == <<facts, origin, closed>>
record  == <<decided, published, attempts, retry>>
writes  == <<writer, closing, arrived, stored, lost>>
ticketVars == <<request, record, writes, drained>>

\* (outcome, error_code) pairs, by name.
Outcomes == {"ok",          \* ok
             "failed",      \* failed: non-2xx, an error event, the app raised
             "internal",    \* failed + E_INTERNAL
             "left",        \* cancelled + E_CLIENT_DISCONNECTED
             "shutdown"}    \* cancelled + E_SERVER_SHUTDOWN

MaxAttempts == 2

TicketTypeOK ==
    /\ facts \in [Requests -> BOOLEAN]
    /\ origin \in [Requests -> {"none", "client", "server"}]
    /\ closed \in [Requests -> BOOLEAN]
    /\ decided \in [Requests -> Outcomes \union {"undecided"}]
    /\ published \in [Requests -> BOOLEAN]
    /\ writer \in [Requests -> {"none", "response", "close"}]
    /\ attempts \in [Requests -> Nat]
    /\ retry \in [Requests -> BOOLEAN]
    /\ closing \in [Requests -> BOOLEAN]
    /\ arrived \in [Requests -> BOOLEAN]
    /\ stored \in [Requests -> Nat]
    /\ lost \in [Requests -> Nat]
    /\ drained \in {"no", "waiting", "yes", "timeout"}

TicketInit ==
    /\ facts = [t \in Requests |-> FALSE]
    /\ origin = [t \in Requests |-> "none"]
    /\ closed = [t \in Requests |-> FALSE]
    /\ decided = [t \in Requests |-> "undecided"]
    /\ published = [t \in Requests |-> FALSE]
    /\ writer = [t \in Requests |-> "none"]
    /\ attempts = [t \in Requests |-> 0]
    /\ retry = [t \in Requests |-> FALSE]
    /\ closing = [t \in Requests |-> FALSE]
    /\ arrived = [t \in Requests |-> FALSE]
    /\ stored = [t \in Requests |-> 0]
    /\ lost = [t \in Requests |-> 0]
    /\ drained = "no"

-----------------------------------------------------------------------------
(* The parties that do not write.                                          *)

\* deposit(), by the pre-call, before the response exists.
Deposit(t) ==
    /\ ~facts[t] /\ ~closed[t] /\ origin[t] # "client"
    /\ facts' = [facts EXCEPT ![t] = TRUE]
    /\ UNCHANGED <<origin, closed, record, writes, drained>>

\* ticket.mark_cancelled, by the limiter: the first origin stays.
MarkCancelled(t, who) ==
    /\ ~closed[t] /\ origin[t] = "none"
    /\ origin' = [origin EXCEPT ![t] = who]
    /\ UNCHANGED <<facts, closed, record, writes, drained>>

\* decide(ticket, "failed", E_INTERNAL): a restoration failure.
Decide(t) ==
    /\ facts[t] /\ decided[t] = "undecided" /\ ~closed[t]
    /\ decided' = [decided EXCEPT ![t] = "internal"]
    /\ UNCHANGED <<request, published, attempts, retry, writes, drained>>

-----------------------------------------------------------------------------
(* Writing.                                                                *)

\* _write up to emit().
StartWrite(t, who) ==
    /\ writer' = [writer EXCEPT ![t] = who]
    /\ attempts' = [attempts EXCEPT ![t] = @ + 1]
    /\ arrived' = [arrived EXCEPT ![t] = FALSE]

\* Mutant: the response path ignores that the client left.
PublishedAsTold(t, outcome) == outcome

\* The outcome publish() decides when nothing has.
PublishedOutcome(t, outcome) ==
    IF origin[t] = "client" /\ outcome # "internal" THEN "left" ELSE outcome

\* publish(), by the response path, up to its suspension in emit(), if it
\* makes the first attempt.  The path awaits its own write, so it is not in
\* one when it gets here.
Publish(t, outcome) ==
    /\ facts[t] /\ ~closed[t] /\ writer[t] = "none"
    /\ decided' = [decided EXCEPT ![t] =
                      IF @ = "undecided" THEN PublishedOutcome(t, outcome) ELSE @]
    /\ IF attempts[t] = 0
       THEN StartWrite(t, "response")
       ELSE UNCHANGED <<writer, attempts, arrived>>
    /\ UNCHANGED <<request, published, retry, closing, stored, lost, drained>>

\* The sink has the record; the writer does not know it yet.
SinkStores(t) ==
    /\ writer[t] # "none" /\ ~arrived[t]
    /\ arrived' = [arrived EXCEPT ![t] = TRUE]
    /\ stored' = [stored EXCEPT ![t] = @ + 1]
    /\ UNCHANGED <<request, record, writer, closing, lost, drained>>

\* The finally of _write once `published`: nothing is retried.
Written(t) ==
    /\ published' = [published EXCEPT ![t] = TRUE]
    /\ writer' = [writer EXCEPT ![t] = "none"]
    /\ retry' = [retry EXCEPT ![t] = FALSE]
    /\ closing' = [closing EXCEPT ![t] = IF writer[t] = "close" THEN FALSE ELSE @]
    /\ UNCHANGED <<request, decided, attempts, arrived, stored, lost, drained>>

\* Mutant: a write that fails after the close came is not retried.
NotWrittenNoRetry(t) ==
    /\ writer' = [writer EXCEPT ![t] = "none"]
    /\ retry' = [retry EXCEPT ![t] = FALSE]
    /\ lost' = [lost EXCEPT ![t] = IF writer[t] = "close" THEN @ + 1 ELSE @]
    /\ closing' = [closing EXCEPT ![t] = FALSE]
    /\ UNCHANGED <<request, decided, published, attempts, arrived, stored, drained>>

\* The finally of _write otherwise, with _not_written: the close's write was
\* the last attempt, so the record is lost and counted; the response path's is
\* retried here if the close came during it (the close retries it otherwise).
NotWritten(t) ==
    /\ writer' = [writer EXCEPT ![t] = "none"]
    /\ retry' = [retry EXCEPT ![t] = FALSE]
    /\ lost' = [lost EXCEPT ![t] = IF writer[t] = "close" THEN @ + 1 ELSE @]
    /\ closing' = [closing EXCEPT ![t] = writer[t] = "response" /\ retry[t]]
    /\ UNCHANGED <<request, decided, published, attempts, arrived, stored, drained>>

\* emit() returns: the sink has acknowledged the record.
EmitReturns(t) ==
    /\ writer[t] # "none" /\ arrived[t]
    /\ Written(t)

\* LangfuseSink._post meets a transport error; an error met after the request
\* was sent says nothing about whether the record arrived.
EmitRaises(t, error) ==
    /\ writer[t] # "none"
    /\ arrived[t] => error \in AfterSending
    /\ IF error \in AmbiguousErrors THEN Written(t) ELSE NotWritten(t)

\* The request's task is cancelled while its write is in flight.
EmitCancelled(t) ==
    /\ t \in Cancellable
    /\ writer[t] = "response"
    /\ NotWritten(t)

-----------------------------------------------------------------------------
(* The close and the shutdown.                                             *)

ClosingOutcome(t) ==
    CASE origin[t] = "client" -> "left"
      [] origin[t] = "server" -> "shutdown"
      [] OTHER                -> "internal"

\* RequestTicket.close and the hook bound to it, _on_close.
OnClose(t) ==
    /\ ~closed[t]
    /\ closed' = [closed EXCEPT ![t] = TRUE]
    /\ IF facts[t] /\ ~published[t]
       THEN /\ decided' = [decided EXCEPT ![t] =
                              IF @ = "undecided" THEN ClosingOutcome(t) ELSE @]
            /\ retry' = [retry EXCEPT ![t] = writer[t] # "none"]
            /\ closing' = [closing EXCEPT ![t] = writer[t] = "none"]
       ELSE UNCHANGED <<decided, retry, closing>>
    /\ UNCHANGED <<facts, origin, published, attempts, writer, arrived, stored,
                   lost, drained>>

\* Mutant: the close writes only what nobody has tried to write.
CloseWritesFirstOnly(t) ==
    /\ closing[t] /\ writer[t] = "none" /\ attempts[t] = 0
    /\ StartWrite(t, "close")
    /\ UNCHANGED <<request, decided, published, retry, closing, stored, lost,
                   drained>>

\* The task _schedule spawned gets its first step.
CloseWrites(t) ==
    /\ closing[t] /\ writer[t] = "none"
    /\ StartWrite(t, "close")
    /\ UNCHANGED <<request, decided, published, retry, closing, stored, lost,
                   drained>>

\* _drain_terminal_records, entered once the server has finished every request.
DrainStarts ==
    /\ drained = "no"
    /\ \A t \in Requests : closed[t]
    /\ drained' = "waiting"
    /\ UNCHANGED <<request, record, writes>>

\* drain() returns when _closing and _writing are both empty.
DrainReturns ==
    /\ drained = "waiting"
    /\ \A t \in Requests : ~closing[t] /\ writer[t] = "none"
    /\ drained' = "yes"
    /\ UNCHANGED <<request, record, writes>>

\* The cancel grace bounds it; the gateway counts the records it gave up on.
DrainTimesOut ==
    /\ drained = "waiting"
    /\ drained' = "timeout"
    /\ UNCHANGED <<request, record, writes>>

-----------------------------------------------------------------------------

WriteStep(t) ==
    \/ SinkStores(t)
    \/ EmitReturns(t)
    \/ \E error \in SinkErrors[t] : EmitRaises(t, error)
    \/ EmitCancelled(t)
    \/ CloseWrites(t)

TicketMoves(t) ==
    \/ Deposit(t)
    \/ \E who \in {"client", "server"} : MarkCancelled(t, who)
    \/ Decide(t)
    \/ \E outcome \in {"ok", "failed", "internal"} : Publish(t, outcome)
    \/ OnClose(t)
    \/ WriteStep(t)

TicketNext ==
    \/ \E t \in Requests : TicketMoves(t)
    \/ DrainStarts
    \/ DrainReturns
    \/ DrainTimesOut

\* A write ends: httpx bounds every phase of it with a timeout.
WriteEnds(t) ==
    \/ EmitReturns(t)
    \/ \E error \in SinkErrors[t] : EmitRaises(t, error)
    \/ EmitCancelled(t)

(***************************************************************************)
(* The event loop runs a spawned task, and the HTTP timeouts end a write.  *)
(* Nothing is assumed of the request.                                      *)
(***************************************************************************)
Fairness ==
    \A t \in Requests : WF_ticketVars(CloseWrites(t)) /\ WF_ticketVars(WriteEnds(t))

TicketSafeSpec == TicketInit /\ [][TicketNext]_ticketVars
TicketSpec     == TicketSafeSpec /\ Fairness
-----------------------------------------------------------------------------
(* Properties.                                                             *)

\* No write of this ticket is under way or scheduled.
Idle(t) == writer[t] = "none" /\ ~closing[t]

(* The request decides the outcome, never the sink: whatever fails, is        *)
(* retried or arrives late, the first outcome stands; one decided by the      *)
(* response path once the client left is the client's cancel unless           *)
(* restoration failed; one decided by the close names who cancelled.          *)
OutcomeRules ==
    [][\A t \in Requests :
           decided'[t] # decided[t] =>
               /\ decided[t] = "undecided"
               /\ stored[t] = 0
               /\ origin[t] = "client" => decided'[t] \in {"left", "internal"}
               /\ decided'[t] = "left" => origin[t] = "client"
               /\ decided'[t] = "shutdown" => origin[t] = "server"]_ticketVars

(* A failed write gets exactly one retry, by the close or by the write the    *)
(* close left behind: never a third attempt, and no attempt after a record    *)
(* that may have stored.                                                      *)
OneRetry ==
    \A t \in Requests :
        /\ attempts[t] <= MaxAttempts
        /\ published[t] => Idle(t)

(* Nothing is lost in silence: once a closed ticket has no write under way,   *)
(* its record is written (or may have stored) or its loss was counted, once,  *)
(* after a last attempt that was really made.                                 *)
NoSilentLoss ==
    \A t \in Requests :
        closed[t] /\ facts[t] /\ Idle(t) =>
            /\ published[t] \/ lost[t] = 1
            /\ lost[t] = 1 => ~published[t] /\ attempts[t] >= 1

(* drain() returns only when every record is settled: a write of the          *)
(* response path still in flight, and the retry it leaves behind, are waited  *)
(* for.                                                                       *)
DrainMeansSettled ==
    drained = "yes" =>
        \A t \in Requests : facts[t] => published[t] \/ lost[t] = 1

(* After the close every record is eventually written or counted as lost.     *)
EveryRecordSettles ==
    \A t \in Requests :
        closed[t] /\ facts[t] ~> published[t] \/ lost[t] = 1

-----------------------------------------------------------------------------
(* What the terminal audit promises.                                       *)

\* Requests whose writes always tell whether the record may have arrived: the
\* connection does not break while the answer is read, and the request is not
\* cancelled in the middle.
Honest ==
    {t \in Requests \ Cancellable :
        SinkErrors[t] \intersect AfterSending \subseteq {"ReadTimeout", "RemoteProtocolError"}}

Promise == INSTANCE OneRecord WITH
               Tickets <- Honest,
               verdict <- [t \in Honest |-> decided[t]],
               stored  <- [t \in Honest |-> stored[t]],
               missing <- [t \in Honest |-> lost[t]]

(* Of such a request every step either leaves the record alone, decides it,   *)
(* stores it once or counts its loss, whatever the other requests meet: a     *)
(* write that ended in doubt is not made again by the close, and a loss is    *)
(* counted only for a record the sink never got.                              *)
ImplementsOneRecord == Promise!Spec

(* A record settles: it is retried once at most, never once it may have      *)
(* stored; when its writes are over it is written or its loss is counted; and *)
(* a drain that returns left none behind (TerminalAudit._write, drain).       *)
RecordSettled == OneRetry /\ NoSilentLoss /\ DrainMeansSettled

=============================================================================
