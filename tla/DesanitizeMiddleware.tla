------------------------ MODULE DesanitizeMiddleware ------------------------
(***************************************************************************)
(* DesanitizeMiddleware on the response of one ticketed request: the life  *)
(* of its mapping, the messages it lets through, and the outcome it gives  *)
(* to the terminal record.  The app behind it (litellm) sends a response,  *)
(* raises, or is cancelled in the middle of a send; the limiter marks and  *)
(* closes the ticket whenever it likes.                                    *)
(*                                                                         *)
(* A handler is cut at its awaits: what it still has to send is todo, what *)
(* it then publishes is verdict.  That a text is restored right is the     *)
(* matter of StreamingDesanitizer; here restoring works or raises.  That a *)
(* record is written once is the matter of TerminalAudit; here it is       *)
(* decided and recorded.                                                   *)
(***************************************************************************)
EXTENDS Naturals

VARIABLES
    app,         \* "running", "sending" (awaits send), "hurt" (a send of its raised),
                 \* "failing" (app_failed), "gone"
    said,        \* what the app has sent: "nothing", "start" or "all"
    mode,        \* _mode
    status,      \* "2xx" or "error", the _status of the response
    saw_error,   \* saw_error: a restored stream carried an error event
    carried,     \* history: where the body carried an error event, if it did
    mapping,     \* _by_ticket holds a mapping with pairs
    local,       \* _mapping is set
    tail,        \* the stream's restorer holds back text
    todo,        \* messages the handler has yet to send
    verdict,     \* outcome it publishes then, or "nothing"
    wire,        \* history: the response as the server sees it
    broke,       \* history: a restoration failed
    origin,      \* ticket.cancel_origin
    closed,      \* ticket.closed
    facts,       \* ticket.audit_facts is set
    decided,     \* facts.decided
    recorded     \* history: the record was handed to its writer

response == <<mode, status, saw_error, carried, local, tail>>
ticket   == <<origin, closed, facts>>
vars == <<app, said, response, mapping, todo, verdict, wire, broke, ticket, decided, recorded>>

Modes    == {"unstarted", "pass", "unary", "sse", "closed"}
Messages == {"start", "body", "final"}
Outcomes == {"ok", "failed", "internal", "cancelled"}  \* internal: failed, E_INTERNAL

TypeOK ==
    /\ app \in {"running", "sending", "hurt", "failing", "gone"}
    /\ said \in {"nothing", "start", "all"}
    /\ mode \in Modes /\ status \in {"2xx", "error"}
    /\ saw_error \in BOOLEAN
    /\ carried \in {"nowhere", "restored", "passed"}
    /\ mapping \in BOOLEAN /\ local \in BOOLEAN
    /\ tail \in BOOLEAN /\ (tail => mode = "sse")
    /\ todo \subseteq Messages
    /\ verdict \in {"nothing", "ok", "failed", "internal"}
    /\ wire \in {"none", "open", "ended", "broken"}
    /\ broke \in BOOLEAN
    /\ origin \in {"none", "client", "server"}
    /\ closed \in BOOLEAN /\ facts \in BOOLEAN
    /\ decided \in Outcomes \union {"undecided"}
    /\ recorded \in BOOLEAN

Init ==
    /\ app = "running" /\ said = "nothing"
    /\ mode = "unstarted" /\ status = "error" /\ saw_error = FALSE
    /\ carried = "nowhere"
    /\ mapping = FALSE /\ local = FALSE /\ tail = FALSE
    /\ todo = {} /\ verdict = "nothing"
    /\ wire = "none" /\ broke = FALSE
    /\ origin = "none" /\ closed = FALSE /\ facts = FALSE
    /\ decided = "undecided" /\ recorded = FALSE

-----------------------------------------------------------------------------
(* Pieces of the handlers *)

\* _Response.close.
Release == mode' = "closed" /\ mapping' = FALSE /\ local' = FALSE /\ tail' = FALSE

Kept == UNCHANGED <<mode, mapping, local, tail>>

\* The handler leaves messages to send, and a verdict for when they are sent.
Await(messages, v) ==
    /\ app' = "sending" /\ todo' = messages /\ verdict' = v

Quiet == UNCHANGED <<app, todo, verdict>>

\* _failed: a restoration failure is the outcome from here on.
Failed ==
    /\ broke' = TRUE
    /\ decided' = IF facts /\ ~closed /\ decided = "undecided" THEN "internal" ELSE decided

Fine == UNCHANGED <<broke, decided>>

\* TerminalAudit.publish.
Published(v) ==
    IF decided # "undecided" THEN decided
    ELSE IF origin = "client" /\ v # "internal" THEN "cancelled" ELSE v

-----------------------------------------------------------------------------
(* The app *)

\* Mutant: the store takes the mapping of a request the limiter has let go.
HandOverLate(pairs) ==
    /\ app = "running" /\ said = "nothing" /\ ~facts
    /\ facts' = TRUE
    /\ mapping' = pairs
    /\ UNCHANGED <<app, said, response, todo, verdict, wire, broke, origin, closed,
                   decided, recorded>>

\* The guardrail's pre-call: the facts are deposited, and the mapping, unless
\* it is empty, goes to the store.
HandOver(pairs) ==
    /\ app = "running" /\ said = "nothing" /\ ~facts
    /\ ~closed /\ origin # "client"
    /\ facts' = TRUE
    /\ mapping' = pairs
    /\ UNCHANGED <<app, said, response, todo, verdict, wire, broke, origin, closed,
                   decided, recorded>>

Speaks == app = "running" /\ UNCHANGED <<wire, ticket, recorded>>

\* A message after the close is not sent.
Dropped(what) ==
    /\ Speaks /\ mode = "closed"
    /\ said # "all" /\ said' = what
    /\ UNCHANGED <<response, mapping, decided, broke>> /\ Quiet

\* http.response.start of a response that is not restored: no mapping, not a
\* 2xx, encoded, or of another content type.
StartPass(s) ==
    /\ Speaks /\ mode = "unstarted" /\ said = "nothing" /\ said' = "start"
    /\ status' = s
    /\ mode' = "pass" /\ mapping' = FALSE
    /\ local' \in {FALSE, s = "2xx" /\ mapping}   \* another content type
    /\ UNCHANGED <<saw_error, carried, tail>> /\ Fine
    /\ Await({"start"}, "nothing")

Restorable == mode = "unstarted" /\ said = "nothing" /\ mapping

\* A JSON body: the start waits for it.
StartUnary ==
    /\ Speaks /\ Restorable /\ said' = "start"
    /\ status' = "2xx" /\ mode' = "unary" /\ local' = TRUE
    /\ UNCHANGED <<saw_error, carried, mapping, tail>> /\ Fine /\ Quiet

StartSse ==
    /\ Speaks /\ Restorable /\ said' = "start"
    /\ status' = "2xx" /\ mode' = "sse" /\ local' = TRUE
    /\ UNCHANGED <<saw_error, carried, mapping, tail>> /\ Fine
    /\ Await({"start"}, "nothing")

\* The restorer cannot be built.
StartSseFails ==
    /\ Speaks /\ Restorable /\ said' = "start"
    /\ status' = "2xx" /\ Release /\ UNCHANGED <<saw_error, carried>>
    /\ Failed
    /\ Await({"start", "final"}, "internal")

\* http.response.body.
Speech(more) == said = "start" /\ said' = IF more THEN "start" ELSE "all"

\* The body contains an error event, among what is restored or passed through.
CarriesError(error, how) == carried' = IF error THEN how ELSE carried

\* A body that is passed through is tapped for its usage; its events are not
\* asked for an error, and the status alone decides.
BodyPass(more, error) ==
    /\ Speaks /\ mode = "pass" /\ Speech(more)
    /\ IF more THEN Kept ELSE Release
    /\ CarriesError(error, "passed")
    /\ UNCHANGED <<status, saw_error>> /\ Fine
    /\ IF more THEN Await({"body"}, "nothing")
       ELSE Await({"final"}, IF status = "2xx" THEN "ok" ELSE "failed")

BodyUnary(more) ==
    /\ Speaks /\ mode = "unary" /\ Speech(more)
    /\ UNCHANGED <<status, saw_error, carried>>
    /\ \/ more /\ Kept /\ Fine /\ Quiet
       \/ ~more /\ Release /\ Fine /\ Await({"start", "final"}, "ok")
       \/ ~more /\ Release /\ Failed /\ Await({"start", "final"}, "internal")

\* Mutant: a failing event does not end the response for the app.
BodySseGoesOn(more, error) ==
    /\ Speaks /\ mode = "sse" /\ Speech(more)
    /\ saw_error' = (saw_error \/ error) /\ CarriesError(error, "restored") /\ UNCHANGED status
    /\ Kept /\ Failed /\ Await({"final"}, "internal")

\* Mutant: only the last chunk's events are asked for an error.
BodySseLastError(more, error) ==
    /\ Speaks /\ mode = "sse" /\ Speech(more)
    /\ saw_error' = (saw_error \/ error) /\ CarriesError(error, "restored") /\ UNCHANGED status
    /\ \/ more /\ Fine /\ Kept /\ Await({"body"}, "nothing")
       \/ ~more /\ Release /\ Fine /\ Await({"final"}, IF error THEN "failed" ELSE "ok")

\* error: the events of the chunk that are restored contain an error event.
BodySse(more, error) ==
    /\ Speaks /\ mode = "sse" /\ Speech(more)
    /\ saw_error' = (saw_error \/ error) /\ CarriesError(error, "restored") /\ UNCHANGED status
    /\ \/ /\ more /\ Fine
          /\ tail' \in BOOLEAN /\ UNCHANGED <<mode, mapping, local>>
          /\ Await({"body"}, "nothing")
       \/ /\ ~more /\ Release /\ Fine
          /\ Await({"final"}, IF saw_error' THEN "failed" ELSE "ok")
       \* What was restored before the failure goes out.
       \/ /\ Release /\ Failed
          /\ \E out \in {{}, {"body"}} : Await(out \union {"final"}, "internal")

\* The app raises: app_failed sends the tails of a stream.
AppRaises ==
    /\ app \in {"running", "hurt"} /\ app' = "failing"
    /\ Release
    /\ verdict' = "failed"
    /\ \/ todo' = (IF tail THEN {"body"} ELSE {}) /\ Fine
       \/ tail /\ todo' \in {{}, {"body"}} /\ Failed
    /\ UNCHANGED <<said, status, saw_error, carried, wire, ticket, recorded>>

AppReturns ==
    /\ app \in {"running", "hurt"} /\ app' = "gone"
    /\ Release
    /\ UNCHANGED <<said, status, saw_error, carried, todo, verdict, wire, broke, ticket,
                   decided, recorded>>

-----------------------------------------------------------------------------
(* The awaits *)

NextMessage ==
    IF "start" \in todo THEN "start" ELSE IF "body" \in todo THEN "body" ELSE "final"

\* What ASGI makes of a message.
Wire(w, m) ==
    IF m = "start" /\ w = "none" THEN "open"
    ELSE IF m = "body" /\ w = "open" THEN "open"
    ELSE IF m = "final" /\ w = "open" THEN "ended"
    ELSE "broken"

Sent ==
    /\ app \in {"sending", "failing"} /\ todo # {}
    /\ wire' = Wire(wire, NextMessage)
    /\ todo' = todo \ {NextMessage}
    /\ UNCHANGED <<app, said, response, mapping, verdict, broke, ticket, decided, recorded>>

\* send raises: the app gets the exception and sends no more, app_failed goes
\* on without.
SendFails ==
    /\ app \in {"sending", "failing"} /\ todo # {}
    /\ todo' = {}
    /\ IF app = "sending" THEN app' = "hurt" /\ verdict' = "nothing"
       ELSE UNCHANGED <<app, verdict>>
    /\ UNCHANGED <<said, response, mapping, wire, broke, ticket, decided, recorded>>

\* Everything is sent: publish, and back to the app, or out of the middleware.
Settle ==
    /\ app \in {"sending", "failing"} /\ todo = {}
    /\ IF verdict # "nothing" /\ facts /\ ~closed
       THEN decided' = Published(verdict) /\ recorded' = TRUE
       ELSE UNCHANGED <<decided, recorded>>
    /\ verdict' = "nothing"
    /\ IF app = "sending" THEN app' = "running" /\ Kept
       ELSE app' = "gone" /\ Release
    /\ UNCHANGED <<said, status, saw_error, carried, todo, wire, broke, ticket>>

\* The request's task is cancelled at an await and the cancel goes through.
Unwind ==
    /\ origin # "none" /\ app # "gone" /\ app' = "gone"
    /\ Release
    /\ todo' = {} /\ verdict' = "nothing"
    /\ UNCHANGED <<said, status, saw_error, carried, wire, broke, ticket, decided, recorded>>

-----------------------------------------------------------------------------
(* The limiter *)

\* response_complete: the final body has been handed to the server.
Complete == wire = "ended" \/ (todo = {"final"} /\ app \in {"sending", "failing"})

Cancel(who) ==
    /\ origin = "none" /\ ~closed
    /\ who = "client" => ~Complete
    /\ origin' = who
    /\ UNCHANGED <<app, said, response, mapping, todo, verdict, wire, broke, closed, facts,
                   decided, recorded>>

ClosingOutcome == IF origin = "none" THEN "internal" ELSE "cancelled"

\* The ticket's close: when the request has ended, or, once it is cancelled,
\* whatever the app is still doing.
Close ==
    /\ ~closed /\ closed' = TRUE
    /\ app = "gone" \/ origin # "none"
    /\ Release
    /\ IF facts
       THEN /\ decided' = IF decided = "undecided" THEN ClosingOutcome ELSE decided
            /\ recorded' = TRUE
       ELSE UNCHANGED <<decided, recorded>>
    /\ UNCHANGED <<app, said, status, saw_error, carried, todo, verdict, wire, broke, origin, facts>>

Start == (\E s \in {"2xx", "error"} : StartPass(s)) \/ StartUnary \/ StartSse \/ StartSseFails

Body(more) ==
    \/ BodyUnary(more)
    \/ \E error \in BOOLEAN : BodyPass(more, error) \/ BodySse(more, error)

Next ==
    \/ \E pairs \in BOOLEAN : HandOver(pairs)
    \/ Start
    \/ \E more \in BOOLEAN : Body(more)
    \/ \E what \in {"start", "all"} : Dropped(what)
    \/ AppRaises \/ AppReturns
    \/ Sent \/ SendFails \/ Settle \/ Unwind
    \/ \E who \in {"client", "server"} : Cancel(who)
    \/ Close

Spec == Init /\ [][Next]_vars

-----------------------------------------------------------------------------
(* Properties *)

\* However the app, its failures and the limiter interleave, the server gets a
\* response it can send: one start, then bodies, then one final body and
\* nothing after it (_Response.send, app_failed, _internal_error).
WireValid == wire # "broken"

\* A record says ok only of a 2xx response that went out to its final body, whose
\* restoration did not fail and met no error event in any of its chunks
\* (_publish after the last send).  Of a response that was not restored it says
\* no more than that: an error event of a stream that is passed through is not
\* seen (ErrorMeansFailed).
OkIsWhole ==
    decided = "ok" => wire = "ended" /\ status = "2xx" /\ carried # "restored" /\ ~broke

\* What docs/audit-schema.md says of the outcomes, whichever way the stream went:
\* of "a stream that carried an error event" the record says failed.  The code
\* keeps it for restored streams only: with nothing to restore the events are
\* passed through and a 2xx stream with an error event is recorded ok
\* (_Response.send, mode "pass").
ErrorMeansFailed == decided = "ok" => carried = "nowhere"

\* A restoration failure stands whatever happens later: no cancel, no failing
\* send and no failing app gives the record another outcome (_failed).
FailureStands == broke /\ recorded => decided = "internal"

\* No mapping outlives its request: it is gone when the middleware has been
\* left and when the ticket is closed, even if the app never unwinds, and a
\* mapping offered later is refused (ResponseMappings.register, _Response.close).
OriginalsReleased == app = "gone" \/ closed => ~mapping /\ ~local

\* The record tells how the response ended: ok only of a whole 2xx response whose
\* restoration met neither a failure nor an error event, and of a failed
\* restoration the failure, whatever follows it (_publish, _failed).
OutcomeTrue == OkIsWhole /\ FailureStands

=============================================================================
