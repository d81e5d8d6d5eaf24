------------------------------ MODULE Ticket ------------------------------
(***************************************************************************)
(* What the two writers of a request's audit record share: its ticket      *)
(* (route_gate/inflight.py, RequestTicket).                                *)
(***************************************************************************)
CONSTANTS
    Requests,       \* each with one ticket
    Cancellable     \* requests whose client, or the server, may end them

VARIABLES
    facts,          \* ticket.audit_facts is there
    closed          \* ticket.closed

===========================================================================
