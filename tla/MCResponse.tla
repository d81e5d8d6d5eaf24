----------------------------- MODULE MCResponse -----------------------------
(***************************************************************************)
(* The response side of a request, in the three layers that restore it:    *)
(* the middleware and its messages, the events of a stream, the characters *)
(* of a text.  Each layer takes the one below as working or failing, so    *)
(* each runs alone, the other two at rest.                                 *)
(***************************************************************************)
EXTENDS DesanitizeMiddleware, MCSseRestorer, MCStreamingDesanitizer

EventsAtRest == SseInit /\ protocol = "chat"
TextAtRest == StreamInit /\ pairs = <<>>

ResponseInit == Init /\ SseInit /\ StreamInit

ResponseNext ==
    \/ EventsAtRest /\ TextAtRest /\ Next /\ UNCHANGED <<sseVars, streamVars>>
    \/ Init /\ TextAtRest /\ SseNext /\ UNCHANGED <<vars, streamVars>>
    \/ Init /\ EventsAtRest /\ StreamNext /\ UNCHANGED <<vars, sseVars>>

ResponseSpec == ResponseInit /\ [][ResponseNext]_<<vars, sseVars, streamVars>>
=============================================================================
