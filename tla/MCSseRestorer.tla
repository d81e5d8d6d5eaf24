---------------------------- MODULE MCSseRestorer ---------------------------
EXTENDS SseRestorer

Carries(content, calls, args, function) ==
    [content |-> content, calls |-> calls, args |-> args, function |-> function]

\* Each delta carries one thing, or nothing.
MCDeltas == {
    Carries(FALSE, <<>>, FALSE, FALSE),
    Carries(TRUE, <<>>, FALSE, FALSE),
    Carries(FALSE, <<>>, FALSE, TRUE),
    Carries(FALSE, <<0>>, FALSE, FALSE),
    Carries(FALSE, <<0>>, TRUE, FALSE),
    Carries(FALSE, <<1>>, FALSE, FALSE),
    Carries(FALSE, <<1>>, TRUE, FALSE) }
=============================================================================
