---------------------------- MODULE MCAuditTrail ----------------------------
EXTENDS AuditTrail

\* The first request meets every caller and every outcome of the guardrail's
\* write, and a ticket's write that fails, ends in doubt or breaks off; the
\* second one only takes its place in the tables, and its own writes tell what
\* arrived.
MCCallers == [r \in Requests |-> IF r = "r1" THEN AllCallers ELSE {"pre"}]
MCEmitOutcomes ==
    [r \in Requests |->
        IF r = "r1" THEN {"ok", "failed", "unacked", "ambiguous", "unsure"} ELSE {"ok"}]
MCSinkErrors ==
    [r \in Requests |->
        IF r = "r1" THEN {"ConnectError", "ReadTimeout", "ReadError"} ELSE {"ReadTimeout"}]
==============================================================================
