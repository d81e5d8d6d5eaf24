\* Two callers that share the lookup of one token, under the loop's fairness;
\* the clock runs past issue, revocation, expiry, the time to live and the latency.
SPECIFICATION Spec
CONSTANTS
    Callers = {c1, c2}
    Tokens = {t1}
    TTL = 1
    Latency = 1
    Life = 3
    MaxTime = 4
CHECK_DEADLOCK FALSE
INVARIANTS
    RevocationLag
PROPERTIES
    CallerAnswered
