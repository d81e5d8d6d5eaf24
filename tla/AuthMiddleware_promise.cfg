\* One caller and one token.  An answer takes less than the time to live, as by
\* default (8 s of 60), and its delay comes on top of it.
SPECIFICATION SafeSpec
CONSTANTS
    Callers = {c1}
    Tokens = {t1}
    TTL = 3
    Latency = 2
    Life = 9
    MaxTime = 6
CHECK_DEADLOCK FALSE
INVARIANTS
    RevokedWithinTTL
