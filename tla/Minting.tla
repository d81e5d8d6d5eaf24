------------------------------ MODULE Minting ------------------------------
(***************************************************************************)
(* What TokenStore.issue_for_subject promises, in one step: a jti mints    *)
(* once, a subject's mintings are MinInterval apart, and a minting revokes *)
(* as many of the subject's tokens as the cap asks for, the oldest ones,   *)
(* together with the new row or not at all.                                *)
(***************************************************************************)
EXTENDS Integers, FiniteSets

CONSTANTS Calls, Subjects, Jtis, MaxActive, MinInterval, Life

VARIABLES now, rows

Never == -1

\* The subject's tokens that are unrevoked and unexpired at `time`.
Live(table, s, time) ==
    {d \in DOMAIN table : /\ table[d].subject = s
                          /\ table[d].revoked = Never
                          /\ table[d].issued + Life > time}

Init == now = 1 /\ rows = [c \in {} |-> Never]

Tick == now' = now + 1 /\ UNCHANGED rows

Mint(c, s, j, at) ==
    /\ c \notin DOMAIN rows
    /\ \A d \in DOMAIN rows : rows[d].jti # j
    /\ \A d \in DOMAIN rows : rows[d].subject = s => at - rows[d].issued >= MinInterval
    /\ \E evicted \in SUBSET DOMAIN rows :
        /\ \A d \in evicted : rows[d].subject = s
        /\ \A d \in evicted, e \in Live(rows, s, at) \ evicted :
               rows[d].issued <= rows[e].issued
        /\ rows' = [d \in DOMAIN rows \union {c} |->
                       IF d = c
                       THEN [subject |-> s, jti |-> j, issued |-> at, revoked |-> Never]
                       ELSE IF d \in evicted THEN [rows[d] EXCEPT !.revoked = at]
                       ELSE rows[d]]
    /\ Cardinality(Live(rows', s, now)) <= MaxActive
    /\ UNCHANGED now

Revoke(s) ==
    /\ rows' = [d \in DOMAIN rows |->
                   IF rows[d].subject = s /\ rows[d].revoked = Never
                   THEN [rows[d] EXCEPT !.revoked = now]
                   ELSE rows[d]]
    /\ UNCHANGED now

Next ==
    \/ Tick
    \/ \E c \in Calls, s \in Subjects, j \in Jtis : \E at \in 0..now : Mint(c, s, j, at)
    \/ \E s \in Subjects : Revoke(s)

Spec == Init /\ [][Next]_<<now, rows>>

============================================================================
