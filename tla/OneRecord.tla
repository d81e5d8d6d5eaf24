----------------------------- MODULE OneRecord -----------------------------
(***************************************************************************)
(* What the terminal audit promises of each request: an outcome decided    *)
(* once, then at most one record in the sink, or one counted loss and no   *)
(* record.                                                                 *)
(***************************************************************************)
EXTENDS Naturals

CONSTANTS Tickets, Outcomes

VARIABLES
    verdict,   \* the outcome, or "undecided"
    stored,    \* records in the sink
    missing    \* counted losses

vars == <<verdict, stored, missing>>

Judge(t) ==
    /\ verdict[t] = "undecided"
    /\ \E o \in Outcomes : verdict' = [verdict EXCEPT ![t] = o]
    /\ UNCHANGED <<stored, missing>>

Store(t) ==
    /\ verdict[t] # "undecided" /\ stored[t] = 0 /\ missing[t] = 0
    /\ stored' = [stored EXCEPT ![t] = 1]
    /\ UNCHANGED <<verdict, missing>>

Lose(t) ==
    /\ verdict[t] # "undecided" /\ stored[t] = 0 /\ missing[t] = 0
    /\ missing' = [missing EXCEPT ![t] = 1]
    /\ UNCHANGED <<verdict, stored>>

Init ==
    /\ verdict = [t \in Tickets |-> "undecided"]
    /\ stored = [t \in Tickets |-> 0]
    /\ missing = [t \in Tickets |-> 0]

Next == \E t \in Tickets : Judge(t) \/ Store(t) \/ Lose(t)

Spec == Init /\ [][Next]_vars
=============================================================================
