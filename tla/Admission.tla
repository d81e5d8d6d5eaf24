----------------------------- MODULE Admission -----------------------------
(***************************************************************************)
(* What the in-flight limiter promises: at most Seats requests read a      *)
(* body, at most Slots are served, and a request that left never returns.  *)
(* A limit of 0 is no limit.                                               *)
(***************************************************************************)
EXTENDS Integers, FiniteSets

CONSTANTS Requests, Slots, Seats

VARIABLE stage   \* "new", "reading", "admitted" or "out", for each request

At(s) == {r \in Requests : stage[r] = s}

Move(r, from, to) ==
    /\ stage[r] = from
    /\ stage' = [stage EXCEPT ![r] = to]

Enter(r) ==
    /\ Seats # 0 => Cardinality(At("reading")) < Seats
    /\ Move(r, "new", "reading")

Admit(r) ==
    /\ Slots # 0 => Cardinality(At("admitted")) < Slots
    /\ Move(r, "reading", "admitted")

Depart(r) ==
    \/ Move(r, "new", "out")
    \/ Move(r, "reading", "out")
    \/ Move(r, "admitted", "out")

Init == stage = [r \in Requests |-> "new"]

Next == \E r \in Requests : Enter(r) \/ Admit(r) \/ Depart(r)

Spec == Init /\ [][Next]_stage
=============================================================================
