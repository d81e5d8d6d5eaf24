--------------------------- MODULE Issuance_proofs ---------------------------
(***************************************************************************)
(* A jti mints once, a subject's tokens are MinInterval apart and the      *)
(* caller is told the truth: for any number of calls, subjects and jtis,   *)
(* and an unbounded clock.  The transactions implement Minting.            *)
(*                                                                         *)
(* A check made under the subject's lock stays good until the commit,      *)
(* because the lock outlives even an abandoned connection; the jti, which  *)
(* two subjects can share, is settled only by the index, when the INSERT   *)
(* runs.                                                                   *)
(***************************************************************************)
EXTENDS Issuance, FiniteSetTheorems, TLAPS

Holding == {"seen", "latest", "active", "update", "insert", "commit", "maybe"}
Passed  == {"active", "update", "insert", "commit", "maybe"}
Ending  == {"commit", "maybe"}
Refusals == {"E_ISSUE_RATE", "E_ISSUE_REPLAY", "E_ISSUE_BUSY"}

\* One transaction of a subject is between its lock and its end.
LockInv ==
    /\ \A c \in Calls : pc[c] \in Holding => c \in locks
    /\ \A c \in locks : pc[c] \in Holding \union {"orphan"}
    /\ \A c, d \in locks : Subject(c) = Subject(d) => c = d

\* An inserted jti is nobody else's.
IndexInv ==
    /\ \A c \in Calls : c \in inserted <=> pc[c] \in Ending
    /\ \A c, d \in inserted : claims[c].jti = claims[d].jti => c = d
    /\ \A c \in inserted : \A d \in DOMAIN rows : rows[d].jti # claims[c].jti

\* What TooSoon found stays so until the commit.
SpacedInv ==
    \A c \in Calls : pc[c] \in Passed =>
        \A d \in DOMAIN rows :
            rows[d].subject = Subject(c) => issued[c] - rows[d].issued >= MinInterval

\* Rows belong to calls that are over, and so do refusals.
AnswerInv ==
    /\ \A c \in DOMAIN rows : pc[c] = "done"
    /\ \A c \in Calls : told[c] = "ok" => c \in DOMAIN rows
    /\ \A c \in Calls : told[c] \in Refusals => c \notin DOMAIN rows /\ pc[c] = "done"

IssuanceInv ==
    TypeOK /\ LockInv /\ IndexInv /\ SpacedInv /\ AnswerInv /\ JtiMintsOnce /\ IntervalKept

LEMMA InitEstablishes == Init => IssuanceInv
<1> SUFFICES ASSUME Init PROVE IssuanceInv
    OBVIOUS
<1>1. DOMAIN rows = {}
    BY DEF Init
<1>2. TypeOK
    BY <1>1 DEF Init, TypeOK, Phases, Answers
<1> QED
    BY <1>1, <1>2 DEF Init, IssuanceInv, LockInv, IndexInv, SpacedInv, AnswerInv,
        JtiMintsOnce, IntervalKept, Holding, Passed, Ending, Refusals

\* The steps that leave the table alone and end no transaction.
LEMMA QuietStep ==
    ASSUME IssuanceInv, NEW c \in Calls,
           Start(c) \/ Lock(c) \/ Active(c) \/ Update(c) \/ Abandon(c)
    PROVE  IssuanceInv'
<1> USE DEF IssuanceInv, TypeOK
<1>1. CASE Start(c)
    BY <1>1 DEF Start, Goto, table, tx, Phases, Statements, LockInv, IndexInv, SpacedInv,
        AnswerInv, JtiMintsOnce, IntervalKept, Holding, Passed, Ending, Refusals, Subject
<1>2. CASE Lock(c)
    BY <1>2 DEF Lock, Goto, table, Phases, Statements, LockInv, IndexInv, SpacedInv,
        AnswerInv, JtiMintsOnce, IntervalKept, Holding, Passed, Ending, Refusals, Subject
<1>3. CASE Active(c)
    <2>1. PICK chosen \in SUBSET DOMAIN rows :
              /\ evict' = [evict EXCEPT ![c] = chosen]
              /\ Goto(c, IF chosen = {} THEN "insert" ELSE "update")
        BY <1>3 DEF Active
    <2>2. PICK next \in {"insert", "update"} : pc' = [pc EXCEPT ![c] = next]
        BY <2>1 DEF Goto
    <2>3. evict' \in [Calls -> SUBSET Calls]
        BY <2>1
    <2> QED
        BY <1>3, <2>2, <2>3 DEF Active, table, Phases, Statements, LockInv, IndexInv, SpacedInv,
            AnswerInv, JtiMintsOnce, IntervalKept, Holding, Passed, Ending, Refusals, Subject
<1>4. CASE Update(c)
    BY <1>4 DEF Update, Goto, table, Phases, Statements, LockInv, IndexInv, SpacedInv,
        AnswerInv, JtiMintsOnce, IntervalKept, Holding, Passed, Ending, Refusals, Subject
<1>5. CASE Abandon(c)
    <2>1. PICK next \in {"orphan", "maybe"} :
              pc' = [pc EXCEPT ![c] = next] /\ (next = "maybe" <=> pc[c] = "commit")
        BY <1>5 DEF Abandon, Goto
    <2> QED
        BY <1>5, <2>1 DEF Abandon, table, tx, Phases, Statements, Answers, LockInv, IndexInv,
            SpacedInv, AnswerInv, JtiMintsOnce, IntervalKept, Holding, Passed, Ending,
            Refusals, Subject
<1> QED
    BY <1>1, <1>2, <1>3, <1>4, <1>5

\* ROLLBACK releases what the call held and changes no row.
LEMMA RefuseStep ==
    ASSUME IssuanceInv, NEW c \in Calls, NEW code \in Refusals,
           pc[c] \in Statements, Refuse(c, code)
    PROVE  IssuanceInv'
BY DEF IssuanceInv, TypeOK, Refuse, Goto, Close, table, Phases, Statements, Answers, LockInv,
    IndexInv, SpacedInv, AnswerInv, JtiMintsOnce, IntervalKept, Holding, Passed, Ending,
    Refusals, Subject

\* The three statements that decide.
LEMMA CheckStep ==
    ASSUME IssuanceInv, NEW c \in Calls, Seen(c) \/ Latest(c) \/ Insert(c) \/ Busy(c)
    PROVE  IssuanceInv'
<1> USE DEF IssuanceInv, TypeOK
<1>1. CASE Seen(c)
    <2>1. CASE Refuse(c, "E_ISSUE_REPLAY")
        BY <1>1, <2>1, RefuseStep DEF Seen, Statements, Refusals
    <2>2. CASE ~Refuse(c, "E_ISSUE_REPLAY")
        BY <1>1, <2>2 DEF Seen, Goto, table, tx, Phases, Statements, LockInv, IndexInv,
            SpacedInv, AnswerInv, JtiMintsOnce, IntervalKept, Holding, Passed, Ending,
            Refusals, Subject
    <2> QED
        BY <2>1, <2>2
<1>2. CASE Latest(c)
    <2>1. CASE Refuse(c, "E_ISSUE_RATE")
        BY <1>2, <2>1, RefuseStep DEF Latest, Statements, Refusals
    <2>2. CASE ~Refuse(c, "E_ISSUE_RATE")
        <3>1. \A d \in DOMAIN rows :
                  rows[d].subject = Subject(c) => issued[c] - rows[d].issued >= MinInterval
            BY <1>2, <2>2, IssuanceAssumption DEF Latest, TooSoon, Of, Row
        <3>2. /\ pc[c] = "latest" /\ pc' = [pc EXCEPT ![c] = "active"]
              /\ UNCHANGED <<now, rows, claims, issued, locks, evict, wrote, inserted, told>>
            BY <1>2, <2>2 DEF Latest, Goto, table, tx
        <3> QED
            BY <3>1, <3>2 DEF Phases, Statements, LockInv, IndexInv, SpacedInv, AnswerInv,
                JtiMintsOnce, IntervalKept, Holding, Passed, Ending, Refusals, Subject
    <2> QED
        BY <2>1, <2>2
<1>3. CASE Insert(c)
    <2>1. CASE Refuse(c, "E_ISSUE_REPLAY")
        BY <1>3, <2>1, RefuseStep DEF Insert, Statements, Refusals
    <2>2. CASE ~Refuse(c, "E_ISSUE_REPLAY")
        <3>1. /\ pc[c] = "insert" /\ pc' = [pc EXCEPT ![c] = "commit"]
              /\ inserted' = inserted \union {c}
              /\ \A d \in inserted : claims[d].jti # claims[c].jti
              /\ \A d \in DOMAIN rows : rows[d].jti # claims[c].jti
              /\ UNCHANGED <<now, rows, claims, issued, locks, evict, wrote, told>>
            BY <1>3, <2>2 DEF Insert, Goto, table
        <3>2. TypeOK'
            BY <3>1 DEF Phases, Statements
        <3>3. LockInv' /\ SpacedInv' /\ AnswerInv'
            BY <3>1 DEF LockInv, SpacedInv, AnswerInv, Holding, Passed, Refusals, Subject
        <3>4. IndexInv'
            BY <3>1 DEF IndexInv, Ending
        <3>5. JtiMintsOnce' /\ IntervalKept'
            BY <3>1 DEF JtiMintsOnce, IntervalKept
        <3> QED
            BY <3>2, <3>3, <3>4, <3>5
    <2> QED
        BY <2>1, <2>2
<1>4. CASE Busy(c)
    BY <1>4, RefuseStep DEF Busy, Refusals
<1> QED
    BY <1>1, <1>2, <1>3, <1>4

\* An abandoned transaction that the server rolls back.
LEMMA OrphanStep ==
    ASSUME IssuanceInv, NEW c \in Calls, OrphanEnds(c)
    PROVE  IssuanceInv'
BY DEF IssuanceInv, TypeOK, OrphanEnds, Goto, Close, table, Phases, Statements, LockInv,
    IndexInv, SpacedInv, AnswerInv, JtiMintsOnce, IntervalKept, Holding, Passed, Ending,
    Refusals, Subject

\* The commit, noticed by the caller or not.
LEMMA CommitStep ==
    ASSUME IssuanceInv, NEW c \in Calls, Commit(c) \/ OrphanCommits(c)
    PROVE  IssuanceInv'
<1> USE DEF IssuanceInv
<1>1. pc[c] \in Ending /\ Apply(c) /\ Close(c) /\ Goto(c, "done")
      /\ now' = now /\ claims' = claims /\ issued' = issued
      /\ told' \in {told, [told EXCEPT ![c] = "ok"]}
    BY DEF Commit, OrphanCommits, Ending
<1>2. /\ c \in inserted /\ c \in locks /\ c \notin DOMAIN rows
      /\ claims[c] \in [subject : Subjects, jti : Jtis] /\ issued[c] \in Nat
    BY <1>1 DEF TypeOK, IndexInv, LockInv, AnswerInv, Ending, Holding
<1>3. /\ DOMAIN rows' = DOMAIN rows \union {c}
      /\ rows'[c] = [subject |-> Subject(c), jti |-> claims[c].jti,
                     issued |-> issued[c], revoked |-> Never]
      /\ \A d \in DOMAIN rows :
             rows'[d] = IF d \in evict[c] THEN [rows[d] EXCEPT !.revoked = issued[c]]
                        ELSE rows[d]
    BY <1>1, <1>2 DEF Apply
<1>4. /\ rows'[c] \in Row /\ rows'[c].subject = Subject(c)
      /\ rows'[c].jti = claims[c].jti /\ rows'[c].issued = issued[c]
    BY <1>2, <1>3 DEF Row, Subject
<1>5. \A d \in DOMAIN rows :
          /\ rows'[d] \in Row /\ rows'[d].subject = rows[d].subject
          /\ rows'[d].jti = rows[d].jti /\ rows'[d].issued = rows[d].issued
    BY <1>2, <1>3 DEF TypeOK, Row
<1>6. TypeOK'
    <2>1. DOMAIN rows' \subseteq Calls /\ \A d \in DOMAIN rows' : rows'[d] \in Row
        BY <1>3, <1>4, <1>5 DEF TypeOK
    <2> QED
        BY <1>1, <2>1 DEF TypeOK, Close, Goto, Phases, Statements, Answers
<1>7. LockInv'
    BY <1>1 DEF TypeOK, LockInv, Close, Goto, Holding, Ending, Subject
<1>8. IndexInv'
    BY <1>1, <1>2, <1>3, <1>4, <1>5 DEF TypeOK, IndexInv, Close, Goto, Ending
<1>9. SpacedInv'
    <2> SUFFICES ASSUME NEW e \in Calls, pc'[e] \in Passed, NEW d \in DOMAIN rows',
                        rows'[d].subject = Subject(e)
                 PROVE  issued[e] - rows'[d].issued >= MinInterval
        BY <1>1 DEF SpacedInv, Subject
    <2>1. e # c /\ pc[e] \in Passed
        BY <1>1 DEF Goto, TypeOK, Passed
    <2>2. d # c
        BY <1>2, <1>4, <2>1 DEF LockInv, Passed, Holding
    <2> QED
        BY <1>3, <1>5, <2>1, <2>2 DEF SpacedInv
<1>10. AnswerInv'
    BY <1>1, <1>2, <1>3 DEF TypeOK, AnswerInv, Goto, Ending, Refusals
<1>11. JtiMintsOnce'
    BY <1>2, <1>3, <1>4, <1>5 DEF JtiMintsOnce, IndexInv
<1>12. IntervalKept'
    <2>1. \A d \in DOMAIN rows :
              rows[d].subject = Subject(c) => issued[c] - rows[d].issued >= MinInterval
        BY <1>1 DEF SpacedInv, Ending, Passed
    <2> QED
        BY <1>3, <1>4, <1>5, <2>1 DEF IntervalKept
<1> QED
    BY <1>6, <1>7, <1>8, <1>9, <1>10, <1>11, <1>12

\* The clock and an administrator's revocation.
LEMMA OutsideStep ==
    ASSUME IssuanceInv, Tick \/ \E s \in Subjects : RevokeUser(s)
    PROVE  IssuanceInv'
<1> USE DEF IssuanceInv
<1>1. CASE Tick
    BY <1>1 DEF Tick, tx, TypeOK, LockInv, IndexInv, SpacedInv, AnswerInv, JtiMintsOnce,
        IntervalKept, Subject
<1>2. CASE \E s \in Subjects : RevokeUser(s)
    <2>1. PICK s \in Subjects : RevokeUser(s)
        BY <1>2
    <2>2. /\ DOMAIN rows' = DOMAIN rows
          /\ \A d \in DOMAIN rows :
                 /\ rows'[d] \in Row /\ rows'[d].subject = rows[d].subject
                 /\ rows'[d].jti = rows[d].jti /\ rows'[d].issued = rows[d].issued
        BY <2>1 DEF RevokeUser, TypeOK, Row
    <2> QED
        BY <2>1, <2>2 DEF RevokeUser, tx, TypeOK, LockInv, IndexInv, SpacedInv, AnswerInv,
            JtiMintsOnce, IntervalKept, Subject
<1> QED
    BY <1>1, <1>2

LEMMA NextPreserves == IssuanceInv /\ [Next]_vars => IssuanceInv'
<1> SUFFICES ASSUME IssuanceInv, [Next]_vars PROVE IssuanceInv'
    OBVIOUS
<1>1. CASE UNCHANGED vars
    BY <1>1 DEF vars, table, tx, IssuanceInv, TypeOK, LockInv, IndexInv, SpacedInv, AnswerInv,
        JtiMintsOnce, IntervalKept, Subject
<1>2. CASE Tick \/ \E s \in Subjects : RevokeUser(s)
    BY <1>2, OutsideStep
<1>3. CASE \E c \in Calls : Step(c)
    <2>1. PICK c \in Calls : Step(c)
        BY <1>3
    <2> QED
        BY <2>1, QuietStep, CheckStep, OrphanStep, CommitStep DEF Step
<1> QED
    BY <1>1, <1>2, <1>3 DEF Next

LEMMA IssuanceInvariant == Spec => []IssuanceInv
BY InitEstablishes, NextPreserves, PTL DEF Spec

(* The variables of issue_for_subject keep their types. *)
THEOREM IssuanceTypeCorrect == Spec => []TypeOK
<1>1. IssuanceInv => TypeOK
    BY DEF IssuanceInv
<1> QED
    BY <1>1, IssuanceInvariant, PTL

(* postgres_store.issue_for_subject: no jti is in two rows of corp_tokens,    *)
(* whichever subjects present it and whichever connections are abandoned.     *)
THEOREM JtiTheorem == Spec => []JtiMintsOnce
<1>1. IssuanceInv => JtiMintsOnce
    BY DEF IssuanceInv
<1> QED
    BY <1>1, IssuanceInvariant, PTL

(* postgres_store.issue_for_subject: tokens of one subject are min_interval   *)
(* apart, although the clock is read before the lock is waited for.           *)
THEOREM IntervalTheorem == Spec => []IntervalKept
<1>1. IssuanceInv => IntervalKept
    BY DEF IssuanceInv
<1> QED
    BY <1>1, IssuanceInvariant, PTL

(* The route's answer: an "ok" is stored, a refusal never is.                 *)
THEOREM TruthTheorem == Spec => []ToldTheTruth
<1>1. IssuanceInv => ToldTheTruth
    BY DEF IssuanceInv, AnswerInv, ToldTheTruth, Refusals
<1> QED
    BY <1>1, IssuanceInvariant, PTL

(* corp_tokens obeys the policy: one token per jti, min_interval apart        *)
(* (postgres_store.issue_for_subject).                                        *)
THEOREM PolicyTheorem == Spec => []PolicyKept
BY JtiTheorem, IntervalTheorem, PTL DEF PolicyKept

------------------------------------------------------------------------------
(* The refinement.  What a transaction chose to revoke stays the right       *)
(* choice until its commit: under the subject's lock no row is added, and a  *)
(* concurrent revoke_user only takes live rows away.                         *)

Chosen == {"update", "insert", "commit", "maybe"}

ChoiceOf(c) ==
    /\ evict[c] \subseteq Of(Subject(c))
    /\ Cardinality(ActiveRows(c) \ evict[c]) < MaxActive
    /\ \A d \in evict[c], e \in ActiveRows(c) \ evict[c] : rows[d].issued <= rows[e].issued

ChoiceInv ==
    /\ now \in Nat /\ \A c \in Calls : issued[c] <= now
    /\ \A c \in Calls : pc[c] \in Chosen => ChoiceOf(c)

LEMMA RowsFinite ==
    ASSUME TypeOK, NEW c \in Calls
    PROVE  /\ IsFiniteSet(ActiveRows(c)) /\ ActiveRows(c) \subseteq DOMAIN rows
           /\ \A S \in SUBSET ActiveRows(c) : IsFiniteSet(S) /\ Cardinality(S) \in Nat
<1>1. ActiveRows(c) \subseteq DOMAIN rows /\ DOMAIN rows \subseteq Calls
    BY DEF ActiveRows, Of, TypeOK
<1>2. \A S \in SUBSET Calls : IsFiniteSet(S) /\ Cardinality(S) \in Nat
    BY IssuanceAssumption, FS_Subset, FS_CardinalityType
<1> QED
    BY <1>1, <1>2

\* The rows of the caller's subject keep their age, and no more of them are live.
Shrinks(c) ==
    /\ \A d \in Of(Subject(c)) :
           /\ d \in DOMAIN rows' /\ rows'[d].subject = rows[d].subject
           /\ rows'[d].issued = rows[d].issued
    /\ ActiveRows(c)' \subseteq ActiveRows(c)

LEMMA ChoiceKept ==
    ASSUME TypeOK, NEW c \in Calls, ChoiceOf(c), Shrinks(c),
           UNCHANGED <<claims, issued>>, evict'[c] = evict[c]
    PROVE  ChoiceOf(c)'
<1>1. Subject(c)' = Subject(c)
    BY DEF Subject
<1>2. evict'[c] \subseteq Of(Subject(c))'
    BY <1>1 DEF ChoiceOf, Shrinks, Of
<1>3. Cardinality((ActiveRows(c) \ evict[c])') < MaxActive
    <2> DEFINE A == ActiveRows(c) \ evict[c]
               B == ActiveRows(c)' \ evict[c]
    <2>1. B \subseteq A /\ IsFiniteSet(A) /\ A \subseteq ActiveRows(c)
        BY RowsFinite DEF Shrinks
    <2>2. Cardinality(B) <= Cardinality(A) /\ Cardinality(B) \in Nat /\ Cardinality(A) \in Nat
        BY <2>1, FS_Subset, FS_CardinalityType
    <2>3. Cardinality(A) < MaxActive
        BY DEF ChoiceOf
    <2>4. (ActiveRows(c) \ evict[c])' = B
        OBVIOUS
    <2> HIDE DEF A, B
    <2> QED
        BY <2>2, <2>3, <2>4, IssuanceAssumption
<1>4. ASSUME NEW d \in evict'[c], NEW e \in ActiveRows(c)' \ evict'[c]
      PROVE  rows'[d].issued <= rows'[e].issued
    <2>1. d \in evict[c] /\ e \in ActiveRows(c) \ evict[c] /\ d \in Of(Subject(c))
        BY <1>4 DEF Shrinks, ChoiceOf
    <2>2. e \in Of(Subject(c))
        BY <2>1 DEF ActiveRows
    <2> QED
        BY <2>1, <2>2 DEF Shrinks, ChoiceOf
<1> QED
    BY <1>2, <1>3, <1>4 DEF ChoiceOf

\* The choice itself: as many as the cap asks for.
LEMMA ChoiceMade ==
    ASSUME TypeOK, NEW c \in Calls, NEW chosen \in SUBSET DOMAIN rows, Oldest(c, chosen)
    PROVE  /\ chosen \subseteq Of(Subject(c))
           /\ Cardinality(ActiveRows(c) \ chosen) < MaxActive
           /\ \A d \in chosen, e \in ActiveRows(c) \ chosen : rows[d].issued <= rows[e].issued
<1>1. chosen \subseteq ActiveRows(c) /\ IsFiniteSet(ActiveRows(c)) /\ IsFiniteSet(chosen)
    BY RowsFinite DEF Oldest
<1>2. Cardinality(ActiveRows(c)) \in Nat /\ Cardinality(chosen) \in Nat
    BY <1>1, FS_CardinalityType
<1>3. Cardinality(ActiveRows(c) \ chosen) = Cardinality(ActiveRows(c)) - Cardinality(chosen)
    <2>1. ActiveRows(c) \cap chosen = chosen
        BY <1>1
    <2> QED
        BY <1>1, <2>1, FS_Difference
<1>4. Cardinality(ActiveRows(c)) - Cardinality(chosen) < MaxActive
    BY <1>2, IssuanceAssumption DEF Oldest, Excess
<1> QED
    BY <1>1, <1>3, <1>4 DEF Oldest, ActiveRows

\* A commit writes rows of its own subject only.
LEMMA CommitShrinks ==
    ASSUME IssuanceInv, ChoiceInv, NEW c \in Calls, Commit(c) \/ OrphanCommits(c),
           NEW e \in Calls, e # c, pc[e] \in Chosen
    PROVE  Shrinks(e)
<1>1. /\ pc[c] \in Ending /\ Apply(c) /\ claims' = claims /\ issued' = issued
    BY DEF Commit, OrphanCommits, Ending
<1>2. Subject(e) # Subject(c) /\ c \notin DOMAIN rows
    BY <1>1 DEF IssuanceInv, LockInv, AnswerInv, Ending, Holding, Chosen
<1>3. evict[c] \subseteq Of(Subject(c))
    BY <1>1 DEF ChoiceInv, ChoiceOf, Ending, Chosen
<1>4. DOMAIN rows' = DOMAIN rows \union {c}
    BY <1>1 DEF Apply
<1>5. rows'[c].subject = Subject(c)
    BY <1>1 DEF Apply
<1>6. \A d \in Of(Subject(e)) : d \in DOMAIN rows' /\ rows'[d] = rows[d]
    BY <1>1, <1>2, <1>3, <1>4 DEF Apply, Of
<1>7. \A d \in DOMAIN rows : rows'[d].subject = rows[d].subject
    <2>1. ASSUME NEW d \in DOMAIN rows PROVE rows'[d].subject = rows[d].subject
        BY <1>1, <1>2, <2>1 DEF Apply, IssuanceInv, TypeOK, Row
    <2> QED
        BY <2>1
<1>8. ActiveRows(e)' \subseteq ActiveRows(e)
    <2> SUFFICES ASSUME NEW d \in ActiveRows(e)' PROVE d \in ActiveRows(e)
        OBVIOUS
    <2>1. d \in DOMAIN rows' /\ rows'[d].subject = Subject(e)
        BY <1>1 DEF ActiveRows, Of, Subject
    <2>2. d \in Of(Subject(e))
        BY <1>2, <1>4, <1>5, <1>7, <2>1 DEF Of
    <2> QED
        BY <1>1, <1>6, <2>2 DEF ActiveRows
<1> QED
    BY <1>6, <1>8 DEF Shrinks

LEMMA RevokeShrinks ==
    ASSUME IssuanceInv, NEW s \in Subjects, RevokeUser(s), NEW e \in Calls
    PROVE  Shrinks(e)
<1>1. /\ DOMAIN rows' = DOMAIN rows /\ UNCHANGED <<claims, issued>>
      /\ \A d \in DOMAIN rows :
             /\ rows'[d].subject = rows[d].subject /\ rows'[d].issued = rows[d].issued
             /\ rows'[d].revoked = Never => rows[d].revoked = Never
    <2>1. ASSUME NEW d \in DOMAIN rows
          PROVE  /\ rows'[d].subject = rows[d].subject /\ rows'[d].issued = rows[d].issued
                 /\ rows'[d].revoked = Never => rows[d].revoked = Never
        <3>1. rows[d] \in Row /\ rows'[d] \in {rows[d], [rows[d] EXCEPT !.revoked = now]}
              /\ now # Never
            BY <2>1 DEF RevokeUser, IssuanceInv, TypeOK, Never
        <3> QED
            BY <3>1 DEF Row
    <2> QED
        BY <2>1 DEF RevokeUser
<1> QED
    BY <1>1 DEF Shrinks, ActiveRows, Of, Subject

LEMMA ChoiceStep == IssuanceInv /\ ChoiceInv /\ [Next]_vars => ChoiceInv'
<1> SUFFICES ASSUME IssuanceInv, ChoiceInv, [Next]_vars PROVE ChoiceInv'
    OBVIOUS
<1>0. TypeOK
    BY DEF IssuanceInv
<1>1. CASE UNCHANGED vars
    BY <1>1 DEF vars, table, tx, ChoiceInv, ChoiceOf, ActiveRows, Of, Subject
<1>2. CASE Tick
    <2>1. \A c \in Calls : ChoiceOf(c)' <=> ChoiceOf(c)
        BY <1>2 DEF Tick, tx, ChoiceOf, ActiveRows, Of, Subject
    <2> QED
        BY <1>0, <1>2, <2>1 DEF Tick, ChoiceInv, TypeOK
<1>3. CASE \E s \in Subjects : RevokeUser(s)
    <2>1. PICK s \in Subjects : RevokeUser(s)
        BY <1>3
    <2>2. UNCHANGED <<now, pc, claims, issued, evict>>
        BY <2>1 DEF RevokeUser, tx
    <2>3. \A c \in Calls : pc[c] \in Chosen => ChoiceOf(c)'
        BY <1>0, <2>1, <2>2, RevokeShrinks, ChoiceKept DEF ChoiceInv
    <2> QED
        BY <2>2, <2>3 DEF ChoiceInv
<1>4. ASSUME NEW c \in Calls, Step(c) PROVE ChoiceInv'
    <2>1. now' = now /\ claims' = claims
        BY <1>4 DEF Step, Start, Lock, Seen, Latest, Active, Update, Insert, Commit, Busy, Abandon,
               OrphanEnds, OrphanCommits, Refuse, table
    <2>2. /\ issued' \in [Calls -> Nat]
          /\ \A e \in Calls : issued'[e] = issued[e] \/ (e = c /\ Start(c) /\ issued'[e] = now)
        BY <1>0, <1>4 DEF Step, Start, Lock, Seen, Latest, Active, Update, Insert, Commit, Busy,
               Abandon, OrphanEnds, OrphanCommits, Refuse, TypeOK
    <2>3. \A e \in Calls : issued'[e] <= now
        BY <2>2 DEF ChoiceInv
    <2>4. \A e \in Calls : e # c => pc'[e] = pc[e] /\ evict'[e] = evict[e]
        BY <1>0, <1>4 DEF Step, Start, Lock, Seen, Latest, Active, Update, Insert, Commit, Busy,
               Abandon, OrphanEnds, OrphanCommits, Refuse, Close, Goto, tx, TypeOK
    <2>5. CASE Commit(c) \/ OrphanCommits(c)
        <3>1. issued' = issued /\ pc'[c] = "done"
            BY <1>0, <2>5 DEF Commit, OrphanCommits, Goto, TypeOK
        <3>2. \A e \in Calls : pc'[e] \in Chosen => ChoiceOf(e)'
            BY <1>0, <2>1, <2>4, <2>5, <3>1, CommitShrinks, ChoiceKept DEF ChoiceInv, Chosen
        <3> QED
            BY <2>1, <2>3, <3>2 DEF ChoiceInv
    <2>6. CASE ~(Commit(c) \/ OrphanCommits(c))
        <3>1. rows' = rows
            BY <1>4, <2>6 DEF Step, Start, Lock, Seen, Latest, Active, Update, Insert, Busy, Abandon,
                   OrphanEnds, Refuse, table
        <3>2. ASSUME NEW e \in Calls, pc[e] \in Chosen, evict'[e] = evict[e], issued'[e] = issued[e]
              PROVE  ChoiceOf(e)'
            BY <2>1, <3>1, <3>2 DEF ChoiceInv, ChoiceOf, ActiveRows, Of, Subject
        <3>3. ASSUME pc'[c] \in Chosen PROVE ChoiceOf(c)'
            <4>1. CASE Active(c)
                <5>1. PICK chosen \in SUBSET DOMAIN rows :
                          Oldest(c, chosen) /\ evict' = [evict EXCEPT ![c] = chosen]
                    BY <4>1 DEF Active
                <5>2. evict'[c] = chosen /\ issued' = issued
                    BY <1>0, <4>1, <5>1 DEF Active, TypeOK
                <5>3. /\ chosen \subseteq Of(Subject(c))
                      /\ Cardinality(ActiveRows(c) \ chosen) < MaxActive
                      /\ \A d \in chosen, e \in ActiveRows(c) \ chosen :
                             rows[d].issued <= rows[e].issued
                    BY <1>0, <5>1, ChoiceMade
                <5> QED
                    BY <2>1, <3>1, <5>2, <5>3 DEF ChoiceOf, ActiveRows, Of, Subject
            <4>2. CASE ~Active(c)
                <5>1. pc[c] \in Chosen /\ evict'[c] = evict[c] /\ issued'[c] = issued[c]
                    BY <1>0, <1>4, <2>6, <3>3, <4>2 DEF Step, Start, Lock, Seen, Latest, Update,
                           Insert, Busy, Abandon, OrphanEnds, Refuse, Goto, tx, TypeOK, Chosen
                <5> QED
                    BY <3>2, <5>1
            <4> QED
                BY <4>1, <4>2
        <3>4. ASSUME NEW e \in Calls, e # c, pc'[e] \in Chosen PROVE ChoiceOf(e)'
            BY <2>2, <2>4, <3>2, <3>4
        <3> QED
            BY <2>1, <2>3, <3>3, <3>4 DEF ChoiceInv
    <2> QED
        BY <2>5, <2>6
<1> QED
    BY <1>1, <1>2, <1>3, <1>4 DEF Next

\* A commit is one minting of the contract.
LEMMA CommitMints ==
    ASSUME IssuanceInv, ChoiceInv, NEW c \in Calls, Commit(c) \/ OrphanCommits(c)
    PROVE  Promise!Mint(c, Subject(c), claims[c].jti, issued[c])
<1> DEFINE s == Subject(c)
           L(t, time) == Promise!Live(t, s, time)
<1>1. pc[c] \in Ending /\ Apply(c) /\ now' = now
    BY DEF Commit, OrphanCommits, Ending
<1>2. /\ TypeOK /\ c \in inserted /\ c \notin DOMAIN rows
      /\ issued[c] \in Nat /\ issued[c] <= now /\ now \in Nat
    BY <1>1 DEF IssuanceInv, TypeOK, IndexInv, AnswerInv, ChoiceInv, Ending
<1>3. \A d \in DOMAIN rows : rows[d].jti # claims[c].jti
    BY <1>2 DEF IssuanceInv, IndexInv
<1>4. \A d \in DOMAIN rows : rows[d].subject = s => issued[c] - rows[d].issued >= MinInterval
    BY <1>1 DEF IssuanceInv, SpacedInv, Ending, Passed
<1>5. ChoiceOf(c)
    BY <1>1 DEF ChoiceInv, Ending, Chosen
<1>6. L(rows, issued[c]) = ActiveRows(c)
    BY DEF Promise!Live, ActiveRows, Of, Never, Promise!Never
<1>7. Cardinality(L(rows', now)) <= MaxActive
    <2> DEFINE K == ActiveRows(c) \ evict[c]
    <2>1. IsFiniteSet(K) /\ Cardinality(K) \in Nat /\ Cardinality(K) < MaxActive
          /\ K \subseteq DOMAIN rows
        BY <1>2, <1>5, RowsFinite DEF ChoiceOf
    <2>2. L(rows', now) \subseteq K \union {c}
        <3> SUFFICES ASSUME NEW d \in L(rows', now), d # c PROVE d \in K
            OBVIOUS
        <3>1. /\ d \in DOMAIN rows' /\ rows'[d].subject = s /\ rows'[d].revoked = Never
              /\ rows'[d].issued + Life > now
            BY DEF Promise!Live, Never, Promise!Never
        <3>2. d \in DOMAIN rows
            BY <1>1, <3>1 DEF Apply
        <3>3. rows'[d] = IF d \in evict[c] THEN [rows[d] EXCEPT !.revoked = issued[c]] ELSE rows[d]
            BY <1>1, <3>2 DEF Apply
        <3>4. d \notin evict[c]
            <4>1. rows[d] \in Row /\ issued[c] # Never
                BY <1>2, <3>2 DEF TypeOK, Never
            <4> QED
                BY <3>1, <3>3, <4>1 DEF Row
        <3>5. rows[d].issued \in Nat
            BY <1>2, <3>2 DEF TypeOK, Row
        <3>6. rows[d].issued + Life > issued[c]
            BY <1>2, <3>1, <3>3, <3>4, <3>5, IssuanceAssumption
        <3> QED
            BY <3>1, <3>2, <3>3, <3>4, <3>6 DEF ActiveRows, Of
    <2>3. IsFiniteSet(K \union {c}) /\ Cardinality(K \union {c}) = Cardinality(K) + 1
        BY <1>2, <2>1, FS_AddElement
    <2>4. /\ Cardinality(L(rows', now)) <= Cardinality(K) + 1
          /\ Cardinality(L(rows', now)) \in Nat
        BY <2>2, <2>3, FS_Subset, FS_CardinalityType
    <2> QED
        BY <2>1, <2>4, IssuanceAssumption
<1>8. /\ evict[c] \in SUBSET DOMAIN rows
      /\ \A d \in evict[c] : rows[d].subject = s
      /\ \A d \in evict[c], e \in L(rows, issued[c]) \ evict[c] : rows[d].issued <= rows[e].issued
    BY <1>5, <1>6 DEF ChoiceOf, Of
<1>9. rows' = [d \in DOMAIN rows \union {c} |->
                  IF d = c
                  THEN [subject |-> s, jti |-> claims[c].jti, issued |-> issued[c],
                        revoked |-> Promise!Never]
                  ELSE IF d \in evict[c] THEN [rows[d] EXCEPT !.revoked = issued[c]]
                  ELSE rows[d]]
    BY <1>1 DEF Apply, Never, Promise!Never
<1> QED
    BY <1>1, <1>2, <1>3, <1>4, <1>7, <1>8, <1>9
       DEF Promise!Mint, Promise!Cardinality, Cardinality

\* Every other step leaves the table alone, or is the contract's own.
LEMMA StepImplements ==
    IssuanceInv /\ ChoiceInv /\ [Next]_vars => [Promise!Next]_<<now, rows>>
<1> SUFFICES ASSUME IssuanceInv, ChoiceInv, [Next]_vars
             PROVE  Promise!Next \/ UNCHANGED <<now, rows>>
    OBVIOUS
<1>1. CASE UNCHANGED vars
    BY <1>1 DEF vars, table
<1>2. CASE Tick
    BY <1>2 DEF Tick, Promise!Next, Promise!Tick
<1>3. ASSUME NEW s \in Subjects, RevokeUser(s) PROVE Promise!Next
    <2>1. Promise!Revoke(s)
        BY <1>3 DEF RevokeUser, Promise!Revoke, Never, Promise!Never
    <2> QED
        BY <2>1 DEF Promise!Next
<1>4. ASSUME NEW c \in Calls, Commit(c) \/ OrphanCommits(c) PROVE Promise!Next
    <2>1. Promise!Mint(c, Subject(c), claims[c].jti, issued[c])
        BY <1>4, CommitMints
    <2>2. Subject(c) \in Subjects /\ claims[c].jti \in Jtis /\ issued[c] \in 0..now
        BY DEF IssuanceInv, TypeOK, ChoiceInv, Subject
    <2> QED
        BY <2>1, <2>2 DEF Promise!Next
<1>5. ASSUME NEW c \in Calls, Step(c), ~Commit(c), ~OrphanCommits(c) PROVE UNCHANGED <<now, rows>>
    BY <1>5 DEF Step, Start, Lock, Seen, Latest, Active, Update, Insert, Busy, Abandon, OrphanEnds,
           Refuse, table
<1> QED
    BY <1>1, <1>2, <1>3, <1>4, <1>5 DEF Next

\* Concurrent transactions on any number of replicas amount to one atomic
\* minting each: the eviction and the new row together or not at all, the oldest
\* tokens first, never more than max_active live ones of a subject
\* (TokenStore.issue_for_subject's contract, postgres_store.py).
THEOREM RefinementTheorem == Spec => ImplementsMinting
<1>1. Init => ChoiceInv
    BY DEF Init, ChoiceInv, Chosen
<1>2. Init => Promise!Init
    BY DEF Init, Promise!Init, Never, Promise!Never
<1> QED
    BY <1>1, <1>2, ChoiceStep, StepImplements, IssuanceInvariant, PTL
       DEF Spec, ImplementsMinting, Promise!Spec

==============================================================================
