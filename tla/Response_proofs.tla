--------------------------- MODULE Response_proofs ---------------------------
(***************************************************************************)
(* The way back: what DesanitizeMiddleware keeps to in every interleaving, *)
(* and what the two adapters of its _SseRestorer do to a streamed answer.  *)
(* The responses it sends are well formed, a record says ok only of a      *)
(* whole one, a restoration failure stands and no mapping outlives its     *)
(* request; text that an adapter keeps back reaches the client once, and   *)
(* before the event that ends it.                                          *)
(***************************************************************************)
EXTENDS DesanitizeMiddleware, SseRestorer, SequenceTheorems, WellFoundedInduction, TLAPS

------------------------------------------------------------------------------
(* DesanitizeMiddleware.                                                     *)

\* The mapping, and what is set up from it, go with the response: a response
\* that is being restored has facts and no outcome yet, a closed one holds
\* nothing, and one left or let go is closed.
Holding ==
    /\ closed \/ app = "gone" => mode = "closed"
    /\ mode = "closed" => ~mapping /\ ~local
    /\ mode = "closed" /\ said = "nothing" => closed \/ app \in {"failing", "gone"}
    /\ mapping \/ mode \in {"unary", "sse"} => facts
    /\ tail => mode = "sse"
    /\ mode # "closed" => verdict = "nothing" /\ decided = "undecided"
    /\ recorded => decided # "undecided"
    /\ mode \in {"unary", "sse"} => status = "2xx"
    /\ saw_error => mode \in {"sse", "closed"}
    /\ carried = "restored" => saw_error

\* A restoration failure has decided the outcome.
Breaking == broke => decided = "internal"

\* What is left to send follows what the server has.
Sending ==
    /\ wire # "broken"
    /\ app \notin {"sending", "failing"} => todo = {}
    /\ "start" \in todo => wire = "none"
    /\ todo # {} /\ "start" \notin todo => wire = "open"
    /\ "final" \in todo => mode = "closed"
    /\ wire = "ended" => mode = "closed"
    /\ mode \in {"unstarted", "unary"} => wire = "none" /\ todo = {}
    /\ mode \in {"pass", "sse"} /\ app \in {"running", "sending"} /\ todo = {} => wire = "open"
    /\ tail => wire = "open"
    /\ mode = "unstarted" => app \in {"running", "gone"}
    /\ mode = "unstarted" => said = "nothing"

\* A verdict of ok is given to a 2xx response without an error event whose
\* final body is on its way or sent, never by app_failed.
Verdict ==
    /\ app = "failing" => verdict # "ok"
    /\ verdict = "ok" =>
        status = "2xx" /\ ~saw_error /\ ~broke /\ ("final" \in todo \/ wire = "ended")
    /\ decided = "ok" => wire = "ended" /\ status = "2xx" /\ ~saw_error /\ ~broke

IInv == TypeOK /\ Holding /\ Breaking /\ Sending /\ Verdict

\* The start has no response open and no failure behind it.
LEMMA InitHolds == Init => IInv
BY DEF Init, IInv, TypeOK, Holding, Breaking, Sending, Verdict, Modes, Messages, Outcomes

\* What a close leaves is typed.
LEMMA ReleaseTypes ==
    Release => /\ mapping' \in BOOLEAN /\ local' \in BOOLEAN
               /\ tail' \in BOOLEAN /\ (tail' => mode' = "sse")
BY DEF Release

\* One lemma per action: it keeps the invariant.
LEMMA HandOverKeeps == IInv /\ (\E pairs \in BOOLEAN : HandOver(pairs)) => IInv'
<1> SUFFICES ASSUME IInv, \E pairs \in BOOLEAN : HandOver(pairs) PROVE IInv'
    OBVIOUS
<1> USE DEF IInv, response, ticket, HandOver
<1>1. TypeOK'
    BY DEF TypeOK, Holding, Modes, Messages, Outcomes
<1>2. Holding'
    BY DEF TypeOK, Holding, Breaking, Sending
<1>3. Breaking'
    BY DEF TypeOK, Holding, Breaking
<1>4. Sending'
    BY DEF TypeOK, Holding, Sending, Modes, Messages
<1>5. Verdict'
    BY DEF TypeOK, Holding, Breaking, Sending, Verdict, Modes, Messages
<1> QED
    BY <1>1, <1>2, <1>3, <1>4, <1>5

LEMMA StartPassKeeps == IInv /\ (\E s \in {"2xx", "error"} : StartPass(s)) => IInv'
<1> SUFFICES ASSUME IInv, \E s \in {"2xx", "error"} : StartPass(s) PROVE IInv'
    OBVIOUS
<1> USE DEF IInv, response, ticket, StartPass, Speaks, Fine, Await
<1>1. TypeOK'
    <2>1. mapping' \in BOOLEAN /\ local' \in BOOLEAN
        BY DEF TypeOK, Outcomes
    <2> QED
        BY <2>1 DEF TypeOK, Holding, Modes, Messages, Outcomes
<1>2. Holding'
    BY DEF TypeOK, Holding, Breaking, Sending
<1>3. Breaking'
    BY DEF TypeOK, Holding, Breaking
<1>4. Sending'
    BY DEF TypeOK, Holding, Sending, Modes, Messages
<1>5. Verdict'
    BY DEF TypeOK, Holding, Breaking, Sending, Verdict, Modes, Messages
<1> QED
    BY <1>1, <1>2, <1>3, <1>4, <1>5

LEMMA StartUnaryKeeps == IInv /\ StartUnary => IInv'
<1> SUFFICES ASSUME IInv, StartUnary PROVE IInv'
    OBVIOUS
<1> USE DEF IInv, response, ticket, StartUnary, Speaks, Restorable, Fine, Quiet
<1>1. TypeOK'
    BY DEF TypeOK, Holding, Modes, Messages, Outcomes
<1>2. Holding'
    BY DEF TypeOK, Holding, Breaking, Sending
<1>3. Breaking'
    BY DEF TypeOK, Holding, Breaking
<1>4. Sending'
    BY DEF TypeOK, Holding, Sending, Modes, Messages
<1>5. Verdict'
    BY DEF TypeOK, Holding, Breaking, Sending, Verdict, Modes, Messages
<1> QED
    BY <1>1, <1>2, <1>3, <1>4, <1>5

LEMMA StartSseKeeps == IInv /\ StartSse => IInv'
<1> SUFFICES ASSUME IInv, StartSse PROVE IInv'
    OBVIOUS
<1> USE DEF IInv, response, ticket, StartSse, Speaks, Restorable, Fine, Await
<1>1. TypeOK'
    BY DEF TypeOK, Holding, Modes, Messages, Outcomes
<1>2. Holding'
    BY DEF TypeOK, Holding, Breaking, Sending
<1>3. Breaking'
    BY DEF TypeOK, Holding, Breaking
<1>4. Sending'
    BY DEF TypeOK, Holding, Sending, Modes, Messages
<1>5. Verdict'
    BY DEF TypeOK, Holding, Breaking, Sending, Verdict, Modes, Messages
<1> QED
    BY <1>1, <1>2, <1>3, <1>4, <1>5

LEMMA StartSseFailsKeeps == IInv /\ StartSseFails => IInv'
<1> SUFFICES ASSUME IInv, StartSseFails PROVE IInv'
    OBVIOUS
<1> USE DEF IInv, response, ticket, StartSseFails, Speaks, Restorable, Release, Failed, Await
<1>1. TypeOK'
    BY ReleaseTypes DEF TypeOK, Holding, Modes, Messages, Outcomes
<1>2. Holding'
    BY DEF TypeOK, Holding, Breaking, Sending
<1>3. Breaking'
    BY DEF TypeOK, Holding, Breaking
<1>4. Sending'
    BY DEF TypeOK, Holding, Sending, Modes, Messages
<1>5. Verdict'
    BY DEF TypeOK, Holding, Breaking, Sending, Verdict, Modes, Messages
<1> QED
    BY <1>1, <1>2, <1>3, <1>4, <1>5

LEMMA BodyPassKeeps == IInv /\ (\E more, error \in BOOLEAN : BodyPass(more, error)) => IInv'
<1> SUFFICES ASSUME IInv, \E more, error \in BOOLEAN : BodyPass(more, error) PROVE IInv'
    OBVIOUS
<1> USE DEF IInv, response, ticket, BodyPass, CarriesError, Speaks, Speech, Kept, Release, Fine, Await
<1>1. TypeOK'
    BY ReleaseTypes DEF TypeOK, Holding, Modes, Messages, Outcomes
<1>2. Holding'
    BY DEF TypeOK, Holding, Breaking, Sending
<1>3. Breaking'
    BY DEF TypeOK, Holding, Breaking
<1>4. Sending'
    BY DEF TypeOK, Holding, Sending, Modes, Messages
<1>5. Verdict'
    BY DEF TypeOK, Holding, Breaking, Sending, Verdict, Modes, Messages
<1> QED
    BY <1>1, <1>2, <1>3, <1>4, <1>5

LEMMA BodyUnaryKeeps == IInv /\ (\E more \in BOOLEAN : BodyUnary(more)) => IInv'
<1> SUFFICES ASSUME IInv, \E more \in BOOLEAN : BodyUnary(more) PROVE IInv'
    OBVIOUS
<1> USE DEF IInv, response, ticket, BodyUnary, Speaks, Speech, Kept, Release, Fine, Failed, Quiet, Await
<1>1. TypeOK'
    <2>1. broke' \in BOOLEAN /\ mapping' \in BOOLEAN /\ local' \in BOOLEAN /\ tail' \in BOOLEAN
        BY ReleaseTypes DEF TypeOK, Outcomes
    <2> QED
        BY <2>1, ReleaseTypes DEF TypeOK, Holding, Modes, Messages, Outcomes
<1>2. Holding'
    BY DEF TypeOK, Holding, Breaking, Sending
<1>3. Breaking'
    BY DEF TypeOK, Holding, Breaking
<1>4. Sending'
    BY DEF TypeOK, Holding, Sending, Modes, Messages
<1>5. Verdict'
    BY DEF TypeOK, Holding, Breaking, Sending, Verdict, Modes, Messages
<1> QED
    BY <1>1, <1>2, <1>3, <1>4, <1>5

LEMMA BodySseKeeps == IInv /\ (\E more, error \in BOOLEAN : BodySse(more, error)) => IInv'
<1> SUFFICES ASSUME IInv, \E more, error \in BOOLEAN : BodySse(more, error) PROVE IInv'
    OBVIOUS
<1> USE DEF IInv, response, ticket, BodySse, CarriesError, Speaks, Speech, Release, Fine, Failed, Await
<1>1. TypeOK'
    <2>1. carried' \in {"nowhere", "restored", "passed"} /\ saw_error' \in BOOLEAN
        BY DEF TypeOK
    <2>2. mapping' \in BOOLEAN /\ local' \in BOOLEAN /\ tail' \in BOOLEAN /\ mode' \in Modes
          /\ (tail' => mode' = "sse")
        BY DEF TypeOK, Modes
    <2>3. broke' \in BOOLEAN /\ decided' \in Outcomes \union {"undecided"}
        BY DEF TypeOK, Outcomes
    <2>4. app' = "sending" /\ todo' \subseteq Messages
          /\ verdict' \in {"nothing", "ok", "failed", "internal"}
          /\ said' \in {"nothing", "start", "all"}
        BY DEF TypeOK, Messages
    <2> QED
        BY <2>1, <2>2, <2>3, <2>4 DEF TypeOK
<1>2. Holding'
    BY DEF TypeOK, Holding, Breaking, Sending
<1>3. Breaking'
    BY DEF TypeOK, Holding, Breaking
<1>4. Sending'
    BY DEF TypeOK, Holding, Sending, Modes, Messages
<1>5. Verdict'
    BY DEF TypeOK, Holding, Breaking, Sending, Verdict, Modes, Messages
<1> QED
    BY <1>1, <1>2, <1>3, <1>4, <1>5

LEMMA DroppedKeeps == IInv /\ (\E what \in {"start", "all"} : Dropped(what)) => IInv'
<1> SUFFICES ASSUME IInv, \E what \in {"start", "all"} : Dropped(what) PROVE IInv'
    OBVIOUS
<1> USE DEF IInv, response, ticket, Dropped, Speaks, Quiet
<1>1. TypeOK'
    BY DEF TypeOK, Holding, Modes, Messages, Outcomes
<1>2. Holding'
    BY DEF TypeOK, Holding, Breaking, Sending
<1>3. Breaking'
    BY DEF TypeOK, Holding, Breaking
<1>4. Sending'
    BY DEF TypeOK, Holding, Sending, Modes, Messages
<1>5. Verdict'
    BY DEF TypeOK, Holding, Breaking, Sending, Verdict, Modes, Messages
<1> QED
    BY <1>1, <1>2, <1>3, <1>4, <1>5

LEMMA AppRaisesKeeps == IInv /\ AppRaises => IInv'
<1> SUFFICES ASSUME IInv, AppRaises PROVE IInv'
    OBVIOUS
<1> USE DEF IInv, response, ticket, AppRaises, Release, Fine, Failed
<1>1. TypeOK'
    <2>1. broke' \in BOOLEAN /\ todo' \subseteq Messages
        BY ReleaseTypes DEF TypeOK, Messages
    <2> QED
        BY <2>1, ReleaseTypes DEF TypeOK, Holding, Modes, Messages, Outcomes
<1>2. Holding'
    BY DEF TypeOK, Holding, Breaking, Sending
<1>3. Breaking'
    BY DEF TypeOK, Holding, Breaking
<1>4. Sending'
    BY DEF TypeOK, Holding, Sending, Modes, Messages
<1>5. Verdict'
    BY DEF TypeOK, Holding, Breaking, Sending, Verdict, Modes, Messages
<1> QED
    BY <1>1, <1>2, <1>3, <1>4, <1>5

LEMMA AppReturnsKeeps == IInv /\ AppReturns => IInv'
<1> SUFFICES ASSUME IInv, AppReturns PROVE IInv'
    OBVIOUS
<1> USE DEF IInv, response, ticket, AppReturns, Release
<1>1. TypeOK'
    BY ReleaseTypes DEF TypeOK, Holding, Modes, Messages, Outcomes
<1>2. Holding'
    BY DEF TypeOK, Holding, Breaking, Sending
<1>3. Breaking'
    BY DEF TypeOK, Holding, Breaking
<1>4. Sending'
    BY DEF TypeOK, Holding, Sending, Modes, Messages
<1>5. Verdict'
    BY DEF TypeOK, Holding, Breaking, Sending, Verdict, Modes, Messages
<1> QED
    BY <1>1, <1>2, <1>3, <1>4, <1>5

LEMMA SentKeeps == IInv /\ Sent => IInv'
<1> SUFFICES ASSUME IInv, Sent PROVE IInv'
    OBVIOUS
<1> USE DEF IInv, response, ticket, Sent, NextMessage, Wire
<1>1. TypeOK'
    BY DEF TypeOK, Holding, Modes, Messages, Outcomes
<1>2. Holding'
    BY DEF TypeOK, Holding, Breaking, Sending
<1>3. Breaking'
    BY DEF TypeOK, Holding, Breaking
<1>4. Sending'
    BY DEF TypeOK, Holding, Sending, Modes, Messages
<1>5. Verdict'
    BY DEF TypeOK, Holding, Breaking, Sending, Verdict, Modes, Messages
<1> QED
    BY <1>1, <1>2, <1>3, <1>4, <1>5

LEMMA SendFailsKeeps == IInv /\ SendFails => IInv'
<1> SUFFICES ASSUME IInv, SendFails PROVE IInv'
    OBVIOUS
<1> USE DEF IInv, response, ticket, SendFails
<1>1. TypeOK'
    BY DEF TypeOK, Holding, Modes, Messages, Outcomes
<1>2. Holding'
    BY DEF TypeOK, Holding, Breaking, Sending
<1>3. Breaking'
    BY DEF TypeOK, Holding, Breaking
<1>4. Sending'
    BY DEF TypeOK, Holding, Sending, Modes, Messages
<1>5. Verdict'
    BY DEF TypeOK, Holding, Breaking, Sending, Verdict, Modes, Messages
<1> QED
    BY <1>1, <1>2, <1>3, <1>4, <1>5

LEMMA SettleKeeps == IInv /\ Settle => IInv'
<1> SUFFICES ASSUME IInv, Settle PROVE IInv'
    OBVIOUS
<1> USE DEF IInv, response, ticket, Settle, Published, Kept, Release
<1>1. TypeOK'
    <2>1. recorded' \in BOOLEAN /\ mapping' \in BOOLEAN /\ local' \in BOOLEAN /\ tail' \in BOOLEAN
        BY ReleaseTypes DEF TypeOK, Outcomes
    <2> QED
        BY <2>1, ReleaseTypes DEF TypeOK, Holding, Modes, Messages, Outcomes
<1>2. Holding'
    BY DEF TypeOK, Holding, Breaking, Sending
<1>3. Breaking'
    BY DEF TypeOK, Holding, Breaking
<1>4. Sending'
    BY DEF TypeOK, Holding, Sending, Modes, Messages
<1>5. Verdict'
    BY DEF TypeOK, Holding, Breaking, Sending, Verdict, Modes, Messages
<1> QED
    BY <1>1, <1>2, <1>3, <1>4, <1>5

LEMMA UnwindKeeps == IInv /\ Unwind => IInv'
<1> SUFFICES ASSUME IInv, Unwind PROVE IInv'
    OBVIOUS
<1> USE DEF IInv, response, ticket, Unwind, Release
<1>1. TypeOK'
    BY ReleaseTypes DEF TypeOK, Holding, Modes, Messages, Outcomes
<1>2. Holding'
    BY DEF TypeOK, Holding, Breaking, Sending
<1>3. Breaking'
    BY DEF TypeOK, Holding, Breaking
<1>4. Sending'
    BY DEF TypeOK, Holding, Sending, Modes, Messages
<1>5. Verdict'
    BY DEF TypeOK, Holding, Breaking, Sending, Verdict, Modes, Messages
<1> QED
    BY <1>1, <1>2, <1>3, <1>4, <1>5

LEMMA CancelKeeps == IInv /\ (\E who \in {"client", "server"} : Cancel(who)) => IInv'
<1> SUFFICES ASSUME IInv, \E who \in {"client", "server"} : Cancel(who) PROVE IInv'
    OBVIOUS
<1> USE DEF IInv, response, ticket, Cancel
<1>1. TypeOK'
    BY DEF TypeOK, Holding, Modes, Messages, Outcomes
<1>2. Holding'
    BY DEF TypeOK, Holding, Breaking, Sending
<1>3. Breaking'
    BY DEF TypeOK, Holding, Breaking
<1>4. Sending'
    BY DEF TypeOK, Holding, Sending, Modes, Messages
<1>5. Verdict'
    BY DEF TypeOK, Holding, Breaking, Sending, Verdict, Modes, Messages
<1> QED
    BY <1>1, <1>2, <1>3, <1>4, <1>5

LEMMA CloseKeeps == IInv /\ Close => IInv'
<1> SUFFICES ASSUME IInv, Close PROVE IInv'
    OBVIOUS
<1> USE DEF IInv, response, ticket, Close, ClosingOutcome, Release
<1>1. TypeOK'
    <2>1. closed' \in BOOLEAN /\ recorded' \in BOOLEAN
        BY ReleaseTypes DEF TypeOK, Outcomes
    <2> QED
        BY <2>1, ReleaseTypes DEF TypeOK, Holding, Modes, Messages, Outcomes
<1>2. Holding'
    BY DEF TypeOK, Holding, Breaking, Sending
<1>3. Breaking'
    BY DEF TypeOK, Holding, Breaking
<1>4. Sending'
    BY DEF TypeOK, Holding, Sending, Modes, Messages
<1>5. Verdict'
    BY DEF TypeOK, Holding, Breaking, Sending, Verdict, Modes, Messages
<1> QED
    BY <1>1, <1>2, <1>3, <1>4, <1>5

\* Every step of the request, the app and the limiter keeps the invariant.
LEMMA Inductive == IInv /\ [Next]_vars => IInv'
<1> SUFFICES ASSUME IInv, [Next]_vars PROVE IInv'
    OBVIOUS
<1>1. CASE \E pairs \in BOOLEAN : HandOver(pairs)
    BY <1>1, HandOverKeeps
<1>2. CASE \E s \in {"2xx", "error"} : StartPass(s)
    BY <1>2, StartPassKeeps
<1>3. CASE StartUnary
    BY <1>3, StartUnaryKeeps
<1>4. CASE StartSse
    BY <1>4, StartSseKeeps
<1>5. CASE StartSseFails
    BY <1>5, StartSseFailsKeeps
<1>6. CASE \E more, error \in BOOLEAN : BodyPass(more, error)
    BY <1>6, BodyPassKeeps
<1>7. CASE \E more \in BOOLEAN : BodyUnary(more)
    BY <1>7, BodyUnaryKeeps
<1>8. CASE \E more, error \in BOOLEAN : BodySse(more, error)
    BY <1>8, BodySseKeeps
<1>9. CASE \E what \in {"start", "all"} : Dropped(what)
    BY <1>9, DroppedKeeps
<1>10. CASE AppRaises
    BY <1>10, AppRaisesKeeps
<1>11. CASE AppReturns
    BY <1>11, AppReturnsKeeps
<1>12. CASE Sent
    BY <1>12, SentKeeps
<1>13. CASE SendFails
    BY <1>13, SendFailsKeeps
<1>14. CASE Settle
    BY <1>14, SettleKeeps
<1>15. CASE Unwind
    BY <1>15, UnwindKeeps
<1>16. CASE \E who \in {"client", "server"} : Cancel(who)
    BY <1>16, CancelKeeps
<1>17. CASE Close
    BY <1>17, CloseKeeps
<1>18. CASE UNCHANGED vars
    BY <1>18 DEF vars, response, ticket, IInv, TypeOK, Holding, Breaking, Sending, Verdict
<1> QED
    BY <1>1, <1>2, <1>3, <1>4, <1>5, <1>6, <1>7, <1>8, <1>9,
       <1>10, <1>11, <1>12, <1>13, <1>14, <1>15, <1>16, <1>17, <1>18 DEF Next, Start, Body

LEMMA InvariantHolds == Spec => []IInv
BY InitHolds, Inductive, PTL DEF Spec

\* The state of a response and of its ticket is what the code's fields hold.
THEOREM Typed == Spec => []TypeOK
<1>1. IInv => TypeOK
    BY DEF IInv
<1> QED
    BY <1>1, InvariantHolds, PTL

\* The server gets one start, then bodies, then one final body, whatever the
\* app sends, raises or leaves out, and wherever a send fails or the request
\* is cancelled.
THEOREM ResponsesAreValid == Spec => []WireValid
<1>1. IInv => WireValid
    BY DEF IInv, Sending, WireValid
<1> QED
    BY <1>1, InvariantHolds, PTL

\* A record that says ok is of a whole 2xx response whose restoration met neither
\* a failure nor an error event, in whichever chunk it came.
THEOREM OkRecordsAreWhole == Spec => []OkIsWhole
<1>1. IInv => OkIsWhole
    BY DEF IInv, Holding, Verdict, OkIsWhole
<1> QED
    BY <1>1, InvariantHolds, PTL

\* A restoration failure is what the record says, whatever follows it.
THEOREM FailuresStand == Spec => []FailureStands
<1>1. IInv => FailureStands
    BY DEF IInv, Breaking, FailureStands
<1> QED
    BY <1>1, InvariantHolds, PTL

\* No mapping outlives its request.
THEOREM MappingsAreReleased == Spec => []OriginalsReleased
<1>1. IInv => OriginalsReleased
    BY DEF IInv, Holding, OriginalsReleased
<1> QED
    BY <1>1, InvariantHolds, PTL

\* The record tells how the response ended: ok only of a whole 2xx response whose
\* restoration, if it had one, met neither a failure nor an error event; and of a
\* failed restoration the failure, whatever follows it (_publish, _failed).
THEOREM OutcomesAreTrue == Spec => []OutcomeTrue
BY OkRecordsAreWhole, FailuresStand, PTL DEF OutcomeTrue

------------------------------------------------------------------------------
(* Induction and recursion over the places of a sequence.  The library's     *)
(* principles take a predicate; these take a set.                            *)

LEMMA LeastNat ==
    ASSUME NEW T \in SUBSET Nat, T # {}
    PROVE  \E n \in T : \A m \in T : n <= m
<1>1. \E x \in T : \A y \in T : ~(<<y, x>> \in OpToRel(<, Nat))
  BY NatLessThanWellFounded, WFMin, Zenon
<1>2. PICK x \in T : \A y \in T : ~(<<y, x>> \in OpToRel(<, Nat))
  BY <1>1, Zenon
<1>3. ASSUME NEW y \in T PROVE x <= y
  <2>1. <<y, x>> \in Nat \X Nat
    OBVIOUS
  <2>2. ~(y < x)
    BY <2>1, <1>2 DEF OpToRel
  <2> QED BY <2>2
<1> QED BY <1>3

\* What holds at 0 and goes from each place to the next holds at every place.
LEMMA EveryPlace ==
    ASSUME NEW n \in Nat, NEW S, 0 \in S, \A i \in 1..n : i - 1 \in S => i \in S
    PROVE  n \in S /\ \A i \in 0..n : i \in S
<1> DEFINE T == {i \in 0..n : i \notin S}
<1>1. T = {}
  <2> SUFFICES ASSUME T # {} PROVE FALSE
    OBVIOUS
  <2>1. T \in SUBSET Nat
    OBVIOUS
  <2>2. PICK m \in T : \A k \in T : m <= k
    BY <2>1, LeastNat
  <2>3. m \in 1..n /\ m - 1 \in 0..n /\ m - 1 \notin T
    BY <2>2
  <2> QED
    BY <2>2, <2>3
<1> QED
  BY <1>1

\* f starts with c and goes on by F.
Follows(f, n, c, F) == f[0] = c /\ \A i \in 1..n : f[i] = F[<<i, f[i - 1]>>]

\* A recursion that makes each value from the one before has a solution.
LEMMA Iterates ==
    ASSUME NEW n \in Nat, NEW V, NEW c \in V, NEW F \in [(1..n) \X V -> V]
    PROVE  \E f \in [0..n -> V] : Follows(f, n, c, F)
<1> DEFINE Ok(f, k) == Follows(f, k, c, F)
           S == {k \in 0..n : \E f \in [0..n -> V] : Ok(f, k)}
<1> USE DEF Follows
<1>1. 0 \in S
  <2> DEFINE g == [i \in 0..n |-> c]
  <2>1. g \in [0..n -> V] /\ Ok(g, 0)
    OBVIOUS
  <2> HIDE DEF g, Ok, Follows
  <2> QED
    BY <2>1
<1>2. ASSUME NEW i \in 1..n, i - 1 \in S PROVE i \in S
  <2>1. PICK f \in [0..n -> V] : Ok(f, i - 1)
    BY <1>2
  <2> DEFINE g == [f EXCEPT ![i] = F[<<i, f[i - 1]>>]]
  <2>2. F[<<i, f[i - 1]>>] \in V
    OBVIOUS
  <2>3. g \in [0..n -> V] /\ g[i] = F[<<i, f[i - 1]>>] /\ \A j \in 0..n : j # i => g[j] = f[j]
    BY <2>2
  <2> HIDE DEF g
  <2>4. Ok(g, i)
    <3>1. g[0] = c
      BY <2>1, <2>3
    <3>2. ASSUME NEW j \in 1..i PROVE g[j] = F[<<j, g[j - 1]>>]
      <4>1. g[j - 1] = f[j - 1]
        BY <2>3
      <4>2. CASE j = i
        BY <2>3, <4>1, <4>2
      <4>3. CASE j # i
        BY <2>1, <2>3, <4>1, <4>3
      <4> QED
        BY <4>2, <4>3
    <3> QED
      BY <3>1, <3>2
  <2> QED
    BY <2>3, <2>4
<1> HIDE DEF S
<1>3. n \in S
  BY <1>1, <1>2, EveryPlace
<1> QED
  BY <1>3 DEF S

------------------------------------------------------------------------------
(* A client that reads the events of SseStream.                              *)

Client ==
    [got : [Events!Parts -> Nat], late : SUBSET Events!Parts, shut : SUBSET Events!Parts]
SseEvents ==
    {Events!Text(p, n) : p \in Events!Parts, n \in Nat}
        \union {Events!Ends(ps) : ps \in SUBSET Events!Parts}

\* e brings n fragments of p.
Says(e, p) == e.tag = "text" /\ e.part = p

LEMMA Bounds == NBlocks \in Nat /\ NChoices \in Nat /\ NTools \in Nat
BY RestorerAssumption

LEMMA PartNames ==
    /\ \A p \in Events!Parts :
           \/ \E b \in Events!Blocks : p = Events!Block(b)
           \/ \E c \in Events!ChatChoices : p \in Events!OfChoice(c)
    /\ \A b \in Events!Blocks : Events!Block(b) \in Events!Parts
    /\ \A c \in Events!ChatChoices : Events!OfChoice(c) \subseteq Events!Parts
BY DEF Events!Parts

LEMMA ChoiceNames ==
    ASSUME NEW c \in Events!ChatChoices
    PROVE  /\ Events!Content(c) \in Events!OfChoice(c) /\ Events!Function(c) \in Events!OfChoice(c)
           /\ \A t \in Events!Tools : Events!Tool(c, t) \in Events!OfChoice(c)
           /\ \A p \in Events!OfChoice(c) :
                  \/ p = Events!Content(c) \/ p = Events!Function(c)
                  \/ \E t \in Events!Tools : p = Events!Tool(c, t)
BY DEF Events!OfChoice

LEMMA NamesDiffer ==
    ASSUME NEW c, NEW d, NEW t, NEW u
    PROVE  /\ Events!Content(c) = Events!Content(d) => c = d
           /\ Events!Function(c) = Events!Function(d) => c = d
           /\ Events!Tool(c, t) = Events!Tool(d, u) => c = d /\ t = u
           /\ Events!Block(c) = Events!Block(d) => c = d
           /\ Events!Content(c) # Events!Function(d) /\ Events!Content(c) # Events!Tool(d, u)
           /\ Events!Content(c) # Events!Block(d) /\ Events!Function(c) # Events!Block(d)
           /\ Events!Function(c) # Events!Tool(d, u) /\ Events!Tool(c, t) # Events!Block(d)
<1>1. /\ Events!Content(c)[1] = "content" /\ Events!Content(c)[2] = c
      /\ Events!Function(c)[1] = "function" /\ Events!Function(c)[2] = c
      /\ Events!Block(c)[1] = "block" /\ Events!Block(c)[2] = c
      /\ Events!Tool(c, t)[1] = "tool" /\ Events!Tool(c, t)[2] = c /\ Events!Tool(c, t)[3] = t
  BY DEF Events!Content, Events!Function, Events!Block, Events!Tool
<1>2. /\ Events!Content(d)[1] = "content" /\ Events!Content(d)[2] = d
      /\ Events!Function(d)[1] = "function" /\ Events!Function(d)[2] = d
      /\ Events!Block(d)[1] = "block" /\ Events!Block(d)[2] = d
      /\ Events!Tool(d, u)[1] = "tool" /\ Events!Tool(d, u)[2] = d /\ Events!Tool(d, u)[3] = u
  BY DEF Events!Content, Events!Function, Events!Block, Events!Tool
<1> QED
  BY <1>1, <1>2

\* What an event of a part's text, or of its end, closes for the client.
LEMMA EndedFacts ==
    /\ \A ps : Events!EndedBy(Events!Ends(ps)) = ps
    /\ \A c, t, n : Events!EndedBy(Events!Text(Events!Tool(c, t), n)) =
           {Events!Content(c)} \union {Events!Tool(c, u) : u \in 0..(t - 1)}
    /\ \A c, n : /\ Events!EndedBy(Events!Text(Events!Block(c), n)) = {}
                  /\ Events!EndedBy(Events!Text(Events!Content(c), n)) = {}
                  /\ Events!EndedBy(Events!Text(Events!Function(c), n)) = {}
BY DEF Events!EndedBy, Events!Ends, Events!Text, Events!Tool, Events!Block, Events!Content,
       Events!Function

LEMMA EndedParts ==
    ASSUME NEW e \in SseEvents
    PROVE  Events!EndedBy(e) \subseteq Events!Parts
<1>1. ASSUME NEW ps \in SUBSET Events!Parts, e = Events!Ends(ps)
      PROVE  Events!EndedBy(e) \subseteq Events!Parts
  BY <1>1, EndedFacts
<1>2. ASSUME NEW p \in Events!Parts, NEW n \in Nat, e = Events!Text(p, n)
      PROVE  Events!EndedBy(e) \subseteq Events!Parts
  <2>1. CASE \E b \in Events!Blocks : p = Events!Block(b)
    BY <1>2, <2>1, EndedFacts
  <2>2. ASSUME NEW c \in Events!ChatChoices, p \in Events!OfChoice(c)
        PROVE  Events!EndedBy(e) \subseteq Events!Parts
    <3>1. CASE p = Events!Content(c) \/ p = Events!Function(c)
      BY <1>2, <3>1, EndedFacts
    <3>2. ASSUME NEW t \in Events!Tools, p = Events!Tool(c, t)
          PROVE  Events!EndedBy(e) \subseteq Events!Parts
      <4>1. \A u \in 0..(t - 1) : u \in Events!Tools
        BY Bounds DEF Events!Tools
      <4>2. \A u \in 0..(t - 1) : Events!Tool(c, u) \in Events!Parts
        BY <4>1, ChoiceNames, PartNames
      <4>3. Events!Content(c) \in Events!Parts
        BY ChoiceNames, PartNames
      <4> QED
        BY <1>2, <3>2, <4>2, <4>3, EndedFacts
    <3> QED
      BY <2>2, <3>1, <3>2, ChoiceNames
  <2> QED
    BY <2>1, <2>2, PartNames
<1> QED
  BY <1>1, <1>2 DEF SseEvents

LEMMA ReadFacts ==
    ASSUME NEW c \in Client, NEW e \in SseEvents
    PROVE  /\ Events!Read(c, e) \in Client
           /\ \A p \in Events!Parts :
                  Events!Read(c, e).got[p] = IF Says(e, p) THEN c.got[p] + e.n ELSE c.got[p]
           /\ Events!Read(c, e).shut = c.shut \union Events!EndedBy(e)
           /\ ~(e.tag = "text" /\ e.n > 0 /\ e.part \in c.shut) => Events!Read(c, e).late = c.late
<1>1. Events!EndedBy(e) \subseteq Events!Parts
  BY EndedParts
<1>2. e.tag = "text" => e.part \in Events!Parts /\ e.n \in Nat
  BY DEF SseEvents, Events!Text, Events!Ends
<1>3. /\ c.got \in [Events!Parts -> Nat] /\ c.late \subseteq Events!Parts
      /\ c.shut \subseteq Events!Parts
  BY DEF Client
<1> QED
  BY <1>1, <1>2, <1>3 DEF Events!Read, Client, Says

LEMMA ReadGot ==
    ASSUME NEW c \in Client, NEW e \in SseEvents, NEW p \in Events!Parts
    PROVE  /\ Says(e, p) => Events!Read(c, e).got[p] = c.got[p] + e.n
           /\ ~Says(e, p) => Events!Read(c, e).got[p] = c.got[p]
BY ReadFacts

LEMMA ReadShut ==
    ASSUME NEW c \in Client, NEW e \in SseEvents
    PROVE  /\ Events!Read(c, e).shut = c.shut \union Events!EndedBy(e)
           /\ (e.tag = "text" /\ e.n > 0 /\ e.part \in c.shut) \/ Events!Read(c, e).late = c.late
BY ReadFacts

\* The places of a reading.
IsReading(at, c, es) ==
    /\ at \in [0..Len(es) -> Client]
    /\ at[0] = c
    /\ \A i \in 1..Len(es) : at[i] = Events!Read(at[i - 1], es[i])

LEMMA Readings ==
    ASSUME NEW c \in Client, NEW es \in Seq(SseEvents)
    PROVE  \E at : IsReading(at, c, es) /\ Events!Reading(c, es) = at[Len(es)]
<1> DEFINE n == Len(es)
           F == [x \in (1..n) \X Client |-> Events!Read(x[2], es[x[1]])]
<1>1. n \in Nat /\ \A i \in 1..n : es[i] \in SseEvents
  OBVIOUS
<1> HIDE DEF n
<1>2. F \in [(1..n) \X Client -> Client]
  BY <1>1, ReadFacts
<1>3. \A i \in 1..n : \A v \in Client : F[<<i, v>>] = Events!Read(v, es[i])
  OBVIOUS
<1> HIDE DEF F
<1>4. PICK f \in [0..n -> Client] : Follows(f, n, c, F)
  <2>1. n \in Nat
    BY <1>1
  <2> QED
    BY <1>2, <2>1, Iterates
<1>5. ASSUME NEW i \in 1..n PROVE f[i] = Events!Read(f[i - 1], es[i])
  <2>1. f[i - 1] \in Client
    BY <1>1, <1>4
  <2> QED
    BY <1>3, <1>4, <2>1 DEF Follows
<1> DEFINE Unrolled(g) == [i \in 0..n |-> IF i = 0 THEN c ELSE Events!Read(g[i - 1], es[i])]
           at == CHOOSE g : g = Unrolled(g)
<1>6. f = Unrolled(f)
  BY <1>1, <1>4, <1>5 DEF Follows
<1>7. at = Unrolled(at)
  <2> HIDE DEF Unrolled
  <2> QED BY <1>6
<1>8. Events!Reading(c, es) = at[n]
  BY DEF Events!Reading, n
<1> HIDE DEF at
<1>9. at[0] = c /\ DOMAIN at = 0..n /\ at = [i \in 0..n |-> at[i]]
      /\ \A i \in 1..n : at[i] = Events!Read(at[i - 1], es[i])
  BY <1>1, <1>7
<1> HIDE DEF Unrolled
<1> DEFINE S == {i \in 0..n : at[i] \in Client}
<1>10. 0 \in S
  BY <1>1, <1>9
<1>11. ASSUME NEW i \in 1..n, i - 1 \in S PROVE i \in S
  <2>1. at[i - 1] \in Client /\ es[i] \in SseEvents /\ at[i] = Events!Read(at[i - 1], es[i])
    BY <1>1, <1>9, <1>11
  <2>2. at[i] \in Client
    BY <2>1, ReadFacts
  <2> QED
    BY <2>2
<1>12. \A i \in 0..n : i \in S
  <2> HIDE DEF S
  <2> QED BY <1>1, <1>10, <1>11, EveryPlace
<1>13. at \in [0..n -> Client]
  BY <1>9, <1>12
<1> QED
  BY <1>8, <1>9, <1>13 DEF IsReading, n

\* Reading keeps a client a client.  A part of which es has nothing to say gets
\* nothing,
LEMMA ReadTypes ==
    ASSUME NEW c \in Client, NEW es \in Seq(SseEvents)
    PROVE  Events!Reading(c, es) \in Client
<1>1. PICK at : IsReading(at, c, es) /\ Events!Reading(c, es) = at[Len(es)]
  BY Readings
<1> QED
  BY <1>1 DEF IsReading

LEMMA ReadNone ==
    ASSUME NEW c \in Client, NEW es \in Seq(SseEvents), NEW p \in Events!Parts,
           \A i \in 1..Len(es) : ~Says(es[i], p)
    PROVE  Events!Reading(c, es).got[p] = c.got[p]
<1>1. PICK at : IsReading(at, c, es) /\ Events!Reading(c, es) = at[Len(es)]
  BY Readings
<1> DEFINE n == Len(es)
           S == {i \in 0..n : at[i].got[p] = c.got[p]}
<1>2. n \in Nat /\ 0 \in S
  BY <1>1 DEF IsReading
<1>3. ASSUME NEW i \in 1..n, i - 1 \in S PROVE i \in S
  <2>1. at[i - 1] \in Client /\ es[i] \in SseEvents /\ at[i] = Events!Read(at[i - 1], es[i])
    BY <1>1, <1>2 DEF IsReading
  <2>2. at[i].got[p] = at[i - 1].got[p]
    BY <2>1, ReadGot
  <2> QED
    BY <1>3, <2>2
<1>4. n \in S
  <2> HIDE DEF S, n
  <2>1. \A i \in 1..n : i - 1 \in S => i \in S
    BY <1>3
  <2> QED BY <1>2, <2>1, EveryPlace, Zenon
<1> QED
  BY <1>1, <1>4

\* one that es speaks of once gets what is said then,
LEMMA ReadOnce ==
    ASSUME NEW c \in Client, NEW es \in Seq(SseEvents), NEW p \in Events!Parts,
           NEW k \in 1..Len(es), Says(es[k], p),
           \A i \in 1..Len(es) : i # k => ~Says(es[i], p)
    PROVE  Events!Reading(c, es).got[p] = c.got[p] + es[k].n
<1>1. PICK at : IsReading(at, c, es) /\ Events!Reading(c, es) = at[Len(es)]
  BY Readings
<1> DEFINE n == Len(es)
           S == {i \in 0..n : at[i].got[p] = IF i < k THEN c.got[p] ELSE c.got[p] + es[k].n}
<1>2. n \in Nat /\ 0 \in S
  BY <1>1 DEF IsReading
<1>3. ASSUME NEW i \in 1..n, i - 1 \in S PROVE i \in S
  <2>1. at[i - 1] \in Client /\ es[i] \in SseEvents /\ at[i] = Events!Read(at[i - 1], es[i])
    <3>1. i - 1 \in 0..n /\ es[i] \in SseEvents
      BY <1>2
    <3> QED
      BY <1>1, <3>1 DEF IsReading
  <2>2. /\ Says(es[i], p) => at[i].got[p] = at[i - 1].got[p] + es[i].n
        /\ ~Says(es[i], p) => at[i].got[p] = at[i - 1].got[p]
    BY <2>1, ReadGot
  <2>3. CASE i = k
    BY <1>3, <2>2, <2>3
  <2>4. CASE i # k
    BY <1>3, <2>2, <2>4
  <2> QED
    BY <2>3, <2>4
<1>4. n \in S
  <2> HIDE DEF S, n
  <2>1. \A i \in 1..n : i - 1 \in S => i \in S
    BY <1>3
  <2> QED BY <1>2, <2>1, EveryPlace, Zenon
<1> QED
  BY <1>1, <1>4

\* and when es ends only parts of E and brings text of no part of E, nothing is
\* late and nothing beyond E is closed.
LEMMA ReadOrder ==
    ASSUME NEW c \in Client, NEW es \in Seq(SseEvents), NEW E,
           c.shut \subseteq E,
           \A i \in 1..Len(es) : Events!EndedBy(es[i]) \subseteq E,
           \A i \in 1..Len(es) : es[i].tag = "text" /\ es[i].n > 0 => es[i].part \notin E
    PROVE  Events!Reading(c, es).late = c.late /\ Events!Reading(c, es).shut \subseteq E
<1>1. PICK at : IsReading(at, c, es) /\ Events!Reading(c, es) = at[Len(es)]
  BY Readings
<1> DEFINE n == Len(es)
           S == {i \in 0..n : at[i].late = c.late /\ at[i].shut \subseteq E}
<1>2. n \in Nat /\ 0 \in S
  BY <1>1 DEF IsReading
<1>3. ASSUME NEW i \in 1..n, i - 1 \in S PROVE i \in S
  <2>1. at[i - 1] \in Client /\ es[i] \in SseEvents /\ at[i] = Events!Read(at[i - 1], es[i])
    BY <1>1, <1>2 DEF IsReading
  <2>2. ~(es[i].tag = "text" /\ es[i].n > 0 /\ es[i].part \in at[i - 1].shut)
    BY <1>3
  <2>3. at[i].late = at[i - 1].late /\ at[i].shut = at[i - 1].shut \union Events!EndedBy(es[i])
    BY <2>1, <2>2, ReadShut
  <2> QED
    BY <1>3, <2>3
<1>4. n \in S
  <2> HIDE DEF S, n
  <2>1. \A i \in 1..n : i - 1 \in S => i \in S
    BY <1>3
  <2> QED BY <1>2, <2>1, EveryPlace, Zenon
<1> QED
  BY <1>1, <1>4

\* Reading goes on where it stopped.
LEMMA ReadOn ==
    ASSUME NEW c \in Client, NEW es \in Seq(SseEvents), NEW fs \in Seq(SseEvents)
    PROVE  Events!Reading(c, es \o fs) = Events!Reading(Events!Reading(c, es), fs)
<1> DEFINE n == Len(es)
           m == Len(fs)
           gs == es \o fs
           d == Events!Reading(c, es)
<1>1. /\ n \in Nat /\ m \in Nat /\ gs \in Seq(SseEvents) /\ Len(gs) = n + m
      /\ \A i \in 1..n : gs[i] = es[i]
      /\ \A i \in 1..m : gs[n + i] = fs[i]
  OBVIOUS
<1>2. d \in Client
  BY ReadTypes
<1>3. PICK at : IsReading(at, c, es) /\ d = at[n]
  BY Readings
<1>4. PICK bt : IsReading(bt, d, fs) /\ Events!Reading(d, fs) = bt[m]
  BY <1>2, Readings
<1>5. PICK ct : IsReading(ct, c, gs) /\ Events!Reading(c, gs) = ct[n + m]
  BY <1>1, Readings
<1> HIDE DEF n, m, gs, d
<1> DEFINE S == {i \in 0..n : ct[i] = at[i]}
           T == {i \in 0..m : ct[n + i] = bt[i]}
<1>6. 0 \in S
  BY <1>1, <1>3, <1>5 DEF IsReading, n
<1>7. ASSUME NEW i \in 1..n, i - 1 \in S PROVE i \in S
  <2>1. i \in 1..(n + m) /\ gs[i] = es[i]
    <3>1. i \in 1..(n + m)
      BY <1>1
    <3> QED
      BY <1>1, <3>1
  <2>2. at[i] = Events!Read(at[i - 1], es[i])
    BY <1>3 DEF IsReading, n
  <2>3. ct[i] = Events!Read(ct[i - 1], gs[i])
    BY <1>1, <1>5, <2>1 DEF IsReading
  <2> QED
    BY <1>7, <2>1, <2>2, <2>3
<1>8. n \in S
  <2> HIDE DEF S
  <2>1. \A i \in 1..n : i - 1 \in S => i \in S
    BY <1>7
  <2> QED BY <1>1, <1>6, <2>1, EveryPlace, Zenon
<1>9. 0 \in T
  BY <1>1, <1>3, <1>4, <1>8 DEF IsReading
<1>10. ASSUME NEW i \in 1..m, i - 1 \in T PROVE i \in T
  <2>1. n + i \in 1..(n + m) /\ gs[n + i] = fs[i] /\ (n + i) - 1 = n + (i - 1)
    BY <1>1
  <2>2. bt[i] = Events!Read(bt[i - 1], fs[i])
    BY <1>4 DEF IsReading, m
  <2>3. ct[n + i] = Events!Read(ct[(n + i) - 1], gs[n + i])
    BY <1>1, <1>5, <2>1 DEF IsReading
  <2>4. ct[n + (i - 1)] = bt[i - 1]
    BY <1>10
  <2> QED
    BY <2>1, <2>2, <2>3, <2>4
<1>11. m \in T
  <2> HIDE DEF T
  <2>1. \A i \in 1..m : i - 1 \in T => i \in T
    BY <1>10
  <2> QED BY <1>1, <1>9, <2>1, EveryPlace, Zenon
<1> QED
  BY <1>4, <1>5, <1>11 DEF gs, d

------------------------------------------------------------------------------
(* Tails.                                                                    *)

\* A tail says nothing, or all that a flushed part holds.
LEMMA TailFacts ==
    ASSUME Events!TypeOK, NEW p, NEW S
    PROVE  /\ Events!HeldTail(p, S) \in SseEvents
           /\ \/ Events!HeldTail(p, S) = Events!Nothing
              \/ /\ p \in Events!Parts \intersect S /\ held[p] > 0
                 /\ Events!HeldTail(p, S) = Events!Text(p, held[p])
           /\ p \in Events!Parts \intersect S /\ held[p] > 0 =>
                  Events!HeldTail(p, S) = Events!Text(p, held[p])
<1>1. /\ live \subseteq Events!Parts /\ held \in [Events!Parts -> Nat]
      /\ \A q \in Events!Parts \ live : held[q] = 0
  BY DEF Events!TypeOK
<1>2. Events!Nothing \in SseEvents
  BY DEF SseEvents, Events!Nothing
<1>3. p \in Events!Parts => Events!Text(p, held[p]) \in SseEvents
  BY <1>1 DEF SseEvents
<1>4. CASE p \in live \intersect S /\ held[p] > 0
  BY <1>1, <1>3, <1>4 DEF Events!HeldTail
<1>5. CASE ~(p \in live \intersect S /\ held[p] > 0)
  BY <1>1, <1>2, <1>5 DEF Events!HeldTail
<1> QED
  BY <1>4, <1>5

LEMMA SaysFacts ==
    /\ \A p : ~Says(Events!Nothing, p)
    /\ \A p, q, n : Says(Events!Text(q, n), p) <=> p = q
    /\ \A q, n : /\ Events!Text(q, n).tag = "text" /\ Events!Text(q, n).part = q
                 /\ Events!Text(q, n).n = n
    /\ Events!Nothing.tag # "text" /\ Events!EndedBy(Events!Nothing) = {}
BY EndedFacts DEF Says, Events!Nothing, Events!Ends, Events!Text

LEMMA Concat ==
    ASSUME NEW V, NEW a \in Seq(V), NEW b \in Seq(V)
    PROVE  /\ a \o b \in Seq(V) /\ Len(a \o b) = Len(a) + Len(b)
           /\ \A i \in 1..Len(a) : (a \o b)[i] = a[i]
           /\ \A i \in 1..Len(b) : (a \o b)[Len(a) + i] = b[i]
OBVIOUS

\* ft is the flush of c's parts in S.
IsFlush(ft, c, S) ==
    /\ ft \in Seq(SseEvents) /\ Len(ft) = NTools + 3
    /\ ft[1] = Events!HeldTail(Events!Content(c), S)
    /\ ft[2] = Events!HeldTail(Events!CurrentCall(c), S)
    /\ ft[3] = Events!HeldTail(Events!Function(c), S)
    /\ \A t \in 1..NTools :
           ft[3 + t] = Events!HeldTail(Events!Tool(c, t - 1), S \ {Events!CurrentCall(c)})

LEMMA FlushPlaces ==
    ASSUME Events!TypeOK, NEW c, NEW S, NEW ft, ft = Events!FlushTails(c, S)
    PROVE  IsFlush(ft, c, S)
<1> DEFINE a == <<Events!HeldTail(Events!Content(c), S), Events!HeldTail(Events!CurrentCall(c), S),
                  Events!HeldTail(Events!Function(c), S)>>
           b == [t \in 1..NTools |->
                    Events!HeldTail(Events!Tool(c, t - 1), S \ {Events!CurrentCall(c)})]
<1>1. a \in Seq(SseEvents) /\ Len(a) = 3
  BY TailFacts
<1>2. b \in Seq(SseEvents) /\ Len(b) = NTools
  BY TailFacts, Bounds
<1>3. ft = a \o b
  BY DEF Events!FlushTails
<1>4. /\ ft \in Seq(SseEvents) /\ Len(ft) = 3 + NTools
      /\ \A t \in 1..3 : ft[t] = a[t]
      /\ \A t \in 1..NTools : ft[3 + t] = b[t]
  <2> HIDE DEF a, b
  <2>1. /\ a \o b \in Seq(SseEvents) /\ Len(a \o b) = Len(a) + Len(b)
        /\ \A i \in 1..Len(a) : (a \o b)[i] = a[i]
        /\ \A i \in 1..Len(b) : (a \o b)[Len(a) + i] = b[i]
    <3>1. a \in Seq(SseEvents) /\ b \in Seq(SseEvents)
      BY <1>1, <1>2
    <3> HIDE <1>1, <1>2
    <3> QED
      BY <3>1, Concat
  <2> QED
    BY <1>1, <1>2, <1>3, <2>1
<1>5. ft[1] = a[1] /\ ft[2] = a[2] /\ ft[3] = a[3] /\ Len(ft) = NTools + 3
  <2> HIDE DEF a, b
  <2> QED BY <1>4, Bounds
<1> QED
  BY <1>4, <1>5 DEF IsFlush

LEMMA CurrentName ==
    ASSUME Events!TypeOK, NEW c \in Events!ChatChoices,
           Events!CurrentCall(c) \in Events!Parts
    PROVE  tool_index[c] \in Events!Tools /\ Events!CurrentCall(c) \in Events!OfChoice(c)
<1>1. tool_index[c] \in Events!Tools
  <2>1. PICK d \in Events!ChatChoices : Events!CurrentCall(c) \in Events!OfChoice(d)
    BY PartNames, NamesDiffer DEF Events!CurrentCall
  <2>2. PICK t \in Events!Tools : Events!CurrentCall(c) = Events!Tool(d, t)
    BY <2>1, ChoiceNames, NamesDiffer DEF Events!CurrentCall
  <2> QED
    BY <2>2, NamesDiffer DEF Events!CurrentCall
<1> QED
  BY <1>1, ChoiceNames DEF Events!CurrentCall

\* e says nothing, or all that a part of P holds.
TailOf(e, P) ==
    e = Events!Nothing \/ \E p \in P : held[p] > 0 /\ e = Events!Text(p, held[p])

\* Every place of a flush is a tail of the choice's flushed parts.
LEMMA FlushShape ==
    ASSUME Events!TypeOK, NEW c \in Events!ChatChoices, NEW S, NEW ft,
           ft = Events!FlushTails(c, S), NEW i \in 1..Len(ft)
    PROVE  TailOf(ft[i], Events!OfChoice(c) \intersect S)
<1> USE DEF TailOf
<1>5. IsFlush(ft, c, S)
  BY FlushPlaces
<1>0. i = 1 \/ i = 2 \/ i = 3 \/ \E t \in 1..NTools : i = 3 + t
  <2>1. Len(ft) = NTools + 3
    BY <1>5 DEF IsFlush
  <2>2. i \in 1..(NTools + 3)
    BY <2>1
  <2>3. CASE i > 3
    <3>1. i - 3 \in 1..NTools /\ i = 3 + (i - 3)
      BY <2>2, <2>3, Bounds
    <3> QED
      BY <3>1
  <2> QED
    BY <2>2, <2>3, Bounds
<1>1. CASE i = 1
  <2>1. ft[i] = Events!HeldTail(Events!Content(c), S)
    BY <1>1, <1>5 DEF IsFlush
  <2> QED
    BY <2>1, TailFacts, ChoiceNames
<1>2. CASE i = 2
  <2>1. ft[i] = Events!HeldTail(Events!CurrentCall(c), S)
    BY <1>2, <1>5 DEF IsFlush
  <2> QED
    BY <2>1, TailFacts, CurrentName
<1>3. CASE i = 3
  <2>1. ft[i] = Events!HeldTail(Events!Function(c), S)
    BY <1>3, <1>5 DEF IsFlush
  <2> QED
    BY <2>1, TailFacts, ChoiceNames
<1>4. ASSUME NEW t \in 1..NTools, i = 3 + t
      PROVE  TailOf(ft[i], Events!OfChoice(c) \intersect S)
  <2>1. t - 1 \in Events!Tools
    BY Bounds DEF Events!Tools
  <2>2. Events!Tool(c, t - 1) \in Events!OfChoice(c)
    BY <2>1, ChoiceNames
  <2>3. ft[i] = Events!HeldTail(Events!Tool(c, t - 1), S \ {Events!CurrentCall(c)})
    BY <1>4, <1>5 DEF IsFlush
  <2> QED
    BY <2>2, <2>3, TailFacts
<1> QED
  BY <1>0, <1>1, <1>2, <1>3, <1>4

\* Tails in any order: a part that is not flushed, or holds nothing, gets nothing;
LEMMA TailsNone ==
    ASSUME NEW r \in Client, NEW es \in Seq(SseEvents), NEW P,
           \A i \in 1..Len(es) : TailOf(es[i], P),
           NEW p \in Events!Parts, p \notin P \/ ~(held[p] > 0)
    PROVE  Events!Reading(r, es).got[p] = r.got[p]
<1>1. ASSUME NEW i \in 1..Len(es) PROVE ~Says(es[i], p)
  BY SaysFacts DEF TailOf
<1> QED
  BY <1>1, ReadNone

\* one that stands in one place gets what it holds;
LEMMA TailsOnce ==
    ASSUME NEW r \in Client, NEW es \in Seq(SseEvents), NEW p \in Events!Parts,
           NEW k \in 1..Len(es), es[k] = Events!Text(p, held[p]),
           \A i \in 1..Len(es) : i # k => ~Says(es[i], p)
    PROVE  Events!Reading(r, es).got[p] = r.got[p] + held[p]
<1>1. Says(es[k], p) /\ es[k].n = held[p]
  BY SaysFacts
<1>2. Events!Reading(r, es).got[p] = r.got[p] + es[k].n
  BY <1>1, ReadOnce
<1> QED
  BY <1>1, <1>2

\* What has text kept back is not in E, and what its text ends is.
Open(P, E) ==
    \A p \in P : held[p] > 0 =>
        p \notin E /\ Events!EndedBy(Events!Text(p, held[p])) \subseteq E

\* and none is late when what holds text is open.
LEMMA TailsOrder ==
    ASSUME NEW r \in Client, NEW es \in Seq(SseEvents), NEW P, NEW E,
           \A i \in 1..Len(es) : TailOf(es[i], P), r.shut \subseteq E, Open(P, E)
    PROVE  Events!Reading(r, es).late = r.late /\ Events!Reading(r, es).shut \subseteq E
<1>1. ASSUME NEW i \in 1..Len(es)
      PROVE  /\ Events!EndedBy(es[i]) \subseteq E
             /\ es[i].tag = "text" /\ es[i].n > 0 => es[i].part \notin E
  <2>1. CASE es[i] = Events!Nothing
    BY <2>1, SaysFacts
  <2>2. ASSUME NEW p \in P, held[p] > 0, es[i] = Events!Text(p, held[p])
        PROVE  /\ Events!EndedBy(es[i]) \subseteq E
               /\ es[i].tag = "text" /\ es[i].n > 0 => es[i].part \notin E
    BY <2>2, SaysFacts DEF Open
  <2> QED
    BY <2>1, <2>2 DEF TailOf
<1> QED
  BY <1>1, ReadOrder

\* The parts of a choice that are flushed get what they hold, no other does.
LEMMA FlushGot ==
    ASSUME Events!TypeOK, NEW c \in Events!ChatChoices, NEW S, NEW r \in Client,
           NEW p \in Events!Parts
    PROVE  Events!Reading(r, Events!FlushTails(c, S)).got[p] =
               IF p \in Events!OfChoice(c) \intersect S THEN r.got[p] + held[p] ELSE r.got[p]
<1> DEFINE ft == Events!FlushTails(c, S)
           P == Events!OfChoice(c) \intersect S
<1>0. ft \in Seq(SseEvents) /\ \A i \in 1..Len(ft) : TailOf(ft[i], P)
  BY FlushPlaces, FlushShape DEF IsFlush
<1>4. /\ Len(ft) = NTools + 3
      /\ ft[1] = Events!HeldTail(Events!Content(c), S)
      /\ ft[2] = Events!HeldTail(Events!CurrentCall(c), S)
      /\ ft[3] = Events!HeldTail(Events!Function(c), S)
      /\ \A t \in 1..NTools :
             ft[3 + t] = Events!HeldTail(Events!Tool(c, t - 1), S \ {Events!CurrentCall(c)})
  <2>1. IsFlush(ft, c, S)
    BY FlushPlaces
  <2> HIDE DEF ft, P
  <2> QED
    BY <2>1 DEF IsFlush
<1>1. held[p] \in Nat /\ r.got[p] \in Nat
  BY DEF Events!TypeOK, Client
<1>2. CASE p \notin P \/ ~(held[p] > 0)
  <2>1. Events!Reading(r, ft).got[p] = r.got[p]
    <3> HIDE DEF ft, P
    <3> QED BY <1>0, <1>2, TailsNone
  <2> QED
    BY <1>1, <1>2, <2>1
<1>3. CASE p \in P /\ held[p] > 0
  <2> DEFINE At(k) ==
        /\ k \in 1..Len(ft) /\ ft[k] = Events!Text(p, held[p])
        /\ \A i \in 1..Len(ft) : i # k => ~Says(ft[i], p)
  <2> SUFFICES Events!Reading(r, ft).got[p] = r.got[p] + held[p]
    BY <1>3
  <2> HIDE DEF ft
  <2>1. \A q, T : Says(Events!HeldTail(q, T), p) => p = q /\ p \in T
    BY TailFacts, SaysFacts
  <2>2. \A i \in 1..Len(ft) : i = 1 \/ i = 2 \/ i = 3 \/ \E t \in 1..NTools : i = 3 + t
    <3> SUFFICES ASSUME NEW i \in 1..Len(ft), i > 3 PROVE \E t \in 1..NTools : i = 3 + t
      BY <1>4, Bounds
    <3>1. i - 3 \in 1..NTools /\ i = 3 + (i - 3)
      BY <1>4, Bounds
    <3> QED
      BY <3>1
  <2>3. CASE p = Events!Content(c)
    <3>1. ft[1] = Events!Text(p, held[p])
      BY <1>3, <1>4, <2>3, TailFacts
    <3>2. ASSUME NEW i \in 1..Len(ft), i # 1 PROVE ~Says(ft[i], p)
      BY <1>4, <2>1, <2>2, <2>3, <3>2, NamesDiffer DEF Events!CurrentCall
    <3>3. 1 \in 1..Len(ft)
      BY <1>4, Bounds
    <3> QED
      BY <1>0, <3>1, <3>2, <3>3, TailsOnce
  <2>4. CASE p = Events!Function(c)
    <3>1. ft[3] = Events!Text(p, held[p])
      BY <1>3, <1>4, <2>4, TailFacts
    <3>2. ASSUME NEW i \in 1..Len(ft), i # 3 PROVE ~Says(ft[i], p)
      BY <1>4, <2>1, <2>2, <2>4, <3>2, NamesDiffer DEF Events!CurrentCall
    <3>3. 3 \in 1..Len(ft)
      BY <1>4, Bounds
    <3> QED
      BY <1>0, <3>1, <3>2, <3>3, TailsOnce
  <2>5. CASE p = Events!CurrentCall(c)
    <3>1. ft[2] = Events!Text(p, held[p])
      BY <1>3, <1>4, <2>5, TailFacts
    <3>2. ASSUME NEW i \in 1..Len(ft), i # 2 PROVE ~Says(ft[i], p)
      <4>1. \A t \in 1..NTools : ~Says(ft[3 + t], p)
        BY <1>4, <2>1, <2>5
      <4>2. p # Events!Content(c) /\ p # Events!Function(c)
        BY <2>5, NamesDiffer DEF Events!CurrentCall
      <4> QED
        BY <1>4, <2>1, <2>2, <3>2, <4>1, <4>2
    <3>3. 2 \in 1..Len(ft)
      BY <1>4, Bounds
    <3> QED
      BY <1>0, <3>1, <3>2, <3>3, TailsOnce
  <2>6. ASSUME NEW t \in Events!Tools, p = Events!Tool(c, t), p # Events!CurrentCall(c)
        PROVE  Events!Reading(r, ft).got[p] = r.got[p] + held[p]
    <3>0. t + 1 \in 1..NTools /\ (t + 1) - 1 = t /\ t \in Nat
      BY Bounds DEF Events!Tools
    <3> DEFINE k == 3 + (t + 1)
    <3>1. k \in 1..Len(ft) /\ ft[k] = Events!HeldTail(Events!Tool(c, t), S \ {Events!CurrentCall(c)})
      <4>1. ft[3 + (t + 1)] =
                Events!HeldTail(Events!Tool(c, (t + 1) - 1), S \ {Events!CurrentCall(c)})
        BY <1>4, <3>0
      <4>2. k \in 1..Len(ft)
        BY <1>4, <3>0, Bounds
      <4> QED
        BY <3>0, <4>1, <4>2
    <3>2. ft[k] = Events!Text(p, held[p])
      BY <1>3, <2>6, <3>1, TailFacts
    <3>3. ASSUME NEW i \in 1..Len(ft), i # k PROVE ~Says(ft[i], p)
      <4>1. ASSUME NEW u \in 1..NTools, i = 3 + u PROVE ~Says(ft[i], p)
        <5>1. u - 1 # t
          BY <3>0, <3>3, <4>1
        <5> QED
          BY <1>4, <2>1, <2>6, <4>1, <5>1, NamesDiffer
      <4>2. p # Events!Content(c) /\ p # Events!Function(c)
        BY <2>6, NamesDiffer
      <4> QED
        BY <1>4, <2>1, <2>2, <2>6, <4>1, <4>2
    <3> HIDE DEF k
    <3> QED
      BY <3>1, <3>2, <3>3, <1>0, TailsOnce
  <2> QED
    BY <1>3, <2>3, <2>4, <2>5, <2>6, ChoiceNames
<1> QED
  BY <1>2, <1>3

LEMMA FlushKeepsOrder ==
    ASSUME Events!TypeOK, NEW c \in Events!ChatChoices, NEW S, NEW r \in Client, NEW E,
           r.shut \subseteq E, Open(Events!OfChoice(c) \intersect S, E)
    PROVE  /\ Events!Reading(r, Events!FlushTails(c, S)).late = r.late
           /\ Events!Reading(r, Events!FlushTails(c, S)).shut \subseteq E
<1> DEFINE ft == Events!FlushTails(c, S)
<1>0. ft \in Seq(SseEvents) /\ \A i \in 1..Len(ft) : TailOf(ft[i], Events!OfChoice(c) \intersect S)
  BY FlushPlaces, FlushShape DEF IsFlush
<1> HIDE DEF ft
<1>1. Events!Reading(r, ft).late = r.late /\ Events!Reading(r, ft).shut \subseteq E
  BY <1>0, TailsOrder
<1> QED
  BY <1>1 DEF ft

------------------------------------------------------------------------------
(* All tails, at the end of the stream.                                      *)

LEMMA ReadEmpty ==
    ASSUME NEW r \in Client
    PROVE  Events!Reading(r, <<>>) = r
<1>1. <<>> \in Seq(SseEvents) /\ Len(<<>>) = 0
  OBVIOUS
<1>2. PICK at : IsReading(at, r, <<>>) /\ Events!Reading(r, <<>>) = at[Len(<<>>)]
  BY <1>1, Readings
<1> QED
  BY <1>1, <1>2 DEF IsReading

LEMMA ReadEnds ==
    ASSUME NEW r \in Client, NEW ps \in SUBSET Events!Parts
    PROVE  /\ <<Events!Ends(ps)>> \in Seq(SseEvents)
           /\ Events!Reading(r, <<Events!Ends(ps)>>).got = r.got
           /\ Events!Reading(r, <<Events!Ends(ps)>>).late = r.late
           /\ Events!Reading(r, <<Events!Ends(ps)>>).shut = r.shut \union ps
<1> DEFINE es == <<Events!Ends(ps)>>
<1>1. Events!Ends(ps) \in SseEvents /\ Events!Ends(ps).tag # "text"
      /\ Events!EndedBy(Events!Ends(ps)) = ps
  <2>1. Events!Ends(ps) \in SseEvents
    BY DEF SseEvents
  <2>2. Events!Ends(ps).tag # "text"
    BY DEF Events!Ends
  <2> QED
    BY <2>1, <2>2, EndedFacts
<1>2. es \in Seq(SseEvents) /\ Len(es) = 1 /\ es[1] = Events!Ends(ps)
  BY <1>1
<1> HIDE DEF es
<1>3. PICK at : IsReading(at, r, es) /\ Events!Reading(r, es) = at[Len(es)]
  BY <1>2, Readings
<1>4. Events!Reading(r, es) = Events!Read(r, Events!Ends(ps))
  BY <1>2, <1>3 DEF IsReading
<1>5. /\ Events!Read(r, Events!Ends(ps)).got = r.got
      /\ Events!Read(r, Events!Ends(ps)).late = r.late
      /\ Events!Read(r, Events!Ends(ps)).shut = r.shut \union ps
  BY <1>1 DEF Events!Read
<1> QED
  BY <1>2, <1>4, <1>5 DEF es

\* r reads es, and gets what each part of P holds, and nothing else.
Gets(r, es, P) ==
    \A p \in Events!Parts :
        Events!Reading(r, es).got[p] = IF p \in P THEN r.got[p] + held[p] ELSE r.got[p]

BlockParts == {Events!Block(b) : b \in Events!Blocks}
BlockTails == [b \in 1..NBlocks |-> Events!HeldTail(Events!Block(b - 1), Events!Parts)]

LEMMA BlockShape ==
    ASSUME Events!TypeOK
    PROVE  /\ BlockTails \in Seq(SseEvents) /\ Len(BlockTails) = NBlocks
           /\ \A i \in 1..Len(BlockTails) : TailOf(BlockTails[i], BlockParts)
<1>1. BlockTails \in Seq(SseEvents) /\ Len(BlockTails) = NBlocks
  BY TailFacts, Bounds DEF BlockTails
<1>2. ASSUME NEW i \in 1..NBlocks PROVE TailOf(BlockTails[i], BlockParts)
  <2>1. i - 1 \in Events!Blocks
    BY Bounds DEF Events!Blocks
  <2>2. BlockTails[i] = Events!HeldTail(Events!Block(i - 1), Events!Parts)
    BY DEF BlockTails
  <2>3. Events!Block(i - 1) \in BlockParts
    BY <2>1 DEF BlockParts
  <2> QED
    BY <2>2, <2>3, TailFacts DEF TailOf
<1> QED
  BY <1>1, <1>2

LEMMA BlocksGot ==
    ASSUME Events!TypeOK, NEW r \in Client
    PROVE  Gets(r, BlockTails, BlockParts)
<1> SUFFICES ASSUME NEW p \in Events!Parts
             PROVE  Events!Reading(r, BlockTails).got[p] =
                        IF p \in BlockParts THEN r.got[p] + held[p] ELSE r.got[p]
  BY DEF Gets
<1>1. held[p] \in Nat /\ r.got[p] \in Nat
  BY DEF Events!TypeOK, Client
<1>2. /\ BlockTails \in Seq(SseEvents) /\ Len(BlockTails) = NBlocks
      /\ \A i \in 1..Len(BlockTails) : TailOf(BlockTails[i], BlockParts)
  BY BlockShape
<1>3. CASE p \notin BlockParts \/ ~(held[p] > 0)
  <2>1. Events!Reading(r, BlockTails).got[p] = r.got[p]
    BY <1>2, <1>3, TailsNone
  <2> QED
    BY <1>1, <1>3, <2>1
<1>4. CASE p \in BlockParts /\ held[p] > 0
  <2>1. PICK b \in Events!Blocks : p = Events!Block(b)
    BY <1>4 DEF BlockParts
  <2>2. b \in Nat /\ b + 1 \in 1..NBlocks /\ (b + 1) - 1 = b
    BY Bounds DEF Events!Blocks
  <2>3. BlockTails[b + 1] = Events!HeldTail(Events!Block(b), Events!Parts)
    BY <2>2 DEF BlockTails
  <2>4. BlockTails[b + 1] = Events!Text(p, held[p])
    BY <1>4, <2>1, <2>3, TailFacts
  <2>5. ASSUME NEW i \in 1..Len(BlockTails), i # b + 1 PROVE ~Says(BlockTails[i], p)
    <3>1. BlockTails[i] = Events!HeldTail(Events!Block(i - 1), Events!Parts) /\ i - 1 # b
      BY <1>2, <2>2, <2>5, Bounds DEF BlockTails
    <3>2. Events!Block(i - 1) # p
      BY <2>1, <3>1, NamesDiffer
    <3> QED
      BY <3>1, <3>2, TailFacts, SaysFacts
  <2>6. b + 1 \in 1..Len(BlockTails)
    BY <1>2, <2>2
  <2>7. Events!Reading(r, BlockTails).got[p] = r.got[p] + held[p]
    BY <1>2, <2>4, <2>5, <2>6, TailsOnce
  <2> QED
    BY <1>4, <2>7
<1> QED
  BY <1>3, <1>4

\* Choice after choice.
LEMMA ChoicePlaces ==
    ASSUME Events!TypeOK
    PROVE  /\ Events!ChoiceTails[0] = <<>>
           /\ \A n \in 1..NChoices :
                  Events!ChoiceTails[n] =
                      Events!ChoiceTails[n - 1] \o Events!FlushTails(n - 1, Events!Parts)
           /\ \A n \in 0..NChoices : Events!ChoiceTails[n] \in Seq(SseEvents)
<1> DEFINE V == Seq(SseEvents)
           F == [x \in (1..NChoices) \X V |-> x[2] \o Events!FlushTails(x[1] - 1, Events!Parts)]
           ct == Events!ChoiceTails
<1>1. \A n : Events!FlushTails(n, Events!Parts) \in V
  BY FlushPlaces DEF IsFlush
<1>2. \A v \in V : \A n : v \o Events!FlushTails(n, Events!Parts) \in V
  <2> HIDE DEF V
  <2>1. \A v \in V, w \in V : v \o w \in V
    BY Concat DEF V
  <2> QED
    BY <1>1, <2>1
<1>3. F \in [(1..NChoices) \X V -> V] /\ <<>> \in V
  <2>1. <<>> \in V
    OBVIOUS
  <2> HIDE DEF V
  <2> QED
    BY <1>2, <2>1
<1>4. \A i \in 1..NChoices : \A v \in V : F[<<i, v>>] = v \o Events!FlushTails(i - 1, Events!Parts)
  <2> HIDE DEF V
  <2> QED OBVIOUS
<1> HIDE DEF V, F
<1>5. PICK f \in [0..NChoices -> V] : Follows(f, NChoices, <<>>, F)
  BY <1>3, Bounds, Iterates
<1>6. ASSUME NEW i \in 1..NChoices
      PROVE  f[i] = f[i - 1] \o Events!FlushTails(i - 1, Events!Parts)
  <2>1. f[i - 1] \in V
    BY <1>5, Bounds
  <2> QED
    BY <1>4, <1>5, <2>1 DEF Follows
<1> DEFINE More(v, n) == v \o Events!FlushTails(n - 1, Events!Parts)
           Unrolled(g) == [n \in 0..NChoices |-> IF n = 0 THEN <<>> ELSE More(g[n - 1], n)]
<1>7. f = Unrolled(f)
  <2>1. \A i \in 1..NChoices : f[i] = More(f[i - 1], i)
    BY <1>6
  <2> HIDE DEF More
  <2> QED
    BY <1>5, <2>1, Bounds DEF Follows
<1>8. ct = CHOOSE g : g = Unrolled(g)
  BY DEF Events!ChoiceTails
<1>9. ct = Unrolled(ct)
  <2> HIDE DEF Unrolled, ct
  <2> QED BY <1>7, <1>8
<1> HIDE DEF ct
<1>10. /\ ct[0] = <<>>
       /\ \A n \in 1..NChoices : ct[n] = ct[n - 1] \o Events!FlushTails(n - 1, Events!Parts)
  <2>1. ct[0] = <<>> /\ \A n \in 1..NChoices : ct[n] = More(ct[n - 1], n)
    <3> HIDE DEF More
    <3> QED
      BY <1>9, Bounds
  <2> QED
    BY <2>1
<1> HIDE DEF Unrolled
<1> DEFINE S == {n \in 0..NChoices : ct[n] \in V}
<1>11. 0 \in S
  BY <1>3, <1>10, Bounds
<1>12. ASSUME NEW i \in 1..NChoices, i - 1 \in S PROVE i \in S
  BY <1>2, <1>10, <1>12, Bounds
<1>13. \A n \in 0..NChoices : n \in S
  <2> HIDE DEF S
  <2>1. \A i \in 1..NChoices : i - 1 \in S => i \in S
    BY <1>12
  <2> QED BY <1>11, <2>1, Bounds, EveryPlace, Zenon
<1> QED
  BY <1>10, <1>13 DEF ct, V

UpTo(n) == UNION {Events!OfChoice(c) : c \in 0..(n - 1)}

LEMMA ChoicesGot ==
    ASSUME Events!TypeOK, NEW r \in Client, NEW E, r.shut \subseteq E
    PROVE  /\ Gets(r, Events!ChoiceTails[NChoices], UpTo(NChoices))
           /\ Open(UpTo(NChoices), E) =>
                  /\ Events!Reading(r, Events!ChoiceTails[NChoices]).late = r.late
                  /\ Events!Reading(r, Events!ChoiceTails[NChoices]).shut \subseteq E
<1> DEFINE ct == Events!ChoiceTails
           InOrder(d) == d.late = r.late /\ d.shut \subseteq E
           S == {n \in 0..NChoices :
                    /\ Gets(r, ct[n], UpTo(n))
                    /\ Open(UpTo(NChoices), E) => InOrder(Events!Reading(r, ct[n]))}
<1>1. /\ ct[0] = <<>>
      /\ \A n \in 1..NChoices : ct[n] = ct[n - 1] \o Events!FlushTails(n - 1, Events!Parts)
      /\ \A n \in 0..NChoices : ct[n] \in Seq(SseEvents)
  BY ChoicePlaces
<1> HIDE DEF ct
<1>2. 0 \in S
  <2>1. Events!Reading(r, ct[0]) = r
    BY <1>1, ReadEmpty
  <2>2. UpTo(0) = {}
    BY DEF UpTo
  <2>3. Gets(r, ct[0], UpTo(0))
    BY <2>1, <2>2 DEF Gets
  <2> QED
    BY <2>1, <2>3, Bounds
<1>3. ASSUME NEW n \in 1..NChoices, n - 1 \in S PROVE n \in S
  <2> DEFINE c == n - 1
             ft == Events!FlushTails(c, Events!Parts)
             d == Events!Reading(r, ct[n - 1])
  <2>1. c \in Events!ChatChoices /\ c \in 0..NChoices /\ n \in 0..NChoices
    BY Bounds DEF Events!ChatChoices
  <2>2. ft \in Seq(SseEvents)
    BY FlushPlaces DEF IsFlush
  <2>3. d \in Client
    BY <1>1, <2>1, ReadTypes
  <2>4. Events!Reading(r, ct[n]) = Events!Reading(d, ft)
    <3>1. ct[n] = ct[n - 1] \o ft /\ ct[n - 1] \in Seq(SseEvents)
      BY <1>1, <2>1
    <3> HIDE DEF ft
    <3> QED BY <3>1, <2>2, ReadOn
  <2>5. Gets(r, ct[n - 1], UpTo(n - 1))
    BY <1>3
  <2>6. ASSUME NEW p \in Events!Parts
        PROVE  /\ p \in UpTo(n) <=> p \in UpTo(n - 1) \/ p \in Events!OfChoice(c)
               /\ ~(p \in UpTo(n - 1) /\ p \in Events!OfChoice(c))
    <3>1. ASSUME NEW e \in 0..(n - 1) PROVE e \in 0..((n - 1) - 1) \/ e = n - 1
      BY Bounds
    <3>2. n - 1 \in 0..(n - 1) /\ \A e \in 0..((n - 1) - 1) : e \in 0..(n - 1) /\ e # n - 1 /\ e \in Events!ChatChoices
      BY Bounds DEF Events!ChatChoices
    <3>3. p \in UpTo(n) <=> p \in UpTo(n - 1) \/ p \in Events!OfChoice(c)
      BY <3>1, <3>2 DEF UpTo
    <3>4. ASSUME NEW e \in Events!ChatChoices, e # c, p \in Events!OfChoice(e), p \in Events!OfChoice(c)
          PROVE  FALSE
      <4> HIDE DEF c
      <4> QED
      BY <2>1, <3>4, ChoiceNames, NamesDiffer
    <3> QED
      BY <3>2, <3>3, <3>4 DEF UpTo
  <2>7. ASSUME NEW p \in Events!Parts
        PROVE  Events!Reading(r, ct[n]).got[p] =
                   IF p \in UpTo(n) THEN r.got[p] + held[p] ELSE r.got[p]
    <3>1. d.got[p] = IF p \in UpTo(n - 1) THEN r.got[p] + held[p] ELSE r.got[p]
      BY <2>5 DEF Gets
    <3>2. Events!Reading(d, ft).got[p] =
              IF p \in Events!OfChoice(c) \intersect Events!Parts THEN d.got[p] + held[p]
              ELSE d.got[p]
      <4> HIDE DEF c, d
      <4> QED BY <2>1, <2>3, FlushGot
    <3> HIDE DEF c, d, ft
    <3> QED
      BY <2>4, <2>6, <3>1, <3>2
  <2>8. ASSUME Open(UpTo(NChoices), E) PROVE InOrder(Events!Reading(r, ct[n]))
    <3>1. Open(Events!OfChoice(c) \intersect Events!Parts, E)
      <4>1. c \in 0..(NChoices - 1)
        BY Bounds
      <4>2. Events!OfChoice(c) \subseteq UpTo(NChoices)
        BY <4>1 DEF UpTo
      <4> HIDE DEF c
      <4> QED BY <2>8, <4>2 DEF Open
    <3>2. d.late = r.late /\ d.shut \subseteq E
      BY <1>3, <2>8
    <3>3. Events!Reading(d, ft).late = d.late /\ Events!Reading(d, ft).shut \subseteq E
      <4> HIDE DEF c, d
      <4> QED BY <2>1, <2>3, <3>1, <3>2, FlushKeepsOrder
    <3> QED
      BY <2>4, <3>2, <3>3
  <2>9. Gets(r, ct[n], UpTo(n))
    BY <2>7 DEF Gets
  <2> QED
    BY <2>1, <2>8, <2>9
<1>4. NChoices \in S
  <2> HIDE DEF S
  <2>1. \A n \in 1..NChoices : n - 1 \in S => n \in S
    BY <1>3
  <2> QED BY <1>2, <2>1, Bounds, EveryPlace, Zenon
<1> QED
  BY <1>4 DEF ct

LEMMA EveryPart ==
    /\ Events!Parts = BlockParts \union UpTo(NChoices)
    /\ BlockParts \intersect UpTo(NChoices) = {}
<1>1. Events!Parts = BlockParts \union UpTo(NChoices)
  BY DEF Events!Parts, BlockParts, UpTo, Events!ChatChoices
<1>2. ASSUME NEW b \in Events!Blocks, NEW c \in Events!ChatChoices,
             Events!Block(b) \in Events!OfChoice(c)
      PROVE  FALSE
  <2>1. \/ Events!Block(b) = Events!Content(c) \/ Events!Block(b) = Events!Function(c)
        \/ \E t \in Events!Tools : Events!Block(b) = Events!Tool(c, t)
    BY <1>2, ChoiceNames, Zenon
  <2> QED
    BY <2>1, NamesDiffer
<1> QED
  BY <1>1, <1>2 DEF BlockParts, UpTo, Events!ChatChoices

\* The last events of a stream: every part gets what it holds, and none of it is
\* late when what holds text is open.
LEMMA LastTails ==
    ASSUME Events!TypeOK, NEW r \in Client, NEW E, r.shut \subseteq E, NEW d,
           d = Events!Reading(r, Events!AllTails \o <<Events!Ends(Events!Parts)>>)
    PROVE  /\ d \in Client
           /\ \A p \in Events!Parts : d.got[p] = r.got[p] + held[p]
           /\ Open(Events!Parts, E) => d.late = r.late
<1> DEFINE ct == Events!ChoiceTails[NChoices]
           x == <<Events!Ends(Events!Parts)>>
           r1 == Events!Reading(r, BlockTails)
           r2 == Events!Reading(r1, ct)
<1>1. BlockTails \in Seq(SseEvents) /\ ct \in Seq(SseEvents) /\ x \in Seq(SseEvents)
  BY BlockShape, ChoicePlaces, ReadEnds, Bounds
<1>2. Events!AllTails = BlockTails \o ct
  BY DEF Events!AllTails, BlockTails
<1> HIDE DEF ct, x
<1>3. r1 \in Client
  BY <1>1, ReadTypes
<1>4. r2 \in Client
  <2> HIDE DEF r1
  <2> QED BY <1>1, <1>3, ReadTypes
<1>5. d = Events!Reading(r2, x)
  <2>1. BlockTails \o ct \in Seq(SseEvents)
    BY <1>1, Concat
  <2>2. Events!Reading(r, BlockTails \o ct) = r2
    BY <1>1, ReadOn
  <2>3. Events!Reading(r, (BlockTails \o ct) \o x) =
            Events!Reading(Events!Reading(r, BlockTails \o ct), x)
    BY <1>1, <2>1, ReadOn
  <2> QED
    BY <1>2, <2>2, <2>3 DEF x
<1>6. d \in Client /\ d.got = r2.got /\ d.late = r2.late
  <2> HIDE DEF r2
  <2>1. d \in Client
    BY <1>1, <1>4, <1>5, ReadTypes
  <2> QED
    BY <1>4, <1>5, <2>1, ReadEnds DEF x
<1>7. ASSUME NEW p \in Events!Parts PROVE d.got[p] = r.got[p] + held[p]
  <2>1. r1.got[p] = IF p \in BlockParts THEN r.got[p] + held[p] ELSE r.got[p]
    BY BlocksGot DEF Gets
  <2>2. r2.got[p] = IF p \in UpTo(NChoices) THEN r1.got[p] + held[p] ELSE r1.got[p]
    <3> HIDE DEF r1
    <3>1. Gets(r1, ct, UpTo(NChoices))
      BY <1>3, ChoicesGot DEF ct
    <3> QED
      BY <3>1 DEF Gets
  <2> HIDE DEF r1, r2
  <2> QED
    BY <1>6, <2>1, <2>2, EveryPart
<1>8. ASSUME Open(Events!Parts, E) PROVE d.late = r.late
  <2>1. Open(BlockParts, E) /\ Open(UpTo(NChoices), E)
    BY <1>8, EveryPart DEF Open
  <2>2. r1.late = r.late /\ r1.shut \subseteq E
    BY <1>1, <2>1, BlockShape, TailsOrder
  <2>3. r2.late = r1.late
    <3> HIDE DEF r1
    <3> QED BY <1>3, <2>1, <2>2, ChoicesGot DEF ct
  <2> QED
    BY <1>6, <2>2, <2>3
<1> QED
  BY <1>6, <1>7, <1>8

------------------------------------------------------------------------------
(* The invariant of SseStream.                                               *)

\* What a part has sent has been read, or is kept back; at the end nothing is.
NoneLost ==
    /\ \A p \in Events!Parts : client.got[p] + held[p] = fed[p]
    /\ up = "eof" => \A p \in Events!Parts : held[p] = 0

\* A delta carries the text of at most one of content and tool calls.
OneAtATime(d) == Len(d.calls) <= 1 /\ (d.content => d.calls = <<>>)

\* What holds text has not ended, and what its text ends has; of the tool calls
\* of a choice only the current one holds text; a block that is read has not
\* ended; the client has seen no end the upstream has not sent.
NoneTrails ==
    /\ client.late = {} /\ client.shut \subseteq ended
    /\ Open(Events!Parts, ended)
    /\ \A b \in Events!Blocks : Events!Block(b) \in live => Events!Block(b) \notin ended
    /\ \A c \in Events!ChatChoices :
           /\ tool_index[c] # Events!None =>
                  Events!EndedBy(Events!Text(Events!CurrentCall(c), 0)) \subseteq ended
           /\ \A t \in Events!Tools : held[Events!Tool(c, t)] > 0 => tool_index[c] = t

EventsInv == Events!TypeOK /\ NoneLost /\ ((\A d \in Deltas : OneAtATime(d)) => NoneTrails)

LEMMA EventsInit ==
    ASSUME Events!Init
    PROVE  EventsInv
<1> USE DEF Events!Init
<1>1. Events!TypeOK
  BY Bounds, RestorerAssumption DEF Events!TypeOK
<1>2. NoneLost
  BY DEF NoneLost
<1>3. NoneTrails
  <2>1. \A p \in Events!Parts : held[p] = 0
    OBVIOUS
  <2>2. \A c \in Events!ChatChoices, t \in Events!Tools : held[Events!Tool(c, t)] = 0
    BY <2>1, ChoiceNames, PartNames
  <2> QED
    BY <2>1, <2>2 DEF NoneTrails, Open
<1> QED
  BY <1>1, <1>2, <1>3 DEF EventsInv

\* The end of the stream, in whatever way it comes.
LEMMA ReleaseStep ==
    ASSUME EventsInv, up' \in {"failed", "done", "eof"}, Events!ReleaseAll,
           Events!Send(Events!AllTails \o <<Events!Ends(Events!Parts)>>)
    PROVE  EventsInv'
<1> USE DEF Events!ReleaseAll
<1>1. client \in Client /\ client' = Events!Reading(client, Events!AllTails \o <<Events!Ends(Events!Parts)>>)
  BY DEF EventsInv, Events!TypeOK, Events!Send, Client
<1>2. client' \in Client /\ \A p \in Events!Parts : client'.got[p] = client.got[p] + held[p]
  BY <1>1, LastTails DEF EventsInv
<1>3. Events!TypeOK'
  <2> HIDE DEF Client
  <2>1. client' \in [got : [Events!Parts -> Nat], late : SUBSET Events!Parts, shut : SUBSET Events!Parts]
    BY <1>2 DEF Client
  <2> QED
    BY <2>1 DEF EventsInv, Events!TypeOK
<1>4. NoneLost'
  <2>1. \A p \in Events!Parts : client.got[p] \in Nat /\ held[p] \in Nat
    BY DEF EventsInv, Events!TypeOK
  <2>2. \A p \in Events!Parts : held'[p] = 0
    OBVIOUS
  <2> QED
    BY <1>2, <2>1, <2>2 DEF EventsInv, NoneLost
<1>5. ASSUME NoneTrails PROVE NoneTrails'
  <2>1. client'.late = {}
    BY <1>1, <1>5, LastTails DEF EventsInv, NoneTrails
  <2>2. client'.shut \subseteq Events!Parts
    BY <1>2 DEF Client
  <2>3. \A p \in Events!Parts : held'[p] = 0
    OBVIOUS
  <2>4. \A c \in Events!ChatChoices, t \in Events!Tools : held'[Events!Tool(c, t)] = 0
    BY <2>3, ChoiceNames, PartNames
  <2> QED
    BY <2>1, <2>2, <2>3, <2>4 DEF NoneTrails, Open
<1> QED
  BY <1>3, <1>4, <1>5 DEF EventsInv

LEMMA ReadSingle ==
    ASSUME NEW r \in Client, NEW e \in SseEvents
    PROVE  Events!Reading(r, <<e>>) = Events!Read(r, e)
<1>1. <<e>> \in Seq(SseEvents) /\ Len(<<e>>) = 1 /\ <<e>>[1] = e
  OBVIOUS
<1>2. PICK at : IsReading(at, r, <<e>>) /\ Events!Reading(r, <<e>>) = at[Len(<<e>>)]
  BY <1>1, Readings
<1> QED
  BY <1>1, <1>2 DEF IsReading

LEMMA ReadTwo ==
    ASSUME NEW r \in Client, NEW e \in SseEvents, NEW f \in SseEvents
    PROVE  Events!Reading(r, <<e, f>>) = Events!Read(Events!Read(r, e), f)
<1> DEFINE es == <<e, f>>
<1>1. es \in Seq(SseEvents) /\ Len(es) = 2 /\ es[1] = e /\ es[2] = f
  OBVIOUS
<1> HIDE DEF es
<1>2. PICK at : IsReading(at, r, es) /\ Events!Reading(r, es) = at[Len(es)]
  BY <1>1, Readings
<1>3. at[1] = Events!Read(r, e) /\ at[2] = Events!Read(at[1], f)
  BY <1>1, <1>2 DEF IsReading
<1> QED
  BY <1>1, <1>2, <1>3 DEF es

LEMMA ClientType ==
    Events!TypeOK => client \in Client /\ held \in [Events!Parts -> Nat]
                     /\ fed \in [Events!Parts -> Nat]
BY DEF Events!TypeOK, Client

LEMMA BlockStep ==
    ASSUME EventsInv, NEW b \in Events!Blocks,
           Events!BlockStart(b) \/ Events!BlockDelta(b) \/ Events!BlockStop(b)
    PROVE  EventsInv'
<1> DEFINE B == Events!Block(b)
<1>0. /\ Events!TypeOK /\ NoneLost /\ B \in Events!Parts /\ client \in Client
      /\ held \in [Events!Parts -> Nat] /\ fed \in [Events!Parts -> Nat] /\ up = "open"
      /\ \A n : Events!EndedBy(Events!Text(B, n)) = {}
      /\ \A c, t : B # Events!Tool(c, t)
      /\ \A a : Events!Block(a) = B => a = b
      /\ \A c \in Events!ChatChoices : B \notin Events!OfChoice(c)
  <2>1. ASSUME NEW c \in Events!ChatChoices PROVE B \notin Events!OfChoice(c)
    BY EveryPart DEF BlockParts, UpTo, Events!ChatChoices
  <2>2. up = "open"
    BY DEF Events!BlockStart, Events!BlockDelta, Events!BlockStop, Events!Event
  <2>3. \A c, t : B # Events!Tool(c, t)
    BY NamesDiffer
  <2>4. \A a : Events!Block(a) = B => a = b
    BY NamesDiffer
  <2>5. B \in Events!Parts
    BY PartNames
  <2>6. \A n : Events!EndedBy(Events!Text(B, n)) = {}
    BY EndedFacts
  <2>7. Events!TypeOK /\ NoneLost
    BY DEF EventsInv
  <2> QED
    BY <2>1, <2>2, <2>3, <2>4, <2>5, <2>6, <2>7, ClientType
<1> SUFFICES Events!TypeOK' /\ NoneLost' /\ (NoneTrails => NoneTrails')
  BY DEF EventsInv
<1> HIDE DEF B
<1>1. CASE Events!BlockStart(b)
  <2> USE DEF Events!BlockStart, Events!Event
  <2>1. Events!TypeOK'
    BY <1>0, <1>1, RestorerAssumption DEF Events!TypeOK, B
  <2>2. NoneLost'
    BY <1>0, <1>1 DEF NoneLost
  <2>3. ASSUME NoneTrails PROVE NoneTrails'
    BY <1>0, <1>1, <2>3 DEF NoneTrails, Open, B, Events!CurrentCall
  <2> QED
    BY <2>1, <2>2, <2>3
<1>2. CASE Events!BlockDelta(b)
  <2>1. PICK keep \in 0..(held[B] + 1) :
            /\ held' = [held EXCEPT ![B] = keep]
            /\ client' = Events!Reading(client, <<Events!Text(B, held[B] + 1 - keep)>>)
    BY <1>2 DEF Events!BlockDelta, Events!Send, B
  <2>2. /\ fed' = [fed EXCEPT ![B] = @ + 1] /\ B \in live /\ events' = events + 1
        /\ events < MaxEvents
        /\ UNCHANGED <<protocol, up, ended, live, chat, tool_index>>
    BY <1>2 DEF Events!BlockDelta, Events!Event, B
  <2> DEFINE n == held[B] + 1 - keep
             e == Events!Text(B, n)
  <2>3. n \in Nat /\ held[B] \in Nat /\ keep \in Nat /\ keep + n = held[B] + 1
    BY <1>0
  <2>4. e \in SseEvents /\ Says(e, B) /\ e.n = n /\ \A p : p # B => ~Says(e, p)
    <3> HIDE DEF n
    <3>1. e \in SseEvents
      BY <1>0, <2>3 DEF SseEvents
    <3> QED
      BY <3>1, SaysFacts
  <2> HIDE DEF e, n
  <2>5. client' = Events!Read(client, e)
    BY <1>0, <2>1, <2>4, ReadSingle DEF e, n
  <2>6. client' \in Client /\ client'.got[B] = client.got[B] + n
        /\ \A p \in Events!Parts : p # B => client'.got[p] = client.got[p]
    BY <1>0, <2>4, <2>5, ReadFacts
  <2>7. Events!TypeOK'
    <3>1. client' \in [got : [Events!Parts -> Nat], late : SUBSET Events!Parts, shut : SUBSET Events!Parts]
      BY <2>6 DEF Client
    <3>2. held' \in [Events!Parts -> Nat] /\ fed' \in [Events!Parts -> Nat]
      BY <1>0, <2>1, <2>2, <2>3
    <3>3. \A p \in Events!Parts \ live' : held'[p] = 0
      BY <1>0, <2>1, <2>2 DEF Events!TypeOK
    <3> QED
      BY <1>0, <2>2, <3>1, <3>2, <3>3, RestorerAssumption DEF Events!TypeOK
  <2>8. NoneLost'
    <3>1. client'.got[B] + held'[B] = fed'[B]
      <4>1. client.got[B] \in Nat /\ client.got[B] + held[B] = fed[B] /\ fed[B] \in Nat
        BY <1>0 DEF NoneLost, Client
      <4>2. held'[B] = keep /\ fed'[B] = fed[B] + 1
        BY <1>0, <2>1, <2>2
      <4> QED
        BY <2>3, <2>6, <4>1, <4>2
    <3>2. ASSUME NEW p \in Events!Parts, p # B
          PROVE  client'.got[p] + held'[p] = fed'[p]
      BY <1>0, <2>1, <2>2, <2>6, <3>2 DEF NoneLost
    <3> QED
      BY <1>0, <2>2, <3>1, <3>2 DEF NoneLost
  <2>9. ASSUME NoneTrails PROVE NoneTrails'
    <3>1. B \notin ended
      BY <2>2, <2>9 DEF NoneTrails, B
    <3>2. client'.late = client.late /\ client'.shut = client.shut
      <4>1. ~(e.tag = "text" /\ e.n > 0 /\ e.part \in client.shut)
        BY <2>9, <3>1, SaysFacts DEF NoneTrails, e
      <4>2. client'.late = client.late
        BY <1>0, <2>4, <2>5, <4>1, ReadFacts
      <4>3. client'.shut = client.shut \union Events!EndedBy(e)
        BY <1>0, <2>4, <2>5, ReadFacts
      <4> QED
        BY <1>0, <4>2, <4>3 DEF e
    <3>3. Open(Events!Parts, ended)'
      BY <1>0, <2>1, <2>2, <2>9, <3>1 DEF NoneTrails, Open
    <3>4. \A c, t : Events!Tool(c, t) \in Events!Parts =>
                held'[Events!Tool(c, t)] = held[Events!Tool(c, t)]
      BY <1>0, <2>1
    <3>5. \A c \in Events!ChatChoices, t \in Events!Tools :
              held'[Events!Tool(c, t)] = held[Events!Tool(c, t)]
      BY <3>4, ChoiceNames, PartNames
    <3> QED
      BY <2>2, <2>9, <3>2, <3>3, <3>5 DEF NoneTrails, Events!CurrentCall
  <2> QED
    BY <2>7, <2>8, <2>9
<1>3. CASE Events!BlockStop(b)
  <2> DEFINE e == Events!HeldTail(B, {B})
             f == Events!Ends({B})
             r == Events!Read(client, e)
  <2>1. /\ ended' = ended \union {B} /\ live' = live \ {B} /\ held' = [held EXCEPT ![B] = 0]
        /\ client' = Events!Reading(client, <<e, f>>) /\ B \in live /\ events' = events + 1
        /\ events < MaxEvents
        /\ UNCHANGED <<protocol, up, fed, chat, tool_index>>
    BY <1>3 DEF Events!BlockStop, Events!Event, Events!Send, B
  <2>2. /\ e \in SseEvents /\ f \in SseEvents /\ f.tag # "text" /\ Events!EndedBy(f) = {B}
        /\ Events!EndedBy(e) = {}
        /\ held[B] > 0 => e = Events!Text(B, held[B])
        /\ ~(held[B] > 0) => e = Events!Nothing
    <3>1. f \in SseEvents
      BY <1>0 DEF SseEvents
    <3>2. f.tag # "text"
      BY DEF Events!Ends
    <3>3. Events!EndedBy(f) = {B}
      BY EndedFacts
    <3>4. e \in SseEvents
      BY <1>0, TailFacts
    <3>5. held[B] > 0 => e = Events!Text(B, held[B])
      BY <1>0, TailFacts
    <3>6. ~(held[B] > 0) => e = Events!Nothing
      BY <1>0, TailFacts
    <3>7. Events!EndedBy(e) = {}
      <4> HIDE DEF e
      <4> QED
      BY <1>0, <3>5, <3>6, SaysFacts
    <3> QED
      BY <3>1, <3>2, <3>3, <3>4, <3>5, <3>6, <3>7
  <2> HIDE DEF e, f
  <2>3. r \in Client
    BY <1>0, <2>2, ReadFacts
  <2>4. client' = Events!Read(r, f)
    BY <1>0, <2>1, <2>2, ReadTwo
  <2> HIDE DEF r
  <2>5. client' \in Client /\ client'.late = r.late /\ client'.shut = r.shut \union {B}
        /\ \A p \in Events!Parts : client'.got[p] = r.got[p]
    <3>1. \A p : ~Says(f, p)
      BY <2>2 DEF Says
    <3> QED
      BY <2>2, <2>3, <2>4, <3>1, ReadFacts
  <2>6. ASSUME NEW p \in Events!Parts
        PROVE  r.got[p] = IF p = B THEN client.got[p] + held[p] ELSE client.got[p]
    <3>1. client.got[p] \in Nat /\ held[p] \in Nat
      BY <1>0 DEF Client
    <3>2. CASE held[B] > 0
      <4>1. (Says(e, p) <=> p = B) /\ e.n = held[B]
        BY <2>2, <3>2, SaysFacts
      <4> QED
        BY <1>0, <2>2, <4>1, ReadGot DEF r
    <3>3. CASE ~(held[B] > 0)
      <4>1. ~Says(e, p)
        BY <2>2, <3>3, SaysFacts
      <4>2. r.got[p] = client.got[p]
        BY <1>0, <2>2, <4>1, ReadGot DEF r
      <4> QED
        BY <3>1, <3>3, <4>2
    <3> QED
      BY <3>2, <3>3
  <2>7. Events!TypeOK'
    <3>1. client' \in [got : [Events!Parts -> Nat], late : SUBSET Events!Parts, shut : SUBSET Events!Parts]
      BY <2>5 DEF Client
    <3>2. held' \in [Events!Parts -> Nat]
      BY <1>0, <2>1
    <3>3. \A p \in Events!Parts \ live' : held'[p] = 0
      BY <1>0, <2>1 DEF Events!TypeOK
    <3> QED
      BY <1>0, <2>1, <3>1, <3>2, <3>3, RestorerAssumption DEF Events!TypeOK
  <2>8. NoneLost'
    <3>1. ASSUME NEW p \in Events!Parts PROVE client'.got[p] + held'[p] = fed'[p]
      <4>1. client.got[p] \in Nat /\ held[p] \in Nat /\ client.got[p] + held[p] = fed[p]
        BY <1>0 DEF NoneLost, Client
      <4>2. held'[p] = IF p = B THEN 0 ELSE held[p]
        BY <1>0, <2>1
      <4> QED
        BY <2>1, <2>5, <2>6, <4>1, <4>2
    <3> QED
      BY <1>0, <2>1, <3>1 DEF NoneLost
  <2>9. ASSUME NoneTrails PROVE NoneTrails'
    <3>1. B \notin ended
      BY <2>1, <2>9 DEF NoneTrails, B
    <3>2. r.late = client.late /\ r.shut = client.shut
      <4>1. ~(e.tag = "text" /\ e.n > 0 /\ e.part \in client.shut)
        BY <2>2, <2>9, <3>1, SaysFacts DEF NoneTrails
      <4>2. r.late = client.late
        BY <1>0, <2>2, <4>1, ReadFacts DEF r
      <4>3. r.shut = client.shut \union Events!EndedBy(e)
        BY <1>0, <2>2, ReadFacts DEF r
      <4> QED
        BY <2>2, <4>2, <4>3
    <3>3. Open(Events!Parts, ended)'
      BY <1>0, <2>1, <2>9, <3>1 DEF NoneTrails, Open
    <3>5. \A c \in Events!ChatChoices, t \in Events!Tools :
              held'[Events!Tool(c, t)] = held[Events!Tool(c, t)]
      <4>1. \A c, t : Events!Tool(c, t) \in Events!Parts =>
                held'[Events!Tool(c, t)] = held[Events!Tool(c, t)]
        BY <1>0, <2>1
      <4> QED
        BY <4>1, ChoiceNames, PartNames
    <3>6. client'.late = {} /\ client'.shut \subseteq ended'
      BY <2>1, <2>5, <2>9, <3>2 DEF NoneTrails
    <3> QED
      BY <1>0, <2>1, <2>9, <3>3, <3>5, <3>6 DEF NoneTrails, Events!CurrentCall, B
  <2> QED
    BY <2>7, <2>8, <2>9
<1> QED
  BY <1>1, <1>2, <1>3

------------------------------------------------------------------------------
(* A chunk of a chat choice.                                                 *)

\* parts names parts of c, none twice.
Distinct(parts, c) ==
    /\ parts \in Seq(Events!OfChoice(c))
    /\ \A i, j \in 1..Len(parts) : parts[i] = parts[j] => i = j

LEMMA DeltaType ==
    ASSUME NEW d \in Deltas
    PROVE  /\ d.calls \in Seq(Events!Tools)
           /\ d.content \in BOOLEAN /\ d.args \in BOOLEAN /\ d.function \in BOOLEAN
BY RestorerAssumption DEF Events!Delta

LEMMA CallPlaces ==
    ASSUME NEW c \in Events!ChatChoices, NEW d \in Deltas
    PROVE  /\ Events!CallsIn(c, d) \in Seq(Events!OfChoice(c))
           /\ Len(Events!CallsIn(c, d)) = Len(d.calls)
           /\ \A i \in 1..Len(d.calls) :
                  /\ d.calls[i] \in Events!Tools
                  /\ Events!CallsIn(c, d)[i] = Events!Tool(c, d.calls[i])
<1>1. d.calls \in Seq(Events!Tools) /\ DOMAIN d.calls = 1..Len(d.calls) /\ Len(d.calls) \in Nat
  BY DeltaType
<1>2. \A i \in 1..Len(d.calls) : d.calls[i] \in Events!Tools
  BY <1>1
<1>3. \A i \in 1..Len(d.calls) : Events!Tool(c, d.calls[i]) \in Events!OfChoice(c)
  BY <1>2, ChoiceNames
<1> QED
  BY <1>1, <1>2, <1>3 DEF Events!CallsIn

LEMMA DeltaParts ==
    ASSUME NEW c \in Events!ChatChoices, NEW d \in Deltas, Events!WellFormed(c, d)
    PROVE  Distinct(Events!PartsIn(c, d), c)
<1> DEFINE O == Events!OfChoice(c)
           a == IF d.content THEN <<Events!Content(c)>> ELSE <<>>
           f == IF d.function THEN <<Events!Function(c)>> ELSE <<>>
           k == Events!CallsIn(c, d)
           parts == Events!PartsIn(c, d)
<1>1. /\ a \in Seq(O) /\ Len(a) \in {0, 1} /\ \A i \in 1..Len(a) : a[i] = Events!Content(c)
      /\ f \in Seq(O) /\ Len(f) \in {0, 1} /\ \A i \in 1..Len(f) : f[i] = Events!Function(c)
  <2>1. Events!Content(c) \in O /\ Events!Function(c) \in O
    BY ChoiceNames
  <2> HIDE DEF O
  <2>2. \A x \in O : LET s == <<x>> IN
            s \in Seq(O) /\ Len(s) \in {0, 1} /\ \A i \in 1..Len(s) : s[i] = x
    OBVIOUS
  <2>3. \A x : <<>> \in Seq(O) /\ Len(<<>>) \in {0, 1} /\ \A i \in 1..Len(<<>>) : <<>>[i] = x
    OBVIOUS
  <2>4. a \in Seq(O) /\ Len(a) \in {0, 1} /\ \A i \in 1..Len(a) : a[i] = Events!Content(c)
    BY <2>1, <2>2, <2>3
  <2>5. f \in Seq(O) /\ Len(f) \in {0, 1} /\ \A i \in 1..Len(f) : f[i] = Events!Function(c)
    BY <2>1, <2>2, <2>3
  <2> QED
    BY <2>4, <2>5
<1>2. k \in Seq(O) /\ Len(k) \in Nat /\ \A i \in 1..Len(k) : k[i] = Events!Tool(c, d.calls[i])
  BY CallPlaces
<1>3. \A i, j \in 1..Len(k) : k[i] = k[j] => i = j
  BY <1>2, NamesDiffer, CallPlaces, DeltaType DEF Events!WellFormed, Events!Tools
<1>4. parts = (a \o f) \o k
  BY DEF Events!PartsIn
<1> HIDE DEF O, a, f, k, parts
<1>5. /\ a \o f \in Seq(O) /\ Len(a \o f) = Len(a) + Len(f)
      /\ \A i \in 1..Len(a) : (a \o f)[i] = a[i]
      /\ \A i \in 1..Len(f) : (a \o f)[Len(a) + i] = f[i]
  BY <1>1, Concat
<1>6. /\ parts \in Seq(O) /\ Len(parts) = (Len(a) + Len(f)) + Len(k)
      /\ \A i \in 1..(Len(a) + Len(f)) : parts[i] = (a \o f)[i]
      /\ \A i \in 1..Len(k) : parts[Len(a) + Len(f) + i] = k[i]
  BY <1>1, <1>2, <1>4, <1>5, Concat
<1>7. /\ \A i \in 1..Len(a) : parts[i] = Events!Content(c)
      /\ \A i \in 1..Len(f) : parts[Len(a) + i] = Events!Function(c)
  BY <1>1, <1>5, <1>6
<1>8. ASSUME NEW i \in 1..Len(parts)
      PROVE  \/ i = 1 /\ Len(a) = 1 /\ parts[i] = Events!Content(c)
             \/ i = Len(a) + 1 /\ Len(f) = 1 /\ parts[i] = Events!Function(c)
             \/ \E j \in 1..Len(k) : i = Len(a) + Len(f) + j /\ parts[i] = k[j]
  <2>1. CASE i <= Len(a)
    BY <1>1, <1>7, <2>1
  <2>2. CASE i > Len(a) /\ i <= Len(a) + Len(f)
    <3>1. i - Len(a) \in 1..Len(f) /\ i = Len(a) + (i - Len(a))
      BY <1>1, <2>2
    <3> QED
      BY <1>1, <1>7, <3>1
  <2>3. CASE i > Len(a) + Len(f)
    <3>1. i - (Len(a) + Len(f)) \in 1..Len(k) /\ i = Len(a) + Len(f) + (i - (Len(a) + Len(f)))
      BY <1>1, <1>2, <1>6, <2>3
    <3> QED
      BY <1>6, <3>1
  <2> QED
    BY <1>1, <2>1, <2>2, <2>3
<1>9. ASSUME NEW i \in 1..Len(parts), NEW j \in 1..Len(parts), parts[i] = parts[j]
      PROVE  i = j
  <2>1. \A m \in 1..Len(k) : k[m] # Events!Content(c) /\ k[m] # Events!Function(c)
    BY <1>2, NamesDiffer
  <2>2. Events!Content(c) # Events!Function(c)
    BY NamesDiffer
  <2>3. CASE \E m \in 1..Len(k) : i = Len(a) + Len(f) + m /\ parts[i] = k[m]
    <3>1. PICK m \in 1..Len(k) : i = Len(a) + Len(f) + m /\ parts[i] = k[m]
      BY <2>3
    <3>2. PICK l \in 1..Len(k) : j = Len(a) + Len(f) + l /\ parts[j] = k[l]
      BY <1>8, <1>9, <2>1, <3>1
    <3> QED
      BY <1>3, <1>9, <3>1, <3>2
  <2>4. CASE i = 1 /\ parts[i] = Events!Content(c)
    <3>1. j = 1
      BY <1>8, <1>9, <2>1, <2>2, <2>4
    <3> QED
      BY <2>4, <3>1
  <2>5. CASE i = Len(a) + 1 /\ parts[i] = Events!Function(c)
    <3>1. j = Len(a) + 1
      BY <1>8, <1>9, <2>1, <2>2, <2>5
    <3> QED
      BY <2>5, <3>1
  <2> QED
    BY <1>8, <2>3, <2>4, <2>5
<1> QED
  BY <1>6, <1>9 DEF Distinct, O, parts

LEMMA DeltaFed ==
    ASSUME NEW c \in Events!ChatChoices, NEW d \in Deltas
    PROVE  /\ Events!FedBy(c, d) \subseteq Events!ToSet(Events!PartsIn(c, d))
BY DEF Events!FedBy

LEMMA TextsRead ==
    ASSUME NEW r \in Client, NEW c \in Events!ChatChoices, NEW parts, Distinct(parts, c),
           NEW n \in [Events!OfChoice(c) -> Nat], NEW es,
           es = Events!TextsOf(parts, n),
           NEW p \in Events!Parts
    PROVE  /\ es \in Seq(SseEvents)
           /\ Events!Reading(r, es).got[p] =
                  IF p \in Events!ToSet(parts) THEN r.got[p] + n[p] ELSE r.got[p]
<1>1. /\ parts \in Seq(Events!Parts) /\ DOMAIN parts = 1..Len(parts) /\ Len(parts) \in Nat
      /\ \A i \in 1..Len(parts) : parts[i] \in Events!Parts /\ parts[i] \in Events!OfChoice(c)
  <2>1. Events!OfChoice(c) \subseteq Events!Parts
    BY PartNames
  <2> QED
    BY <2>1 DEF Distinct
<1>2. \A i \in 1..Len(parts) : Events!Text(parts[i], n[parts[i]]) \in SseEvents
  BY <1>1 DEF SseEvents
<1>3. /\ es \in Seq(SseEvents) /\ Len(es) = Len(parts)
      /\ \A i \in 1..Len(parts) : es[i] = Events!Text(parts[i], n[parts[i]])
  BY <1>1, <1>2 DEF Events!TextsOf
<1>4. \A i \in 1..Len(es) : (Says(es[i], p) <=> p = parts[i]) /\ es[i].n = n[parts[i]]
  BY <1>3, SaysFacts
<1>5. CASE p \in Events!ToSet(parts)
  <2>1. PICK k \in 1..Len(parts) : p = parts[k]
    BY <1>1, <1>5 DEF Events!ToSet
  <2>2. \A i \in 1..Len(es) : i # k => ~Says(es[i], p)
    BY <1>3, <1>4, <2>1 DEF Distinct
  <2>3. k \in 1..Len(es) /\ Says(es[k], p) /\ es[k].n = n[p]
    BY <1>3, <1>4, <2>1
  <2>4. Events!Reading(r, es).got[p] = r.got[p] + es[k].n
    BY <1>3, <2>2, <2>3, ReadOnce
  <2> QED
    BY <1>3, <1>5, <2>3, <2>4
<1>6. CASE p \notin Events!ToSet(parts)
  <2>1. \A i \in 1..Len(es) : ~Says(es[i], p)
    BY <1>1, <1>3, <1>4, <1>6 DEF Events!ToSet
  <2>2. Events!Reading(r, es).got[p] = r.got[p]
    BY <1>3, <2>1, ReadNone
  <2> QED
    BY <1>3, <1>6, <2>2
<1> QED
  BY <1>5, <1>6

\* The parts of P are not in E, and what their text ends is.
Clear(P, E) == \A p \in P : p \notin E /\ Events!EndedBy(Events!Text(p, 0)) \subseteq E

LEMMA TextsOrder ==
    ASSUME NEW r \in Client, NEW c \in Events!ChatChoices, NEW parts, Distinct(parts, c),
           NEW n \in [Events!OfChoice(c) -> Nat], NEW es,
           es = Events!TextsOf(parts, n),
           NEW E, r.shut \subseteq E, Clear(Events!ToSet(parts), E)
    PROVE  Events!Reading(r, es).late = r.late /\ Events!Reading(r, es).shut \subseteq E
<1>1. /\ DOMAIN parts = 1..Len(parts) /\ Len(parts) \in Nat
      /\ \A i \in 1..Len(parts) : parts[i] \in Events!Parts /\ parts[i] \in Events!ToSet(parts)
      /\ \A i \in 1..Len(parts) : parts[i] \in Events!OfChoice(c)
  <2>1. Events!OfChoice(c) \subseteq Events!Parts
    BY PartNames
  <2> QED
    BY <2>1 DEF Distinct, Events!ToSet
<1>2. \A i \in 1..Len(parts) : Events!Text(parts[i], n[parts[i]]) \in SseEvents
  BY <1>1 DEF SseEvents
<1>3. /\ es \in Seq(SseEvents) /\ Len(es) = Len(parts)
      /\ \A i \in 1..Len(parts) : es[i] = Events!Text(parts[i], n[parts[i]])
  BY <1>1, <1>2 DEF Events!TextsOf
<1>4. \A p, m : Events!EndedBy(Events!Text(p, m)) = Events!EndedBy(Events!Text(p, 0))
  BY DEF Events!EndedBy, Events!Text
<1>5. ASSUME NEW i \in 1..Len(es)
      PROVE  /\ Events!EndedBy(es[i]) \subseteq E
             /\ es[i].tag = "text" /\ es[i].n > 0 => es[i].part \notin E
  BY <1>1, <1>3, <1>4, SaysFacts DEF Clear
<1> QED
  BY <1>3, <1>5, ReadOrder

LEMMA ReadThree ==
    ASSUME NEW r \in Client, NEW a \in Seq(SseEvents), NEW b \in Seq(SseEvents),
           NEW z \in Seq(SseEvents)
    PROVE  Events!Reading(r, a \o b \o z) =
               Events!Reading(Events!Reading(Events!Reading(r, a), b), z)
<1>1. a \o b \in Seq(SseEvents)
  BY Concat
<1>2. Events!Reading(r, (a \o b) \o z) = Events!Reading(Events!Reading(r, a \o b), z)
  BY <1>1, ReadOn
<1>3. Events!Reading(r, a \o b) = Events!Reading(Events!Reading(r, a), b)
  BY ReadOn
<1> QED
  BY <1>2, <1>3

\* The tails due and the delta, read: which part gets what,
LEMMA RewriteReads ==
    ASSUME Events!TypeOK, NEW c \in Events!ChatChoices, NEW due, NEW parts, Distinct(parts, c),
           NEW n \in [Events!OfChoice(c) -> Nat], NEW es,
           es = Events!TextsOf(parts, n),
           NEW r, r = Events!Reading(Events!Reading(client, Events!FlushTails(c, due)), es)
    PROVE  /\ r \in Client /\ es \in Seq(SseEvents)
           /\ Events!FlushTails(c, due) \in Seq(SseEvents)
           /\ \A p \in Events!Parts :
                  r.got[p] = (IF p \in Events!OfChoice(c) \intersect due THEN client.got[p] + held[p]
                              ELSE client.got[p])
                             + (IF p \in Events!ToSet(parts) THEN n[p] ELSE 0)
<1> DEFINE ft == Events!FlushTails(c, due)
           r1 == Events!Reading(client, ft)
<1>0. client \in Client /\ held \in [Events!Parts -> Nat]
  BY ClientType
<1>1. ft \in Seq(SseEvents)
  BY FlushPlaces DEF IsFlush
<1> HIDE DEF ft
<1>2. r1 \in Client
  BY <1>0, <1>1, ReadTypes
<1> HIDE DEF r1
<1>3. es \in Seq(SseEvents)
  <2>1. Events!Content(c) \in Events!Parts
    BY ChoiceNames, PartNames
  <2> QED
    BY <1>2, <2>1, TextsRead
<1>4. r = Events!Reading(r1, es)
  BY DEF r1, ft
<1>5. r \in Client
  BY <1>2, <1>3, <1>4, ReadTypes
<1>6. ASSUME NEW p \in Events!Parts
      PROVE  r.got[p] = (IF p \in Events!OfChoice(c) \intersect due THEN client.got[p] + held[p]
                         ELSE client.got[p])
                        + (IF p \in Events!ToSet(parts) THEN n[p] ELSE 0)
  <2>1. r1.got[p] = IF p \in Events!OfChoice(c) \intersect due THEN client.got[p] + held[p]
                    ELSE client.got[p]
    BY <1>0, FlushGot DEF r1, ft
  <2>2. r.got[p] = IF p \in Events!ToSet(parts) THEN r1.got[p] + n[p] ELSE r1.got[p]
    BY <1>2, <1>4, TextsRead
  <2>3. r1.got[p] \in Nat
    BY <1>2 DEF Client
  <2> QED
    BY <2>1, <2>2, <2>3
<1> QED
  BY <1>1, <1>3, <1>5, <1>6 DEF ft

\* and that none of it is late.
LEMMA RewriteOrder ==
    ASSUME Events!TypeOK, NoneTrails, NEW c \in Events!ChatChoices, NEW due, NEW parts,
           Distinct(parts, c), NEW n \in [Events!OfChoice(c) -> Nat], NEW es,
           es = Events!TextsOf(parts, n),
           NEW r, r = Events!Reading(Events!Reading(client, Events!FlushTails(c, due)), es),
           NEW E, ended \subseteq E, Clear(Events!ToSet(parts), E)
    PROVE  r.late = {} /\ r.shut \subseteq E
<1> DEFINE ft == Events!FlushTails(c, due)
           r1 == Events!Reading(client, ft)
<1>0. client \in Client /\ client.late = {} /\ client.shut \subseteq ended
  BY ClientType DEF NoneTrails
<1>1. ft \in Seq(SseEvents)
  BY FlushPlaces DEF IsFlush
<1>2. Open(Events!OfChoice(c) \intersect due, ended)
  <2>1. Events!OfChoice(c) \subseteq Events!Parts
    BY PartNames
  <2> QED
    BY <2>1 DEF NoneTrails, Open
<1>3. r1.late = client.late /\ r1.shut \subseteq ended
  BY <1>0, <1>2, FlushKeepsOrder
<1> HIDE DEF ft
<1>4. r1 \in Client
  BY <1>0, <1>1, ReadTypes
<1>5. r = Events!Reading(r1, es)
  BY DEF ft
<1> HIDE DEF r1
<1>6. r.late = r1.late /\ r.shut \subseteq E
  <2>1. r1.shut \subseteq E
    BY <1>3
  <2>2. Events!Reading(r1, es).late = r1.late
    BY <1>4, <2>1, TextsOrder
  <2>3. Events!Reading(r1, es).shut \subseteq E
    BY <1>4, <2>1, TextsOrder
  <2> QED
    BY <1>5, <2>2, <2>3
<1> QED
  BY <1>0, <1>3, <1>6

\* What has ended once the calls of d have started.
EndedWith(c, d) ==
    ended \union UNION {Events!EndedBy(Events!Text(p, 0)) : p \in Events!ToSet(Events!CallsIn(c, d))}

LEMMA OneCall ==
    ASSUME NEW c \in Events!ChatChoices, NEW d \in Deltas, OneAtATime(d), d.calls # <<>>
    PROVE  \E t \in Events!Tools :
               /\ d.calls = <<t>> /\ Head(d.calls) = t /\ Events!Last(d.calls) = t
               /\ Events!ToSet(Events!CallsIn(c, d)) = {Events!Tool(c, t)}
               /\ EndedWith(c, d) =
                      ended \union {Events!Content(c)} \union {Events!Tool(c, u) : u \in 0..(t - 1)}
<1>1. d.calls \in Seq(Events!Tools) /\ Len(d.calls) = 1
  <2> DEFINE k == Len(d.calls)
  <2>1. d.calls \in Seq(Events!Tools) /\ Len(d.calls) \in Nat
    BY DeltaType
  <2>2. Len(d.calls) # 0
    BY <2>1, EmptySeq
  <2> QED
    <3>1. Len(d.calls) <= 1
      BY DEF OneAtATime
    <3>2. k \in Nat /\ k # 0 /\ k <= 1
      BY <2>1, <2>2, <3>1
    <3>3. k = 1
      <4> HIDE DEF k
      <4> QED BY <3>2
    <3> QED
      BY <2>1, <3>3
<1> DEFINE t == d.calls[1]
<1>2. t \in Events!Tools /\ d.calls = <<t>> /\ Head(d.calls) = t /\ Events!Last(d.calls) = t
  BY <1>1 DEF Events!Last
<1>3. Events!CallsIn(c, d) \in Seq(Events!OfChoice(c)) /\ Len(Events!CallsIn(c, d)) = 1
      /\ Events!CallsIn(c, d)[1] = Events!Tool(c, t)
  BY <1>1, CallPlaces
<1> HIDE DEF t
<1>4. Events!ToSet(Events!CallsIn(c, d)) = {Events!Tool(c, t)}
  <2>1. DOMAIN Events!CallsIn(c, d) = {1}
    BY <1>3
  <2> QED
    BY <1>3, <2>1 DEF Events!ToSet
<1>5. Events!EndedBy(Events!Text(Events!Tool(c, t), 0)) =
          {Events!Content(c)} \union {Events!Tool(c, u) : u \in 0..(t - 1)}
  BY EndedFacts
<1>6. EndedWith(c, d) =
          ended \union {Events!Content(c)} \union {Events!Tool(c, u) : u \in 0..(t - 1)}
  BY <1>4, <1>5 DEF EndedWith
<1> QED
  BY <1>2, <1>4, <1>6

\* The content, the function call or a tool call of the choice.
LEMMA PartKinds ==
    ASSUME NEW c \in Events!ChatChoices, NEW d \in Deltas,
           NEW p \in Events!ToSet(Events!PartsIn(c, d))
    PROVE  \/ (p = Events!Content(c) /\ d.content) \/ p = Events!Function(c)
           \/ p \in Events!ToSet(Events!CallsIn(c, d))
<1> DEFINE a == IF d.content THEN <<Events!Content(c)>> ELSE <<>>
           f == IF d.function THEN <<Events!Function(c)>> ELSE <<>>
           k == Events!CallsIn(c, d)
           O == Events!OfChoice(c)
           parts == Events!PartsIn(c, d)
<1>1. a \in Seq(O) /\ (\A i \in 1..Len(a) : a[i] = Events!Content(c) /\ d.content)
  <2>1. Events!Content(c) \in O
    BY ChoiceNames
  <2>2. CASE d.content
    BY <2>1, <2>2
  <2>3. CASE ~d.content
    BY <2>3
  <2> QED
    BY <2>2, <2>3
<1>2. f \in Seq(O) /\ (\A i \in 1..Len(f) : f[i] = Events!Function(c))
  BY ChoiceNames
<1>3. k \in Seq(O) /\ (\A i \in 1..Len(k) : k[i] \in Events!ToSet(k))
  BY CallPlaces DEF Events!ToSet
<1>4. parts = (a \o f) \o k
  BY DEF Events!PartsIn
<1> HIDE DEF a, f, k, O, parts
<1>5. /\ a \o f \in Seq(O) /\ Len(a \o f) = Len(a) + Len(f) /\ Len(a) \in Nat /\ Len(f) \in Nat
      /\ \A i \in 1..Len(a) : (a \o f)[i] = a[i]
      /\ \A i \in 1..Len(f) : (a \o f)[Len(a) + i] = f[i]
  BY <1>1, <1>2, Concat
<1>6. /\ parts \in Seq(O) /\ Len(parts) = (Len(a) + Len(f)) + Len(k) /\ Len(k) \in Nat
      /\ \A i \in 1..(Len(a) + Len(f)) : parts[i] = (a \o f)[i]
      /\ \A i \in 1..Len(k) : parts[Len(a) + Len(f) + i] = k[i]
  BY <1>3, <1>4, <1>5, Concat
<1>7. PICK i \in 1..Len(parts) : p = parts[i]
  BY <1>6 DEF Events!ToSet, parts
<1>8. CASE i <= Len(a)
  <2>1. i \in 1..Len(a) /\ i \in 1..(Len(a) + Len(f))
    BY <1>5, <1>8
  <2>2. p = a[i]
    BY <1>5, <1>6, <1>7, <2>1
  <2> QED
    BY <1>1, <2>1, <2>2
<1>9. CASE i > Len(a) /\ i <= Len(a) + Len(f)
  <2>1. i - Len(a) \in 1..Len(f) /\ i = Len(a) + (i - Len(a)) /\ i \in 1..(Len(a) + Len(f))
    BY <1>5, <1>9
  <2>2. p = f[i - Len(a)]
    BY <1>5, <1>6, <1>7, <2>1
  <2> QED
    BY <1>2, <2>1, <2>2
<1>10. CASE i > Len(a) + Len(f)
  <2>1. i - (Len(a) + Len(f)) \in 1..Len(k) /\ i = Len(a) + Len(f) + (i - (Len(a) + Len(f)))
    BY <1>5, <1>6, <1>10
  <2>2. p = k[i - (Len(a) + Len(f))]
    BY <1>6, <1>7, <2>1
  <2> QED
    BY <1>3, <2>1, <2>2 DEF k
<1> QED
  BY <1>5, <1>8, <1>9, <1>10

\* d names no part that has ended with it.
LEMMA DeltaOpen ==
    ASSUME NEW c \in Events!ChatChoices, NEW d \in Deltas, OneAtATime(d), Events!WellFormed(c, d),
           NEW p \in Events!ToSet(Events!PartsIn(c, d))
    PROVE  /\ p \notin EndedWith(c, d)
           /\ Events!EndedBy(Events!Text(p, 0)) \subseteq EndedWith(c, d)
<1>1. p \notin ended
  BY DEF Events!WellFormed
<1>2. \/ (p = Events!Content(c) /\ d.content) \/ p = Events!Function(c)
      \/ p \in Events!ToSet(Events!CallsIn(c, d))
  BY PartKinds
<1>3. CASE d.calls = <<>>
  <2>1. Events!ToSet(Events!CallsIn(c, d)) = {}
    BY <1>3 DEF Events!ToSet, Events!CallsIn
  <2> QED
    BY <1>1, <1>2, <2>1, EndedFacts DEF EndedWith
<1>4. CASE d.calls # <<>>
  <2>1. PICK t \in Events!Tools :
            /\ Events!ToSet(Events!CallsIn(c, d)) = {Events!Tool(c, t)}
            /\ EndedWith(c, d) =
                   ended \union {Events!Content(c)} \union {Events!Tool(c, u) : u \in 0..(t - 1)}
    BY <1>4, OneCall
  <2>2. p = Events!Function(c) \/ p = Events!Tool(c, t)
    BY <1>2, <1>4, <2>1 DEF OneAtATime
  <2>3. t \in Int
    BY Bounds DEF Events!Tools
  <2>4. CASE p = Events!Function(c)
    BY <1>1, <2>1, <2>4, NamesDiffer, EndedFacts
  <2>5. CASE p = Events!Tool(c, t)
    BY <1>1, <2>1, <2>3, <2>5, NamesDiffer, EndedFacts
  <2> QED
    BY <2>2, <2>4, <2>5
<1> QED
  BY <1>3, <1>4

\* Nor has any other part of the choice that holds text.
LEMMA OthersOpen ==
    ASSUME Events!TypeOK, NoneTrails,
           NEW c \in Events!ChatChoices, NEW d \in Deltas, OneAtATime(d),
           NEW p \in Events!OfChoice(c), p \notin Events!DueBefore(c, d), held[p] > 0
    PROVE  /\ p \notin EndedWith(c, d)
           /\ Events!EndedBy(Events!Text(p, held[p])) \subseteq EndedWith(c, d)
<1>1. p \notin ended /\ Events!EndedBy(Events!Text(p, held[p])) \subseteq ended
  BY PartNames DEF NoneTrails, Open
<1>2. ended \subseteq EndedWith(c, d)
  BY DEF EndedWith
<1>3. CASE d.calls = <<>>
  <2>1. Events!ToSet(Events!CallsIn(c, d)) = {}
    BY <1>3 DEF Events!ToSet, Events!CallsIn
  <2> QED
    BY <1>1, <2>1 DEF EndedWith
<1>4. CASE d.calls # <<>>
  <2>1. PICK t \in Events!Tools :
            /\ Head(d.calls) = t
            /\ EndedWith(c, d) =
                   ended \union {Events!Content(c)} \union {Events!Tool(c, u) : u \in 0..(t - 1)}
    BY <1>4, OneCall
  <2>2. t \in Nat /\ t # Events!None
    BY Bounds DEF Events!Tools, Events!None
  <2>3. CASE t = tool_index[c]
    <3>1. Events!EndedBy(Events!Text(Events!Tool(c, t), 0)) \subseteq ended
      BY <2>2, <2>3 DEF NoneTrails, Events!CurrentCall
    <3>2. EndedWith(c, d) = ended
      BY <2>1, <3>1, EndedFacts
    <3> QED
      BY <1>1, <3>2
  <2>4. CASE t # tool_index[c]
    <3>1. p # Events!Content(c) /\ p # Events!CurrentCall(c)
      BY <1>4, <2>1, <2>4 DEF Events!DueBefore
    <3>2. \A u \in Events!Tools : p # Events!Tool(c, u)
      BY <3>1 DEF NoneTrails, Events!CurrentCall
    <3>3. p = Events!Function(c)
      BY <3>1, <3>2, ChoiceNames
    <3> QED
      BY <1>1, <1>2, <2>1, <3>3, NamesDiffer
  <2> QED
    BY <2>3, <2>4
<1> QED
  BY <1>3, <1>4

LEMMA DeltaNames ==
    ASSUME NEW c \in Events!ChatChoices, NEW d \in Deltas, Events!WellFormed(c, d)
    PROVE  /\ Distinct(Events!PartsIn(c, d), c)
           /\ Events!ToSet(Events!PartsIn(c, d)) \subseteq Events!OfChoice(c)
           /\ Events!FedBy(c, d) \subseteq Events!ToSet(Events!PartsIn(c, d))
           /\ Events!OfChoice(c) \subseteq Events!Parts
<1>1. Distinct(Events!PartsIn(c, d), c)
  BY DeltaParts
<1>2. Events!OfChoice(c) \subseteq Events!Parts
  BY PartNames
<1>3. \A i \in DOMAIN Events!PartsIn(c, d) : Events!PartsIn(c, d)[i] \in Events!OfChoice(c)
  BY <1>1 DEF Distinct
<1> QED
  BY <1>1, <1>2, <1>3, DeltaFed DEF Events!ToSet

LEMMA HaveType ==
    ASSUME Events!TypeOK, NEW c \in Events!ChatChoices, NEW d
    PROVE  Events!Have(c, d) \in [Events!OfChoice(c) -> Nat]
BY ClientType, PartNames DEF Events!Have

\* _rewrite_choice without the delta's layout, while the choice goes on
LEMMA GoesOnShape ==
    ASSUME Events!TypeOK, NEW c \in Events!ChatChoices, NEW d \in Deltas, Events!WellFormed(c, d),
           Events!ChatRewrite(c, d, FALSE)
    PROVE  \E stays \in [Events!OfChoice(c) -> Nat], n \in [Events!OfChoice(c) -> Nat] :
               /\ \A p \in Events!OfChoice(c) : stays[p] + n[p] = Events!Have(c, d)[p]
               /\ \A p \in Events!OfChoice(c) \ Events!FedBy(c, d) : n[p] = 0
               /\ held' = [p \in Events!Parts |-> IF p \in Events!OfChoice(c) THEN stays[p] ELSE held[p]]
               /\ client' = Events!Reading(client,
                      Events!FlushTails(c, Events!DueBefore(c, d))
                          \o Events!TextsOf(Events!PartsIn(c, d), n) \o <<>>)
<1> DEFINE have == Events!Have(c, d)
           F == Events!FedBy(c, d)
           O == Events!OfChoice(c)
           K(k) == Events!Kept(c, d, FALSE, k)
           N(k) == [p \in O |-> have[p] - K(k)[p]]
<1>1. PICK k \in [F -> 0..(MaxEvents + 1)] :
          /\ \A p \in DOMAIN k : k[p] <= have[p]
          /\ held' = [p \in Events!Parts |-> IF p \in O THEN K(k)[p] ELSE held[p]]
          /\ client' = Events!Reading(client,
                      Events!FlushTails(c, Events!DueBefore(c, d))
                          \o Events!TextsOf(Events!PartsIn(c, d), N(k)) \o <<>>)
  BY DEF Events!ChatRewrite, Events!Send
<1>2. have \in [O -> Nat] /\ F \subseteq O
  BY HaveType, DeltaNames
<1>3. \A p \in F : k[p] \in Nat /\ k[p] <= have[p]
  BY <1>1, RestorerAssumption
<1>4. K(k) = [p \in O |-> IF p \in F THEN k[p] ELSE have[p]]
  BY DEF Events!Kept
<1> HIDE DEF have, F, O, K
<1>5. K(k) \in [O -> Nat]
  BY <1>2, <1>3, <1>4
<1>6. \A p \in O : K(k)[p] <= have[p] /\ (p \notin F => K(k)[p] = have[p])
  BY <1>2, <1>3, <1>4
<1>7. N(k) \in [O -> Nat] /\ \A p \in O : K(k)[p] + N(k)[p] = have[p]
  BY <1>2, <1>5, <1>6
<1>8. \A p \in O \ F : N(k)[p] = 0
  BY <1>2, <1>6
<1> HIDE DEF N
<1> QED
  BY <1>1, <1>5, <1>7, <1>8 DEF have, F, O

\* and when it finishes.
LEMMA FinishesShape ==
    ASSUME Events!TypeOK, NEW c \in Events!ChatChoices, NEW d \in Deltas, Events!WellFormed(c, d),
           Events!ChatRewrite(c, d, TRUE)
    PROVE  \E n \in [Events!OfChoice(c) -> Nat] :
               /\ n = Events!Have(c, d)
               /\ held' = [p \in Events!Parts |-> IF p \in Events!OfChoice(c) THEN 0 ELSE held[p]]
               /\ client' = Events!Reading(client,
                      Events!FlushTails(c, Events!DueBefore(c, d))
                          \o Events!TextsOf(Events!PartsIn(c, d), n)
                          \o (Events!FlushTails(c, Events!OfChoice(c) \
                                 (Events!ToSet(Events!PartsIn(c, d)) \union Events!DueBefore(c, d)))
                              \o <<Events!Ends(Events!OfChoice(c))>>))
<1> DEFINE have == Events!Have(c, d)
           O == Events!OfChoice(c)
           K(k) == Events!Kept(c, d, TRUE, k)
           N(k) == [p \in O |-> have[p] - K(k)[p]]
           Z == Events!FlushTails(c, O \
                      (Events!ToSet(Events!PartsIn(c, d)) \union Events!DueBefore(c, d)))
                    \o <<Events!Ends(O)>>
<1>1. PICK k \in [Events!FedBy(c, d) -> 0..(MaxEvents + 1)] :
          /\ held' = [p \in Events!Parts |-> IF p \in O THEN K(k)[p] ELSE held[p]]
          /\ client' = Events!Reading(client,
                      Events!FlushTails(c, Events!DueBefore(c, d))
                          \o Events!TextsOf(Events!PartsIn(c, d), N(k)) \o Z)
  BY DEF Events!ChatRewrite, Events!Send
<1>2. have \in [O -> Nat]
  BY HaveType
<1>3. K(k) = [p \in O |-> 0]
  BY DEF Events!Kept
<1> HIDE DEF have, O, K, Z
<1>4. N(k) = have
  BY <1>2, <1>3
<1>5. held' = [p \in Events!Parts |-> IF p \in O THEN 0 ELSE held[p]]
  BY <1>1, <1>3
<1> HIDE DEF N
<1> QED
  BY <1>1, <1>2, <1>4, <1>5 DEF have, O, Z

LEMMA OtherChoices ==
    ASSUME NEW c \in Events!ChatChoices, NEW e \in Events!ChatChoices, e # c
    PROVE  Events!OfChoice(e) \intersect Events!OfChoice(c) = {}
<1> SUFFICES ASSUME NEW p, p \in Events!OfChoice(e), p \in Events!OfChoice(c) PROVE FALSE
  OBVIOUS
<1> QED
  BY ChoiceNames, NamesDiffer

LEMMA EndedWithParts ==
    ASSUME Events!TypeOK, NEW c \in Events!ChatChoices, NEW d \in Deltas
    PROVE  EndedWith(c, d) \subseteq Events!Parts
           /\ \A p \in EndedWith(c, d) : p \in ended \/ p \in Events!OfChoice(c)
<1>1. ASSUME NEW p \in Events!ToSet(Events!CallsIn(c, d))
      PROVE  Events!EndedBy(Events!Text(p, 0)) \subseteq Events!OfChoice(c)
  <2>1. PICK i \in 1..Len(d.calls) : p = Events!CallsIn(c, d)[i]
    BY CallPlaces DEF Events!ToSet
  <2>2. PICK t \in Events!Tools : p = Events!Tool(c, t)
    BY <2>1, CallPlaces
  <2>3. \A u \in 0..(t - 1) : u \in Events!Tools
    BY Bounds DEF Events!Tools
  <2>4. \A u \in 0..(t - 1) : Events!Tool(c, u) \in Events!OfChoice(c)
    BY <2>3, ChoiceNames
  <2> QED
    BY <2>2, <2>4, ChoiceNames, EndedFacts
<1>2. ended \subseteq Events!Parts /\ Events!OfChoice(c) \subseteq Events!Parts
  BY PartNames DEF Events!TypeOK
<1> QED
  BY <1>1, <1>2 DEF EndedWith

\* What the rest of the stream keeps when only parts of c change.
LEMMA OtherParts ==
    ASSUME NoneTrails, Events!TypeOK, NEW c \in Events!ChatChoices,
           \A p \in Events!Parts \ Events!OfChoice(c) : held'[p] = held[p],
           ended \subseteq ended', \A p \in ended' : p \in ended \/ p \in Events!OfChoice(c),
           \A p \in live' : p \in live \/ p \in Events!OfChoice(c),
           \A e \in Events!ChatChoices : e # c => tool_index'[e] = tool_index[e]
    PROVE  /\ \A p \in Events!Parts \ Events!OfChoice(c) : held'[p] > 0 =>
                  p \notin ended' /\ Events!EndedBy(Events!Text(p, held'[p])) \subseteq ended'
           /\ \A b \in Events!Blocks : Events!Block(b) \in live' => Events!Block(b) \notin ended'
           /\ \A e \in Events!ChatChoices \ {c} :
                  /\ tool_index'[e] # Events!None =>
                         Events!EndedBy(Events!Text(Events!Tool(e, tool_index'[e]), 0)) \subseteq ended'
                  /\ \A t \in Events!Tools : held'[Events!Tool(e, t)] > 0 => tool_index'[e] = t
<1>1. ASSUME NEW p \in Events!Parts \ Events!OfChoice(c), held'[p] > 0
      PROVE  p \notin ended' /\ Events!EndedBy(Events!Text(p, held'[p])) \subseteq ended'
  BY <1>1 DEF NoneTrails, Open
<1>2. ASSUME NEW b \in Events!Blocks, Events!Block(b) \in live'
      PROVE  Events!Block(b) \notin ended'
  <2>1. Events!Block(b) \notin Events!OfChoice(c)
    BY EveryPart DEF BlockParts, UpTo, Events!ChatChoices
  <2> QED
    BY <1>2, <2>1 DEF NoneTrails
<1>3. ASSUME NEW e \in Events!ChatChoices \ {c}
      PROVE  /\ tool_index'[e] # Events!None =>
                    Events!EndedBy(Events!Text(Events!Tool(e, tool_index'[e]), 0)) \subseteq ended'
             /\ \A t \in Events!Tools : held'[Events!Tool(e, t)] > 0 => tool_index'[e] = t
  <2>1. tool_index'[e] = tool_index[e]
    OBVIOUS
  <2>2. ASSUME NEW t \in Events!Tools, held'[Events!Tool(e, t)] > 0 PROVE tool_index'[e] = t
    <3>1. Events!Tool(e, t) \in Events!Parts \ Events!OfChoice(c)
      BY ChoiceNames, PartNames, OtherChoices
    <3>2. held[Events!Tool(e, t)] > 0
      BY <2>2, <3>1
    <3> QED
      BY <2>1, <3>2 DEF NoneTrails
  <2>3. ASSUME tool_index'[e] # Events!None
        PROVE  Events!EndedBy(Events!Text(Events!Tool(e, tool_index'[e]), 0)) \subseteq ended'
    BY <2>1, <2>3 DEF NoneTrails, Events!CurrentCall
  <2> QED
    BY <2>2, <2>3
<1> QED
  BY <1>1, <1>2, <1>3

LEMMA ChatGoesOn ==
    ASSUME EventsInv, NEW c \in Events!ChatChoices, NEW d \in Deltas, Events!WellFormed(c, d),
           Events!Event("chat"), UNCHANGED <<protocol, up>>,
           Events!ChatRewrite(c, d, FALSE), ended' = EndedWith(c, d)
    PROVE  EventsInv'
<1> DEFINE O == Events!OfChoice(c)
           F == Events!FedBy(c, d)
           due == Events!DueBefore(c, d)
           have == Events!Have(c, d)
           parts == Events!PartsIn(c, d)
           P == Events!ToSet(parts)
<1>0. /\ Events!TypeOK /\ NoneLost /\ client \in Client /\ held \in [Events!Parts -> Nat]
      /\ fed \in [Events!Parts -> Nat] /\ up = "open" /\ up' = "open"
      /\ events < MaxEvents /\ events' = events + 1
      /\ Distinct(parts, c) /\ P \subseteq O /\ F \subseteq P /\ O \subseteq Events!Parts
      /\ have \in [O -> Nat]
      /\ \A p \in O : have[p] = (IF p \in due THEN 0 ELSE held[p]) + (IF p \in F THEN 1 ELSE 0)
  <2>1. Events!TypeOK /\ NoneLost
    BY DEF EventsInv
  <2>2. up = "open" /\ up' = "open" /\ events < MaxEvents /\ events' = events + 1
    BY DEF Events!Event
  <2>3. \A p \in O : have[p] = (IF p \in due THEN 0 ELSE held[p]) + (IF p \in F THEN 1 ELSE 0)
    BY DEF Events!Have
  <2> QED
    BY <2>1, <2>2, <2>3, ClientType, DeltaNames, HaveType
<1>1. PICK stays \in [O -> Nat] : \E n \in [O -> Nat] :
          /\ \A p \in O : stays[p] + n[p] = have[p]
          /\ \A p \in O \ F : n[p] = 0
          /\ held' = [p \in Events!Parts |-> IF p \in O THEN stays[p] ELSE held[p]]
          /\ client' = Events!Reading(client,
                 Events!FlushTails(c, due) \o Events!TextsOf(parts, n) \o <<>>)
  BY <1>0, GoesOnShape
<1>2. PICK n \in [O -> Nat] :
          /\ \A p \in O : stays[p] + n[p] = have[p]
          /\ \A p \in O \ F : n[p] = 0
          /\ held' = [p \in Events!Parts |-> IF p \in O THEN stays[p] ELSE held[p]]
          /\ client' = Events!Reading(client,
                 Events!FlushTails(c, due) \o Events!TextsOf(parts, n) \o <<>>)
  BY <1>1
<1>3. /\ fed' = [p \in Events!Parts |-> fed[p] + (IF p \in F THEN 1 ELSE 0)]
      /\ live' = (live \ due) \union F /\ chat' = chat \union {c}
      /\ tool_index' = [tool_index EXCEPT ![c] =
             IF d.args /\ d.calls # <<>> THEN Events!Last(d.calls) ELSE @]
  BY DEF Events!ChatRewrite
<1> DEFINE es == Events!TextsOf(parts, n)
           r == Events!Reading(Events!Reading(client, Events!FlushTails(c, due)), es)
<1> HIDE DEF O, F, due, have, parts, P
<1>4. /\ r \in Client /\ es \in Seq(SseEvents) /\ Events!FlushTails(c, due) \in Seq(SseEvents)
      /\ \A p \in Events!Parts :
             r.got[p] = (IF p \in O \intersect due THEN client.got[p] + held[p] ELSE client.got[p])
                        + (IF p \in P THEN n[p] ELSE 0)
  BY <1>0, RewriteReads DEF O, P
<1>5. client' = r
  <2>1. <<>> \in Seq(SseEvents)
    OBVIOUS
  <2> DEFINE ft == Events!FlushTails(c, due)
  <2>2. ft \in Seq(SseEvents) /\ es \in Seq(SseEvents)
        /\ client' = Events!Reading(client, ft \o es \o <<>>)
        /\ r = Events!Reading(Events!Reading(client, ft), es)
    BY <1>2, <1>4
  <2> HIDE DEF es, ft, r
  <2>3. client' = Events!Reading(r, <<>>)
    BY <1>0, <2>1, <2>2, ReadThree
  <2> QED
    BY <1>4, <2>3, ReadEmpty
<1> HIDE DEF r, es
<1>6. tool_index' \in [Events!ChatChoices -> Events!Tools \union {Events!None}]
  <2>1. d.calls # <<>> => Events!Last(d.calls) \in Events!Tools
    BY DeltaType DEF Events!Last
  <2>2. tool_index \in [Events!ChatChoices -> Events!Tools \union {Events!None}]
    BY <1>0 DEF Events!TypeOK
  <2> QED
    BY <1>3, <2>1, <2>2
<1>7. Events!TypeOK'
  <2>1. client' \in [got : [Events!Parts -> Nat], late : SUBSET Events!Parts, shut : SUBSET Events!Parts]
    BY <1>4, <1>5 DEF Client
  <2>2. held' \in [Events!Parts -> Nat] /\ fed' \in [Events!Parts -> Nat]
    BY <1>0, <1>2, <1>3
  <2>3. live' \subseteq Events!Parts /\ chat' \subseteq Events!ChatChoices
        /\ ended' \subseteq Events!Parts
    BY <1>0, <1>3, EndedWithParts DEF Events!TypeOK
  <2>4. ASSUME NEW p \in Events!Parts \ live' PROVE held'[p] = 0
    <3>1. p \notin F /\ (p \in due \/ p \notin live)
      BY <1>3, <2>4
    <3>2. CASE p \in O
      <4>1. p \notin due => held[p] = 0
        BY <1>0, <3>1 DEF Events!TypeOK
      <4>2. have[p] = 0
        BY <1>0, <3>1, <3>2, <4>1
      <4> QED
        BY <1>2, <3>2, <4>2
    <3>3. CASE p \notin O
      <4>1. p \notin due \/ p \notin live
        <5>1. CASE p = Events!CurrentCall(c)
          BY <1>0, <3>3, <5>1, CurrentName DEF O
        <5>2. CASE p = Events!Content(c)
          BY <3>3, <5>2, ChoiceNames DEF O
        <5> QED
          BY <5>1, <5>2 DEF due, Events!DueBefore
      <4>2. held[p] = 0
        BY <1>0, <3>1, <4>1 DEF Events!TypeOK
      <4> QED
        BY <1>2, <3>3, <4>2
    <3> QED
      BY <3>2, <3>3
  <2>5. ASSUME NEW e \in Events!ChatChoices \ chat' PROVE Events!OfChoice(e) \intersect live' = {}
    <3>1. e # c /\ e \notin chat
      BY <1>3, <2>5
    <3>2. Events!OfChoice(e) \intersect live = {}
      BY <1>0, <3>1 DEF Events!TypeOK
    <3>3. Events!OfChoice(e) \intersect O = {}
      BY <3>1, OtherChoices DEF O
    <3> QED
      BY <1>0, <1>3, <3>2, <3>3
  <2>6. events' \in 0..MaxEvents
    BY <1>0, RestorerAssumption DEF Events!TypeOK
  <2>7. protocol' \in {"anthropic", "chat", "responses"} /\ up' \in {"open", "failed", "done", "eof"}
    BY <1>0 DEF Events!TypeOK
  <2> QED
    BY <1>6, <2>1, <2>2, <2>3, <2>4, <2>5, <2>6, <2>7 DEF Events!TypeOK
<1>8. NoneLost'
  <2>1. ASSUME NEW p \in Events!Parts PROVE client'.got[p] + held'[p] = fed'[p]
    <3>1. client.got[p] \in Nat /\ held[p] \in Nat /\ client.got[p] + held[p] = fed[p]
          /\ fed'[p] = fed[p] + (IF p \in F THEN 1 ELSE 0)
      BY <1>0, <1>3 DEF NoneLost, Client
    <3>2. CASE p \in O
      <4>1. stays[p] + n[p] = (IF p \in due THEN 0 ELSE held[p]) + (IF p \in F THEN 1 ELSE 0)
            /\ stays[p] \in Nat /\ n[p] \in Nat /\ held'[p] = stays[p]
        BY <1>0, <1>2, <3>2
      <4>2. p \notin P => n[p] = 0
        BY <1>0, <1>2, <3>2
      <4>3. client'.got[p] = (IF p \in due THEN client.got[p] + held[p] ELSE client.got[p]) + n[p]
        BY <1>4, <1>5, <3>1, <3>2, <4>1, <4>2
      <4>4. CASE p \in due
        BY <3>1, <4>1, <4>3, <4>4
      <4>5. CASE p \notin due
        <5>1. client'.got[p] = client.got[p] + n[p] /\ held'[p] = stays[p]
              /\ stays[p] + n[p] = held[p] + (IF p \in F THEN 1 ELSE 0)
          BY <4>1, <4>3, <4>5
        <5> QED
          BY <3>1, <4>1, <5>1
      <4> QED
        BY <4>4, <4>5
    <3>3. CASE p \notin O
      <4>1. p \notin F /\ p \notin P /\ held'[p] = held[p]
        BY <1>0, <1>2, <3>3
      <4> QED
        BY <1>4, <1>5, <3>1, <3>3, <4>1
    <3> QED
      BY <3>2, <3>3
  <2> QED
    BY <1>0, <2>1 DEF NoneLost
<1>9. ASSUME NoneTrails, OneAtATime(d) PROVE NoneTrails'
  <2>1. ended \subseteq ended' /\ \A p \in ended' : p \in ended \/ p \in O
    BY <1>0, EndedWithParts DEF EndedWith, O
  <2>2. Clear(P, ended')
    BY <1>9, DeltaOpen DEF Clear, P, parts
  <2>3. client'.late = {} /\ client'.shut \subseteq ended'
    <3>1. r.late = {} /\ r.shut \subseteq ended'
      BY <1>0, <1>9, <2>1, <2>2, RewriteOrder DEF O, P, r, es
    <3> QED
      BY <1>5, <3>1
  <2>4. /\ \A p \in Events!Parts \ Events!OfChoice(c) : held'[p] > 0 =>
               p \notin ended' /\ Events!EndedBy(Events!Text(p, held'[p])) \subseteq ended'
        /\ \A b \in Events!Blocks : Events!Block(b) \in live' => Events!Block(b) \notin ended'
        /\ \A e \in Events!ChatChoices \ {c} :
               /\ tool_index'[e] # Events!None =>
                      Events!EndedBy(Events!Text(Events!Tool(e, tool_index'[e]), 0)) \subseteq ended'
               /\ \A t \in Events!Tools : held'[Events!Tool(e, t)] > 0 => tool_index'[e] = t
    <3>1. \A p \in Events!Parts \ Events!OfChoice(c) : held'[p] = held[p]
      BY <1>2 DEF O
    <3>2. \A p \in live' : p \in live \/ p \in Events!OfChoice(c)
      BY <1>0, <1>3 DEF O
    <3>3. \A e \in Events!ChatChoices : e # c => tool_index'[e] = tool_index[e]
      BY <1>0, <1>3 DEF Events!TypeOK
    <3> QED
      BY <1>0, <1>9, <2>1, <3>1, <3>2, <3>3, OtherParts DEF O
  <2>5. ASSUME NEW p \in O, held'[p] > 0, p \notin F
        PROVE  p \notin due /\ held[p] > 0 /\ held'[p] = held[p]
    <3>1. held'[p] = have[p] /\ p \in Events!Parts
      BY <1>0, <1>2, <2>5
    <3> QED
      BY <1>0, <2>5, <3>1
  <2>6. ASSUME NEW p \in O, held'[p] > 0
        PROVE  p \notin ended' /\ Events!EndedBy(Events!Text(p, held'[p])) \subseteq ended'
    <3>1. CASE p \in F
      <4>1. \A m : Events!EndedBy(Events!Text(p, m)) = Events!EndedBy(Events!Text(p, 0))
        BY DEF Events!EndedBy, Events!Text
      <4>2. p \in P
        BY <1>0, <3>1
      <4> QED
        BY <2>2, <4>1, <4>2 DEF Clear
    <3>2. CASE p \notin F
      BY <1>0, <1>9, <2>5, <2>6, <3>2, OthersOpen DEF O, due
    <3> QED
      BY <3>1, <3>2
  <2>7. tool_index'[c] = IF d.args /\ d.calls # <<>> THEN Events!Last(d.calls) ELSE tool_index[c]
    BY <1>0, <1>3 DEF Events!TypeOK
  <2>8. ASSUME tool_index'[c] # Events!None
        PROVE  Events!EndedBy(Events!Text(Events!Tool(c, tool_index'[c]), 0)) \subseteq ended'
    <3>1. CASE d.args /\ d.calls # <<>>
      <4>1. PICK t \in Events!Tools :
                Events!Last(d.calls) = t /\ Events!ToSet(Events!CallsIn(c, d)) = {Events!Tool(c, t)}
        BY <1>9, <3>1, OneCall
      <4> QED
        BY <2>7, <3>1, <4>1 DEF EndedWith
    <3>2. CASE ~(d.args /\ d.calls # <<>>)
      <4>1. tool_index'[c] = tool_index[c]
        BY <2>7, <3>2
      <4> QED
        BY <1>9, <2>1, <2>8, <4>1 DEF NoneTrails, Events!CurrentCall
    <3> QED
      BY <3>1, <3>2
  <2>9. ASSUME NEW t \in Events!Tools, held'[Events!Tool(c, t)] > 0 PROVE tool_index'[c] = t
    <3> DEFINE p == Events!Tool(c, t)
    <3>1. p \in O
      BY ChoiceNames DEF O
    <3>2. CASE p \in F
      <4>1. p \in Events!ToSet(Events!CallsIn(c, d))
        <5>1. p \in Events!ToSet(Events!PartsIn(c, d))
          BY <1>0, <3>2 DEF P, parts
        <5> QED
          BY <5>1, PartKinds, NamesDiffer
      <4>2. d.args
        BY <3>2, <4>1 DEF F, Events!FedBy
      <4>3. d.calls # <<>>
        <5>1. CASE d.calls = <<>>
          <6>1. Events!ToSet(Events!CallsIn(c, d)) = {}
            BY <5>1 DEF Events!ToSet, Events!CallsIn
          <6> QED
            BY <4>1, <6>1
        <5> QED
          BY <5>1
      <4>4. PICK u \in Events!Tools :
                Events!Last(d.calls) = u /\ Events!ToSet(Events!CallsIn(c, d)) = {Events!Tool(c, u)}
        BY <1>9, <4>3, OneCall
      <4>5. u = t
        BY <4>1, <4>4, NamesDiffer
      <4> QED
        BY <2>7, <4>2, <4>3, <4>4, <4>5
    <3>3. CASE p \notin F
      <4>1. p \notin due /\ held[p] > 0
        BY <2>5, <2>9, <3>1, <3>3
      <4>2. tool_index[c] = t
        BY <1>9, <4>1 DEF NoneTrails
      <4>3. CASE d.args /\ d.calls # <<>>
        <5>1. PICK u \in Events!Tools :
                  /\ Head(d.calls) = u /\ Events!Last(d.calls) = u
                  /\ Events!ToSet(Events!CallsIn(c, d)) = {Events!Tool(c, u)}
          BY <1>9, <4>3, OneCall
        <5>2. CASE u = t
          BY <2>7, <4>3, <5>1, <5>2
        <5>3. CASE u # t
          BY <4>1, <4>2, <4>3, <5>1, <5>3 DEF due, Events!DueBefore, Events!CurrentCall
        <5> QED
          BY <5>2, <5>3
      <4> QED
        BY <2>7, <4>2, <4>3
    <3> QED
      BY <3>2, <3>3
  <2>10. Open(Events!Parts, ended)'
    BY <2>4, <2>6 DEF Open, O
  <2> QED
    BY <2>3, <2>4, <2>8, <2>9, <2>10 DEF NoneTrails, Events!CurrentCall
<1> QED
  BY <1>7, <1>8, <1>9 DEF EventsInv

LEMMA ChatFinishes ==
    ASSUME EventsInv, NEW c \in Events!ChatChoices, NEW d \in Deltas, Events!WellFormed(c, d),
           Events!Event("chat"), UNCHANGED <<protocol, up>>,
           Events!ChatRewrite(c, d, TRUE), ended' = EndedWith(c, d) \union Events!OfChoice(c)
    PROVE  EventsInv'
<1> DEFINE O == Events!OfChoice(c)
           F == Events!FedBy(c, d)
           due == Events!DueBefore(c, d)
           have == Events!Have(c, d)
           parts == Events!PartsIn(c, d)
           P == Events!ToSet(parts)
           rest == O \ (P \union due)
<1>0. /\ Events!TypeOK /\ NoneLost /\ client \in Client /\ held \in [Events!Parts -> Nat]
      /\ fed \in [Events!Parts -> Nat] /\ up = "open" /\ up' = "open"
      /\ events < MaxEvents /\ events' = events + 1
      /\ Distinct(parts, c) /\ P \subseteq O /\ F \subseteq P /\ O \subseteq Events!Parts
      /\ have \in [O -> Nat]
      /\ \A p \in O : have[p] = (IF p \in due THEN 0 ELSE held[p]) + (IF p \in F THEN 1 ELSE 0)
  <2>1. Events!TypeOK /\ NoneLost
    BY DEF EventsInv
  <2>2. up = "open" /\ up' = "open" /\ events < MaxEvents /\ events' = events + 1
    BY DEF Events!Event
  <2>3. \A p \in O : have[p] = (IF p \in due THEN 0 ELSE held[p]) + (IF p \in F THEN 1 ELSE 0)
    BY DEF Events!Have
  <2> QED
    BY <2>1, <2>2, <2>3, ClientType, DeltaNames, HaveType
<1>2. PICK n \in [O -> Nat] :
          /\ n = have
          /\ held' = [p \in Events!Parts |-> IF p \in O THEN 0 ELSE held[p]]
          /\ client' = Events!Reading(client,
                 Events!FlushTails(c, due) \o Events!TextsOf(parts, n)
                     \o (Events!FlushTails(c, rest) \o <<Events!Ends(O)>>))
  BY <1>0, FinishesShape
<1>3. /\ fed' = [p \in Events!Parts |-> fed[p] + (IF p \in F THEN 1 ELSE 0)]
      /\ live' = live \ O /\ chat' = chat \ {c}
      /\ tool_index' = [tool_index EXCEPT ![c] = Events!None]
  BY DEF Events!ChatRewrite
<1> DEFINE ft == Events!FlushTails(c, due)
           es == Events!TextsOf(parts, n)
           gt == Events!FlushTails(c, rest)
           x == <<Events!Ends(O)>>
           r == Events!Reading(Events!Reading(client, ft), es)
           r2 == Events!Reading(r, gt)
<1> HIDE DEF O, F, due, have, parts, P, rest
<1>4. /\ r \in Client /\ es \in Seq(SseEvents) /\ ft \in Seq(SseEvents)
      /\ \A p \in Events!Parts :
             r.got[p] = (IF p \in O \intersect due THEN client.got[p] + held[p] ELSE client.got[p])
                        + (IF p \in P THEN n[p] ELSE 0)
  BY <1>0, RewriteReads DEF O, P
<1>5. gt \in Seq(SseEvents) /\ x \in Seq(SseEvents)
  <2>1. gt \in Seq(SseEvents)
    BY <1>0, FlushPlaces DEF IsFlush
  <2>2. Events!Ends(O) \in SseEvents
    BY <1>0 DEF SseEvents
  <2> QED
    BY <2>1, <2>2
<1>6. client' = Events!Reading(r2, x)
  <2>1. client' = Events!Reading(client, ft \o es \o (gt \o x))
        /\ r = Events!Reading(Events!Reading(client, ft), es) /\ r2 = Events!Reading(r, gt)
    BY <1>2
  <2> HIDE DEF ft, es, gt, x, r, r2
  <2>2. gt \o x \in Seq(SseEvents)
    BY <1>5, Concat
  <2>3. client' = Events!Reading(r, gt \o x)
    <3> DEFINE z == gt \o x
    <3>1. /\ client' = Events!Reading(client, ft \o es \o z) /\ z \in Seq(SseEvents)
          /\ ft \in Seq(SseEvents) /\ es \in Seq(SseEvents) /\ client \in Client
      BY <1>0, <1>4, <2>1, <2>2
    <3> HIDE DEF z
    <3>2. client' = Events!Reading(Events!Reading(Events!Reading(client, ft), es), z)
      BY <3>1, ReadThree
    <3> QED
      BY <2>1, <3>2 DEF z
  <2>4. Events!Reading(r, gt \o x) = Events!Reading(Events!Reading(r, gt), x)
    BY <1>4, <1>5, ReadOn
  <2> QED
    BY <2>1, <2>3, <2>4
<1>7. r2 \in Client /\ \A p \in Events!Parts :
          r2.got[p] = IF p \in O \intersect rest THEN r.got[p] + held[p] ELSE r.got[p]
  <2> HIDE DEF r
  <2>1. r2 \in Client
    <3> HIDE DEF gt
    <3> QED BY <1>4, <1>5, ReadTypes
  <2>2. ASSUME NEW p \in Events!Parts
        PROVE  r2.got[p] = IF p \in O \intersect rest THEN r.got[p] + held[p] ELSE r.got[p]
    BY <1>0, <1>4, FlushGot DEF O
  <2> QED
    BY <2>1, <2>2
<1>8. client' \in Client /\ client'.got = r2.got /\ client'.late = r2.late
      /\ client'.shut = r2.shut \union O
  <2> HIDE DEF r2
  <2>1. client' \in Client
    <3> HIDE DEF x
    <3> QED BY <1>5, <1>6, <1>7, ReadTypes
  <2>2. O \in SUBSET Events!Parts
    BY <1>0
  <2> QED
    BY <1>6, <1>7, <2>1, <2>2, ReadEnds
<1>9. Events!TypeOK'
  <2>1. client' \in [got : [Events!Parts -> Nat], late : SUBSET Events!Parts, shut : SUBSET Events!Parts]
    BY <1>8 DEF Client
  <2>2. held' \in [Events!Parts -> Nat] /\ fed' \in [Events!Parts -> Nat]
    BY <1>0, <1>2, <1>3
  <2>3. live' \subseteq Events!Parts /\ chat' \subseteq Events!ChatChoices
        /\ ended' \subseteq Events!Parts
    BY <1>0, <1>3, EndedWithParts DEF Events!TypeOK, O
  <2>4. ASSUME NEW p \in Events!Parts \ live' PROVE held'[p] = 0
    BY <1>0, <1>2, <1>3, <2>4 DEF Events!TypeOK
  <2>5. ASSUME NEW e \in Events!ChatChoices \ chat' PROVE Events!OfChoice(e) \intersect live' = {}
    <3>1. CASE e = c
      BY <1>3, <3>1 DEF O
    <3>2. CASE e # c
      BY <1>0, <1>3, <2>5, <3>2 DEF Events!TypeOK
    <3> QED
      BY <3>1, <3>2
  <2>6. events' \in 0..MaxEvents
    BY <1>0, RestorerAssumption DEF Events!TypeOK
  <2>7. protocol' \in {"anthropic", "chat", "responses"} /\ up' \in {"open", "failed", "done", "eof"}
    BY <1>0 DEF Events!TypeOK
  <2>8. tool_index' \in [Events!ChatChoices -> Events!Tools \union {Events!None}]
    BY <1>0, <1>3 DEF Events!TypeOK
  <2> QED
    BY <2>1, <2>2, <2>3, <2>4, <2>5, <2>6, <2>7, <2>8 DEF Events!TypeOK
<1>10. NoneLost'
  <2>1. ASSUME NEW p \in Events!Parts PROVE client'.got[p] + held'[p] = fed'[p]
    <3>1. client.got[p] \in Nat /\ held[p] \in Nat /\ client.got[p] + held[p] = fed[p]
          /\ fed'[p] = fed[p] + (IF p \in F THEN 1 ELSE 0)
      BY <1>0, <1>3 DEF NoneLost, Client
    <3>2. client'.got[p] = r2.got[p]
      BY <1>8
    <3> HIDE DEF r2
    <3>3. CASE p \in O
      <4>1. n[p] = (IF p \in due THEN 0 ELSE held[p]) + (IF p \in F THEN 1 ELSE 0)
            /\ held'[p] = 0
        BY <1>0, <1>2, <3>3
      <4>2. r.got[p] = (IF p \in due THEN client.got[p] + held[p] ELSE client.got[p])
                        + (IF p \in P THEN n[p] ELSE 0)
        BY <1>4, <3>3
      <4>3. r2.got[p] = IF p \notin P /\ p \notin due THEN r.got[p] + held[p] ELSE r.got[p]
        BY <1>7, <3>3 DEF rest
      <4>4. p \in F => p \in P
        BY <1>0
      <4> HIDE DEF r
      <4>5. CASE p \in due
        BY <3>1, <3>2, <4>1, <4>2, <4>3, <4>4, <4>5
      <4>6. CASE p \notin due /\ p \in P
        <5>1. n[p] = held[p] + (IF p \in F THEN 1 ELSE 0)
          BY <4>1, <4>6
        <5>2. client'.got[p] = client.got[p] + n[p]
          BY <3>2, <4>2, <4>3, <4>6
        <5> QED
          BY <3>1, <4>1, <5>1, <5>2
      <4>7. CASE p \notin due /\ p \notin P
        BY <3>1, <3>2, <4>1, <4>2, <4>3, <4>4, <4>7
      <4> QED
        BY <4>5, <4>6, <4>7
    <3>4. CASE p \notin O
      <4>1. p \notin F /\ p \notin P /\ held'[p] = held[p]
        BY <1>0, <1>2, <3>4
      <4>2. r.got[p] = client.got[p]
        BY <1>4, <3>1, <3>4, <4>1
      <4> HIDE DEF r
      <4> QED
        BY <1>7, <3>1, <3>2, <3>4, <4>1, <4>2
    <3> QED
      BY <3>3, <3>4
  <2> QED
    BY <1>0, <2>1 DEF NoneLost
<1>11. ASSUME NoneTrails, OneAtATime(d) PROVE NoneTrails'
  <2> DEFINE E == EndedWith(c, d)
  <2>1. ended \subseteq E /\ E \subseteq ended' /\ O \subseteq ended'
        /\ \A p \in ended' : p \in ended \/ p \in O
    BY <1>0, EndedWithParts DEF EndedWith, O
  <2>2. Clear(P, E)
    BY <1>11, DeltaOpen DEF Clear, P, parts
  <2> HIDE DEF E
  <2>3. r.late = {} /\ r.shut \subseteq E
    BY <1>0, <1>11, <2>1, <2>2, RewriteOrder DEF O, P
  <2>4. Open(O \intersect rest, E)
    BY <1>0, <1>11, OthersOpen DEF Open, rest, due, O, E
  <2>5. r2.late = {} /\ r2.shut \subseteq E
    <3>1. r2 = Events!Reading(r, Events!FlushTails(c, rest))
      OBVIOUS
    <3>2. Open(Events!OfChoice(c) \intersect rest, E) /\ r \in Client /\ Events!TypeOK
      BY <1>0, <1>4, <2>4 DEF O
    <3> HIDE DEF r, r2
    <3>3. r2.late = r.late
      BY <2>3, <3>1, <3>2, FlushKeepsOrder
    <3>4. r2.shut \subseteq E
      BY <2>3, <3>1, <3>2, FlushKeepsOrder
    <3> QED
      BY <2>3, <3>3, <3>4
  <2>6. client'.late = {} /\ client'.shut \subseteq ended'
    <3> HIDE DEF r2
    <3> QED BY <1>8, <2>1, <2>5
  <2>7. /\ \A p \in Events!Parts \ Events!OfChoice(c) : held'[p] > 0 =>
               p \notin ended' /\ Events!EndedBy(Events!Text(p, held'[p])) \subseteq ended'
        /\ \A b \in Events!Blocks : Events!Block(b) \in live' => Events!Block(b) \notin ended'
        /\ \A e \in Events!ChatChoices \ {c} :
               /\ tool_index'[e] # Events!None =>
                      Events!EndedBy(Events!Text(Events!Tool(e, tool_index'[e]), 0)) \subseteq ended'
               /\ \A t \in Events!Tools : held'[Events!Tool(e, t)] > 0 => tool_index'[e] = t
    <3>1. \A p \in Events!Parts \ Events!OfChoice(c) : held'[p] = held[p]
      BY <1>2 DEF O
    <3>2. \A p \in live' : p \in live \/ p \in Events!OfChoice(c)
      BY <1>0, <1>3 DEF O
    <3>3. \A e \in Events!ChatChoices : e # c => tool_index'[e] = tool_index[e]
      BY <1>0, <1>3 DEF Events!TypeOK
    <3>4. ended \subseteq ended'
      BY <2>1
    <3> QED
      BY <1>0, <1>11, <2>1, <3>1, <3>2, <3>3, <3>4, OtherParts DEF O
  <2>8. \A p \in O : held'[p] = 0
    BY <1>0, <1>2
  <2>9. tool_index'[c] = Events!None
    BY <1>0, <1>3 DEF Events!TypeOK
  <2>10. \A t \in Events!Tools : held'[Events!Tool(c, t)] = 0
    BY <2>8, ChoiceNames DEF O
  <2>11. Open(Events!Parts, ended)'
    BY <2>7, <2>8 DEF Open, O
  <2> QED
    BY <2>6, <2>7, <2>9, <2>10, <2>11 DEF NoneTrails, Events!CurrentCall
<1> QED
  BY <1>9, <1>10, <1>11 DEF EventsInv

\* A chunk that goes out as it came.
LEMMA ChatPasses ==
    ASSUME EventsInv, NEW c \in Events!ChatChoices, NEW d \in Deltas, NEW finishing \in BOOLEAN,
           Events!Event("chat"), UNCHANGED <<protocol, up>>, Events!ChatPass(c, d, finishing),
           ended' = EndedWith(c, d) \union (IF finishing THEN Events!OfChoice(c) ELSE {})
    PROVE  EventsInv'
<1> DEFINE O == Events!OfChoice(c)
<1>0. /\ Events!TypeOK /\ NoneLost /\ client \in Client /\ held \in [Events!Parts -> Nat]
      /\ up = "open" /\ up' = "open" /\ events < MaxEvents /\ events' = events + 1
      /\ O \subseteq Events!Parts /\ UNCHANGED <<protocol, fed, held, live, chat, tool_index>>
      /\ finishing => c \notin chat
  <2>1. Events!TypeOK /\ NoneLost
    BY DEF EventsInv
  <2>2. up = "open" /\ up' = "open" /\ events < MaxEvents /\ events' = events + 1
    BY DEF Events!Event
  <2> QED
    BY <2>1, <2>2, ClientType, PartNames DEF Events!ChatPass
<1>1. ended' = ended \union (IF finishing THEN O ELSE {})
  <2>1. d.calls = <<>>
    BY DEF Events!ChatPass
  <2>2. Events!ToSet(Events!CallsIn(c, d)) = {}
    BY <2>1 DEF Events!ToSet, Events!CallsIn
  <2> QED
    BY <2>2 DEF EndedWith
<1>2. finishing => \A p \in O : held[p] = 0
  BY <1>0 DEF Events!TypeOK
<1>3. /\ client' \in Client /\ client'.got = client.got /\ client'.late = client.late
      /\ client'.shut = client.shut \union (IF finishing THEN O ELSE {})
  <2>1. CASE finishing
    <3>1. client' = Events!Reading(client, <<Events!Ends(O)>>)
      BY <2>1 DEF Events!ChatPass, Events!Send
    <3>2. O \in SUBSET Events!Parts
      BY <1>0
    <3> HIDE DEF O
    <3>3. client' \in Client
      BY <1>0, <3>1, <3>2, ReadEnds, ReadTypes
    <3> QED
      BY <1>0, <2>1, <3>1, <3>2, <3>3, ReadEnds
  <2>2. CASE ~finishing
    <3>1. client' = Events!Reading(client, <<>>)
      BY <2>2 DEF Events!ChatPass, Events!Send
    <3>2. client' = client
      BY <1>0, <3>1, ReadEmpty
    <3> QED
      BY <1>0, <2>2, <3>2
  <2> QED
    BY <2>1, <2>2
<1> HIDE DEF O
<1>4. Events!TypeOK'
  <2>1. client' \in [got : [Events!Parts -> Nat], late : SUBSET Events!Parts, shut : SUBSET Events!Parts]
    BY <1>3 DEF Client
  <2>2. ended' \subseteq Events!Parts /\ events' \in 0..MaxEvents
    BY <1>0, <1>1, RestorerAssumption DEF Events!TypeOK
  <2> QED
    BY <1>0, <2>1, <2>2 DEF Events!TypeOK
<1>5. NoneLost'
  BY <1>0, <1>3 DEF NoneLost
<1>6. ASSUME NoneTrails PROVE NoneTrails'
  <2>1. client'.late = {} /\ client'.shut \subseteq ended'
    BY <1>1, <1>3, <1>6 DEF NoneTrails
  <2>2. Open(Events!Parts, ended)'
    BY <1>0, <1>1, <1>2, <1>6 DEF NoneTrails, Open
  <2>3. \A b \in Events!Blocks : Events!Block(b) \in live' => Events!Block(b) \notin ended'
    <3>1. \A b \in Events!Blocks : Events!Block(b) \notin O
      BY EveryPart DEF BlockParts, UpTo, Events!ChatChoices, O
    <3> QED
      BY <1>0, <1>1, <1>6, <3>1 DEF NoneTrails
  <2> QED
    BY <1>0, <1>1, <1>6, <2>1, <2>2, <2>3 DEF NoneTrails, Events!CurrentCall
<1> QED
  BY <1>4, <1>5, <1>6 DEF EventsInv

\* Every event of SseStream keeps its invariant.
LEMMA ContentStep ==
    ASSUME EventsInv, Events!ContentEvent
    PROVE  EventsInv'
<1>1. ASSUME NEW b \in Events!Blocks,
             Events!BlockStart(b) \/ Events!BlockDelta(b) \/ Events!BlockStop(b)
      PROVE  EventsInv'
  BY <1>1, BlockStep
<1>2. ASSUME NEW c \in Events!ChatChoices, NEW d \in Deltas, NEW finishing \in BOOLEAN,
             Events!ChatDelta(c, d, finishing)
      PROVE  EventsInv'
  <2>1. /\ Events!Event("chat") /\ Events!WellFormed(c, d) /\ UNCHANGED <<protocol, up>>
        /\ ended' = EndedWith(c, d) \union (IF finishing THEN Events!OfChoice(c) ELSE {})
    <3>1. Events!Event("chat") /\ Events!WellFormed(c, d)
      BY <1>2 DEF Events!ChatDelta
    <3>2. UNCHANGED <<protocol, up>>
      BY <1>2 DEF Events!ChatDelta
    <3>3. ended' = EndedWith(c, d) \union (IF finishing THEN Events!OfChoice(c) ELSE {})
      <4> DEFINE U == UNION {Events!EndedBy(Events!Text(p, 0)) :
                              p \in Events!ToSet(Events!CallsIn(c, d))}
      <4>1. ended' = ended \union U \union (IF finishing THEN Events!OfChoice(c) ELSE {})
        BY <1>2 DEF Events!ChatDelta
      <4>2. EndedWith(c, d) = ended \union U
        BY DEF EndedWith
      <4> HIDE DEF U
      <4> QED
        BY <4>1, <4>2
    <3> QED
      BY <3>1, <3>2, <3>3
  <2>2. CASE Events!ChatPass(c, d, finishing)
    BY <2>1, <2>2, ChatPasses
  <2>3. CASE Events!ChatRewrite(c, d, finishing) /\ finishing = TRUE
    <3>1. Events!ChatRewrite(c, d, TRUE) /\ ended' = EndedWith(c, d) \union Events!OfChoice(c)
      BY <2>1, <2>3
    <3> QED
      BY <2>1, <3>1, ChatFinishes
  <2>4. CASE Events!ChatRewrite(c, d, finishing) /\ finishing = FALSE
    <3>1. Events!ChatRewrite(c, d, FALSE) /\ ended' = EndedWith(c, d)
      BY <2>1, <2>4
    <3> QED
      BY <2>1, <3>1, ChatGoesOn
  <2> QED
    BY <1>2, <2>2, <2>3, <2>4 DEF Events!ChatDelta
<1> QED
  BY <1>1, <1>2 DEF Events!ContentEvent

LEMMA EventsStutter ==
    ASSUME EventsInv, UNCHANGED eventVars
    PROVE  EventsInv'
<1> USE DEF eventVars
<1>1. Events!TypeOK'
  BY DEF EventsInv, Events!TypeOK
<1>2. NoneLost'
  BY DEF EventsInv, NoneLost
<1>3. NoneTrails => NoneTrails'
  BY DEF NoneTrails, Open, Events!CurrentCall
<1> QED
  BY <1>1, <1>2, <1>3 DEF EventsInv

------------------------------------------------------------------------------
(* A client that reads the events of ResponsesStream.                        *)

Numbering == Nat \union {Responses!Unset}
Reader ==
    [got : [Responses!Keys -> Nat], late : SUBSET Responses!Keys, shut : SUBSET Responses!Keys,
     seq : Numbering, gaps : SUBSET Nat]

\* Fragments of a field, or of none.
Outs ==
    {e \in [key : Responses!Keys \union {<<>>}, n : Nat, ends : SUBSET Responses!Keys,
            seq : Numbering] : e.n > 0 => e.key \in Responses!Keys}

Brings(e, k) == e.n > 0 /\ e.key = k

LEMMA OutFacts ==
    ASSUME NEW e \in Outs
    PROVE  /\ e.n \in Nat /\ e.ends \subseteq Responses!Keys /\ e.seq \in Numbering
           /\ e.n > 0 => e.key \in Responses!Keys
BY DEF Outs, Responses!Out

LEMMA ReaderFacts ==
    ASSUME NEW c \in Reader, NEW e \in Outs
    PROVE  /\ Responses!Read(c, e) \in Reader
           /\ \A k \in Responses!Keys :
                  Responses!Read(c, e).got[k] = IF Brings(e, k) THEN c.got[k] + e.n ELSE c.got[k]
           /\ Responses!Read(c, e).shut = c.shut \union e.ends
           /\ ~(e.n > 0 /\ e.key \in c.shut) => Responses!Read(c, e).late = c.late
           /\ Responses!Read(c, e).seq = IF e.seq = Responses!Unset THEN c.seq ELSE e.seq
           /\ ~(e.seq # Responses!Unset /\ c.seq # Responses!Unset /\ e.seq # c.seq + 1) =>
                  Responses!Read(c, e).gaps = c.gaps
<1>1. /\ e.n \in Nat /\ e.ends \subseteq Responses!Keys /\ e.seq \in Numbering
      /\ e.n > 0 => e.key \in Responses!Keys
  BY OutFacts
<1>2. /\ c.got \in [Responses!Keys -> Nat] /\ c.late \subseteq Responses!Keys
      /\ c.shut \subseteq Responses!Keys /\ c.seq \in Numbering /\ c.gaps \subseteq Nat
  BY DEF Reader
<1> DEFINE R == Responses!Read(c, e)
<1>3. R = [got |-> R.got, late |-> R.late, shut |-> R.shut, seq |-> R.seq, gaps |-> R.gaps]
  BY DEF Responses!Read
<1>4. R.got \in [Responses!Keys -> Nat] /\ \A k \in Responses!Keys :
          R.got[k] = IF Brings(e, k) THEN c.got[k] + e.n ELSE c.got[k]
  BY <1>1, <1>2 DEF Responses!Read, Brings
<1>5. R.late \subseteq Responses!Keys /\ (~(e.n > 0 /\ e.key \in c.shut) => R.late = c.late)
  BY <1>1, <1>2 DEF Responses!Read
<1>6. R.shut = c.shut \union e.ends
  BY DEF Responses!Read
<1>7. R.seq = (IF e.seq = Responses!Unset THEN c.seq ELSE e.seq) /\ R.seq \in Numbering
  BY <1>1, <1>2 DEF Responses!Read
<1>8. R.gaps \subseteq Nat
      /\ (~(e.seq # Responses!Unset /\ c.seq # Responses!Unset /\ e.seq # c.seq + 1) => R.gaps = c.gaps)
  BY <1>1, <1>2 DEF Responses!Read, Numbering
<1> HIDE DEF R
<1>9. R \in Reader
  BY <1>1, <1>2, <1>3, <1>4, <1>5, <1>6, <1>7, <1>8 DEF Reader
<1> QED
  BY <1>4, <1>5, <1>6, <1>7, <1>8, <1>9 DEF R

LEMMA ReaderShut ==
    ASSUME NEW c \in Reader, NEW e \in Outs
    PROVE  /\ Responses!Read(c, e).shut = c.shut \union e.ends
           /\ (e.n > 0 /\ e.key \in c.shut) \/ Responses!Read(c, e).late = c.late
BY ReaderFacts

LEMMA ReaderGot ==
    ASSUME NEW c \in Reader, NEW e \in Outs, NEW k \in Responses!Keys
    PROVE  /\ Brings(e, k) => Responses!Read(c, e).got[k] = c.got[k] + e.n
           /\ ~Brings(e, k) => Responses!Read(c, e).got[k] = c.got[k]
BY ReaderFacts

\* The places of a reading, and of a numbering.
IsRead(at, c, es) ==
    /\ at \in [0..Len(es) -> Reader]
    /\ at[0] = c
    /\ \A i \in 1..Len(es) : at[i] = Responses!Read(at[i - 1], es[i])

LEMMA ReadPlace ==
    ASSUME NEW at, NEW c, NEW es \in Seq(Outs), IsRead(at, c, es), NEW i \in 1..Len(es)
    PROVE  /\ at[i - 1] \in Reader /\ es[i] \in Outs
           /\ at[i] = Responses!Read(at[i - 1], es[i])
<1>1. i - 1 \in 0..Len(es)
  OBVIOUS
<1> QED
  BY <1>1 DEF IsRead

LEMMA ReaderReadings ==
    ASSUME NEW c \in Reader, NEW es \in Seq(Outs)
    PROVE  \E at : IsRead(at, c, es) /\ Responses!Reading(c, es) = at[Len(es)]
<1> DEFINE n == Len(es)
           F == [x \in (1..n) \X Reader |-> Responses!Read(x[2], es[x[1]])]
<1>1. n \in Nat /\ \A i \in 1..n : es[i] \in Outs
  OBVIOUS
<1> HIDE DEF n
<1>2. F \in [(1..n) \X Reader -> Reader]
  BY <1>1, ReaderFacts
<1>3. \A i \in 1..n : \A v \in Reader : F[<<i, v>>] = Responses!Read(v, es[i])
  OBVIOUS
<1> HIDE DEF F
<1>4. PICK f \in [0..n -> Reader] : Follows(f, n, c, F)
  <2>1. n \in Nat
    BY <1>1
  <2> QED
    BY <1>2, <2>1, Iterates
<1>5. ASSUME NEW i \in 1..n PROVE f[i] = Responses!Read(f[i - 1], es[i])
  <2>1. f[i - 1] \in Reader
    BY <1>1, <1>4
  <2> QED
    BY <1>3, <1>4, <2>1 DEF Follows
<1> DEFINE Unrolled(g) == [i \in 0..n |-> IF i = 0 THEN c ELSE Responses!Read(g[i - 1], es[i])]
           at == CHOOSE g : g = Unrolled(g)
<1>6. f = Unrolled(f)
  BY <1>1, <1>4, <1>5 DEF Follows
<1>7. at = Unrolled(at)
  <2> HIDE DEF Unrolled
  <2> QED BY <1>6
<1>8. Responses!Reading(c, es) = at[n]
  BY DEF Responses!Reading, n
<1> HIDE DEF at
<1>9. at[0] = c /\ DOMAIN at = 0..n /\ at = [i \in 0..n |-> at[i]]
      /\ \A i \in 1..n : at[i] = Responses!Read(at[i - 1], es[i])
  BY <1>1, <1>7
<1> HIDE DEF Unrolled
<1> DEFINE S == {i \in 0..n : at[i] \in Reader}
<1>10. 0 \in S
  BY <1>1, <1>9
<1>11. ASSUME NEW i \in 1..n, i - 1 \in S PROVE i \in S
  <2>1. at[i - 1] \in Reader /\ es[i] \in Outs /\ at[i] = Responses!Read(at[i - 1], es[i])
    BY <1>1, <1>9, <1>11
  <2>2. at[i] \in Reader
    BY <2>1, ReaderFacts
  <2> QED
    BY <2>2
<1>12. \A i \in 0..n : i \in S
  <2> HIDE DEF S
  <2> QED BY <1>1, <1>10, <1>11, EveryPlace
<1>13. at \in [0..n -> Reader]
  BY <1>9, <1>12
<1> QED
  BY <1>8, <1>9, <1>13 DEF IsRead, n

IsNumbering(at, es) ==
    /\ at \in [0..Len(es) -> Numbering]
    /\ at[0] = last
    /\ \A i \in 1..Len(es) :
           at[i] = IF es[i].seq = Responses!Unset THEN at[i - 1]
                   ELSE IF at[i - 1] = Responses!Unset THEN es[i].seq ELSE at[i - 1] + 1

LEMMA Numberings ==
    ASSUME NEW es \in Seq(Outs), last \in Numbering
    PROVE  IsNumbering(Responses!Numbers(es), es)
<1> DEFINE n == Len(es)
           V == Numbering
           Next1(i, v) == IF es[i].seq = Responses!Unset THEN v
                          ELSE IF v = Responses!Unset THEN es[i].seq ELSE v + 1
           F == [x \in (1..n) \X V |-> Next1(x[1], x[2])]
<1>1. n \in Nat /\ \A i \in 1..n : es[i] \in Outs /\ es[i].seq \in Numbering
  BY OutFacts
<1> HIDE DEF n
<1>2. \A i \in 1..n : \A v \in V : Next1(i, v) \in V
  BY <1>1 DEF Numbering, Responses!Unset
<1> HIDE DEF Next1, V
<1>3. F \in [(1..n) \X V -> V] /\ last \in V
  BY <1>2 DEF V
<1>4. \A i \in 1..n : \A v \in V : F[<<i, v>>] = Next1(i, v)
  OBVIOUS
<1> HIDE DEF F
<1>5. PICK f \in [0..n -> V] : Follows(f, n, last, F)
  <2>1. n \in Nat
    BY <1>1
  <2> QED
    BY <1>3, <2>1, Iterates
<1>6. ASSUME NEW i \in 1..n PROVE f[i] = Next1(i, f[i - 1])
  <2>1. f[i - 1] \in V
    BY <1>1, <1>5
  <2> QED
    BY <1>4, <1>5, <2>1 DEF Follows
<1> DEFINE Unrolled(g) == [i \in 0..n |-> IF i = 0 THEN last ELSE Next1(i, g[i - 1])]
           at == Responses!Numbers(es)
<1>7. f = Unrolled(f)
  BY <1>1, <1>5, <1>6 DEF Follows
<1>8. at = CHOOSE g : g = Unrolled(g)
  BY DEF Responses!Numbers, n, Next1
<1>9. at = Unrolled(at)
  <2> HIDE DEF Unrolled, at
  <2> QED BY <1>7, <1>8
<1> HIDE DEF at
<1>10. at[0] = last /\ at = [i \in 0..n |-> at[i]] /\ \A i \in 1..n : at[i] = Next1(i, at[i - 1])
  BY <1>1, <1>9
<1> HIDE DEF Unrolled
<1> DEFINE S == {i \in 0..n : at[i] \in V}
<1>11. 0 \in S
  BY <1>1, <1>3, <1>10
<1>12. ASSUME NEW i \in 1..n, i - 1 \in S PROVE i \in S
  <2>1. at[i - 1] \in V /\ at[i] = Next1(i, at[i - 1]) /\ i \in 0..n
    <3>1. at[i - 1] \in V
      BY <1>12
    <3>2. at[i] = Next1(i, at[i - 1])
      BY <1>10
    <3>3. i \in 0..n
      BY <1>1
    <3> QED
      BY <3>1, <3>2, <3>3
  <2>2. at[i] \in V
    BY <1>2, <2>1
  <2> QED
    BY <2>1, <2>2
<1>13. \A i \in 0..n : i \in S
  <2> HIDE DEF S
  <2> QED BY <1>1, <1>11, <1>12, EveryPlace
<1>14. at \in [0..n -> V]
  BY <1>10, <1>13
<1> QED
  BY <1>10, <1>14 DEF IsNumbering, n, V, at, Next1

\* Renumbering changes nothing but the numbers.
LEMMA RenumberFacts ==
    ASSUME NEW es \in Seq(Outs), last \in Numbering, NEW rs, rs = Responses!Renumbered(es)
    PROVE  /\ rs \in Seq(Outs) /\ Len(rs) = Len(es)
           /\ \A i \in 1..Len(es) :
                  /\ rs[i].key = es[i].key /\ rs[i].n = es[i].n /\ rs[i].ends = es[i].ends
                  /\ rs[i].seq = IF es[i].seq = Responses!Unset THEN Responses!Unset
                                 ELSE Responses!Numbers(es)[i]
<1> DEFINE num == Responses!Numbers(es)
           Re(i) == [es[i] EXCEPT !.seq = IF @ = Responses!Unset THEN Responses!Unset ELSE num[i]]
<1>1. DOMAIN es = 1..Len(es) /\ Len(es) \in Nat /\ \A i \in 1..Len(es) : es[i] \in Outs
  OBVIOUS
<1>2. IsNumbering(num, es)
  BY Numberings
<1>3. rs = [i \in 1..Len(es) |-> Re(i)]
  BY <1>1 DEF Responses!Renumbered
<1> HIDE DEF num
<1>4. ASSUME NEW i \in 1..Len(es)
      PROVE  /\ Re(i) \in Outs
             /\ Re(i).key = es[i].key /\ Re(i).n = es[i].n /\ Re(i).ends = es[i].ends
             /\ Re(i).seq = IF es[i].seq = Responses!Unset THEN Responses!Unset ELSE num[i]
  <2>1. num[i] \in Numbering /\ Responses!Unset \in Numbering
    BY <1>1, <1>2 DEF IsNumbering, Numbering
  <2> DEFINE q == IF es[i].seq = Responses!Unset THEN Responses!Unset ELSE num[i]
  <2>2. q \in Numbering
    BY <2>1
  <2>3. Re(i) = [es[i] EXCEPT !.seq = q]
    OBVIOUS
  <2> HIDE DEF q
  <2>4. es[i] \in Outs
    BY <1>1
  <2>5. Re(i) \in Outs
    BY <2>2, <2>3, <2>4 DEF Outs
  <2>6. Re(i).key = es[i].key /\ Re(i).n = es[i].n /\ Re(i).ends = es[i].ends /\ Re(i).seq = q
    BY <2>3, <2>4 DEF Outs
  <2> QED
    BY <2>5, <2>6 DEF q
<1> HIDE DEF Re
<1>5. rs \in Seq(Outs) /\ Len(rs) = Len(es)
  BY <1>1, <1>3, <1>4
<1>6. \A i \in 1..Len(es) : rs[i] = Re(i)
  BY <1>3
<1> QED
  BY <1>4, <1>5, <1>6 DEF num

\* A client reads numbers that follow on from its last one.
LEMMA SendNumbers ==
    ASSUME NEW es \in Seq(Outs), last \in Numbering, reader \in Reader, reader.seq = last,
           Responses!Send(es)
    PROVE  /\ reader' \in Reader /\ last' \in Numbering /\ reader'.seq = last'
           /\ reader'.gaps = reader.gaps
<1> DEFINE n == Len(es)
           num == Responses!Numbers(es)
           rs == Responses!Renumbered(es)
<1>1. reader' = Responses!Reading(reader, rs) /\ last' = num[n]
  BY DEF Responses!Send
<1>2. IsNumbering(num, es)
  BY Numberings
<1>3. /\ rs \in Seq(Outs) /\ Len(rs) = n
      /\ \A i \in 1..n : rs[i].seq = IF es[i].seq = Responses!Unset THEN Responses!Unset ELSE num[i]
  BY RenumberFacts
<1>4. n \in Nat /\ \A i \in 1..n : es[i] \in Outs /\ es[i].seq \in Numbering
  BY OutFacts
<1> HIDE DEF rs, num
<1>5. PICK at : IsRead(at, reader, rs) /\ Responses!Reading(reader, rs) = at[Len(rs)]
  BY <1>3, ReaderReadings
<1> HIDE DEF n
<1> DEFINE S == {i \in 0..n : at[i].seq = num[i] /\ at[i].gaps = reader.gaps}
<1>6. 0 \in S
  BY <1>2, <1>3, <1>4, <1>5 DEF IsRead, IsNumbering, n
<1>7. ASSUME NEW i \in 1..n, i - 1 \in S PROVE i \in S
  <2>1. /\ at[i - 1] \in Reader /\ rs[i] \in Outs /\ at[i] = Responses!Read(at[i - 1], rs[i])
        /\ i - 1 \in 0..n /\ i \in 0..n
    <3>1. i \in 1..Len(rs) /\ i - 1 \in 0..n /\ i \in 0..n
      BY <1>3, <1>4
    <3> QED
      BY <1>3, <1>5, <3>1, ReadPlace
  <2>2. /\ num[i - 1] \in Numbering
        /\ num[i] = IF es[i].seq = Responses!Unset THEN num[i - 1]
                    ELSE IF num[i - 1] = Responses!Unset THEN es[i].seq ELSE num[i - 1] + 1
    BY <1>2, <2>1 DEF IsNumbering, n
  <2>3. at[i - 1].seq = num[i - 1] /\ at[i - 1].gaps = reader.gaps
    BY <1>7
  <2>4. rs[i].seq = IF es[i].seq = Responses!Unset THEN Responses!Unset ELSE num[i]
    BY <1>3
  <2>5. at[i].seq = IF rs[i].seq = Responses!Unset THEN at[i - 1].seq ELSE rs[i].seq
    BY <2>1, ReaderFacts
  <2>6. ~(rs[i].seq # Responses!Unset /\ at[i - 1].seq # Responses!Unset
            /\ rs[i].seq # at[i - 1].seq + 1)
    BY <2>2, <2>3, <2>4
  <2>7. at[i].gaps = at[i - 1].gaps
    BY <2>1, <2>6, ReaderFacts
  <2>8. at[i].seq = num[i]
    <3>1. CASE es[i].seq = Responses!Unset
      BY <2>2, <2>3, <2>4, <2>5, <3>1
    <3>2. CASE es[i].seq # Responses!Unset
      <4>1. num[i] # Responses!Unset
        BY <1>4, <2>2, <3>2 DEF Numbering, Responses!Unset
      <4> QED
        BY <2>4, <2>5, <3>2, <4>1
    <3> QED
      BY <3>1, <3>2
  <2> QED
    BY <2>1, <2>3, <2>7, <2>8
<1>8. n \in S
  <2> HIDE DEF S
  <2>1. \A i \in 1..n : i - 1 \in S => i \in S
    BY <1>7
  <2> QED BY <1>4, <1>6, <2>1, EveryPlace, Zenon
<1>9. reader' \in Reader /\ last' \in Numbering
  BY <1>1, <1>2, <1>3, <1>4, <1>5 DEF IsRead, IsNumbering, n
<1> QED
  BY <1>1, <1>3, <1>5, <1>8, <1>9

\* A field the events bring nothing of gets nothing,
LEMMA SendNone ==
    ASSUME NEW es \in Seq(Outs), last \in Numbering, reader \in Reader, Responses!Send(es),
           NEW k \in Responses!Keys, \A i \in 1..Len(es) : ~Brings(es[i], k)
    PROVE  reader'.got[k] = reader.got[k]
<1> DEFINE n == Len(es)
           rs == Responses!Renumbered(es)
<1>1. reader' = Responses!Reading(reader, rs)
  BY DEF Responses!Send
<1>2. rs \in Seq(Outs) /\ Len(rs) = n /\ \A i \in 1..n : rs[i].key = es[i].key /\ rs[i].n = es[i].n
  BY RenumberFacts
<1> HIDE DEF rs
<1>3. PICK at : IsRead(at, reader, rs) /\ Responses!Reading(reader, rs) = at[Len(rs)]
  BY <1>2, ReaderReadings
<1> DEFINE S == {i \in 0..n : at[i].got[k] = reader.got[k]}
<1>4. n \in Nat /\ 0 \in S
  BY <1>2, <1>3 DEF IsRead
<1>5. ASSUME NEW i \in 1..n, i - 1 \in S PROVE i \in S
  <2>1. at[i - 1] \in Reader /\ rs[i] \in Outs /\ at[i] = Responses!Read(at[i - 1], rs[i])
    BY <1>2, <1>3, ReadPlace
  <2>2. ~Brings(rs[i], k)
    BY <1>2 DEF Brings
  <2>3. at[i].got[k] = at[i - 1].got[k]
    BY <2>1, <2>2, ReaderGot
  <2> QED
    BY <1>5, <2>3
<1>6. n \in S
  <2> HIDE DEF S, n
  <2>1. \A i \in 1..n : i - 1 \in S => i \in S
    BY <1>5
  <2> QED BY <1>4, <2>1, EveryPlace, Zenon
<1> QED
  BY <1>1, <1>2, <1>3, <1>6

\* and one that a single event brings something of gets that.
LEMMA SendOnce ==
    ASSUME NEW es \in Seq(Outs), last \in Numbering, reader \in Reader, Responses!Send(es),
           NEW k \in Responses!Keys, NEW j \in 1..Len(es), Brings(es[j], k),
           \A i \in 1..Len(es) : i # j => ~Brings(es[i], k)
    PROVE  reader'.got[k] = reader.got[k] + es[j].n
<1> DEFINE n == Len(es)
           rs == Responses!Renumbered(es)
<1>1. reader' = Responses!Reading(reader, rs)
  BY DEF Responses!Send
<1>2. rs \in Seq(Outs) /\ Len(rs) = n /\ \A i \in 1..n : rs[i].key = es[i].key /\ rs[i].n = es[i].n
  BY RenumberFacts
<1> HIDE DEF rs
<1>3. PICK at : IsRead(at, reader, rs) /\ Responses!Reading(reader, rs) = at[Len(rs)]
  BY <1>2, ReaderReadings
<1> DEFINE S == {i \in 0..n : at[i].got[k] = IF i < j THEN reader.got[k] ELSE reader.got[k] + es[j].n}
<1>4. n \in Nat /\ 0 \in S
  BY <1>2, <1>3 DEF IsRead
<1>5. ASSUME NEW i \in 1..n, i - 1 \in S PROVE i \in S
  <2>1. at[i - 1] \in Reader /\ rs[i] \in Outs /\ at[i] = Responses!Read(at[i - 1], rs[i])
    BY <1>2, <1>3, ReadPlace
  <2>2. /\ Brings(es[i], k) => at[i].got[k] = at[i - 1].got[k] + es[i].n
        /\ ~Brings(es[i], k) => at[i].got[k] = at[i - 1].got[k]
    <3>1. (Brings(rs[i], k) <=> Brings(es[i], k)) /\ rs[i].n = es[i].n
      BY <1>2 DEF Brings
    <3> QED
      BY <2>1, <3>1, ReaderGot
  <2>3. CASE i = j
    BY <1>5, <2>2, <2>3
  <2>4. CASE i # j
    BY <1>5, <2>2, <2>4
  <2> QED
    BY <2>3, <2>4
<1>6. n \in S
  <2> HIDE DEF S, n
  <2>1. \A i \in 1..n : i - 1 \in S => i \in S
    BY <1>5
  <2> QED BY <1>4, <2>1, EveryPlace, Zenon
<1> QED
  BY <1>1, <1>2, <1>3, <1>6

\* E[i] is what may have ended after i events: an event ends no more than that,
\* and brings nothing of what had ended before it.
Ordered(es, E) ==
    \A i \in 1..Len(es) :
        /\ E[i - 1] \subseteq E[i] /\ es[i].ends \subseteq E[i]
        /\ es[i].n > 0 => es[i].key \notin E[i - 1]

LEMMA SendOrder ==
    ASSUME NEW es \in Seq(Outs), last \in Numbering, reader \in Reader, Responses!Send(es),
           NEW E, reader.shut \subseteq E[0], Ordered(es, E)
    PROVE  reader'.late = reader.late /\ reader'.shut \subseteq E[Len(es)]
<1> DEFINE n == Len(es)
           rs == Responses!Renumbered(es)
<1>1. reader' = Responses!Reading(reader, rs)
  BY DEF Responses!Send
<1>2. rs \in Seq(Outs) /\ Len(rs) = n
      /\ \A i \in 1..n : rs[i].key = es[i].key /\ rs[i].n = es[i].n /\ rs[i].ends = es[i].ends
  BY RenumberFacts
<1> HIDE DEF rs
<1>3. PICK at : IsRead(at, reader, rs) /\ Responses!Reading(reader, rs) = at[Len(rs)]
  BY <1>2, ReaderReadings
<1> DEFINE S == {i \in 0..n : at[i].late = reader.late /\ at[i].shut \subseteq E[i]}
<1>4. n \in Nat /\ 0 \in S
  BY <1>2, <1>3 DEF IsRead
<1>5. ASSUME NEW i \in 1..n, i - 1 \in S PROVE i \in S
  <2>1. at[i - 1] \in Reader /\ rs[i] \in Outs /\ at[i] = Responses!Read(at[i - 1], rs[i])
    BY <1>2, <1>3, ReadPlace
  <2>2. /\ E[i - 1] \subseteq E[i] /\ rs[i].ends \subseteq E[i]
        /\ rs[i].n > 0 => rs[i].key \notin E[i - 1]
    BY <1>2 DEF Ordered
  <2>3. ~(rs[i].n > 0 /\ rs[i].key \in at[i - 1].shut)
    BY <1>5, <2>2
  <2>4. at[i].late = at[i - 1].late
    BY <2>1, <2>3, ReaderShut
  <2>5. at[i].shut = at[i - 1].shut \union rs[i].ends
    BY <2>1, ReaderShut
  <2> QED
    BY <1>5, <2>2, <2>4, <2>5
<1>6. n \in S
  <2> HIDE DEF S, n
  <2>1. \A i \in 1..n : i - 1 \in S => i \in S
    BY <1>5
  <2> QED BY <1>4, <2>1, EveryPlace, Zenon
<1> QED
  BY <1>1, <1>2, <1>3, <1>6

------------------------------------------------------------------------------
(* The tails of a selection of fields.                                       *)

StreamsType ==
    /\ kept \in [Responses!Keys -> Nat] /\ stamp \in [Responses!Keys -> Numbering]
    /\ streams \in Seq(Responses!Keys)
    /\ \A i, j \in 1..Len(streams) : streams[i] = streams[j] => i = j
    /\ \A k \in Responses!Keys : kept[k] > 0 => \E i \in 1..Len(streams) : streams[i] = k

LEMMA Selected ==
    ASSUME StreamsType, NEW S, NEW i \in 1..Len(streams)
    PROVE  /\ streams[i] \in Responses!Keys /\ Responses!Tails(S)[i] \in Outs
           /\ Responses!Tails(S)[i].ends = {}
           /\ Responses!Tails(S)[i].n > 0 =>
                  /\ Responses!Tails(S)[i].key = streams[i] /\ streams[i] \in S
                  /\ kept[streams[i]] > 0
           /\ streams[i] \in S /\ kept[streams[i]] > 0 =>
                  Responses!Tails(S)[i].key = streams[i]
                  /\ Responses!Tails(S)[i].n = kept[streams[i]]
<1>1. streams[i] \in Responses!Keys /\ i \in DOMAIN streams
  BY DEF StreamsType
<1>2. kept[streams[i]] \in Nat /\ stamp[streams[i]] \in Numbering
  BY <1>1 DEF StreamsType
<1>3. CASE streams[i] \in S /\ kept[streams[i]] > 0
  <2>1. Responses!Tails(S)[i] = Responses!Out(streams[i], kept[streams[i]], {}, stamp[streams[i]])
    BY <1>1, <1>3 DEF Responses!Tails, Responses!HasTail
  <2> QED
    BY <1>1, <1>2, <1>3, <2>1 DEF Responses!Out, Outs
<1>4. CASE ~(streams[i] \in S /\ kept[streams[i]] > 0)
  <2>1. Responses!Tails(S)[i] = Responses!Nothing
    BY <1>1, <1>4 DEF Responses!Tails, Responses!HasTail
  <2> QED
    BY <1>1, <1>4, <2>1 DEF Responses!Out, Outs, Responses!Nothing, Numbering
<1> QED
  BY <1>3, <1>4

\* es is the tails of S, then events without text.
TailsFirstOf(es, S) ==
    /\ es \in Seq(Outs) /\ Len(es) >= Len(streams)
    /\ \A i \in 1..Len(streams) : es[i] = Responses!Tails(S)[i]
    /\ \A i \in (Len(streams) + 1)..Len(es) : es[i].n = 0

LEMMA TailsAlone ==
    ASSUME StreamsType, NEW S
    PROVE  TailsFirstOf(Responses!Tails(S), S) /\ Len(Responses!Tails(S)) = Len(streams)
<1>1. Len(streams) \in Nat /\ DOMAIN streams = 1..Len(streams)
  BY DEF StreamsType
<1>2. \A i \in 1..Len(streams) : Responses!Tails(S)[i] \in Outs
  BY Selected
<1> DEFINE es == Responses!Tails(S)
<1>3. es = [i \in 1..Len(streams) |-> es[i]]
  BY <1>1 DEF Responses!Tails
<1> HIDE DEF es
<1>4. es \in Seq(Outs) /\ Len(es) = Len(streams)
  BY <1>1, <1>2, <1>3 DEF es
<1> QED
  BY <1>1, <1>4 DEF TailsFirstOf, es

LEMMA TailsAndOne ==
    ASSUME StreamsType, NEW S, NEW x \in Outs, x.n = 0, NEW es, es = Responses!Tails(S) \o <<x>>
    PROVE  TailsFirstOf(es, S) /\ Len(es) = Len(streams) + 1 /\ es[Len(es)] = x
<1> DEFINE ts == Responses!Tails(S)
           m == Len(streams)
<1>1. TailsFirstOf(ts, S) /\ Len(ts) = m /\ m \in Nat
  BY TailsAlone DEF StreamsType
<1> HIDE DEF ts, m
<1>2. ts \in Seq(Outs) /\ \A i \in 1..m : ts[i] = Responses!Tails(S)[i]
  BY <1>1 DEF TailsFirstOf, m
<1> DEFINE z == <<x>>
<1>3. z \in Seq(Outs) /\ Len(z) = 1 /\ z[1] = x /\ es = ts \o z
  BY DEF ts
<1> HIDE DEF z
<1>4. /\ es \in Seq(Outs) /\ Len(es) = m + 1
      /\ \A i \in 1..m : es[i] = ts[i]
      /\ es[m + 1] = x
  <2>1. /\ ts \o z \in Seq(Outs) /\ Len(ts \o z) = Len(ts) + Len(z)
        /\ \A i \in 1..Len(ts) : (ts \o z)[i] = ts[i]
        /\ \A i \in 1..Len(z) : (ts \o z)[Len(ts) + i] = z[i]
    <3>1. ts \in Seq(Outs) /\ z \in Seq(Outs)
      BY <1>2, <1>3
    <3> QED
      BY <3>1, Concat
  <2>2. Len(ts) = m /\ Len(z) = 1 /\ m \in Nat /\ 1 \in 1..1
    BY <1>1, <1>3
  <2>3. es \in Seq(Outs) /\ Len(es) = m + 1
    BY <1>3, <2>1, <2>2
  <2>4. \A i \in 1..m : es[i] = ts[i]
    BY <1>3, <2>1, <2>2
  <2>5. es[m + 1] = z[1]
    BY <1>3, <2>1, <2>2
  <2> QED
    BY <1>3, <2>3, <2>4, <2>5
<1>5. \A i \in (m + 1)..Len(es) : es[i].n = 0
  BY <1>1, <1>4
<1> QED
  BY <1>1, <1>2, <1>4, <1>5 DEF TailsFirstOf, m

LEMMA TailsGot ==
    ASSUME StreamsType, NEW S, NEW es, TailsFirstOf(es, S), last \in Numbering, reader \in Reader,
           Responses!Send(es), NEW k \in Responses!Keys
    PROVE  reader'.got[k] = IF k \in S THEN reader.got[k] + kept[k] ELSE reader.got[k]
<1>1. es \in Seq(Outs) /\ Len(streams) \in Nat /\ Len(es) \in Nat /\ Len(es) >= Len(streams)
  BY DEF TailsFirstOf, StreamsType
<1>2. \A i \in 1..Len(es) : Brings(es[i], k) =>
          i \in 1..Len(streams) /\ streams[i] = k /\ k \in S /\ kept[k] > 0
  <2> SUFFICES ASSUME NEW i \in 1..Len(es), Brings(es[i], k)
               PROVE  i \in 1..Len(streams) /\ streams[i] = k /\ k \in S /\ kept[k] > 0
    OBVIOUS
  <2>1. i \in 1..Len(streams)
    BY <1>1 DEF TailsFirstOf, Brings
  <2>2. es[i] = Responses!Tails(S)[i]
    BY <2>1 DEF TailsFirstOf
  <2> QED
    BY <2>1, <2>2, Selected DEF Brings
<1>3. kept[k] \in Nat /\ reader.got[k] \in Nat
  BY DEF StreamsType, Reader
<1>4. CASE k \in S /\ kept[k] > 0
  <2>1. PICK j \in 1..Len(streams) : streams[j] = k
    BY <1>4 DEF StreamsType
  <2>2. j \in 1..Len(es) /\ es[j] = Responses!Tails(S)[j]
    BY <1>1 DEF TailsFirstOf
  <2>3. es[j].key = k /\ es[j].n = kept[k]
    BY <1>4, <2>1, <2>2, Selected
  <2>4. Brings(es[j], k)
    BY <1>4, <2>3 DEF Brings
  <2>5. \A i \in 1..Len(es) : i # j => ~Brings(es[i], k)
    BY <1>2, <2>1 DEF StreamsType
  <2>6. reader'.got[k] = reader.got[k] + es[j].n
    BY <1>1, <2>2, <2>4, <2>5, SendOnce
  <2> QED
    BY <1>4, <2>3, <2>6
<1>5. CASE ~(k \in S /\ kept[k] > 0)
  <2>1. \A i \in 1..Len(es) : ~Brings(es[i], k)
    BY <1>2, <1>5
  <2>2. reader'.got[k] = reader.got[k]
    BY <1>1, <2>1, SendNone
  <2> QED
    BY <1>3, <1>5, <2>2
<1> QED
  BY <1>4, <1>5

\* What is left of streams: the other fields, each once.
LEMMA RemainingFacts ==
    ASSUME StreamsType, NEW S
    PROVE  /\ Responses!Remaining(S) \in Seq(Responses!Keys)
           /\ \A i, j \in 1..Len(Responses!Remaining(S)) :
                  Responses!Remaining(S)[i] = Responses!Remaining(S)[j] => i = j
           /\ \A k \in Responses!Keys :
                  (\E i \in 1..Len(Responses!Remaining(S)) : Responses!Remaining(S)[i] = k)
                      <=> k \notin S /\ \E i \in 1..Len(streams) : streams[i] = k
<1> DEFINE n == Len(streams)
           V == Seq(Responses!Keys)
           More(i, v) == IF streams[i] \in S THEN v ELSE Append(v, streams[i])
           F == [x \in (1..n) \X V |-> More(x[1], x[2])]
<1>1. n \in Nat /\ \A i \in 1..n : streams[i] \in Responses!Keys
  BY DEF StreamsType
<1> HIDE DEF n
<1>2. \A i \in 1..n : \A v \in V : More(i, v) \in V
  BY <1>1
<1>3. <<>> \in V
  OBVIOUS
<1> HIDE DEF V, More
<1>4. F \in [(1..n) \X V -> V]
  BY <1>2
<1>5. \A i \in 1..n : \A v \in V : F[<<i, v>>] = More(i, v)
  OBVIOUS
<1> HIDE DEF F
<1>6. PICK f \in [0..n -> V] : Follows(f, n, <<>>, F)
  <2>1. n \in Nat
    BY <1>1
  <2> QED
    BY <1>3, <1>4, <2>1, Iterates
<1>7. ASSUME NEW i \in 1..n PROVE f[i] = More(i, f[i - 1])
  <2>1. f[i - 1] \in V
    BY <1>1, <1>6
  <2> QED
    BY <1>5, <1>6, <2>1 DEF Follows
<1> DEFINE Unrolled(g) == [i \in 0..n |-> IF i = 0 THEN <<>> ELSE More(i, g[i - 1])]
           at == CHOOSE g : g = Unrolled(g)
<1>8. f = Unrolled(f)
  BY <1>1, <1>6, <1>7 DEF Follows
<1>9. at = Unrolled(at)
  <2> HIDE DEF Unrolled
  <2> QED BY <1>8
<1>10. Responses!Remaining(S) = at[n]
  BY DEF Responses!Remaining, n, More
<1> HIDE DEF at
<1>11. at[0] = <<>> /\ \A i \in 1..n : at[i] = More(i, at[i - 1])
  BY <1>1, <1>9
<1> HIDE DEF Unrolled
\* s names the fields among the first i that are not in S, each once.
<1> DEFINE Left(s, i) ==
               /\ s \in V
               /\ \A a, b \in 1..Len(s) : s[a] = s[b] => a = b
               /\ \A k \in Responses!Keys :
                      (\E a \in 1..Len(s) : s[a] = k) <=> k \notin S /\ \E j \in 1..i : streams[j] = k
           T == {i \in 0..n : Left(at[i], i)}
<1>12. 0 \in T
  <2>1. Left(<<>>, 0)
    BY <1>3
  <2> HIDE DEF Left
  <2> QED
    BY <1>1, <1>11, <2>1
<1>13. ASSUME NEW i \in 1..n, i - 1 \in T PROVE i \in T
  <2> DEFINE s == at[i - 1]
             k == streams[i]
  <2>1. Left(s, i - 1) /\ at[i] = More(i, s) /\ k \in Responses!Keys /\ i \in 0..n
    <3> HIDE DEF Left
    <3>1. Left(s, i - 1)
      BY <1>13
    <3>2. at[i] = More(i, s)
      BY <1>11
    <3>3. k \in Responses!Keys /\ i \in 0..n
      BY <1>1
    <3> QED
      BY <3>1, <3>2, <3>3
  <2>2. \A x : (\E j \in 1..i : streams[j] = x) <=> (\E j \in 1..(i - 1) : streams[j] = x) \/ x = k
    BY <1>1
  <2> HIDE DEF s
  <2>3. CASE k \in S
    <3>1. at[i] = s
      BY <2>1, <2>3 DEF More
    <3>2. Left(s, i)
      BY <2>1, <2>2, <2>3
    <3> QED
      BY <2>1, <3>1, <3>2
  <2>4. CASE k \notin S
    <3> DEFINE t == Append(s, k)
    <3>1. at[i] = t
      BY <2>1, <2>4 DEF More
    <3>2. /\ t \in V /\ Len(s) \in Nat /\ Len(t) = Len(s) + 1 /\ t[Len(t)] = k
          /\ \A a \in 1..Len(s) : t[a] = s[a]
      BY <2>1 DEF V
    <3>3. \A a \in 1..Len(s) : s[a] # k
      <4>1. \A j \in 1..(i - 1) : streams[j] # k
        BY <1>1 DEF StreamsType, n
      <4> QED
        BY <2>1, <4>1
    <3> HIDE DEF t, k
    <3>4. \A a, b \in 1..Len(t) : t[a] = t[b] => a = b
      BY <2>1, <3>2, <3>3
    <3>5. \A x : (\E a \in 1..Len(t) : t[a] = x) <=> (\E a \in 1..Len(s) : s[a] = x) \/ x = k
      BY <3>2
    <3>6. Left(t, i)
      <4>1. ASSUME NEW x \in Responses!Keys
            PROVE  (\E a \in 1..Len(t) : t[a] = x) <=> x \notin S /\ \E j \in 1..i : streams[j] = x
        BY <2>1, <2>2, <2>4, <3>5
      <4> QED
        BY <3>2, <3>4, <4>1
    <3> HIDE DEF Left
    <3> QED
      BY <2>1, <3>1, <3>6
  <2> QED
    BY <2>3, <2>4
<1>14. n \in T
  <2> HIDE DEF T
  <2>1. \A i \in 1..n : i - 1 \in T => i \in T
    BY <1>13
  <2> QED BY <1>1, <1>12, <2>1, EveryPlace, Zenon
<1>15. Left(Responses!Remaining(S), n)
  BY <1>10, <1>14
<1> QED
  BY <1>15 DEF V, n

------------------------------------------------------------------------------
(* The invariant of ResponsesStream.                                         *)

\* Numbers follow on; what a field has sent has been read or is kept back, at the
\* end nothing is; what is kept back has not ended, and the client has seen no
\* end the upstream has not sent.
ResponsesInv ==
    /\ Responses!TypeOK /\ reader \in Reader /\ last \in Numbering
    /\ reader.seq = last /\ reader.gaps = {}
    /\ \A k \in Responses!Keys : reader.got[k] + kept[k] = given[k]
    /\ upstream = "eof" => \A k \in Responses!Keys : kept[k] = 0
    /\ reader.late = {} /\ reader.shut \subseteq finished
    /\ \A k \in Responses!Keys : kept[k] > 0 => k \notin finished

LEMMA ResponsesInit ==
    ASSUME Responses!Init
    PROVE  ResponsesInv
<1> USE DEF Responses!Init
<1>1. Responses!TypeOK
  <2>1. streams \in Seq(Responses!Keys) /\ Responses!IsInjective(streams)
    BY DEF Responses!IsInjective
  <2> QED
    BY <2>1, RestorerAssumption DEF Responses!TypeOK
<1>2. last \in Numbering
  BY DEF Numbering
<1>3. reader \in Reader
  BY <1>2 DEF Reader
<1> QED
  BY <1>1, <1>2, <1>3 DEF ResponsesInv

LEMMA StreamsTyped ==
    ASSUME Responses!TypeOK
    PROVE  StreamsType
<1>1. /\ kept \in [Responses!Keys -> Nat] /\ streams \in Seq(Responses!Keys)
      /\ DOMAIN streams = 1..Len(streams)
  BY DEF Responses!TypeOK
<1>2. stamp \in [Responses!Keys -> Numbering]
  BY DEF Responses!TypeOK, Numbering
<1>3. \A i, j \in 1..Len(streams) : streams[i] = streams[j] => i = j
  BY <1>1 DEF Responses!TypeOK, Responses!IsInjective
<1>4. ASSUME NEW k \in Responses!Keys, kept[k] > 0
      PROVE  \E i \in 1..Len(streams) : streams[i] = k
  <2>1. k \in Responses!ToSet(streams)
    BY <1>1, <1>4 DEF Responses!TypeOK
  <2> QED
    BY <1>1, <2>1 DEF Responses!ToSet
<1> QED
  BY <1>1, <1>2, <1>3, <1>4 DEF StreamsType

\* The type invariant of the fields, from what Remaining and Append return.
LEMMA StreamsBack ==
    ASSUME NEW s \in Seq(Responses!Keys), \A i, j \in 1..Len(s) : s[i] = s[j] => i = j
    PROVE  /\ Responses!IsInjective(s)
           /\ \A k : k \in Responses!ToSet(s) <=> \E i \in 1..Len(s) : s[i] = k
BY DEF Responses!IsInjective, Responses!ToSet

\* Tails, then at most one event: the fields of selected are dropped, those of S
\* end.
LEMMA DropStep ==
    ASSUME ResponsesInv, NEW selected \in SUBSET Responses!Keys, NEW S \in SUBSET selected,
           NEW es, TailsFirstOf(es, selected), Responses!Send(es), Responses!Drop(selected),
           \A i \in (Len(streams) + 1)..Len(es) : es[i].ends \subseteq S,
           finished' = finished \union S, UNCHANGED <<given, numbered>>,
           count' \in 0..MaxEvents, upstream' \in {"open", "over", "eof"},
           upstream' = "eof" => selected = Responses!Keys
    PROVE  ResponsesInv'
<1>0. /\ Responses!TypeOK /\ reader \in Reader /\ last \in Numbering /\ reader.seq = last
      /\ StreamsType /\ es \in Seq(Outs) /\ Len(es) \in Nat /\ Len(streams) \in Nat
      /\ Len(es) >= Len(streams)
      /\ kept \in [Responses!Keys -> Nat] /\ stamp \in [Responses!Keys -> Numbering]
      /\ given \in [Responses!Keys -> Nat] /\ finished \subseteq Responses!Keys
      /\ numbered \in BOOLEAN
  <2>1. Responses!TypeOK /\ reader \in Reader /\ last \in Numbering /\ reader.seq = last
    BY DEF ResponsesInv
  <2>2. StreamsType
    BY <2>1, StreamsTyped
  <2>3. es \in Seq(Outs) /\ Len(es) \in Nat /\ Len(streams) \in Nat /\ Len(es) >= Len(streams)
    BY <2>2 DEF TailsFirstOf, StreamsType
  <2>4. given \in [Responses!Keys -> Nat] /\ finished \subseteq Responses!Keys /\ numbered \in BOOLEAN
    BY <2>1 DEF Responses!TypeOK
  <2> QED
    BY <2>1, <2>2, <2>3, <2>4 DEF StreamsType
<1>1. /\ streams' = Responses!Remaining(selected)
      /\ kept' = [k \in Responses!Keys |-> IF k \in selected THEN 0 ELSE kept[k]]
      /\ stamp' = [k \in Responses!Keys |-> IF k \in selected THEN Responses!Unset ELSE stamp[k]]
  BY DEF Responses!Drop
<1>2. reader' \in Reader /\ last' \in Numbering /\ reader'.seq = last' /\ reader'.gaps = reader.gaps
  BY <1>0, SendNumbers
<1>3. \A k \in Responses!Keys :
          reader'.got[k] = IF k \in selected THEN reader.got[k] + kept[k] ELSE reader.got[k]
  BY <1>0, TailsGot
<1>4. reader'.late = reader.late /\ reader'.shut \subseteq finished \union S
  <2> DEFINE E == [i \in 0..Len(es) |-> IF i <= Len(streams) THEN finished ELSE finished \union S]
  <2>1. reader.shut \subseteq E[0]
    BY <1>0 DEF ResponsesInv
  <2>2. Ordered(es, E)
    <3> SUFFICES ASSUME NEW i \in 1..Len(es)
                 PROVE  /\ E[i - 1] \subseteq E[i] /\ es[i].ends \subseteq E[i]
                        /\ es[i].n > 0 => es[i].key \notin E[i - 1]
      BY DEF Ordered
    <3>1. i \in 0..Len(es) /\ i - 1 \in 0..Len(es) /\ E[i - 1] \subseteq E[i]
      BY <1>0
    <3>2. CASE i \in 1..Len(streams)
      <4>1. es[i] = Responses!Tails(selected)[i] /\ E[i] = finished /\ E[i - 1] = finished
        BY <1>0, <3>1, <3>2 DEF TailsFirstOf
      <4>2. es[i].ends = {} /\ (es[i].n > 0 => es[i].key = streams[i] /\ kept[streams[i]] > 0)
            /\ streams[i] \in Responses!Keys
        <5> DEFINE t == Responses!Tails(selected)[i]
        <5>1. StreamsType
          BY <1>0
        <5>2. t.ends = {}
          BY <3>2, <5>1, Selected
        <5>3. t.n > 0 => t.key = streams[i] /\ kept[streams[i]] > 0
          BY <3>2, <5>1, Selected
        <5>4. streams[i] \in Responses!Keys
          BY <3>2, <5>1, Selected
        <5> HIDE DEF t
        <5> QED
          BY <4>1, <5>2, <5>3, <5>4 DEF t
      <4>3. es[i].n > 0 => es[i].key \notin finished
        BY <4>2 DEF ResponsesInv
      <4> QED
        BY <3>1, <4>1, <4>2, <4>3
    <3>3. CASE i \in (Len(streams) + 1)..Len(es)
      <4>1. es[i].n = 0 /\ es[i].ends \subseteq S /\ E[i] = finished \union S
        BY <1>0, <3>1, <3>3 DEF TailsFirstOf
      <4> QED
        BY <3>1, <4>1
    <3>4. i \in 1..Len(streams) \/ i \in (Len(streams) + 1)..Len(es)
      BY <1>0
    <3> QED
      BY <3>2, <3>3, <3>4
  <2>3. E[Len(es)] \subseteq finished \union S
    BY <1>0
  <2> HIDE DEF E
  <2>4. reader'.late = reader.late /\ reader'.shut \subseteq E[Len(es)]
    BY <1>0, <2>1, <2>2, SendOrder
  <2> QED
    BY <2>3, <2>4
<1>5. Responses!TypeOK'
  <2> DEFINE s == Responses!Remaining(selected)
  <2>1. /\ s \in Seq(Responses!Keys)
        /\ \A i, j \in 1..Len(s) : s[i] = s[j] => i = j
        /\ \A k \in Responses!Keys :
               (\E i \in 1..Len(s) : s[i] = k)
                   <=> k \notin selected /\ \E i \in 1..Len(streams) : streams[i] = k
    BY <1>0, RemainingFacts
  <2> HIDE DEF s
  <2>2. Responses!IsInjective(s) /\ \A k : k \in Responses!ToSet(s) <=> \E i \in 1..Len(s) : s[i] = k
    BY <2>1, StreamsBack
  <2>3. \A k : k \in Responses!ToSet(streams) <=> \E i \in 1..Len(streams) : streams[i] = k
    BY <1>0, StreamsBack DEF StreamsType
  <2>4. streams' \in Seq(Responses!Keys) /\ Responses!IsInjective(streams')
    BY <1>1, <2>1, <2>2 DEF s
  <2>5. ASSUME NEW k \in Responses!Keys \ Responses!ToSet(streams')
        PROVE  kept'[k] = 0 /\ stamp'[k] = Responses!Unset
    <3>1. k \in selected \/ k \notin Responses!ToSet(streams)
      BY <1>1, <2>1, <2>2, <2>3, <2>5 DEF s
    <3> QED
      BY <1>0, <1>1, <3>1 DEF Responses!TypeOK
  <2>6. kept' \in [Responses!Keys -> Nat] /\ stamp' \in [Responses!Keys -> Nat \union {Responses!Unset}]
    BY <1>0, <1>1 DEF Numbering
  <2>7. finished' \subseteq Responses!Keys
    BY <1>0
  <2> QED
    BY <1>0, <2>4, <2>5, <2>6, <2>7 DEF Responses!TypeOK
<1>6. \A k \in Responses!Keys : reader'.got[k] + kept'[k] = given'[k]
  <2> SUFFICES ASSUME NEW k \in Responses!Keys PROVE reader'.got[k] + kept'[k] = given'[k]
    OBVIOUS
  <2>1. reader.got[k] \in Nat /\ kept[k] \in Nat /\ reader.got[k] + kept[k] = given[k]
    BY <1>0 DEF ResponsesInv, Reader
  <2>2. kept'[k] = IF k \in selected THEN 0 ELSE kept[k]
    BY <1>1
  <2> QED
    BY <1>3, <2>1, <2>2
<1>7. upstream' = "eof" => \A k \in Responses!Keys : kept'[k] = 0
  BY <1>1
<1>8. \A k \in Responses!Keys : kept'[k] > 0 => k \notin finished'
  BY <1>1 DEF ResponsesInv
<1>9. reader'.late = {} /\ reader'.gaps = {} /\ reader'.shut \subseteq finished'
  BY <1>2, <1>4 DEF ResponsesInv
<1> QED
  BY <1>2, <1>5, <1>6, <1>7, <1>8, <1>9 DEF ResponsesInv

LEMMA PlainType ==
    ASSUME Responses!TypeOK, NEW S \in SUBSET Responses!Keys
    PROVE  /\ Responses!Plain(S) \in Outs /\ Responses!Plain(S).n = 0 /\ Responses!Plain(S).ends = S
           /\ Responses!Number \in Numbering
<1>1. Responses!Number \in Numbering
  BY RestorerAssumption DEF Responses!Number, Responses!TypeOK, Numbering
<1> QED
  BY <1>1 DEF Responses!Plain, Responses!Out, Outs

\* The tails of selected, then one event without text that ends S.
LEMMA OneMore ==
    ASSUME ResponsesInv, NEW selected \in SUBSET Responses!Keys, NEW S \in SUBSET selected,
           NEW x \in Outs, x.n = 0, x.ends = S, Responses!Send(Responses!Tails(selected) \o <<x>>),
           Responses!Drop(selected),
           finished' = finished \union S, UNCHANGED <<given, numbered>>,
           count' \in 0..MaxEvents, upstream' \in {"open", "over"}
    PROVE  ResponsesInv'
<1> DEFINE es == Responses!Tails(selected) \o <<x>>
<1>1. StreamsType /\ Len(streams) \in Nat
  BY StreamsTyped DEF ResponsesInv, StreamsType
<1>2. TailsFirstOf(es, selected) /\ Len(es) = Len(streams) + 1 /\ es[Len(es)] = x
  BY <1>1, TailsAndOne
<1>3. Responses!Send(es)
  OBVIOUS
<1> HIDE DEF es
<1>4. \A i \in (Len(streams) + 1)..Len(es) : es[i].ends \subseteq S
  BY <1>1, <1>2
<1>5. upstream' \in {"open", "over", "eof"} /\ upstream' # "eof"
  OBVIOUS
<1> QED
  BY <1>2, <1>3, <1>4, <1>5, DropStep

LEMMA DeltaStep ==
    ASSUME ResponsesInv, NEW k \in Responses!Keys, Responses!DeltaEvent(k)
    PROVE  ResponsesInv'
<1>0. /\ Responses!TypeOK /\ reader \in Reader /\ last \in Numbering /\ reader.seq = last
      /\ StreamsType /\ kept \in [Responses!Keys -> Nat] /\ stamp \in [Responses!Keys -> Numbering]
      /\ given \in [Responses!Keys -> Nat] /\ finished \subseteq Responses!Keys
      /\ Responses!Number \in Numbering
  BY StreamsTyped, PlainType DEF ResponsesInv, Responses!TypeOK, StreamsType
<1>1. /\ k \notin finished /\ given' = [given EXCEPT ![k] = @ + 1]
      /\ streams' = IF k \in Responses!ToSet(streams) THEN streams ELSE Append(streams, k)
      /\ stamp' = [stamp EXCEPT ![k] = Responses!Number]
      /\ UNCHANGED <<upstream, finished, numbered>> /\ upstream = "open"
      /\ count < MaxEvents /\ count' = count + 1
  BY DEF Responses!DeltaEvent, Responses!Event
<1>2. PICK keep \in 0..(kept[k] + 1) :
          /\ kept' = [kept EXCEPT ![k] = keep]
          /\ Responses!Send(IF keep = kept[k] + 1 THEN <<>>
                            ELSE <<Responses!Out(k, kept[k] + 1 - keep, {}, Responses!Number)>>)
  BY DEF Responses!DeltaEvent
<1> DEFINE m == kept[k] + 1 - keep
           es == IF m = 0 THEN <<>> ELSE <<Responses!Out(k, m, {}, Responses!Number)>>
<1>3. m \in Nat /\ kept[k] \in Nat /\ keep \in Nat /\ m + keep = kept[k] + 1
      /\ (m = 0 <=> keep = kept[k] + 1)
  BY <1>0
<1>4. Responses!Send(es)
  BY <1>2, <1>3
<1> HIDE DEF m
<1>5. /\ es \in Seq(Outs) /\ \A i \in 1..Len(es) : es[i].ends = {} /\ es[i].key = k
      /\ m = 0 => Len(es) = 0
      /\ m > 0 => Len(es) = 1 /\ es[1].n = m
  <2>1. CASE m = 0
    <3>1. es = <<>>
      BY <2>1
    <3> HIDE DEF es
    <3> QED
      BY <2>1, <3>1
  <2>2. CASE m # 0
    <3> DEFINE x == Responses!Out(k, m, {}, Responses!Number)
    <3>1. x \in Outs /\ x.ends = {} /\ x.key = k /\ x.n = m
      BY <1>0, <1>3 DEF Outs, Responses!Out
    <3>2. es = <<x>>
      BY <2>2
    <3> HIDE DEF es, x
    <3>3. es \in Seq(Outs) /\ Len(es) = 1 /\ es[1] = x
      BY <3>1, <3>2
    <3> QED
      BY <2>2, <3>1, <3>3
  <2> QED
    BY <2>1, <2>2
<1> HIDE DEF es
<1>6. reader' \in Reader /\ last' \in Numbering /\ reader'.seq = last' /\ reader'.gaps = reader.gaps
  BY <1>0, <1>4, <1>5, SendNumbers
<1>7. reader'.got[k] = reader.got[k] + m
  <2>1. reader.got[k] \in Nat
    BY <1>0 DEF Reader
  <2>2. CASE m = 0
    <3>1. \A i \in 1..Len(es) : ~Brings(es[i], k)
      BY <1>5, <2>2
    <3>2. reader'.got[k] = reader.got[k]
      BY <1>0, <1>4, <1>5, <3>1, SendNone
    <3> QED
      BY <2>1, <2>2, <3>2
  <2>3. CASE m > 0
    <3>a. Len(es) = 1 /\ es[1].n = m
      BY <1>5, <2>3
    <3>b. 1 \in 1..Len(es) /\ \A i \in 1..Len(es) : i = 1
      BY <3>a
    <3>c. es[1].key = k
      BY <1>5, <3>b
    <3>d. Brings(es[1], k)
      BY <2>3, <3>a, <3>c DEF Brings
    <3>1. 1 \in 1..Len(es) /\ Brings(es[1], k) /\ \A i \in 1..Len(es) : i # 1 => ~Brings(es[i], k)
      BY <3>b, <3>d
    <3>2. reader'.got[k] = reader.got[k] + es[1].n
      BY <1>0, <1>4, <1>5, <3>1, SendOnce
    <3> QED
      BY <1>5, <2>3, <3>2
  <2> QED
    BY <1>3, <2>2, <2>3
<1>8. ASSUME NEW l \in Responses!Keys, l # k PROVE reader'.got[l] = reader.got[l]
  <2>1. \A i \in 1..Len(es) : ~Brings(es[i], l)
    BY <1>5, <1>8 DEF Brings
  <2> QED
    BY <1>0, <1>4, <1>5, <2>1, SendNone
<1>9. reader'.late = {} /\ reader'.shut \subseteq finished'
  <2> DEFINE E == [i \in 0..Len(es) |-> finished]
  <2>1. Len(es) \in Nat
    BY <1>5
  <2>2. reader.shut \subseteq E[0] /\ E[Len(es)] = finished
    BY <2>1 DEF ResponsesInv
  <2>3. Ordered(es, E)
    <3>1. ASSUME NEW i \in 1..Len(es)
          PROVE  /\ E[i - 1] \subseteq E[i] /\ es[i].ends \subseteq E[i]
                 /\ es[i].n > 0 => es[i].key \notin E[i - 1]
      <4>1. i \in 0..Len(es) /\ i - 1 \in 0..Len(es)
        BY <2>1
      <4>2. E[i] = finished /\ E[i - 1] = finished
        BY <4>1
      <4> HIDE DEF E
      <4> QED
        BY <1>1, <1>5, <4>2
    <3> HIDE DEF E
    <3> QED
      BY <3>1 DEF Ordered
  <2> HIDE DEF E
  <2>4. reader'.late = reader.late
    BY <1>0, <1>4, <1>5, <2>2, <2>3, SendOrder
  <2>5. reader'.shut \subseteq E[Len(es)]
    BY <1>0, <1>4, <1>5, <2>2, <2>3, SendOrder
  <2> QED
    BY <1>1, <2>2, <2>4, <2>5 DEF ResponsesInv
<1>10. Responses!TypeOK'
  <2>1. streams \in Seq(Responses!Keys) /\ \A i, j \in 1..Len(streams) : streams[i] = streams[j] => i = j
    BY <1>0 DEF StreamsType
  <2>2. \A l : l \in Responses!ToSet(streams) <=> \E i \in 1..Len(streams) : streams[i] = l
    BY <2>1, StreamsBack
  <2>3. /\ streams' \in Seq(Responses!Keys) /\ Responses!IsInjective(streams')
        /\ \A l : l \in Responses!ToSet(streams') <=> l \in Responses!ToSet(streams) \/ l = k
    <3>1. CASE k \in Responses!ToSet(streams)
      BY <1>0, <1>1, <3>1 DEF Responses!TypeOK
    <3>2. CASE k \notin Responses!ToSet(streams)
      <4> DEFINE s == Append(streams, k)
      <4>1. /\ s \in Seq(Responses!Keys) /\ Len(s) = Len(streams) + 1 /\ s[Len(s)] = k
            /\ \A i \in 1..Len(streams) : s[i] = streams[i]
            /\ Len(streams) \in Nat
        BY <2>1
      <4>2. streams' = s
        BY <1>1, <3>2
      <4>3. \A i \in 1..Len(streams) : streams[i] # k
        BY <2>2, <3>2
      <4> HIDE DEF s
      <4>4. \A i, j \in 1..Len(s) : s[i] = s[j] => i = j
        BY <2>1, <4>1, <4>3
      <4>5. \A l : (\E i \in 1..Len(s) : s[i] = l) <=> (\E i \in 1..Len(streams) : streams[i] = l) \/ l = k
        BY <4>1
      <4>6. Responses!IsInjective(s) /\ \A l : l \in Responses!ToSet(s) <=> \E i \in 1..Len(s) : s[i] = l
        BY <4>1, <4>4, StreamsBack
      <4> QED
        BY <2>2, <4>1, <4>2, <4>5, <4>6
    <3> QED
      BY <3>1, <3>2
  <2>4. /\ kept' \in [Responses!Keys -> Nat] /\ given' \in [Responses!Keys -> Nat]
        /\ stamp' \in [Responses!Keys -> Nat \union {Responses!Unset}]
    BY <1>0, <1>1, <1>2, <1>3 DEF Numbering
  <2>5. ASSUME NEW l \in Responses!Keys \ Responses!ToSet(streams')
        PROVE  kept'[l] = 0 /\ stamp'[l] = Responses!Unset
    <3>1. l # k /\ l \notin Responses!ToSet(streams)
      BY <2>3, <2>5
    <3> QED
      BY <1>0, <1>1, <1>2, <3>1 DEF Responses!TypeOK
  <2>6. count' \in 0..MaxEvents
    BY <1>0, <1>1, RestorerAssumption DEF Responses!TypeOK
  <2> QED
    BY <1>0, <1>1, <2>3, <2>4, <2>5, <2>6 DEF Responses!TypeOK
<1>11. \A l \in Responses!Keys : reader'.got[l] + kept'[l] = given'[l]
  <2>1. reader.got[k] \in Nat /\ reader.got[k] + kept[k] = given[k] /\ given[k] \in Nat
    BY <1>0 DEF ResponsesInv, Reader
  <2>2. kept'[k] = keep /\ given'[k] = given[k] + 1
    BY <1>0, <1>1, <1>2
  <2>3. reader'.got[k] + kept'[k] = given'[k]
    BY <1>3, <1>7, <2>1, <2>2
  <2>4. ASSUME NEW l \in Responses!Keys, l # k PROVE reader'.got[l] + kept'[l] = given'[l]
    BY <1>0, <1>1, <1>2, <1>8, <2>4 DEF ResponsesInv
  <2> QED
    BY <2>3, <2>4
<1>12. \A l \in Responses!Keys : kept'[l] > 0 => l \notin finished'
  BY <1>0, <1>1, <1>2 DEF ResponsesInv
<1>13. reader'.gaps = {} /\ upstream' # "eof"
  BY <1>1, <1>6 DEF ResponsesInv
<1> QED
  BY <1>6, <1>9, <1>10, <1>11, <1>12, <1>13 DEF ResponsesInv

LEMMA PassStep ==
    ASSUME ResponsesInv, Responses!OtherEvent
    PROVE  ResponsesInv'
<1>0. /\ Responses!TypeOK /\ reader \in Reader /\ last \in Numbering /\ reader.seq = last
  BY DEF ResponsesInv
<1>1. /\ UNCHANGED <<upstream, given, finished, kept, streams, stamp, numbered>>
      /\ upstream = "open" /\ count < MaxEvents /\ count' = count + 1
  BY DEF Responses!OtherEvent, Responses!Event
<1> DEFINE x == Responses!Plain({})
           es == <<x>>
<1>2. Responses!Send(es)
  BY DEF Responses!OtherEvent
<1>3. x \in Outs /\ x.n = 0 /\ x.ends = {}
  <2>1. {} \in SUBSET Responses!Keys
    OBVIOUS
  <2> QED
    BY <1>0, <2>1, PlainType
<1> HIDE DEF x
<1>4. es \in Seq(Outs) /\ Len(es) = 1 /\ \A i \in 1..Len(es) : es[i].n = 0 /\ es[i].ends = {}
  BY <1>3
<1> HIDE DEF es
<1>5. reader' \in Reader /\ last' \in Numbering /\ reader'.seq = last' /\ reader'.gaps = reader.gaps
  BY <1>0, <1>2, <1>4, SendNumbers
<1>6. ASSUME NEW l \in Responses!Keys PROVE reader'.got[l] = reader.got[l]
  <2>1. \A i \in 1..Len(es) : ~Brings(es[i], l)
    BY <1>4 DEF Brings
  <2> QED
    BY <1>0, <1>2, <1>4, <2>1, SendNone
<1>7. reader'.late = {} /\ reader'.shut \subseteq finished'
  <2> DEFINE E == [i \in 0..Len(es) |-> finished]
  <2>1. Len(es) \in Nat
    BY <1>4
  <2>2. reader.shut \subseteq E[0] /\ E[Len(es)] = finished
    BY <2>1 DEF ResponsesInv
  <2>3. Ordered(es, E)
    <3>1. ASSUME NEW i \in 1..Len(es)
          PROVE  /\ E[i - 1] \subseteq E[i] /\ es[i].ends \subseteq E[i]
                 /\ es[i].n > 0 => es[i].key \notin E[i - 1]
      <4>1. i \in 0..Len(es) /\ i - 1 \in 0..Len(es)
        BY <2>1
      <4>2. E[i] = finished /\ E[i - 1] = finished
        BY <4>1
      <4>3. es[i].n = 0 /\ es[i].ends = {}
        BY <1>4
      <4> HIDE DEF E
      <4> QED
        BY <4>2, <4>3
    <3> HIDE DEF E
    <3> QED
      BY <3>1 DEF Ordered
  <2> HIDE DEF E
  <2>4. reader'.late = reader.late
    BY <1>0, <1>2, <1>4, <2>2, <2>3, SendOrder
  <2>5. reader'.shut \subseteq E[Len(es)]
    BY <1>0, <1>2, <1>4, <2>2, <2>3, SendOrder
  <2> QED
    BY <1>1, <2>2, <2>4, <2>5 DEF ResponsesInv
<1>8. Responses!TypeOK'
  <2>1. count' \in 0..MaxEvents
    BY <1>0, <1>1, RestorerAssumption DEF Responses!TypeOK
  <2> QED
    BY <1>0, <1>1, <2>1 DEF Responses!TypeOK
<1>9. \A l \in Responses!Keys : reader'.got[l] + kept'[l] = given'[l]
  BY <1>1, <1>6 DEF ResponsesInv
<1>10. \A l \in Responses!Keys : kept'[l] > 0 => l \notin finished'
  BY <1>1 DEF ResponsesInv
<1>11. reader'.gaps = {} /\ upstream' # "eof"
  BY <1>1, <1>5 DEF ResponsesInv
<1> QED
  BY <1>5, <1>7, <1>8, <1>9, <1>10, <1>11 DEF ResponsesInv

\* An event that ends fields, after the tails of at least those.
LEMMA ClosingStep ==
    ASSUME ResponsesInv, NEW selected \in SUBSET Responses!Keys, NEW S \in SUBSET selected,
           Responses!Closing(S, selected)
    PROVE  ResponsesInv'
<1> DEFINE x == Responses!Plain(S)
<1>1. Responses!TypeOK /\ S \in SUBSET Responses!Keys
  BY DEF ResponsesInv
<1>2. x \in Outs /\ x.n = 0 /\ x.ends = S
  BY <1>1, PlainType
<1>3. /\ Responses!Send(Responses!Tails(selected) \o <<x>>) /\ Responses!Drop(selected)
      /\ finished' = finished \union S /\ UNCHANGED <<given, numbered>>
  BY DEF Responses!Closing, Responses!Event
<1>4. count' \in 0..MaxEvents /\ upstream' \in {"open", "over"}
  BY <1>1, RestorerAssumption DEF Responses!Closing, Responses!Event, Responses!TypeOK
<1> HIDE DEF x
<1> QED
  BY <1>2, <1>3, <1>4, OneMore

LEMMA OverStep ==
    ASSUME ResponsesInv, Responses!Terminal \/ Responses!Overtaken
    PROVE  ResponsesInv'
<1> DEFINE K == Responses!Keys
<1>1. Responses!TypeOK /\ K \in SUBSET Responses!Keys /\ K \in SUBSET K
  BY DEF ResponsesInv
<1>2. PICK x \in {Responses!Plain(K), Responses!Out(<<>>, 0, K, Responses!Unset)} :
          Responses!Send(Responses!Tails(K) \o <<x>>)
  BY DEF Responses!Terminal, Responses!Overtaken
<1>3. /\ Responses!Drop(K) /\ finished' = K /\ UNCHANGED <<given, numbered, count>>
      /\ upstream' = "over"
  BY DEF Responses!Terminal, Responses!Overtaken
<1>4. x \in Outs /\ x.n = 0 /\ x.ends = K
  <2>1. CASE x = Responses!Plain(K)
    BY <1>1, <2>1, PlainType
  <2>2. CASE x = Responses!Out(<<>>, 0, K, Responses!Unset)
    BY <2>2 DEF Outs, Responses!Out, Numbering
  <2> QED
    BY <1>2, <2>1, <2>2
<1>5. finished' = finished \union K /\ count' \in 0..MaxEvents
  BY <1>1, <1>3 DEF Responses!TypeOK
<1> HIDE DEF K
<1> QED
  BY <1>1, <1>2, <1>3, <1>4, <1>5, OneMore

LEMMA FlushStep ==
    ASSUME ResponsesInv, Responses!Flush
    PROVE  ResponsesInv'
<1> DEFINE K == Responses!Keys
           es == Responses!Tails(K)
<1>1. Responses!TypeOK /\ K \in SUBSET Responses!Keys /\ {} \in SUBSET K
  BY DEF ResponsesInv
<1>2. StreamsType /\ Len(streams) \in Nat
  <2>1. StreamsType
    BY <1>1, StreamsTyped
  <2> QED
    BY <2>1 DEF StreamsType
<1>3. TailsFirstOf(es, K) /\ Len(es) = Len(streams)
  BY <1>1, <1>2, TailsAlone
<1>4. /\ Responses!Send(es) /\ Responses!Drop(K) /\ finished' = finished \union {}
      /\ UNCHANGED <<given, numbered>> /\ count' = count /\ upstream' = "eof"
  BY DEF Responses!Flush
<1>5. count' \in 0..MaxEvents /\ upstream' \in {"open", "over", "eof"}
  BY <1>1, <1>4 DEF Responses!TypeOK
<1>6. K = Responses!Keys
  OBVIOUS
<1> HIDE DEF es, K
<1>7. \A i \in (Len(streams) + 1)..Len(es) : es[i].ends \subseteq {}
  BY <1>2, <1>3
<1> QED
  BY <1>1, <1>3, <1>4, <1>5, <1>6, <1>7, DropStep

LEMMA ResponsesStutter ==
    ASSUME ResponsesInv, UNCHANGED responsesVars
    PROVE  ResponsesInv'
<1> USE DEF responsesVars
<1>1. Responses!TypeOK'
  BY DEF ResponsesInv, Responses!TypeOK
<1> QED
  BY <1>1 DEF ResponsesInv

LEMMA TypedStep ==
    ASSUME ResponsesInv, Responses!TypedEvent
    PROVE  ResponsesInv'
<1>1. ASSUME NEW k \in Responses!Keys, Responses!DeltaEvent(k) PROVE ResponsesInv'
  BY <1>1, DeltaStep
<1>2. ASSUME NEW k \in Responses!Keys, Responses!FieldDone(k) PROVE ResponsesInv'
  <2>1. {k} \in SUBSET Responses!Keys /\ {k} \in SUBSET {k} /\ Responses!Closing({k}, {k})
    BY <1>2 DEF Responses!FieldDone
  <2> QED
    BY <2>1, ClosingStep
<1>3. ASSUME NEW i \in Items, NEW c \in ItemParts \ {0}, Responses!PartDone(i, c) PROVE ResponsesInv'
  <2> DEFINE M == Responses!Matched(i, c)
  <2>1. <<i, c>> \in Responses!Keys /\ <<i, c>>[1] = i /\ <<i, c>>[2] = c
    BY DEF Responses!Keys
  <2>2. M \in SUBSET Responses!Keys /\ {<<i, c>>} \in SUBSET M
    BY <2>1 DEF Responses!Matched
  <2>3. Responses!Closing({<<i, c>>}, M)
    BY <1>3 DEF Responses!PartDone
  <2> HIDE DEF M
  <2> QED
    BY <2>2, <2>3, ClosingStep
<1>4. ASSUME NEW i \in Items, Responses!ItemDone(i) PROVE ResponsesInv'
  <2> DEFINE M == Responses!Matched(i, Responses!Unset)
             S == {i} \X ItemParts
  <2>1. \A k \in S : k \in Responses!Keys /\ k[1] = i
    BY DEF Responses!Keys
  <2>2. M \in SUBSET Responses!Keys /\ S \in SUBSET M
    BY <2>1 DEF Responses!Matched
  <2>3. Responses!Closing(S, M)
    BY <1>4 DEF Responses!ItemDone
  <2> HIDE DEF M, S
  <2> QED
    BY <2>2, <2>3, ClosingStep
<1> QED
  BY <1>1, <1>2, <1>3, <1>4, PassStep, OverStep DEF Responses!TypedEvent

------------------------------------------------------------------------------
(* Both adapters behind _SseRestorer.                                        *)

SseInv == EventsInv /\ ResponsesInv

LEMMA SseStep ==
    ASSUME SseInv, [SseNext]_sseVars
    PROVE  SseInv'
<1>1. EventsInv /\ ResponsesInv
  BY DEF SseInv
<1>2. CASE ResponsesEvent
  <2>1. UNCHANGED eventVars /\ Responses!TypedEvent
    BY <1>2 DEF ResponsesEvent
  <2> QED
    BY <1>1, <2>1, EventsStutter, TypedStep DEF SseInv
<1>3. CASE OtherEvent
  <2>1. UNCHANGED responsesVars /\ Events!ContentEvent
    BY <1>3 DEF OtherEvent
  <2> QED
    BY <1>1, <2>1, ContentStep, ResponsesStutter DEF SseInv
<1>4. CASE ErrorEvent
  <2>1. EventsInv'
    BY <1>1, <1>4, ReleaseStep DEF ErrorEvent, Events!ErrorEvent
  <2>2. ResponsesInv'
    BY <1>1, <1>4, OverStep DEF ErrorEvent
  <2> QED
    BY <2>1, <2>2 DEF SseInv
<1>5. CASE DoneEvent
  <2>1. EventsInv'
    BY <1>1, <1>5, ReleaseStep DEF DoneEvent, Events!DoneEvent
  <2>2. ResponsesInv'
    BY <1>1, <1>5, OverStep, ResponsesStutter DEF DoneEvent
  <2> QED
    BY <2>1, <2>2 DEF SseInv
<1>6. CASE Flush
  <2>1. EventsInv'
    BY <1>1, <1>6, ReleaseStep DEF Flush, Events!Flush
  <2>2. ResponsesInv'
    BY <1>1, <1>6, FlushStep DEF Flush
  <2> QED
    BY <2>1, <2>2 DEF SseInv
<1>7. CASE UNCHANGED sseVars
  <2>1. UNCHANGED eventVars /\ UNCHANGED responsesVars
    BY <1>7 DEF sseVars
  <2> QED
    BY <1>1, <2>1, EventsStutter, ResponsesStutter DEF SseInv
<1> QED
  BY <1>2, <1>3, <1>4, <1>5, <1>6, <1>7 DEF SseNext

\* On every streamed answer, whatever the deltas carry: what a part has been fed
\* is what the client has read of it and what its buffer keeps, in both
\* adapters (SseStreamDesanitizer, ResponsesStreamDesanitizer).
THEOREM SseInvariant == SseSpec => []SseInv
<1>1. SseInit => SseInv
  BY EventsInit, ResponsesInit DEF SseInit, SseInv
<1>2. SseInv /\ [SseNext]_sseVars => SseInv'
  BY SseStep
<1> QED
  BY <1>1, <1>2, PTL DEF SseSpec

\* The state of both adapters is typed; a buffer that is gone keeps nothing, and a
\* choice without state has no buffer (_block_desanitizers, _chat, _streams).
THEOREM SseTypes == SseSpec => []SseTypeOK
<1>1. SseInv => SseTypeOK
  BY DEF SseInv, SseTypeOK, EventsInv, ResponsesInv
<1> QED
  BY <1>1, SseInvariant, PTL

\* When the stream is over, cut short or not, every fragment has reached the
\* client once: no buffer is dropped with text in it, at a stop, a finish, a
\* tool call, a done, an error or the end (flush of both adapters).
THEOREM AllDeliveredTheorem == SseSpec => []AllDelivered
<1>1. SseInv => AllDelivered
  <2> SUFFICES ASSUME SseInv PROVE AllDelivered
    OBVIOUS
  <2>1. EventsInv /\ ResponsesInv
    BY DEF SseInv
  <2>2. ASSUME up = "eof" PROVE client.got = fed
    <3>1. client.got \in [Events!Parts -> Nat] /\ fed \in [Events!Parts -> Nat]
      BY <2>1 DEF EventsInv, Events!TypeOK
    <3>2. ASSUME NEW p \in Events!Parts PROVE client.got[p] = fed[p]
      <4>1. client.got[p] + held[p] = fed[p] /\ held[p] = 0
        BY <2>1, <2>2 DEF EventsInv, NoneLost
      <4> QED
        BY <3>1, <4>1
    <3> QED
      BY <3>1, <3>2
  <2>3. ASSUME upstream = "eof" PROVE reader.got = given
    <3>1. reader.got \in [Responses!Keys -> Nat] /\ given \in [Responses!Keys -> Nat]
      BY <2>1 DEF ResponsesInv, Reader, Responses!TypeOK
    <3>2. ASSUME NEW k \in Responses!Keys PROVE reader.got[k] = given[k]
      <4>1. reader.got[k] + kept[k] = given[k] /\ kept[k] = 0
        BY <2>1, <2>3 DEF ResponsesInv
      <4> QED
        BY <3>1, <4>1
    <3> QED
      BY <3>1, <3>2
  <2> QED
    BY <2>2, <2>3 DEF AllDelivered, Events!GotAll, Responses!GotAll
<1> QED
  BY <1>1, SseInvariant, PTL

\* Text never trails the event that ends it and the numbers follow on, when a
\* delta carries the text of one thing at a time (_process_event, _rewrite_choice,
\* _feed, _item_matcher, _numbered, _SseRestorer._event).
THEOREM TailsInOrderTheorem ==
    ASSUME \A d \in Deltas : OneAtATime(d)
    PROVE  SseSpec => []TailsInOrder
<1>1. SseInv => TailsInOrder
  BY DEF SseInv, EventsInv, ResponsesInv, NoneTrails, TailsInOrder, NeverLate, NumbersFollow,
         Events!NoneLate, Responses!NoneLate, Responses!InSequence
<1> QED
  BY <1>1, SseInvariant, PTL

\* Nothing of the Responses API trails its end and its numbers follow on, with no
\* hypothesis (_feed, _flush_where, _numbered).
THEOREM ResponsesInOrder == SseSpec => [](Responses!NoneLate /\ NumbersFollow)
<1>1. SseInv => Responses!NoneLate /\ NumbersFollow
  BY DEF SseInv, ResponsesInv, NumbersFollow, Responses!NoneLate, Responses!InSequence
<1> QED
  BY <1>1, SseInvariant, PTL
===========================================================================
