-------------------------- MODULE AuditTrail_proofs --------------------------
(***************************************************************************)
(* Proofs about the audit record: of the guardrail (GuardrailAudit), of    *)
(* the ticket (TerminalAudit) and of the two     *)
(* together.                                                               *)
(*                                                                         *)
(* What a request's callers do to it is decided by what the guardrail's    *)
(* tables remember of it, so its inductive invariant relates, request by   *)
(* request, the stage of the pre-call, the phase of each caller, the       *)
(* tables and the sink; a step of another request only makes the tables    *)
(* forget, and what they forget is noted.  The ticket's invariant says who *)
(* writes, who is about to, and what is certain already.  Every step of    *)
(* the two together is a step, or none, of each, so both invariants hold   *)
(* of the whole and meet in the facts.                                     *)
(***************************************************************************)
EXTENDS AuditTrail, SequenceTheorems, FiniteSetTheorems, TLAPS

Emits == {"emit", "emitCancelled"}
Phases == {"idle", "wait", "emit", "emitCancelled", "retry", "done"}
Stages == {"new", "auth", "work", "inline", "net", "late", "done"}
TableNames == {"audited", "counted", "observed", "pending"}

\* The types of the guardrail's variables.
Typed ==
    /\ gated \in BOOLEAN
    /\ cancelled \in [Requests -> BOOLEAN] /\ stopped \in [Requests -> BOOLEAN]
    /\ closed \in [Requests -> BOOLEAN] /\ facts \in [Requests -> BOOLEAN]
    /\ forwarded \in [Requests -> BOOLEAN]
    /\ pre \in [Requests -> Stages]
    /\ call \in [Requests -> [AllCallers -> Phases]]
    /\ reqState \in SUBSET Requests
    /\ audited \in Seq(Requests) /\ owned \in Seq(Requests) /\ pending \in Seq(Requests)
    /\ counted \in Seq(Requests) /\ observed \in Seq(Requests)
    /\ failures \in [Requests -> Nat] /\ latencies \in [Requests -> Nat]
    /\ landed \in [Requests -> Nat] /\ cut \in [Requests -> Nat]
    /\ refused \in [Requests -> Nat]

TypeOK == Typed /\ forgotten \in SUBSET (TableNames \X Requests)

Lost(table, r) == <<table, r>> \in forgotten

Quiet(r) ==
    /\ call[r]["pre"] = "idle" /\ call[r]["log"] = "idle"
    /\ call[r]["late"] = "idle" /\ call[r]["cancel"] = "idle"

\* r has a record in the sink, a refusal, or a write in flight.
Touched(r) == landed[r] > 0 \/ refused[r] > 0 \/ Emitting(r)

\* The order in which a request's callers meet it.
OrderInv(r) ==
    /\ ~gated => ~cancelled[r] /\ ~stopped[r] /\ ~closed[r] /\ ~facts[r]
    /\ pre[r] \in {"new", "auth", "work", "late"} => call[r]["pre"] = "idle"
    /\ pre[r] \in {"inline", "net"} => call[r]["pre"] # "idle"
    /\ pre[r] = "done" => call[r]["pre"] \in {"idle", "done"}
    /\ pre[r] # "done" => call[r]["log"] = "idle" /\ call[r]["late"] = "idle" /\ ~forwarded[r]
    /\ call[r]["pre"] = "retry" => pre[r] = "net"
    /\ call[r]["cancel"] \in {"idle", "wait", "emitCancelled", "done"}
    /\ call[r]["cancel"] # "idle" => cancelled[r]
    /\ closed[r] /\ ~stopped[r] =>
           IF cancelled[r] THEN call[r]["cancel"] = "done" ELSE pre[r] = "done"
    /\ Quiet(r) => landed[r] = 0 /\ ~Has(pending, r)

\* A request handed over to its ticket is out of the guardrail's hands.
HandOverInv(r) ==
    /\ Has(owned, r) => facts[r]
    /\ facts[r] =>
           /\ pre[r] = "done" /\ r \notin reqState /\ ~Has(pending, r) /\ landed[r] = 0
           /\ \A p \in AllCallers : call[r][p] \in {"idle", "done"}
    /\ forwarded[r] /\ gated /\ ~facts[r] => cancelled[r] \/ stopped[r]

\* One record in flight, none beside a record that is marked.
RecordInv(r) ==
    /\ \A p, q \in AllCallers : call[r][p] \in Emits /\ call[r][q] \in Emits => p = q
    /\ Emitting(r) => ~Has(audited, r)
    /\ ~Lost("audited", r) => landed[r] <= cut[r] + (IF Has(audited, r) THEN 1 ELSE 0)
    /\ r \in reqState => call[r]["cancel"] = "idle" /\ landed[r] <= cut[r]

\* The metrics remember what they counted.
CountInv(r) ==
    /\ pre[r] \in {"new", "auth", "work"} => failures[r] = 0
    /\ pre[r] \in {"inline", "net"} => Has(counted, r) \/ Lost("counted", r)
    /\ ~Lost("counted", r) => failures[r] <= 1
    /\ latencies[r] > 0 => Has(observed, r) \/ Lost("observed", r)
    /\ ~Lost("observed", r) => latencies[r] <= 1

\* Every way to be done with a record leads through a write.
TouchInv(r) ==
    /\ Has(pending, r) => Touched(r)
    /\ ~facts[r] /\ Has(audited, r) => Touched(r)
    /\ ~facts[r] /\ call[r]["cancel"] # "idle" => Touched(r)
    /\ pre[r] \in {"inline", "net"} /\ call[r]["pre"] = "done" /\ ~cancelled[r] /\ ~stopped[r] =>
           Touched(r)
    /\ pre[r] = "done" /\ ~facts[r] /\ ~cancelled[r] /\ ~stopped[r] /\ ~forwarded[r] => Touched(r)
    /\ ~gated /\ call[r]["late"] # "idle" => Touched(r)
    /\ call[r]["cancel"] = "done" /\ ~facts[r] /\ ~Lost("audited", r) /\ ~Lost("pending", r) =>
           Has(audited, r) \/ Has(pending, r)

RequestInv(r) ==
    OrderInv(r) /\ HandOverInv(r) /\ RecordInv(r) /\ CountInv(r) /\ TouchInv(r)

GuardrailInv ==
    /\ TypeOK
    /\ \A r \in Requests : RequestInv(r)

------------------------------------------------------------------------------
(* The bounded tables.                                                      *)

\* A new entry is there, and no other request has come with it.
LEMMA PutFacts ==
    ASSUME NEW T \in Seq(Requests), NEW x \in Requests
    PROVE  /\ Put(T, x) \in Seq(Requests)
           /\ Has(Put(T, x), x)
           /\ \A r : r # x /\ Has(Put(T, x), r) => Has(T, r)
<1>1. CASE Has(T, x)
    BY <1>1 DEF Put
<1>2. CASE ~Has(T, x) /\ Len(T) < Cap
    <2>1. Put(T, x) = Append(T, x)
        BY <1>2 DEF Put
    <2> QED
        BY <2>1 DEF Has
<1>3. CASE ~Has(T, x) /\ ~(Len(T) < Cap)
    <2>1. Put(T, x) = Append(Tail(T), x)
        BY <1>3 DEF Put
    <2>2. T # <<>> /\ Len(T) \in Nat /\ Len(T) >= 1
        BY <1>3, GuardrailAssumption
    <2>3. /\ Tail(T) \in Seq(Requests) /\ Len(Tail(T)) = Len(T) - 1
          /\ \A i \in 1..Len(Tail(T)) : Tail(T)[i] = T[i + 1]
        BY <2>2
    <2> DEFINE N == Append(Tail(T), x)
    <2>4. /\ N \in Seq(Requests) /\ Len(N) = Len(T) /\ N[Len(T)] = x
          /\ \A i \in 1..(Len(T) - 1) : N[i] = T[i + 1]
        BY <2>2, <2>3
    <2> HIDE DEF N
    <2>5. Has(N, x)
        BY <2>2, <2>4 DEF Has
    <2>6. ASSUME NEW r, r # x, Has(N, r) PROVE Has(T, r)
        <3>1. PICK i \in 1..Len(N) : N[i] = r
            BY <2>6 DEF Has
        <3>2. i \in 1..(Len(T) - 1) /\ T[i + 1] = r /\ i + 1 \in 1..Len(T)
            BY <2>2, <2>4, <2>6, <3>1
        <3> QED
            BY <3>2 DEF Has
    <2> QED
        BY <2>1, <2>4, <2>5, <2>6 DEF N
<1> QED
    BY <1>1, <1>2, <1>3

\* Popping an entry brings none in.
LEMMA WithoutFacts ==
    ASSUME NEW T \in Seq(Requests), NEW x
    PROVE  /\ Without(T, x) \in Seq(Requests)
           /\ \A r : Has(Without(T, x), r) => Has(T, r)
<1>1. CASE ~Has(T, x)
    BY <1>1 DEF Without
<1>2. CASE Has(T, x)
    <2> DEFINE k == CHOOSE i \in 1..Len(T) : T[i] = x
               A == SubSeq(T, 1, k - 1)
               B == SubSeq(T, k + 1, Len(T))
    <2>1. k \in 1..Len(T)
        BY <1>2 DEF Has
    <2>2. Without(T, x) = A \o B
        BY <1>2 DEF Without
    <2> HIDE DEF k
    <2>3. /\ A \in Seq(Requests) /\ Len(A) = k - 1
          /\ \A i \in 1..Len(A) : A[i] = T[i]
        BY <2>1, SubSeqProperties
    <2>4. /\ B \in Seq(Requests) /\ Len(B) = Len(T) - k
          /\ \A i \in 1..Len(B) : B[i] = T[k + i]
        BY <2>1, SubSeqProperties
    <2> HIDE DEF A, B
    <2>5. /\ A \o B \in Seq(Requests) /\ Len(A \o B) = Len(A) + Len(B)
          /\ \A i \in 1..(Len(A) + Len(B)) :
                 (A \o B)[i] = IF i <= Len(A) THEN A[i] ELSE B[i - Len(A)]
        BY <2>3, <2>4, ConcatProperties
    <2>6. ASSUME NEW r, Has(A \o B, r) PROVE Has(T, r)
        <3>1. PICK i \in 1..Len(A \o B) : (A \o B)[i] = r
            BY <2>6 DEF Has
        <3>2. i \in 1..(Len(A) + Len(B)) /\ Len(A) \in Nat /\ Len(B) \in Nat
            BY <2>3, <2>4, <2>5, <3>1
        <3>3. CASE i <= Len(A)
            <4>1. i \in 1..Len(A) /\ T[i] = r /\ i \in 1..Len(T)
                BY <2>1, <2>3, <2>5, <3>1, <3>2, <3>3
            <4> QED
                BY <4>1 DEF Has
        <3>4. CASE ~(i <= Len(A))
            <4> DEFINE j == i - Len(A)
            <4>1. j \in 1..Len(B) /\ B[j] = r
                BY <2>5, <3>1, <3>2, <3>4
            <4>2. T[k + j] = r /\ k + j \in 1..Len(T)
                BY <2>1, <2>4, <4>1
            <4> QED
                BY <4>2 DEF Has
        <3> QED
            BY <3>3, <3>4
    <2> QED
        BY <2>2, <2>5, <2>6
<1> QED
    BY <1>1, <1>2

LEMMA PutLastFacts ==
    ASSUME NEW T \in Seq(Requests), NEW x \in Requests
    PROVE  /\ PutLast(T, x) \in Seq(Requests)
           /\ Has(PutLast(T, x), x)
           /\ \A r : r # x /\ Has(PutLast(T, x), r) => Has(T, r)
BY WithoutFacts, PutFacts DEF PutLast

------------------------------------------------------------------------------
(* A step is one request's: of the others it changes only what the tables   *)
(* remember, and it notes what they forget.                                 *)

Step(x) == PreCallStep(x) \/ TicketStep(x) \/ CallerStep(x)

Alike(f, g, x) == \A r \in Requests : r # x => g[r] = f[r]
NoneCame(T, U, x) == \A r \in Requests : r # x /\ Has(U, r) => Has(T, r)

Elsewhere(x) ==
    /\ gated' = gated
    /\ Alike(cancelled, cancelled', x) /\ Alike(stopped, stopped', x)
    /\ Alike(closed, closed', x) /\ Alike(facts, facts', x)
    /\ Alike(forwarded, forwarded', x) /\ Alike(pre, pre', x) /\ Alike(call, call', x)
    /\ \A r \in Requests : r # x => (r \in reqState' <=> r \in reqState)
    /\ NoneCame(audited, audited', x) /\ NoneCame(owned, owned', x)
    /\ NoneCame(pending, pending', x)
    /\ Alike(failures, failures', x) /\ Alike(latencies, latencies', x)
    /\ Alike(landed, landed', x) /\ Alike(cut, cut', x) /\ Alike(refused, refused', x)

\* What a table no longer has is noted as forgotten.
Remembers(r) ==
    /\ forgotten \subseteq forgotten'
    /\ Has(audited, r) => Has(audited', r) \/ Lost("audited", r)'
    /\ Has(counted, r) => Has(counted', r) \/ Lost("counted", r)'
    /\ Has(observed, r) => Has(observed', r) \/ Lost("observed", r)'
    /\ Has(pending, r) => Has(pending', r) \/ Lost("pending", r)' \/ Has(audited', r) \/ facts[r]

LEMMA NextRemembers ==
    ASSUME Typed, forgotten' = forgotten \cup Evicted, NEW r \in Requests
    PROVE  Remembers(r)
BY DEF Remembers, Evicted, Lost

\* One element of a function.
LEMMA SetFacts ==
    ASSUME NEW S, NEW f \in [Requests -> S], NEW x \in Requests, NEW v \in S
    PROVE  /\ Set(f, x, v) \in [Requests -> S]
           /\ Set(f, x, v)[x] = v
           /\ Alike(f, Set(f, x, v), x)
BY DEF Set, Alike

\* A counter of one request goes up.
LEMMA BumpFacts ==
    ASSUME NEW f \in [Requests -> Nat], NEW x \in Requests
    PROVE  /\ Set(f, x, f[x] + 1) \in [Requests -> Nat]
           /\ Set(f, x, f[x] + 1)[x] = f[x] + 1
           /\ Alike(f, Set(f, x, f[x] + 1), x) /\ Alike(f, f, x)
BY DEF Set, Alike

\* The pre-call moves on, a caller moves on.
LEMMA StageFacts ==
    ASSUME Typed, NEW x \in Requests, NEW v \in Stages, pre' = Set(pre, x, v)
    PROVE  pre' \in [Requests -> Stages] /\ Alike(pre, pre', x) /\ pre'[x] = v
<1>1. pre \in [Requests -> Stages]
    BY DEF Typed
<1> QED
    BY <1>1, SetFacts

LEMMA BecomeFacts ==
    ASSUME Typed, NEW x \in Requests, NEW p \in AllCallers, NEW v \in Phases, Become(x, p, v)
    PROVE  /\ call' \in [Requests -> [AllCallers -> Phases]]
           /\ call'[x][p] = v
           /\ \A q \in AllCallers : q # p => call'[x][q] = call[x][q]
           /\ Alike(call, call', x)
BY DEF Typed, Become, Alike

\* The metrics' tables.
LEMMA LatencyFacts ==
    ASSUME Typed, NEW x \in Requests, ObserveLatency(x)
    PROVE  /\ observed' \in Seq(Requests) /\ latencies' \in [Requests -> Nat]
           /\ Has(observed', x) /\ Alike(latencies, latencies', x)
           /\ latencies'[x] = IF Has(observed, x) THEN latencies[x] ELSE latencies[x] + 1
<1>1. observed \in Seq(Requests) /\ latencies \in [Requests -> Nat]
    BY DEF Typed
<1>2. observed' \in Seq(Requests) /\ Has(observed', x)
    BY <1>1, PutFacts DEF ObserveLatency
<1> QED
    BY <1>1, <1>2, BumpFacts DEF ObserveLatency

LEMMA FailureFacts ==
    ASSUME Typed, NEW x \in Requests, RecordFailure(x)
    PROVE  /\ counted' \in Seq(Requests) /\ failures' \in [Requests -> Nat]
           /\ Has(counted', x) /\ Alike(failures, failures', x)
           /\ failures'[x] = failures[x] + 1
<1>1. counted \in Seq(Requests) /\ failures \in [Requests -> Nat]
    BY DEF Typed
<1>2. counted' \in Seq(Requests) /\ Has(counted', x)
    BY <1>1, PutFacts DEF RecordFailure
<1> QED
    BY <1>1, <1>2, BumpFacts DEF RecordFailure

\* What a write leaves in the sink.
LEMMA SinkFacts ==
    ASSUME Typed, NEW x \in Requests, NEW o, Delivered(x, o)
    PROVE  /\ landed' \in [Requests -> Nat] /\ cut' \in [Requests -> Nat]
           /\ refused' \in [Requests -> Nat]
           /\ Alike(landed, landed', x) /\ Alike(cut, cut', x) /\ Alike(refused, refused', x)
           /\ landed'[x] = IF o \in {"ok", "unacked", "ambiguous"} THEN landed[x] + 1 ELSE landed[x]
           /\ cut'[x] = IF o = "unacked" THEN cut[x] + 1 ELSE cut[x]
           /\ refused'[x] = IF o \in {"failed", "unsure"} THEN refused[x] + 1 ELSE refused[x]
<1>1. /\ landed \in [Requests -> Nat] /\ cut \in [Requests -> Nat]
      /\ refused \in [Requests -> Nat]
    BY DEF Typed
<1>2. /\ landed' \in [Requests -> Nat] /\ Alike(landed, landed', x)
      /\ landed'[x] = IF o \in {"ok", "unacked", "ambiguous"} THEN landed[x] + 1 ELSE landed[x]
    BY <1>1, BumpFacts DEF Delivered
<1>3. /\ cut' \in [Requests -> Nat] /\ Alike(cut, cut', x)
      /\ cut'[x] = IF o = "unacked" THEN cut[x] + 1 ELSE cut[x]
    BY <1>1, BumpFacts DEF Delivered
<1>4. /\ refused' \in [Requests -> Nat] /\ Alike(refused, refused', x)
      /\ refused'[x] = IF o \in {"failed", "unsure"} THEN refused[x] + 1 ELSE refused[x]
    BY <1>1, BumpFacts DEF Delivered
<1> QED
    BY <1>2, <1>3, <1>4

\* How a call of audit() goes on: it writes only when no record is in flight or
\* marked, waits only for one that is in flight, and is through without either
\* only when the record is somebody else's.
LEMMA AuditFacts ==
    ASSUME Typed, NEW x \in Requests, NEW p \in AllCallers, Audit(p, x) \/ Proceed(p, x)
    PROVE  /\ call' \in [Requests -> [AllCallers -> Phases]] /\ Alike(call, call', x)
           /\ \A q \in AllCallers : q # p => call'[x][q] = call[x][q]
           /\ call'[x][p] \in {"wait", "done", "emit", "emitCancelled"}
           /\ call'[x][p] \in Emits => ~Emitting(x) /\ ~Has(audited, x)
           /\ call'[x][p] = "wait" => Emitting(x)
           /\ call'[x][p] = "done" /\ ~Owned(p, x) /\ ~(InContext(p) /\ cancelled[x])
                  /\ ~(p \in Logs /\ gated /\ x \notin reqState) => Has(audited, x)
           /\ p \in Logs /\ gated /\ x \notin reqState /\ ~Emitting(x) /\ ~Has(pending, x) =>
                  call'[x][p] = "done"
           /\ observed' \in Seq(Requests) /\ latencies' \in [Requests -> Nat]
           /\ Alike(latencies, latencies', x)
           /\ \/ latencies'[x] = latencies[x]
              \/ latencies'[x] = latencies[x] + 1 /\ ~Has(observed, x) /\ Has(observed', x)
<1>1. UNCHANGED <<observed, latencies>> \/ ObserveLatency(x)
    BY DEF Audit, Proceed
<1>2. /\ observed' \in Seq(Requests) /\ latencies' \in [Requests -> Nat]
      /\ Alike(latencies, latencies', x)
      /\ \/ latencies'[x] = latencies[x]
         \/ latencies'[x] = latencies[x] + 1 /\ ~Has(observed, x) /\ Has(observed', x)
    <2>1. observed \in Seq(Requests) /\ latencies \in [Requests -> Nat]
        BY DEF Typed
    <2> QED
        BY <1>1, <2>1, LatencyFacts, BumpFacts
<1>3. CASE Owned(p, x) /\ Audit(p, x)
    <2>1. Become(x, p, "done") /\ "done" \in Phases
        BY <1>3 DEF Audit, Phases
    <2>2. /\ call' \in [Requests -> [AllCallers -> Phases]] /\ Alike(call, call', x)
          /\ call'[x][p] = "done"
          /\ \A q \in AllCallers : q # p => call'[x][q] = call[x][q]
        BY <2>1, BecomeFacts
    <2> QED
        BY <1>2, <1>3, <2>2 DEF Emits
<1>4. CASE Proceed(p, x)
    <2> DEFINE v == IF Resolve(p, x) = "orphan" THEN "done" ELSE Resolve(p, x)
    <2>1. /\ v \in {"wait", "done", "emit", "emitCancelled"}
          /\ v \in Emits => ~Emitting(x) /\ ~Has(audited, x)
          /\ v = "wait" => Emitting(x)
          /\ v = "done" /\ ~(InContext(p) /\ cancelled[x])
                 /\ ~(p \in Logs /\ gated /\ x \notin reqState) => Has(audited, x)
          /\ p \in Logs /\ gated /\ x \notin reqState /\ ~Emitting(x) /\ ~Has(pending, x) =>
                 v = "done"
        BY DEF Resolve, Emits
    <2>2. Become(x, p, v)
        BY <1>4 DEF Proceed
    <2>3. v \in Phases
        BY <2>1 DEF Phases
    <2> HIDE DEF v
    <2>4. /\ call' \in [Requests -> [AllCallers -> Phases]] /\ Alike(call, call', x)
          /\ call'[x][p] = v
          /\ \A q \in AllCallers : q # p => call'[x][q] = call[x][q]
        BY <2>2, <2>3, BecomeFacts
    <2> QED
        BY <1>2, <2>1, <2>4
<1> QED
    BY <1>3, <1>4 DEF Audit

\* What the end of a write does to the tables.
LEMMA MarkFacts ==
    ASSUME Typed, NEW x \in Requests, MarkAudited(x)
    PROVE  /\ audited' \in Seq(Requests) /\ pending' \in Seq(Requests)
           /\ reqState' \in SUBSET Requests
           /\ x \notin reqState' /\ \A r \in Requests : r # x => (r \in reqState' <=> r \in reqState)
           /\ NoneCame(audited, audited', x) /\ NoneCame(pending, pending', x)
           /\ Has(audited', x) /\ (Has(pending', x) => Has(pending, x))
<1>1. audited \in Seq(Requests) /\ pending \in Seq(Requests) /\ reqState \in SUBSET Requests
    BY DEF Typed
<1> QED
    BY <1>1, PutFacts, WithoutFacts DEF MarkAudited, NoneCame

LEMMA QueueFacts ==
    ASSUME Typed, NEW x \in Requests, QueueCancelled(x)
    PROVE  /\ audited' = audited /\ reqState' = reqState
           /\ pending' \in Seq(Requests) /\ NoneCame(pending, pending', x) /\ Has(pending', x)
<1>1. pending \in Seq(Requests)
    BY DEF Typed
<1> QED
    BY <1>1, PutLastFacts DEF QueueCancelled, NoneCame

LEMMA ReleaseFacts ==
    ASSUME Typed, NEW x \in Requests, ReleaseOwned(x)
    PROVE  /\ owned' \in Seq(Requests) /\ audited' \in Seq(Requests)
           /\ NoneCame(owned, owned', x) /\ NoneCame(audited, audited', x)
           /\ Has(owned', x) => Has(owned, x)
           /\ audited' = audited \/ (Has(owned, x) /\ Has(audited', x))
<1>1. owned \in Seq(Requests) /\ audited \in Seq(Requests)
    BY DEF Typed
<1> QED
    BY <1>1, PutFacts, WithoutFacts DEF ReleaseOwned, NoneCame

LEMMA NoneMoved ==
    ASSUME NEW x
    PROVE  /\ \A f : Alike(f, f, x)
           /\ \A T : NoneCame(T, T, x)
BY DEF Alike, NoneCame

------------------------------------------------------------------------------
(* The pre-call's steps.                                                    *)

\* What every step of x is shown to do.
Good(x) == Typed' /\ Elsewhere(x) /\ RequestInv(x)'

LEMMA BeginKeeps ==
    ASSUME Typed, NEW x \in Requests, RequestInv(x), Remembers(x), Begin(x)
    PROVE  Good(x)
<1>1. /\ UNCHANGED <<gated, cancelled, stopped, closed, facts, forwarded, call, reqState, audited,
                     owned, pending, counted, observed, latencies, landed, cut, refused>>
      /\ pre[x] = "new"
    BY DEF Begin, ticket, tables, sink
<1>2. /\ pre' \in [Requests -> Stages] /\ Alike(pre, pre', x)
      /\ pre'[x] = IF cancelled[x] THEN "late" ELSE "auth"
    <2>1. "auth" \in Stages /\ "late" \in Stages
        BY DEF Stages
    <2> QED
        BY <2>1, StageFacts DEF Begin
<1>3. /\ failures' \in [Requests -> Nat] /\ Alike(failures, failures', x)
      /\ failures'[x] = IF cancelled[x] THEN failures[x] + 1 ELSE failures[x]
    <2>1. failures \in [Requests -> Nat]
        BY DEF Typed
    <2> QED
        BY <2>1, BumpFacts DEF Begin
<1>4. Typed'
    BY <1>1, <1>2, <1>3 DEF Typed
<1>5. Elsewhere(x)
    BY <1>1, <1>2, <1>3, NoneMoved DEF Elsewhere
<1>6. OrderInv(x)' /\ HandOverInv(x)' /\ RecordInv(x)'
    BY <1>1, <1>2 DEF RequestInv, OrderInv, HandOverInv, RecordInv, Quiet, Emitting, Remembers, Lost
<1>7. CountInv(x)'
    BY <1>1, <1>2, <1>3 DEF RequestInv, CountInv, Remembers, Lost, Typed
<1>8. TouchInv(x)'
    BY <1>1, <1>2 DEF RequestInv, TouchInv, Touched, Emitting, Remembers, Lost
<1> QED
    BY <1>4, <1>5, <1>6, <1>7, <1>8 DEF Good, RequestInv

LEMMA RegisterKeeps ==
    ASSUME Typed, NEW x \in Requests, RequestInv(x), Remembers(x), Register(x)
    PROVE  Good(x)
<1>1. /\ UNCHANGED <<gated, cancelled, stopped, closed, facts, forwarded, call, audited, owned,
                     pending, counted, observed, failures, latencies, landed, cut, refused>>
      /\ pre[x] = "auth" /\ ~Doomed(x) /\ reqState' = reqState \cup {x}
    BY DEF Register, ticket, tables, metrics, sink
<1>2. /\ pre' \in [Requests -> Stages] /\ Alike(pre, pre', x) /\ pre'[x] = "work"
    <2>1. "work" \in Stages
        BY DEF Stages
    <2> QED
        BY <2>1, StageFacts DEF Register
<1>3. Quiet(x) /\ ~facts[x]
    BY <1>1 DEF RequestInv, OrderInv, HandOverInv, Quiet, Doomed
<1>4. Typed'
    BY <1>1, <1>2 DEF Typed
<1>5. Elsewhere(x)
    BY <1>1, <1>2, NoneMoved DEF Elsewhere
<1>6. OrderInv(x)' /\ HandOverInv(x)'
    BY <1>1, <1>2, <1>3 DEF RequestInv, OrderInv, HandOverInv, Quiet
<1>7. RecordInv(x)' /\ CountInv(x)'
    BY <1>1, <1>2, <1>3
       DEF RequestInv, OrderInv, RecordInv, CountInv, Quiet, Emitting, Remembers, Lost, Typed
<1>8. TouchInv(x)'
    BY <1>1, <1>2 DEF RequestInv, TouchInv, Touched, Emitting, Remembers, Lost
<1> QED
    BY <1>4, <1>5, <1>6, <1>7, <1>8 DEF Good, RequestInv

\* audit() from inside the pre-call, by a refusal, a crash or the safety net.
LEMMA InlineKeeps ==
    ASSUME Typed, NEW x \in Requests, RequestInv(x), Remembers(x),
           Refuse(x) \/ Crash(x) \/ Retry(x)
    PROVE  Good(x)
<1>1. /\ UNCHANGED <<gated, cancelled, stopped, closed, facts, forwarded, reqState, audited, owned,
                     pending, landed, cut, refused>>
      /\ Audit("pre", x)
      /\ pre[x] \in {"auth", "work", "net"}
      /\ call[x]["pre"] \notin Emits
    BY DEF Refuse, Crash, Retry, ticket, sink, RequestInv, OrderInv, Emits
<1>2. /\ pre' \in [Requests -> Stages] /\ Alike(pre, pre', x) /\ pre'[x] \in {"inline", "net"}
    <2>1. "inline" \in Stages /\ "net" \in Stages /\ pre \in [Requests -> Stages]
        BY DEF Stages, Typed
    <2>2. Retry(x) => pre' = pre /\ pre[x] = "net"
        BY DEF Retry, RequestInv, OrderInv
    <2> QED
        BY <2>1, <2>2, StageFacts, NoneMoved DEF Refuse, Crash
<1>3. /\ counted' \in Seq(Requests) /\ failures' \in [Requests -> Nat]
      /\ Alike(failures, failures', x)
      /\ Has(counted', x) \/ Lost("counted", x)'
      /\ ~Lost("counted", x)' => failures'[x] <= 1
    <2>1. CASE Refuse(x) \/ Crash(x)
        <3>1. RecordFailure(x) /\ failures[x] = 0
            BY <2>1 DEF Refuse, Crash, RequestInv, CountInv
        <3> QED
            BY <3>1, FailureFacts
    <2>2. CASE Retry(x)
        <3>1. /\ Has(counted, x) \/ Lost("counted", x)
              /\ ~Lost("counted", x) => failures[x] <= 1
            BY <2>2 DEF Retry, RequestInv, OrderInv, CountInv
        <3>2. Lost("counted", x) => Lost("counted", x)'
            BY DEF Remembers, Lost
        <3>3. CASE Has(counted, x)
            <4>1. UNCHANGED <<counted, failures>>
                BY <2>2, <3>3 DEF Retry
            <4>2. counted \in Seq(Requests) /\ failures \in [Requests -> Nat]
                BY DEF Typed
            <4> QED
                BY <3>1, <3>2, <3>3, <4>1, <4>2, NoneMoved
        <3>4. CASE ~Has(counted, x)
            <4>1. RecordFailure(x)
                BY <2>2, <3>4 DEF Retry
            <4> QED
                BY <3>1, <3>2, <3>4, <4>1, FailureFacts
        <3> QED
            BY <3>3, <3>4
    <2> QED
        BY <2>1, <2>2
<1>4. "pre" \in AllCallers /\ "pre" \notin Logs /\ InContext("pre")
    BY DEF AllCallers, Logs, InContext
<1>5. /\ call' \in [Requests -> [AllCallers -> Phases]] /\ Alike(call, call', x)
      /\ \A q \in AllCallers : q # "pre" => call'[x][q] = call[x][q]
      /\ call'[x]["pre"] \in {"wait", "done", "emit", "emitCancelled"}
      /\ call'[x]["pre"] \in Emits => ~Emitting(x) /\ ~Has(audited, x)
      /\ call'[x]["pre"] = "wait" => Emitting(x)
      /\ call'[x]["pre"] = "done" /\ ~Owned("pre", x) /\ ~cancelled[x] => Has(audited, x)
    BY <1>1, <1>4, AuditFacts
<1>6. /\ observed' \in Seq(Requests) /\ latencies' \in [Requests -> Nat]
      /\ Alike(latencies, latencies', x)
      /\ \/ latencies'[x] = latencies[x]
         \/ latencies'[x] = latencies[x] + 1 /\ ~Has(observed, x) /\ Has(observed', x)
    BY <1>1, <1>4, AuditFacts
<1>7. ~facts[x] /\ ~Owned("pre", x)
    BY <1>1 DEF RequestInv, HandOverInv, Owned
<1>8. Typed'
    BY <1>1, <1>2, <1>3, <1>5, <1>6 DEF Typed
<1>9. Elsewhere(x)
    BY <1>1, <1>2, <1>3, <1>5, <1>6, NoneMoved DEF Elsewhere
<1>10. OrderInv(x)' /\ HandOverInv(x)'
    BY <1>1, <1>2, <1>5, <1>7 DEF RequestInv, OrderInv, HandOverInv, Quiet, AllCallers, Emits
<1>11. RecordInv(x)'
    BY <1>1, <1>5 DEF RequestInv, RecordInv, Emitting, Emits, Remembers, Lost, AllCallers
<1>12. CountInv(x)'
    <2>1. latencies[x] \in Nat
        BY DEF Typed
    <2>2. /\ latencies'[x] > 0 => Has(observed', x) \/ Lost("observed", x)'
          /\ ~Lost("observed", x)' => latencies'[x] <= 1
        BY <1>6, <2>1 DEF RequestInv, CountInv, Remembers, Lost
    <2> QED
        BY <1>2, <1>3, <2>2 DEF CountInv
<1>13. Touched(x) => Touched(x)'
    BY <1>1, <1>5 DEF Touched, Emitting, Emits
<1>14. call'[x]["pre"] = "done" /\ ~cancelled[x] => Touched(x)
    BY <1>5, <1>7 DEF RequestInv, TouchInv
<1>15. TouchInv(x)'
    BY <1>1, <1>2, <1>4, <1>5, <1>13, <1>14
       DEF RequestInv, TouchInv, Remembers, Lost, AllCallers
<1> QED
    BY <1>8, <1>9, <1>10, <1>11, <1>12, <1>15 DEF Good, RequestInv

LEMMA CompleteKeeps ==
    ASSUME Typed, NEW x \in Requests, RequestInv(x), Remembers(x), Complete(x)
    PROVE  Good(x)
<1>1. /\ UNCHANGED <<gated, cancelled, stopped, closed, call, audited, pending, counted, observed,
                     failures, latencies, landed, cut, refused>>
      /\ pre[x] = "work" /\ ~Doomed(x)
    BY DEF Complete, metrics, sink
<1>2. /\ pre' \in [Requests -> Stages] /\ Alike(pre, pre', x) /\ pre'[x] = "done"
    <2>1. "done" \in Stages
        BY DEF Stages
    <2> QED
        BY <2>1, StageFacts DEF Complete
<1>3. /\ forwarded' \in [Requests -> BOOLEAN] /\ Alike(forwarded, forwarded', x) /\ forwarded'[x]
    <2>1. forwarded \in [Requests -> BOOLEAN]
        BY DEF Typed
    <2> QED
        BY <2>1, SetFacts DEF Complete
<1>4. ~facts[x] /\ call[x]["pre"] = "idle" /\ call[x]["log"] = "idle" /\ call[x]["late"] = "idle"
    BY <1>1 DEF RequestInv, OrderInv, HandOverInv
<1>5. CASE gated /\ ~closed[x] /\ ~cancelled[x]
    <2>1. /\ facts' = Set(facts, x, TRUE) /\ owned' = PutLast(owned, x) /\ reqState' = reqState \ {x}
        BY <1>5 DEF Complete
    <2>2. /\ facts \in [Requests -> BOOLEAN] /\ owned \in Seq(Requests) /\ reqState \in SUBSET Requests
        BY DEF Typed
    <2>3. /\ facts' \in [Requests -> BOOLEAN] /\ Alike(facts, facts', x) /\ facts'[x]
        BY <2>1, <2>2, SetFacts
    <2>4. owned' \in Seq(Requests) /\ NoneCame(owned, owned', x)
        BY <2>1, <2>2, PutLastFacts DEF NoneCame
    <2>5. Quiet(x)
        BY <1>4, <1>5 DEF RequestInv, OrderInv, Quiet
    <2>6. Typed'
        BY <1>1, <1>2, <1>3, <2>1, <2>3, <2>4 DEF Typed
    <2>7. Elsewhere(x)
        BY <1>1, <1>2, <1>3, <2>1, <2>3, <2>4, NoneMoved DEF Elsewhere
    <2>8. OrderInv(x)' /\ HandOverInv(x)'
        BY <1>1, <1>2, <1>3, <1>5, <2>1, <2>3, <2>5
           DEF RequestInv, OrderInv, HandOverInv, Quiet, AllCallers
    <2>9. RecordInv(x)' /\ CountInv(x)'
        BY <1>1, <1>2, <2>1 DEF RequestInv, RecordInv, CountInv, Emitting, Remembers, Lost
    <2>10. TouchInv(x)'
        BY <1>1, <1>2, <1>5, <2>3, <2>5 DEF RequestInv, TouchInv, OrderInv, Quiet
    <2> QED
        BY <2>6, <2>7, <2>8, <2>9, <2>10 DEF Good, RequestInv
<1>6. CASE ~(gated /\ ~closed[x] /\ ~cancelled[x])
    <2>1. UNCHANGED <<facts, owned, reqState>>
        BY <1>6 DEF Complete
    <2>2. gated => cancelled[x] \/ stopped[x]
        BY <1>1, <1>6 DEF RequestInv, OrderInv
    <2>3. Typed'
        BY <1>1, <1>2, <1>3, <2>1 DEF Typed
    <2>4. Elsewhere(x)
        BY <1>1, <1>2, <1>3, <2>1, NoneMoved DEF Elsewhere
    <2>5. OrderInv(x)' /\ HandOverInv(x)'
        BY <1>1, <1>2, <1>3, <1>4, <2>1, <2>2 DEF RequestInv, OrderInv, HandOverInv, Quiet
    <2>6. RecordInv(x)' /\ CountInv(x)'
        BY <1>1, <1>2, <2>1 DEF RequestInv, RecordInv, CountInv, Emitting, Remembers, Lost
    <2>7. TouchInv(x)'
        BY <1>1, <1>2, <1>3, <1>4, <2>1 DEF RequestInv, TouchInv, Touched, Emitting, Remembers, Lost
    <2> QED
        BY <2>3, <2>4, <2>5, <2>6, <2>7 DEF Good, RequestInv
<1> QED
    BY <1>5, <1>6

LEMMA AnsweredKeeps ==
    ASSUME Typed, NEW x \in Requests, RequestInv(x), Remembers(x), Answered(x)
    PROVE  Good(x)
<1>1. /\ UNCHANGED <<gated, cancelled, stopped, closed, facts, forwarded, call, reqState, audited,
                     owned, pending, counted, observed, failures, latencies, landed, cut, refused>>
      /\ pre[x] \in {"inline", "net"} /\ call[x]["pre"] = "done"
    BY DEF Answered, ticket, tables, metrics, sink
<1>2. /\ pre' \in [Requests -> Stages] /\ Alike(pre, pre', x) /\ pre'[x] = "done"
    <2>1. "done" \in Stages
        BY DEF Stages
    <2> QED
        BY <2>1, StageFacts DEF Answered
<1>3. Typed'
    BY <1>1, <1>2 DEF Typed
<1>4. Elsewhere(x)
    BY <1>1, <1>2, NoneMoved DEF Elsewhere
<1>5. OrderInv(x)' /\ HandOverInv(x)'
    BY <1>1, <1>2 DEF RequestInv, OrderInv, HandOverInv, Quiet
<1>6. RecordInv(x)' /\ CountInv(x)'
    BY <1>1, <1>2 DEF RequestInv, RecordInv, CountInv, Emitting, Remembers, Lost
<1>7. TouchInv(x)'
    BY <1>1, <1>2 DEF RequestInv, TouchInv, Touched, Emitting, Remembers, Lost
<1> QED
    BY <1>3, <1>4, <1>5, <1>6, <1>7 DEF Good, RequestInv

------------------------------------------------------------------------------
(* The ticket's steps.                                                      *)

LEMMA EndKeeps ==
    ASSUME Typed, NEW x \in Requests, RequestInv(x), Remembers(x), ClientLeaves(x) \/ ServerStops(x)
    PROVE  Good(x)
<1>1. /\ UNCHANGED <<gated, closed, facts, pre, forwarded, call, reqState, audited, owned, pending,
                     counted, observed, failures, latencies, landed, cut, refused>>
      /\ gated /\ ~closed[x]
    BY DEF ClientLeaves, ServerStops, tables, metrics, sink
<1>2. /\ cancelled' \in [Requests -> BOOLEAN] /\ stopped' \in [Requests -> BOOLEAN]
      /\ Alike(cancelled, cancelled', x) /\ Alike(stopped, stopped', x)
      /\ cancelled[x] => cancelled'[x]
      /\ stopped[x] => stopped'[x]
      /\ cancelled'[x] \/ stopped'[x]
    <2>1. cancelled \in [Requests -> BOOLEAN] /\ stopped \in [Requests -> BOOLEAN]
        BY DEF Typed
    <2>2. CASE ClientLeaves(x)
        BY <2>1, <2>2, SetFacts, NoneMoved DEF ClientLeaves
    <2>3. CASE ServerStops(x)
        BY <2>1, <2>3, SetFacts, NoneMoved DEF ServerStops
    <2> QED
        BY <2>2, <2>3
<1>3. Typed'
    BY <1>1, <1>2 DEF Typed
<1>4. Elsewhere(x)
    BY <1>1, <1>2, NoneMoved DEF Elsewhere
<1>5. OrderInv(x)' /\ HandOverInv(x)'
    BY <1>1, <1>2 DEF RequestInv, OrderInv, HandOverInv, Quiet
<1>6. RecordInv(x)' /\ CountInv(x)'
    BY <1>1 DEF RequestInv, RecordInv, CountInv, Emitting, Remembers, Lost
<1>7. TouchInv(x)'
    BY <1>1, <1>2 DEF RequestInv, TouchInv, Touched, Emitting, Remembers, Lost
<1> QED
    BY <1>3, <1>4, <1>5, <1>6, <1>7 DEF Good, RequestInv

LEMMA CloseKeeps ==
    ASSUME Typed, NEW x \in Requests, RequestInv(x), Remembers(x), Close(x)
    PROVE  Good(x)
<1>1. /\ UNCHANGED <<gated, cancelled, stopped, facts, pre, forwarded, call, reqState, pending,
                     counted, observed, failures, latencies, landed, cut, refused>>
      /\ gated /\ ReleaseOwned(x)
      /\ stopped[x] \/ (IF cancelled[x] THEN call[x]["cancel"] = "done" ELSE pre[x] = "done")
    BY DEF Close, metrics, sink
<1>2. closed' \in [Requests -> BOOLEAN] /\ Alike(closed, closed', x)
    <2>1. closed \in [Requests -> BOOLEAN]
        BY DEF Typed
    <2> QED
        BY <2>1, SetFacts DEF Close
<1>3. /\ owned' \in Seq(Requests) /\ audited' \in Seq(Requests)
      /\ NoneCame(owned, owned', x) /\ NoneCame(audited, audited', x)
      /\ Has(owned', x) => Has(owned, x)
      /\ audited' = audited \/ (facts[x] /\ Has(audited', x))
    BY <1>1, ReleaseFacts DEF RequestInv, HandOverInv
<1>4. Typed'
    BY <1>1, <1>2, <1>3 DEF Typed
<1>5. Elsewhere(x)
    BY <1>1, <1>2, <1>3, NoneMoved DEF Elsewhere
<1>6. OrderInv(x)' /\ HandOverInv(x)'
    BY <1>1, <1>3 DEF RequestInv, OrderInv, HandOverInv, Quiet
<1>7. RecordInv(x)'
    <2>1. facts[x] => ~Emitting(x) /\ landed[x] = 0
        BY DEF RequestInv, HandOverInv, Emitting
    <2>2. landed[x] \in Nat /\ cut[x] \in Nat
        BY DEF Typed
    <2> QED
        BY <1>1, <1>3, <2>1, <2>2 DEF RequestInv, RecordInv, Emitting, Remembers, Lost
<1>8. CountInv(x)'
    BY <1>1 DEF RequestInv, CountInv, Remembers, Lost
<1>9. TouchInv(x)'
    BY <1>1, <1>3 DEF RequestInv, TouchInv, Touched, Emitting, Remembers, Lost
<1> QED
    BY <1>4, <1>5, <1>6, <1>7, <1>8, <1>9 DEF Good, RequestInv

------------------------------------------------------------------------------
(* The other callers' steps.                                                *)

LEMMA LogEventKeeps ==
    ASSUME Typed, NEW x \in Requests, NEW p \in AllCallers, RequestInv(x), Remembers(x),
           LogEvent(p, x)
    PROVE  Good(x)
<1>1. /\ UNCHANGED <<gated, cancelled, stopped, closed, facts, pre, forwarded, reqState, audited,
                     owned, pending, counted, failures, landed, cut, refused>>
      /\ p \in Logs /\ call[x][p] = "idle" /\ pre[x] = "done" /\ Audit(p, x)
    BY DEF LogEvent, ticket, sink
<1>2. /\ call' \in [Requests -> [AllCallers -> Phases]] /\ Alike(call, call', x)
      /\ \A q \in AllCallers : q # p => call'[x][q] = call[x][q]
      /\ call'[x][p] \in {"wait", "done", "emit", "emitCancelled"}
      /\ call'[x][p] \in Emits => ~Emitting(x) /\ ~Has(audited, x)
      /\ call'[x][p] = "wait" => Emitting(x)
      /\ call'[x][p] = "done" /\ ~Owned(p, x) /\ ~cancelled[x] /\ ~gated => Has(audited, x)
      /\ gated /\ x \notin reqState /\ ~Emitting(x) /\ ~Has(pending, x) => call'[x][p] = "done"
    BY <1>1, AuditFacts
<1>3. /\ observed' \in Seq(Requests) /\ latencies' \in [Requests -> Nat]
      /\ Alike(latencies, latencies', x)
      /\ \/ latencies'[x] = latencies[x]
         \/ latencies'[x] = latencies[x] + 1 /\ ~Has(observed, x) /\ Has(observed', x)
    BY <1>1, AuditFacts
<1>4. p \in {"log", "late"}
    BY <1>1 DEF Logs
<1>5. facts[x] => call'[x][p] = "done"
    BY <1>2 DEF RequestInv, OrderInv, HandOverInv, Emitting
<1>6. Typed'
    BY <1>1, <1>2, <1>3 DEF Typed
<1>7. Elsewhere(x)
    BY <1>1, <1>2, <1>3, NoneMoved DEF Elsewhere
<1>8. OrderInv(x)' /\ HandOverInv(x)'
    BY <1>1, <1>2, <1>4, <1>5 DEF RequestInv, OrderInv, HandOverInv, Quiet, AllCallers
<1>9. RecordInv(x)'
    BY <1>1, <1>2, <1>4 DEF RequestInv, RecordInv, Emitting, Emits, Remembers, Lost, AllCallers
<1>10. CountInv(x)'
    <2>1. latencies[x] \in Nat
        BY DEF Typed
    <2>2. /\ latencies'[x] > 0 => Has(observed', x) \/ Lost("observed", x)'
          /\ ~Lost("observed", x)' => latencies'[x] <= 1
        BY <1>3, <2>1 DEF RequestInv, CountInv, Remembers, Lost
    <2> QED
        BY <1>1, <2>2 DEF RequestInv, CountInv, Remembers, Lost
<1>11. Touched(x) => Touched(x)'
    BY <1>1, <1>2 DEF Touched, Emitting, Emits
<1>12. ~gated => Touched(x)'
    <2>1. ~gated => ~facts[x] /\ ~Owned(p, x) /\ ~cancelled[x]
        BY DEF RequestInv, OrderInv, HandOverInv, Owned
    <2>2. call'[x][p] \in Emits => Touched(x)'
        BY DEF Touched, Emitting, Emits
    <2>3. Has(audited, x) /\ ~facts[x] => Touched(x)
        BY DEF RequestInv, TouchInv
    <2> QED
        BY <1>2, <1>11, <2>1, <2>2, <2>3 DEF Touched, Emits
<1>13. TouchInv(x)'
    BY <1>1, <1>2, <1>4, <1>11, <1>12 DEF RequestInv, TouchInv, Remembers, Lost, AllCallers
<1> QED
    BY <1>6, <1>7, <1>8, <1>9, <1>10, <1>13 DEF Good, RequestInv

LEMMA CancelledKeeps ==
    ASSUME Typed, NEW x \in Requests, RequestInv(x), Remembers(x), Cancelled(x)
    PROVE  Good(x)
<1>1. /\ UNCHANGED <<gated, cancelled, stopped, closed, facts, pre, forwarded, audited, owned,
                     counted, observed, failures, latencies, landed, cut, refused>>
      /\ cancelled[x] /\ ~closed[x] /\ call[x]["cancel"] = "idle"
    BY DEF Cancelled, ticket, metrics, sink
<1>2. PICK v \in {"wait", "emitCancelled", "done"} :
          /\ Become(x, "cancel", v)
          /\ v = "wait" => Emitting(x)
          /\ v = "emitCancelled" => ~Emitting(x) /\ ~Has(audited, x) /\ ~facts[x]
          /\ v = "done" /\ ~facts[x] => Has(audited, x)
          /\ facts[x] => v = "done"
    <2>1. Owned("cancel", x) <=> facts[x]
        BY DEF Owned, InContext, RequestInv, HandOverInv
    <2>2. CASE facts[x]
        BY <2>1, <2>2 DEF Cancelled
    <2>3. CASE ~facts[x] /\ Emitting(x)
        BY <2>1, <2>3 DEF Cancelled
    <2>4. CASE ~facts[x] /\ ~Emitting(x) /\ Has(audited, x)
        BY <2>1, <2>4 DEF Cancelled
    <2>5. CASE ~facts[x] /\ ~Emitting(x) /\ ~Has(audited, x)
        BY <2>1, <2>5 DEF Cancelled
    <2> QED
        BY <2>2, <2>3, <2>4, <2>5
<1>3. /\ reqState' \in SUBSET Requests
      /\ x \notin reqState' /\ \A r \in Requests : r # x => (r \in reqState' <=> r \in reqState)
    <2>1. reqState' = reqState \ {x} \/ (facts[x] /\ reqState' = reqState)
        BY DEF Cancelled, Owned, RequestInv, HandOverInv
    <2>2. facts[x] => x \notin reqState
        BY DEF RequestInv, HandOverInv
    <2>3. reqState \in SUBSET Requests
        BY DEF Typed
    <2> QED
        BY <2>1, <2>2, <2>3
<1>4. /\ pending' \in Seq(Requests) /\ NoneCame(pending, pending', x)
      /\ Has(pending', x) => Has(pending, x)
    <2>1. pending' = pending \/ pending' = Without(pending, x)
        BY DEF Cancelled
    <2>2. pending \in Seq(Requests)
        BY DEF Typed
    <2> QED
        BY <2>1, <2>2, WithoutFacts DEF NoneCame
<1>5. /\ call' \in [Requests -> [AllCallers -> Phases]] /\ Alike(call, call', x)
      /\ call'[x]["cancel"] = v
      /\ \A q \in AllCallers : q # "cancel" => call'[x][q] = call[x][q]
    <2>1. "cancel" \in AllCallers /\ v \in Phases
        BY DEF AllCallers, Phases
    <2> QED
        BY <1>2, <2>1, BecomeFacts
<1>6. Typed'
    BY <1>1, <1>3, <1>4, <1>5 DEF Typed
<1>7. Elsewhere(x)
    BY <1>1, <1>3, <1>4, <1>5, NoneMoved DEF Elsewhere
<1>8. OrderInv(x)' /\ HandOverInv(x)'
    BY <1>1, <1>2, <1>3, <1>4, <1>5 DEF RequestInv, OrderInv, HandOverInv, Quiet, AllCallers
<1>9. RecordInv(x)'
    BY <1>1, <1>2, <1>3, <1>5 DEF RequestInv, RecordInv, Emitting, Emits, Remembers, Lost, AllCallers
<1>10. CountInv(x)'
    BY <1>1 DEF RequestInv, CountInv, Remembers, Lost
<1>11. Touched(x) => Touched(x)'
    BY <1>1, <1>5 DEF Touched, Emitting
<1>12. ~facts[x] => Touched(x)'
    <2>1. v = "emitCancelled" => Touched(x)'
        BY <1>5 DEF Touched, Emitting, AllCallers
    <2>2. v # "emitCancelled" /\ ~facts[x] => Touched(x)
        BY <1>2 DEF RequestInv, TouchInv, Touched
    <2> QED
        BY <1>11, <2>1, <2>2
<1>13. TouchInv(x)'
    BY <1>1, <1>2, <1>4, <1>5, <1>11, <1>12 DEF RequestInv, TouchInv, Remembers, Lost, AllCallers
<1> QED
    BY <1>6, <1>7, <1>8, <1>9, <1>10, <1>13 DEF Good, RequestInv

LEMMA ResumeKeeps ==
    ASSUME Typed, NEW x \in Requests, NEW p \in AllCallers, RequestInv(x), Remembers(x), Resume(p, x)
    PROVE  Good(x)
<1>1. /\ UNCHANGED <<gated, cancelled, stopped, closed, facts, pre, forwarded, reqState, audited,
                     owned, counted, failures, landed, cut, refused>>
      /\ call[x][p] = "wait" /\ ~Emitting(x)
    BY DEF Resume, ticket, sink
<1>2. /\ call' \in [Requests -> [AllCallers -> Phases]] /\ Alike(call, call', x)
      /\ \A q \in AllCallers : q # p => call'[x][q] = call[x][q]
      /\ call'[x][p] \in {"done", "emit", "emitCancelled"}
      /\ call'[x][p] \in Emits => ~Has(audited, x)
      /\ p = "cancel" => call'[x][p] # "emit" /\ (call'[x][p] = "done" => Has(audited, x))
      /\ p = "pre" /\ call'[x][p] = "done" /\ ~cancelled[x] => Has(audited, x)
    <2>1. CASE p = "cancel"
        <3>1. "done" \in Phases /\ "emitCancelled" \in Phases
            BY DEF Phases
        <3>2. CASE Has(audited, x)
            <4>1. Become(x, p, "done")
                BY <2>1, <3>2 DEF Resume
            <4> QED
                BY <2>1, <3>1, <3>2, <4>1, BecomeFacts DEF Emits
        <3>3. CASE ~Has(audited, x)
            <4>1. Become(x, p, "emitCancelled")
                BY <2>1, <3>3 DEF Resume
            <4> QED
                BY <2>1, <3>1, <3>3, <4>1, BecomeFacts DEF Emits
        <3> QED
            BY <3>2, <3>3
    <2>2. CASE p # "cancel"
        <3>1. Proceed(p, x)
            BY <2>2 DEF Resume
        <3>2. /\ p = "pre" => ~facts[x] /\ ~Owned(p, x)
              /\ "pre" \notin Logs
            BY <1>1 DEF RequestInv, OrderInv, HandOverInv, Owned, Logs
        <3> QED
            BY <1>1, <2>2, <3>1, <3>2, AuditFacts DEF Emits
    <2> QED
        BY <2>1, <2>2
<1>3. /\ observed' \in Seq(Requests) /\ latencies' \in [Requests -> Nat]
      /\ Alike(latencies, latencies', x)
      /\ \/ latencies'[x] = latencies[x]
         \/ latencies'[x] = latencies[x] + 1 /\ ~Has(observed, x) /\ Has(observed', x)
    <2>1. CASE p = "cancel"
        <3>1. UNCHANGED <<observed, latencies>>
            BY <2>1 DEF Resume
        <3>2. observed \in Seq(Requests) /\ latencies \in [Requests -> Nat]
            BY DEF Typed
        <3> QED
            BY <3>1, <3>2, NoneMoved
    <2>2. CASE p # "cancel"
        BY <2>2, AuditFacts DEF Resume
    <2> QED
        BY <2>1, <2>2
<1>4. /\ pending' \in Seq(Requests) /\ NoneCame(pending, pending', x)
      /\ Has(pending', x) => Has(pending, x)
    <2>1. pending' = pending \/ pending' = Without(pending, x)
        BY DEF Resume
    <2>2. pending \in Seq(Requests)
        BY DEF Typed
    <2> QED
        BY <2>1, <2>2, WithoutFacts DEF NoneCame
<1>5. ~facts[x]
    BY <1>1 DEF RequestInv, HandOverInv
<1>6. Typed'
    BY <1>1, <1>2, <1>3, <1>4 DEF Typed
<1>7. Elsewhere(x)
    BY <1>1, <1>2, <1>3, <1>4, NoneMoved DEF Elsewhere
<1>8. OrderInv(x)' /\ HandOverInv(x)'
    BY <1>1, <1>2, <1>4, <1>5 DEF RequestInv, OrderInv, HandOverInv, Quiet, AllCallers
<1>9. RecordInv(x)'
    BY <1>1, <1>2 DEF RequestInv, RecordInv, Emitting, Emits, Remembers, Lost, AllCallers
<1>10. CountInv(x)'
    <2>1. latencies[x] \in Nat
        BY DEF Typed
    <2>2. /\ latencies'[x] > 0 => Has(observed', x) \/ Lost("observed", x)'
          /\ ~Lost("observed", x)' => latencies'[x] <= 1
        BY <1>3, <2>1 DEF RequestInv, CountInv, Remembers, Lost
    <2> QED
        BY <1>1, <2>2 DEF RequestInv, CountInv, Remembers, Lost
<1>11. Touched(x) => Touched(x)'
    BY <1>1, <1>2 DEF Touched
<1>12. Has(audited, x) => Touched(x)'
    BY <1>5, <1>11 DEF RequestInv, TouchInv
<1>13. TouchInv(x)'
    BY <1>1, <1>2, <1>4, <1>5, <1>11, <1>12
       DEF RequestInv, TouchInv, OrderInv, Remembers, Lost, AllCallers
<1> QED
    BY <1>6, <1>7, <1>8, <1>9, <1>10, <1>13 DEF Good, RequestInv

\* The end of a write, or of a caller that was cut short in one.
LEMMA WriteFacts ==
    ASSUME Typed, NEW x \in Requests, NEW p \in AllCallers, RequestInv(x), call[x][p] \in Emits,
           NEW o \in {"ok", "failed", "unacked", "ambiguous", "unsure"}, Delivered(x, o)
    PROVE  /\ ~facts[x] /\ ~Has(audited, x)
           /\ \A q \in AllCallers : q # p => call[x][q] \notin Emits
           /\ landed' \in [Requests -> Nat] /\ cut' \in [Requests -> Nat]
           /\ refused' \in [Requests -> Nat]
           /\ Alike(landed, landed', x) /\ Alike(cut, cut', x) /\ Alike(refused, refused', x)
           /\ landed'[x] > 0 \/ refused'[x] > 0
           /\ ~Lost("audited", x) => landed'[x] <= cut'[x] + 1
           /\ o \in {"failed", "unacked", "unsure"} /\ ~Lost("audited", x) => landed'[x] <= cut'[x]
           /\ o \in {"failed", "unacked", "unsure"} /\ x \in reqState => landed'[x] <= cut'[x]
<1>1. /\ landed' \in [Requests -> Nat] /\ cut' \in [Requests -> Nat]
      /\ refused' \in [Requests -> Nat]
      /\ Alike(landed, landed', x) /\ Alike(cut, cut', x) /\ Alike(refused, refused', x)
      /\ landed'[x] = IF o \in {"ok", "unacked", "ambiguous"} THEN landed[x] + 1 ELSE landed[x]
      /\ cut'[x] = IF o = "unacked" THEN cut[x] + 1 ELSE cut[x]
      /\ refused'[x] = IF o \in {"failed", "unsure"} THEN refused[x] + 1 ELSE refused[x]
    BY SinkFacts
<1>2. landed[x] \in Nat /\ cut[x] \in Nat /\ refused[x] \in Nat
    BY DEF Typed
<1>3. /\ ~facts[x] /\ ~Has(audited, x)
      /\ \A q \in AllCallers : q # p => call[x][q] \notin Emits
    BY DEF RequestInv, HandOverInv, RecordInv, Emitting, Emits
<1>4. /\ ~Lost("audited", x) => landed[x] <= cut[x]
      /\ x \in reqState => landed[x] <= cut[x]
    BY <1>2, <1>3 DEF RequestInv, RecordInv
<1>5. landed'[x] > 0 \/ refused'[x] > 0
    BY <1>1, <1>2
<1>6. /\ ~Lost("audited", x) => landed'[x] <= cut'[x] + 1
      /\ o \in {"failed", "unacked", "unsure"} /\ ~Lost("audited", x) => landed'[x] <= cut'[x]
      /\ o \in {"failed", "unacked", "unsure"} /\ x \in reqState => landed'[x] <= cut'[x]
    BY <1>1, <1>2, <1>4
<1> QED
    BY <1>1, <1>3, <1>5, <1>6

LEMMA EmitEndsKeeps ==
    ASSUME Typed, NEW x \in Requests, NEW p \in AllCallers, NEW o \in EmitOutcomes[x],
           RequestInv(x), Remembers(x), EmitEnds(p, x, o)
    PROVE  Good(x)
<1>1. /\ UNCHANGED <<gated, cancelled, stopped, closed, facts, forwarded, owned, counted, observed,
                     failures, latencies>>
      /\ call[x][p] \in Emits /\ Delivered(x, o)
      /\ o \in {"ok", "failed", "unacked", "ambiguous", "unsure"}
    BY GuardrailAssumption DEF EmitEnds, ticket, metrics, Emits
<1>2. /\ ~facts[x] /\ ~Has(audited, x)
      /\ \A q \in AllCallers : q # p => call[x][q] \notin Emits
      /\ landed' \in [Requests -> Nat] /\ cut' \in [Requests -> Nat]
      /\ refused' \in [Requests -> Nat]
      /\ Alike(landed, landed', x) /\ Alike(cut, cut', x) /\ Alike(refused, refused', x)
      /\ landed'[x] > 0 \/ refused'[x] > 0
      /\ ~Lost("audited", x) => landed'[x] <= cut'[x] + 1
      /\ o \in {"failed", "unacked", "unsure"} /\ ~Lost("audited", x) => landed'[x] <= cut'[x]
      /\ o \in {"failed", "unacked", "unsure"} /\ x \in reqState => landed'[x] <= cut'[x]
    BY <1>1, WriteFacts
<1>3. /\ pre' \in [Requests -> Stages] /\ Alike(pre, pre', x)
      /\ call' \in [Requests -> [AllCallers -> Phases]] /\ Alike(call, call', x)
      /\ \A q \in AllCallers : q # p => call'[x][q] = call[x][q]
      /\ \/ call'[x][p] = "done" /\ pre'[x] = pre[x]
         \/ call'[x][p] = "retry" /\ p = "pre" /\ pre[x] = "inline" /\ pre'[x] = "net"
    <2>1. "net" \in Stages /\ "retry" \in Phases /\ "done" \in Phases /\ pre \in [Requests -> Stages]
        BY DEF Stages, Phases, Typed
    <2>2. CASE pre[x] = "inline" /\ p = "pre" /\ o # "ok"
        <3>1. pre' = Set(pre, x, "net") /\ Become(x, p, "retry")
            BY <2>2 DEF EmitEnds
        <3> QED
            BY <2>1, <2>2, <3>1, StageFacts, BecomeFacts
    <2>3. CASE ~(pre[x] = "inline" /\ p = "pre" /\ o # "ok")
        <3>1. pre' = pre /\ Become(x, p, "done")
            BY <2>3 DEF EmitEnds
        <3> QED
            BY <2>1, <3>1, BecomeFacts, NoneMoved
    <2> QED
        BY <2>2, <2>3
<1>4. /\ audited' \in Seq(Requests) /\ pending' \in Seq(Requests) /\ reqState' \in SUBSET Requests
      /\ \A r \in Requests : r # x => (r \in reqState' <=> r \in reqState)
      /\ NoneCame(audited, audited', x) /\ NoneCame(pending, pending', x)
      /\ \/ Has(audited', x) /\ x \notin reqState'
         \/ /\ audited' = audited /\ reqState' = reqState /\ o \in {"failed", "unacked"}
            /\ Has(pending', x) \/ (pending' = pending /\ call[x][p] = "emit")
    <2>1. CASE o \in {"ok", "ambiguous", "unsure"}
        <3>1. MarkAudited(x)
            BY <2>1 DEF EmitEnds
        <3> QED
            BY <3>1, MarkFacts
    <2>2. CASE o \in {"failed", "unacked"} /\ call[x][p] = "emitCancelled"
        <3>1. QueueCancelled(x)
            BY <2>2 DEF EmitEnds
        <3>2. audited \in Seq(Requests) /\ reqState \in SUBSET Requests
            BY DEF Typed
        <3> QED
            BY <2>2, <3>1, <3>2, QueueFacts, NoneMoved
    <2>3. CASE o \in {"failed", "unacked"} /\ call[x][p] = "emit"
        <3>1. UNCHANGED <<reqState, pending, audited>>
            BY <2>3 DEF EmitEnds
        <3>2. /\ audited \in Seq(Requests) /\ pending \in Seq(Requests)
              /\ reqState \in SUBSET Requests
            BY DEF Typed
        <3> QED
            BY <2>3, <3>1, <3>2, NoneMoved
    <2> QED
        BY <1>1, <2>1, <2>2, <2>3 DEF Emits
<1>5. Typed'
    BY <1>1, <1>2, <1>3, <1>4 DEF Typed
<1>6. Elsewhere(x)
    BY <1>1, <1>2, <1>3, <1>4, NoneMoved DEF Elsewhere
<1>7. OrderInv(x)'
    BY <1>1, <1>3 DEF RequestInv, OrderInv, Quiet, AllCallers, Emits
<1>8. HandOverInv(x)'
    BY <1>1, <1>2 DEF RequestInv, HandOverInv
<1>9. ~Emitting(x)'
    BY <1>2, <1>3 DEF Emitting, Emits
<1>10. RecordInv(x)'
    <2>1. x \in reqState' => call'[x]["cancel"] = "idle" /\ landed'[x] <= cut'[x]
        BY <1>1, <1>2, <1>3, <1>4 DEF RequestInv, RecordInv, Emits, AllCallers
    <2>2. ~Lost("audited", x)' => landed'[x] <= cut'[x] + (IF Has(audited', x) THEN 1 ELSE 0)
        <3>1. Lost("audited", x) => Lost("audited", x)'
            BY DEF Remembers, Lost
        <3>2. landed'[x] \in Nat /\ cut'[x] \in Nat
            BY <1>2
        <3> QED
            BY <1>2, <1>4, <3>1, <3>2
    <2> QED
        BY <1>9, <2>1, <2>2 DEF RecordInv, Emitting, Emits
<1>11. CountInv(x)'
    BY <1>1, <1>3 DEF RequestInv, CountInv, Remembers, Lost
<1>12. TouchInv(x)'
    <2>1. Touched(x)'
        BY <1>2 DEF Touched
    <2>2. /\ call'[x]["cancel"] = "done" /\ ~facts'[x] /\ ~Lost("audited", x)' /\ ~Lost("pending", x)'
          => Has(audited', x) \/ Has(pending', x)
        BY <1>1, <1>2, <1>3, <1>4
           DEF RequestInv, OrderInv, TouchInv, Remembers, Lost, AllCallers
    <2> QED
        BY <2>1, <2>2 DEF TouchInv
<1> QED
    BY <1>5, <1>6, <1>7, <1>8, <1>10, <1>11, <1>12 DEF Good, RequestInv

LEMMA CutShortKeeps ==
    ASSUME Typed, NEW x \in Requests, NEW p \in AllCallers, RequestInv(x), Remembers(x),
           CutShort(p, x)
    PROVE  Good(x)
<1>1. /\ UNCHANGED <<gated, cancelled, stopped, closed, facts, forwarded, owned, counted, observed,
                     failures, latencies>>
      /\ Become(x, p, "done")
      /\ \/ p = "pre" /\ (cancelled[x] \/ stopped[x]) /\ pre[x] \in {"auth", "work", "inline", "net"}
         \/ p = "cancel" /\ call[x][p] \in {"wait", "emitCancelled"}
    BY DEF CutShort, ticket, metrics
<1>2. ~facts[x]
    BY <1>1 DEF RequestInv, HandOverInv
<1>3. /\ landed' \in [Requests -> Nat] /\ cut' \in [Requests -> Nat]
      /\ refused' \in [Requests -> Nat]
      /\ Alike(landed, landed', x) /\ Alike(cut, cut', x) /\ Alike(refused, refused', x)
      /\ IF call[x][p] \in Emits
         THEN /\ landed'[x] > 0 \/ refused'[x] > 0
              /\ \A q \in AllCallers : q # p => call[x][q] \notin Emits
              /\ ~Has(audited, x)
              /\ ~Lost("audited", x) => landed'[x] <= cut'[x]
              /\ x \in reqState => landed'[x] <= cut'[x]
         ELSE UNCHANGED <<landed, cut, refused>>
    <2>1. CASE call[x][p] \in Emits
        <3>1. PICK o \in {"failed", "unacked"} : Delivered(x, o)
            BY <2>1 DEF CutShort, Emits
        <3> QED
            BY <2>1, <3>1, WriteFacts
    <2>2. CASE call[x][p] \notin Emits
        <3>1. UNCHANGED <<landed, cut, refused>>
            BY <2>2 DEF CutShort, Emits, sink
        <3>2. /\ landed \in [Requests -> Nat] /\ cut \in [Requests -> Nat]
              /\ refused \in [Requests -> Nat]
            BY DEF Typed
        <3> QED
            BY <2>2, <3>1, <3>2, NoneMoved
    <2> QED
        BY <2>1, <2>2
<1>4. /\ pre' \in [Requests -> Stages] /\ Alike(pre, pre', x)
      /\ pre'[x] = IF p = "pre" THEN "done" ELSE pre[x]
    <2>1. "done" \in Stages /\ pre \in [Requests -> Stages]
        BY DEF Stages, Typed
    <2> QED
        BY <2>1, StageFacts, NoneMoved DEF CutShort
<1>5. /\ call' \in [Requests -> [AllCallers -> Phases]] /\ Alike(call, call', x)
      /\ call'[x][p] = "done"
      /\ \A q \in AllCallers : q # p => call'[x][q] = call[x][q]
    <2>1. "done" \in Phases
        BY DEF Phases
    <2> QED
        BY <1>1, <2>1, BecomeFacts
<1>6. /\ audited' = audited /\ reqState' = reqState
      /\ pending' \in Seq(Requests) /\ NoneCame(pending, pending', x)
      /\ \/ pending' = pending
         \/ Has(pending', x) /\ (call[x][p] \in Emits \/ p = "cancel")
      /\ p = "cancel" => Has(pending', x) \/ Has(audited, x)
    <2>1. QueueCancelled(x) => call[x][p] = "emitCancelled" \/ p = "cancel" \/ UNCHANGED pending
        BY DEF CutShort
    <2>2. QueueCancelled(x) \/ UNCHANGED <<reqState, pending, audited>>
        BY DEF CutShort
    <2>3. p = "cancel" => QueueCancelled(x) \/ Has(audited, x)
                          \/ (UNCHANGED pending /\ Has(pending, x))
        BY <1>1 DEF CutShort
    <2>4. pending \in Seq(Requests)
        BY DEF Typed
    <2> QED
        BY <2>1, <2>2, <2>3, <2>4, QueueFacts, NoneMoved DEF Emits
<1>7. Typed'
    BY <1>1, <1>3, <1>4, <1>5, <1>6 DEF Typed
<1>8. Elsewhere(x)
    BY <1>1, <1>3, <1>4, <1>5, <1>6, NoneMoved DEF Elsewhere
<1>9. OrderInv(x)'
    BY <1>1, <1>4, <1>5, <1>6 DEF RequestInv, OrderInv, Quiet, AllCallers
<1>10. HandOverInv(x)'
    BY <1>1, <1>2 DEF RequestInv, HandOverInv
<1>11. RecordInv(x)'
    <2>1. Lost("audited", x) => Lost("audited", x)'
        BY DEF Remembers, Lost
    <2>2. x \in reqState' => call'[x]["cancel"] = "idle" /\ landed'[x] <= cut'[x]
        BY <1>1, <1>3, <1>5, <1>6 DEF RequestInv, RecordInv, AllCallers
    <2>3. ~Lost("audited", x)' => landed'[x] <= cut'[x] + (IF Has(audited', x) THEN 1 ELSE 0)
        <3>1. landed'[x] \in Nat /\ cut'[x] \in Nat
            BY <1>3
        <3> QED
            BY <1>3, <1>6, <2>1, <3>1 DEF RequestInv, RecordInv
    <2>4. /\ \A q, s \in AllCallers : call'[x][q] \in Emits /\ call'[x][s] \in Emits => q = s
          /\ Emitting(x)' => ~Has(audited', x)
        BY <1>5, <1>6 DEF RequestInv, RecordInv, Emitting, Emits
    <2> QED
        BY <2>2, <2>3, <2>4 DEF RecordInv
<1>12. CountInv(x)'
    BY <1>1, <1>4 DEF RequestInv, CountInv, Remembers, Lost
<1>13. Touched(x) => Touched(x)'
    BY <1>3, <1>5 DEF Touched, Emitting, Emits
<1>14. TouchInv(x)'
    <2>1. call[x][p] \in Emits => Touched(x)
        BY DEF Touched, Emitting, Emits
    <2>2. p = "cancel" => Touched(x)
        BY <1>1, <1>2 DEF RequestInv, TouchInv
    <2> QED
        BY <1>1, <1>2, <1>4, <1>5, <1>6, <1>13, <2>1, <2>2
           DEF RequestInv, TouchInv, Remembers, Lost, AllCallers
<1> QED
    BY <1>7, <1>8, <1>9, <1>10, <1>11, <1>12, <1>14 DEF Good, RequestInv

------------------------------------------------------------------------------
(* The invariant.                                                           *)

\* Another request's step.
LEMMA OtherKeeps ==
    ASSUME NEW x \in Requests, NEW r \in Requests, r # x,
           Elsewhere(x), RequestInv(r), Remembers(r)
    PROVE  RequestInv(r)'
<1>1. /\ gated' = gated /\ cancelled'[r] = cancelled[r] /\ stopped'[r] = stopped[r]
      /\ closed'[r] = closed[r] /\ facts'[r] = facts[r] /\ forwarded'[r] = forwarded[r]
      /\ pre'[r] = pre[r] /\ call'[r] = call[r] /\ (r \in reqState' <=> r \in reqState)
      /\ failures'[r] = failures[r] /\ latencies'[r] = latencies[r]
      /\ landed'[r] = landed[r] /\ cut'[r] = cut[r] /\ refused'[r] = refused[r]
    BY DEF Elsewhere, Alike
<1>2. /\ Has(audited', r) => Has(audited, r)
      /\ Has(owned', r) => Has(owned, r)
      /\ Has(pending', r) => Has(pending, r)
    BY DEF Elsewhere, NoneCame
<1>3. OrderInv(r)' /\ HandOverInv(r)'
    BY <1>1, <1>2 DEF RequestInv, OrderInv, HandOverInv, Quiet
<1>4. RecordInv(r)'
    BY <1>1, <1>2 DEF RequestInv, RecordInv, Emitting, Remembers, Lost
<1>5. CountInv(r)'
    BY <1>1 DEF RequestInv, CountInv, Remembers, Lost
<1>6. TouchInv(r)'
    BY <1>1, <1>2 DEF RequestInv, TouchInv, Touched, Emitting, Remembers, Lost
<1> QED
    BY <1>3, <1>4, <1>5, <1>6 DEF RequestInv

LEMMA StepKeeps ==
    ASSUME Typed, NEW x \in Requests, RequestInv(x), Remembers(x), Step(x)
    PROVE  Good(x)
<1>1. CASE PreCallStep(x)
    BY <1>1, BeginKeeps, RegisterKeeps, InlineKeeps, CompleteKeeps, AnsweredKeeps DEF PreCallStep
<1>2. CASE TicketStep(x)
    BY <1>2, EndKeeps, CloseKeeps DEF TicketStep
<1>3. CASE CallerStep(x)
    BY <1>3, CancelledKeeps, LogEventKeeps, ResumeKeeps, CutShortKeeps, EmitEndsKeeps DEF CallerStep
<1> QED
    BY <1>1, <1>2, <1>3 DEF Step

LEMMA InitEstablishes == Init => GuardrailInv
<1> SUFFICES ASSUME Init PROVE GuardrailInv
    OBVIOUS
<1>1. ASSUME NEW r PROVE ~Has(audited, r) /\ ~Has(owned, r) /\ ~Has(pending, r)
    BY DEF Init, Has
<1>2. TypeOK
    BY DEF Init, TypeOK, Typed, Stages, Phases
<1>3. ASSUME NEW r \in Requests PROVE RequestInv(r)
    <2>1. ~Emitting(r)
        BY DEF Init, Emitting
    <2>2. OrderInv(r) /\ HandOverInv(r) /\ RecordInv(r)
        BY <1>1, <2>1 DEF Init, OrderInv, HandOverInv, RecordInv, Quiet, AllCallers, Emits, Lost
    <2>3. CountInv(r) /\ TouchInv(r)
        BY <1>1 DEF Init, CountInv, TouchInv, AllCallers, Lost
    <2> QED
        BY <2>2, <2>3 DEF RequestInv
<1> QED
    BY <1>2, <1>3 DEF GuardrailInv

LEMMA NextKeeps == GuardrailInv /\ [Next]_vars => GuardrailInv'
<1> SUFFICES ASSUME GuardrailInv, [Next]_vars PROVE GuardrailInv'
    OBVIOUS
<1>1. CASE Next
    <2>1. PICK x \in Requests : Step(x)
        BY <1>1 DEF Next, Step
    <2>2. \A r \in Requests : Remembers(r) /\ RequestInv(r)
        BY <1>1, NextRemembers DEF Next, GuardrailInv, TypeOK
    <2>3. Good(x)
        BY <2>1, <2>2, StepKeeps DEF GuardrailInv, TypeOK
    <2>4. \A r \in Requests : RequestInv(r)'
        BY <2>2, <2>3, OtherKeeps DEF Good
    <2>5. forgotten' \in SUBSET (TableNames \X Requests)
        BY <1>1 DEF Next, Evicted, TableNames, GuardrailInv, TypeOK
    <2> QED
        BY <2>3, <2>4, <2>5 DEF GuardrailInv, TypeOK, Good
<1>2. CASE UNCHANGED vars
    <2> USE <1>2 DEF vars, ticket, tables, metrics, sink
    <2>1. TypeOK'
        BY DEF GuardrailInv, TypeOK, Typed
    <2>2. ASSUME NEW r \in Requests PROVE RequestInv(r)'
        BY DEF GuardrailInv, RequestInv, OrderInv, HandOverInv, RecordInv, CountInv, TouchInv,
               Quiet, Touched, Emitting, Lost
    <2> QED
        BY <2>1, <2>2 DEF GuardrailInv
<1> QED
    BY <1>1, <1>2

\* Every variable of the guardrail keeps its type, and every request is where
\* its callers, the tables and the sink say it is (audit(), on_request_cancelled
\* and the dedup tables of litellm_hook.py).
THEOREM GuardrailInvariant == Spec => []GuardrailInv
BY InitEstablishes, NextKeeps, PTL DEF Spec

------------------------------------------------------------------------------
(* Orphan log events.                                                       *)

OrphanInv == orphans \in [Requests -> Nat] /\ OrphansExplained

\* A log event that finds neither a state, nor a record in flight or marked, is
\* one of a request whose record is not its own to write: the pre-call did write
\* for it, and what it wrote was not acknowledged or is forgotten.
LEMMA OrphanReason ==
    ASSUME GuardrailInv, NEW x \in Requests, NEW p \in AllCallers,
           Resolve(p, x) = "orphan", pre[x] = "done"
    PROVE  OthersRecord(x)
<1>1. gated /\ ~Emitting(x) /\ ~Has(audited, x)
    BY DEF Resolve
<1>2. SUFFICES ASSUME ~facts[x], ~cancelled[x], ~stopped[x], ~Lost("audited", x)
               PROVE  refused[x] > 0 \/ cut[x] > 0
    BY DEF OthersRecord, Lost
<1>3. landed[x] > 0 \/ refused[x] > 0
    BY <1>1, <1>2 DEF GuardrailInv, RequestInv, HandOverInv, TouchInv, Touched
<1>4. landed[x] <= cut[x] + 0 /\ landed[x] \in Nat /\ cut[x] \in Nat
    BY <1>1, <1>2 DEF GuardrailInv, RequestInv, RecordInv, TypeOK, Typed
<1> QED
    BY <1>3, <1>4

\* The counter goes up in such an event only.
LEMMA OrphanMoves ==
    ASSUME GuardrailInv, NEW x \in Requests, Step(x)
    PROVE  \/ orphans' = orphans
           \/ /\ orphans' = Set(orphans, x, orphans[x] + 1)
              /\ \E p \in AllCallers : Resolve(p, x) = "orphan" /\ pre[x] = "done"
<1>1. ASSUME NEW p \in AllCallers, Audit(p, x) \/ Proceed(p, x)
      PROVE  \/ orphans' = orphans
             \/ orphans' = Set(orphans, x, orphans[x] + 1) /\ Resolve(p, x) = "orphan"
    BY <1>1 DEF Audit, Proceed
<1>2. ASSUME NEW p \in AllCallers, Resolve(p, x) = "orphan" PROVE p \in Logs
    BY <1>2 DEF Resolve
<1>3. CASE PreCallStep(x)
    <2>1. "pre" \in AllCallers /\ "pre" \notin Logs
        BY DEF AllCallers, Logs
    <2>2. CASE Refuse(x) \/ Crash(x) \/ Retry(x)
        BY <1>1, <1>2, <2>1, <2>2 DEF Refuse, Crash, Retry
    <2> QED
        BY <1>3, <2>2 DEF PreCallStep, Begin, Register, Complete, Answered, metrics
<1>4. CASE TicketStep(x)
    BY <1>4 DEF TicketStep, ClientLeaves, ServerStops, Close, metrics
<1>5. CASE CallerStep(x)
    <2>1. ASSUME NEW p \in AllCallers, LogEvent(p, x)
          PROVE  Audit(p, x) /\ pre[x] = "done"
        BY <2>1 DEF LogEvent
    <2>2. ASSUME NEW p \in AllCallers, Resume(p, x)
          PROVE  \/ orphans' = orphans
                 \/ Proceed(p, x) /\ (p \in Logs => pre[x] = "done")
        BY <2>2 DEF Resume, GuardrailInv, RequestInv, OrderInv, Logs
    <2>3. CASE Cancelled(x)
        BY <2>3 DEF Cancelled, metrics
    <2>4. ASSUME NEW p \in AllCallers, CutShort(p, x) PROVE orphans' = orphans
        BY <2>4 DEF CutShort, metrics
    <2>5. ASSUME NEW p \in AllCallers, NEW o, EmitEnds(p, x, o) PROVE orphans' = orphans
        BY <2>5 DEF EmitEnds, metrics
    <2> QED
        BY <1>1, <1>2, <1>5, <2>1, <2>2, <2>3, <2>4, <2>5 DEF CallerStep
<1> QED
    BY <1>3, <1>4, <1>5 DEF Step

\* A reason stays one.
LEMMA ReasonStays ==
    ASSUME GuardrailInv, NEW x \in Requests, Step(x), Remembers(x), OthersRecord(x)
    PROVE  OthersRecord(x)'
<1>1. Typed
    BY DEF GuardrailInv, TypeOK
<1>2. /\ facts[x] => facts'[x]
      /\ cancelled[x] => cancelled'[x]
      /\ stopped[x] => stopped'[x]
    <2>1. CASE PreCallStep(x)
        BY <1>1, <2>1 DEF PreCallStep, Begin, Register, Refuse, Crash, Complete, Answered, Retry,
                          ticket, Set, Typed
    <2>2. CASE TicketStep(x)
        BY <1>1, <2>2 DEF TicketStep, ClientLeaves, ServerStops, Close, Set, Typed
    <2>3. CASE CallerStep(x)
        BY <2>3 DEF CallerStep, Cancelled, LogEvent, Resume, CutShort, EmitEnds, ticket
    <2> QED
        BY <2>1, <2>2, <2>3 DEF Step
<1>3. refused'[x] >= refused[x] /\ cut'[x] >= cut[x]
    <2>1. refused[x] \in Nat /\ cut[x] \in Nat
        BY <1>1 DEF Typed
    <2>2. UNCHANGED <<refused, cut>> \/ \E o \in {"ok", "failed", "unacked", "ambiguous", "unsure"} :
              Delivered(x, o)
        <3>1. CASE PreCallStep(x)
            BY <3>1 DEF PreCallStep, Begin, Register, Refuse, Crash, Complete, Answered, Retry, sink
        <3>2. CASE TicketStep(x)
            BY <3>2 DEF TicketStep, ClientLeaves, ServerStops, Close, sink
        <3>3. CASE CallerStep(x)
            <4>1. ASSUME NEW p \in AllCallers, NEW o \in EmitOutcomes[x], EmitEnds(p, x, o)
                  PROVE  Delivered(x, o) /\ o \in {"ok", "failed", "unacked", "ambiguous", "unsure"}
                BY <4>1, GuardrailAssumption DEF EmitEnds
            <4>2. ASSUME NEW p \in AllCallers, CutShort(p, x)
                  PROVE  UNCHANGED <<refused, cut>> \/ \E o \in {"failed", "unacked"} : Delivered(x, o)
                BY <4>2 DEF CutShort, sink
            <4> QED
                BY <3>3, <4>1, <4>2 DEF CallerStep, Cancelled, LogEvent, Resume, sink
        <3> QED
            BY <3>1, <3>2, <3>3 DEF Step
    <2>3. ASSUME NEW o, Delivered(x, o)
          PROVE  refused'[x] >= refused[x] /\ cut'[x] >= cut[x]
        BY <1>1, <2>1, <2>3, SinkFacts
    <2> QED
        BY <2>1, <2>2, <2>3
<1>4. Typed'
    BY StepKeeps DEF GuardrailInv, TypeOK, Good
<1>5. /\ refused[x] \in Nat /\ cut[x] \in Nat
      /\ refused'[x] \in Nat /\ cut'[x] \in Nat
    BY <1>1, <1>4 DEF Typed
<1> QED
    BY <1>2, <1>3, <1>5 DEF OthersRecord, Remembers

LEMMA OrphanKeeps == GuardrailInv /\ OrphanInv /\ [Next]_vars => OrphanInv'
<1> SUFFICES ASSUME GuardrailInv, OrphanInv, [Next]_vars PROVE OrphanInv'
    OBVIOUS
<1>1. CASE Next
    <2>1. PICK x \in Requests : Step(x)
        BY <1>1 DEF Next, Step
    <2>2. \A r \in Requests : Remembers(r)
        BY <1>1, NextRemembers DEF Next, GuardrailInv, TypeOK
    <2>3. Elsewhere(x)
        BY <2>1, <2>2, StepKeeps DEF GuardrailInv, TypeOK, Good
    <2>4. /\ orphans' \in [Requests -> Nat] /\ Alike(orphans, orphans', x)
          /\ orphans'[x] = orphans[x] \/ OthersRecord(x)
        <3>1. orphans \in [Requests -> Nat]
            BY DEF OrphanInv
        <3>2. CASE orphans' = orphans
            BY <3>1, <3>2, NoneMoved
        <3>3. CASE orphans' = Set(orphans, x, orphans[x] + 1) /\ OthersRecord(x)
            BY <3>1, <3>3, BumpFacts
        <3> QED
            BY <2>1, <3>2, <3>3, OrphanMoves, OrphanReason
    <2>5. ASSUME NEW r \in Requests, orphans'[r] > 0 PROVE OthersRecord(r)'
        <3>1. CASE r = x
            <4>1. OthersRecord(x)
                BY <2>4, <2>5, <3>1 DEF OrphanInv, OrphansExplained
            <4> QED
                BY <2>1, <2>2, <3>1, <4>1, ReasonStays
        <3>2. CASE r # x
            <4>1. /\ orphans'[r] = orphans[r] /\ facts'[r] = facts[r]
                  /\ cancelled'[r] = cancelled[r] /\ stopped'[r] = stopped[r]
                  /\ refused'[r] = refused[r] /\ cut'[r] = cut[r]
                BY <2>3, <2>4, <3>2 DEF Elsewhere, Alike
            <4>2. forgotten \subseteq forgotten'
                BY <2>2 DEF Remembers
            <4>3. OthersRecord(r)
                BY <2>5, <4>1 DEF OrphanInv, OrphansExplained
            <4> QED
                BY <4>1, <4>2, <4>3 DEF OthersRecord
        <3> QED
            BY <3>1, <3>2
    <2> QED
        BY <2>4, <2>5 DEF OrphanInv, OrphansExplained
<1>2. CASE UNCHANGED vars
    BY <1>2 DEF vars, ticket, metrics, sink, OrphanInv, OrphansExplained, OthersRecord
<1> QED
    BY <1>1, <1>2

\* No log event is counted as an orphan of a request whose record is in the sink
\* and remembered, whatever the order of the callers (audit()'s orphan rule).
THEOREM OrphanTheorem == Spec => []OrphansExplained
<1>1. Init => OrphanInv
    BY DEF Init, OrphanInv, OrphansExplained
<1>2. OrphanInv => OrphansExplained
    BY DEF OrphanInv
<1> QED
    BY <1>1, <1>2, OrphanKeeps, GuardrailInvariant, PTL DEF Spec

\* A request has one record, one failure of its own and one latency, however many
\* callers audit it, in whatever order, and no event of it is an orphan without a
\* reason, for any number of requests and any cap of the tables (audit()'s dedup,
\* the wait for a record in flight, the hand-over, the orphan rule).
THEOREM OneEffectTheorem == Spec => []OneEffect
<1>1. GuardrailInv => RecordedOnce /\ CountedOnce
    <2> SUFFICES ASSUME GuardrailInv PROVE RecordedOnce /\ CountedOnce
        OBVIOUS
    <2>1. ASSUME NEW r \in Requests
          PROVE  /\ facts[r] => landed[r] = 0
                 /\ <<"audited", r>> \notin forgotten => landed[r] <= 1 + cut[r]
        <3>1. landed[r] \in Nat /\ cut[r] \in Nat
            BY DEF GuardrailInv, TypeOK, Typed
        <3> QED
            BY <3>1 DEF GuardrailInv, RequestInv, HandOverInv, RecordInv, Lost
    <2>2. CountedOnce
        BY DEF GuardrailInv, RequestInv, CountInv, Lost, CountedOnce
    <2> QED
        BY <2>1, <2>2 DEF RecordedOnce
<1> QED
    BY <1>1, GuardrailInvariant, OrphanTheorem, PTL DEF OneEffect

\* At its end a request the guardrail answers for was written, or its write was
\* refused: whichever way it ended.
LEMMA EndTouched ==
    ASSUME GuardrailInv, NEW r \in Requests, Ended(r), ~facts[r], ~stopped[r],
           forwarded[r] /\ ~gated => call[r]["late"] = "done"
    PROVE  landed[r] > 0 \/ refused[r] > 0
<1>1. RequestInv(r)
    BY DEF GuardrailInv
<1>2. ~Emitting(r)
    BY DEF Ended, Emitting
<1>3. Touched(r)
    <2>1. CASE cancelled[r]
        <3>1. call[r]["cancel"] = "done"
            BY <1>1, <2>1 DEF RequestInv, OrderInv, Ended
        <3> QED
            BY <1>1, <3>1 DEF RequestInv, TouchInv
    <2>2. CASE ~cancelled[r] /\ forwarded[r]
        <3>1. ~gated
            BY <1>1, <2>2 DEF RequestInv, HandOverInv
        <3> QED
            BY <1>1, <2>2, <3>1 DEF RequestInv, TouchInv
    <2>3. CASE ~cancelled[r] /\ ~forwarded[r]
        BY <1>1, <2>3 DEF RequestInv, TouchInv, Ended
    <2> QED
        BY <2>1, <2>2, <2>3
<1> QED
    BY <1>2, <1>3 DEF Touched

\* No request the guardrail answers for ends without a record unless the sink
\* refused it, and the counts of a cancelled one are in the audited table or
\* wait in the pending one, unless a table's bound dropped them
\* (on_request_cancelled, _queue_cancelled, the safety net).
THEOREM NothingLostTheorem == Spec => []NothingLost
<1>1. GuardrailInv => NothingLost
    <2> SUFFICES ASSUME GuardrailInv, NEW r \in Requests,
                        call[r]["cancel"] = "done", ~facts[r],
                        {<<"audited", r>>, <<"pending", r>>} \cap forgotten = {}
                 PROVE  Has(audited, r) \/ Has(pending, r)
        BY EndTouched DEF NothingLost
    <2> QED
        BY DEF GuardrailInv, RequestInv, TouchInv, Lost
<1> QED
    BY <1>1, GuardrailInvariant, PTL

\* The content of a request is gone from _req_state once the ticket owns its
\* record or its cancel hook has begun, and at the end of every request whose
\* record the sink took (_mark_audited, the hand-over, on_request_cancelled).
THEOREM StateFreedTheorem == Spec => []StateFreed
<1>1. GuardrailInv => StateFreed
    <2> SUFFICES ASSUME GuardrailInv, NEW r \in reqState
                 PROVE  /\ ~facts[r] /\ call[r]["cancel"] = "idle"
                        /\ ~(Ended(r) /\ ~stopped[r] /\ refused[r] = 0 /\ cut[r] = 0
                               /\ (forwarded[r] => call[r]["late"] = "done"))
        BY DEF StateFreed
    <2>1. r \in Requests /\ RequestInv(r) /\ landed[r] \in Nat
        BY DEF GuardrailInv, TypeOK, Typed
    <2>2. ~facts[r] /\ call[r]["cancel"] = "idle" /\ landed[r] <= cut[r]
        BY <2>1 DEF RequestInv, HandOverInv, RecordInv
    <2> QED
        BY <2>1, <2>2, EndTouched
<1> QED
    BY <1>1, GuardrailInvariant, PTL

------------------------------------------------------------------------------
(* When the tables have room for every request, they forget none of them.   *)

Distinct(T) == \A i, j \in 1..Len(T) : T[i] = T[j] => i = j
Room == IsFiniteSet(Requests) /\ Cardinality(Requests) <= Cap

TablesInv ==
    /\ Distinct(audited) /\ Distinct(counted) /\ Distinct(observed) /\ Distinct(pending)
    /\ forgotten = {}

\* A table without x has a place for it.
LEMMA PlaceLeft ==
    ASSUME Room, NEW T \in Seq(Requests), Distinct(T), NEW x \in Requests, ~Has(T, x)
    PROVE  Len(T) < Cap
<1> DEFINE R == Requests \ {x}
           D == 1..Len(T)
<1>1. /\ IsFiniteSet(R) /\ Cardinality(R) = Cardinality(Requests) - 1
      /\ Cardinality(Requests) \in Nat /\ Cap \in Nat
    BY FS_RemoveElement, FS_CardinalityType, GuardrailAssumption DEF Room
<1>2. Len(T) \in Nat /\ IsFiniteSet(D) /\ Cardinality(D) = Len(T)
    <2>1. Len(T) \in Nat /\ Len(T) \in Int /\ 1 \in Int
        OBVIOUS
    <2>2. IsFiniteSet(D) /\ Cardinality(D) = IF 1 > Len(T) THEN 0 ELSE Len(T) - 1 + 1
        BY <2>1, FS_Interval
    <2> QED
        BY <2>1, <2>2
<1>3. T \in [D -> R]
    BY DEF Has
<1>4. ~(Cardinality(R) < Cardinality(D))
    <2> SUFFICES ASSUME Cardinality(R) < Cardinality(D) PROVE FALSE
        OBVIOUS
    <2>1. \E i, j \in D : i # j /\ T[i] = T[j]
        BY <1>1, <1>2, <1>3, FS_PigeonHole
    <2> QED
        BY <2>1 DEF Distinct
<1> QED
    BY <1>1, <1>2, <1>4 DEF Room

\* So a new entry costs no other its place,
LEMMA PutKeeps ==
    ASSUME Room, NEW T \in Seq(Requests), Distinct(T), NEW x \in Requests
    PROVE  Distinct(Put(T, x)) /\ \A r : Has(T, r) => Has(Put(T, x), r)
<1>1. CASE Has(T, x)
    BY <1>1 DEF Put
<1>2. CASE ~Has(T, x)
    <2>1. Put(T, x) = Append(T, x)
        BY <1>2, PlaceLeft DEF Put
    <2> DEFINE N == Append(T, x)
    <2>2. /\ Len(T) \in Nat /\ Len(N) = Len(T) + 1 /\ N[Len(T) + 1] = x
          /\ \A i \in 1..Len(T) : N[i] = T[i] /\ T[i] # x
        BY <1>2 DEF Has
    <2> HIDE DEF N
    <2>3. Distinct(N)
        BY <2>2 DEF Distinct
    <2>4. ASSUME NEW r, Has(T, r) PROVE Has(N, r)
        BY <2>2, <2>4 DEF Has
    <2> QED
        BY <2>1, <2>3, <2>4 DEF N
<1> QED
    BY <1>1, <1>2

\* and an entry that goes, goes alone.
LEMMA WithoutKeeps ==
    ASSUME NEW T \in Seq(Requests), Distinct(T), NEW x
    PROVE  Distinct(Without(T, x)) /\ \A r : r # x /\ Has(T, r) => Has(Without(T, x), r)
<1>1. CASE ~Has(T, x)
    BY <1>1 DEF Without
<1>2. CASE Has(T, x)
    <2> DEFINE k == CHOOSE i \in 1..Len(T) : T[i] = x
               N == SubSeq(T, 1, k - 1) \o SubSeq(T, k + 1, Len(T))
    <2>1. k \in 1..Len(T) /\ T[k] = x
        BY <1>2 DEF Has
    <2>2. Without(T, x) = N
        BY <1>2 DEF Without
    <2> HIDE DEF k
    <2>3. /\ Len(N) = Len(T) - 1 /\ Len(T) \in Nat
          /\ \A i \in 1..(k - 1) : N[i] = T[i]
          /\ \A i \in k..(Len(T) - 1) : N[i] = T[i + 1]
        <3> DEFINE A == SubSeq(T, 1, k - 1)
                   B == SubSeq(T, k + 1, Len(T))
        <3>1. /\ A \in Seq(Requests) /\ Len(A) = k - 1
              /\ \A i \in 1..Len(A) : A[i] = T[i]
            BY <2>1, SubSeqProperties
        <3>2. /\ B \in Seq(Requests) /\ Len(B) = Len(T) - k
              /\ \A i \in 1..Len(B) : B[i] = T[k + i]
            BY <2>1, SubSeqProperties
        <3> HIDE DEF A, B
        <3>3. /\ Len(A \o B) = Len(A) + Len(B)
              /\ \A i \in 1..(Len(A) + Len(B)) :
                     (A \o B)[i] = IF i <= Len(A) THEN A[i] ELSE B[i - Len(A)]
            BY <3>1, <3>2, ConcatProperties
        <3>4. Len(A) + Len(B) = Len(T) - 1 /\ Len(T) \in Nat
            BY <2>1, <3>1, <3>2
        <3>5. ASSUME NEW i \in 1..(k - 1) PROVE (A \o B)[i] = T[i]
            BY <2>1, <3>1, <3>3, <3>4
        <3>6. ASSUME NEW i \in k..(Len(T) - 1) PROVE (A \o B)[i] = T[i + 1]
            <4>1. i \in 1..(Len(A) + Len(B)) /\ ~(i <= Len(A)) /\ i - Len(A) \in 1..Len(B)
                BY <2>1, <3>1, <3>2, <3>4
            <4>2. (A \o B)[i] = B[i - Len(A)] /\ B[i - Len(A)] = T[k + (i - Len(A))]
                BY <3>2, <3>3, <4>1
            <4>3. k + (i - Len(A)) = i + 1
                BY <2>1, <3>1
            <4> QED
                BY <4>2, <4>3
        <3> QED
            BY <3>3, <3>4, <3>5, <3>6 DEF A, B
    <2> HIDE DEF N
    <2>4. Distinct(N)
        <3> SUFFICES ASSUME NEW i \in 1..Len(N), NEW j \in 1..Len(N), N[i] = N[j]
                     PROVE  i = j
            BY DEF Distinct
        <3> DEFINE m(n) == IF n < k THEN n ELSE n + 1
        <3>1. ASSUME NEW n \in 1..Len(N) PROVE N[n] = T[m(n)] /\ m(n) \in 1..Len(T)
            <4>1. n < k => n \in 1..(k - 1) /\ n \in 1..Len(T)
                BY <2>1, <2>3
            <4>2. ~(n < k) => n \in k..(Len(T) - 1) /\ n + 1 \in 1..Len(T)
                BY <2>1, <2>3
            <4> QED
                BY <2>3, <4>1, <4>2
        <3>2. m(i) = m(j)
            <4> HIDE DEF m
            <4> QED
                BY <3>1 DEF Distinct
        <3> QED
            BY <2>1, <2>3, <3>2
    <2>5. ASSUME NEW r, r # x, Has(T, r) PROVE Has(N, r)
        <3>1. PICK i \in 1..Len(T) : T[i] = r
            BY <2>5 DEF Has
        <3>2. i # k
            BY <2>1, <2>5, <3>1
        <3>3. CASE i < k
            <4>1. i \in 1..(k - 1) /\ i \in 1..Len(N)
                BY <2>1, <2>3, <3>1, <3>3
            <4> QED
                BY <2>3, <3>1, <4>1 DEF Has
        <3>4. CASE i > k
            <4>1. i - 1 \in k..(Len(T) - 1) /\ i - 1 \in 1..Len(N) /\ (i - 1) + 1 = i
                BY <2>1, <2>3, <3>1, <3>4
            <4>2. N[i - 1] = r
                BY <2>3, <3>1, <4>1
            <4> QED
                BY <4>1, <4>2 DEF Has
        <3> QED
            BY <2>1, <3>1, <3>2, <3>3, <3>4
    <2> QED
        BY <2>2, <2>4, <2>5
<1> QED
    BY <1>1, <1>2

LEMMA PutLastKeeps ==
    ASSUME Room, NEW T \in Seq(Requests), Distinct(T), NEW x \in Requests
    PROVE  Distinct(PutLast(T, x)) /\ \A r : Has(T, r) => Has(PutLast(T, x), r)
<1>1. /\ Without(T, x) \in Seq(Requests) /\ Distinct(Without(T, x))
      /\ \A r : r # x /\ Has(T, r) => Has(Without(T, x), r)
    BY WithoutFacts, WithoutKeeps
<1>2. Distinct(PutLast(T, x)) /\ \A r : Has(Without(T, x), r) => Has(PutLast(T, x), r)
    BY <1>1, PutKeeps DEF PutLast
<1> QED
    BY <1>1, <1>2, PutLastFacts

\* What a step of x may do to the four tables.
LEMMA TableSteps ==
    ASSUME Typed, NEW x \in Requests, RequestInv(x), Step(x)
    PROVE  /\ audited' \in {audited, Put(audited, x)}
           /\ counted' \in {counted, Put(counted, x)}
           /\ observed' \in {observed, Put(observed, x)}
           /\ \/ pending' \in {pending, PutLast(pending, x)}
              \/ /\ pending' = Without(pending, x)
                 /\ facts[x] \/ Has(audited, x) \/ audited' = Put(audited, x)
<1> DEFINE Goal ==
           /\ audited' \in {audited, Put(audited, x)}
           /\ counted' \in {counted, Put(counted, x)}
           /\ observed' \in {observed, Put(observed, x)}
           /\ \/ pending' \in {pending, PutLast(pending, x)}
              \/ /\ pending' = Without(pending, x)
                 /\ facts[x] \/ Has(audited, x) \/ audited' = Put(audited, x)
<1>1. CASE Begin(x) \/ Register(x) \/ Answered(x) \/ ClientLeaves(x) \/ ServerStops(x)
    BY <1>1 DEF Begin, Register, Answered, ClientLeaves, ServerStops, tables
<1>2. ASSUME NEW p, Audit(p, x) \/ Proceed(p, x) PROVE observed' \in {observed, Put(observed, x)}
    BY <1>2 DEF Audit, Proceed, ObserveLatency
<1>3. CASE Refuse(x) \/ Crash(x) \/ Retry(x)
    BY <1>2, <1>3 DEF Refuse, Crash, Retry, RecordFailure
<1>4. CASE Complete(x)
    BY <1>4 DEF Complete
<1>5. CASE Close(x)
    BY <1>5 DEF Close, ReleaseOwned
<1>6. CASE Cancelled(x)
    <2>1. Owned("cancel", x) => facts[x]
        BY DEF Owned, RequestInv, HandOverInv
    <2>2. \/ pending' = pending
          \/ pending' = Without(pending, x) /\ (facts[x] \/ Has(audited, x))
        BY <1>6, <2>1 DEF Cancelled
    <2> QED
        BY <1>6, <2>2 DEF Cancelled
<1>7. ASSUME NEW p \in AllCallers, LogEvent(p, x) PROVE Goal
    BY <1>2, <1>7 DEF LogEvent
<1>8. ASSUME NEW p \in AllCallers, Resume(p, x) PROVE Goal
    <2>1. UNCHANGED <<observed, latencies>> \/ Proceed(p, x)
        BY <1>8 DEF Resume
    <2>2. \/ pending' = pending
          \/ pending' = Without(pending, x) /\ Has(audited, x)
        BY <1>8 DEF Resume
    <2> QED
        BY <1>2, <1>8, <2>1, <2>2 DEF Resume
<1>9. ASSUME NEW p \in AllCallers, CutShort(p, x) PROVE Goal
    BY <1>9 DEF CutShort, QueueCancelled
<1>10. ASSUME NEW p \in AllCallers, NEW o \in EmitOutcomes[x], EmitEnds(p, x, o) PROVE Goal
    BY <1>10, GuardrailAssumption DEF EmitEnds, QueueCancelled, MarkAudited
<1> QED
    BY <1>1, <1>3, <1>4, <1>5, <1>6, <1>7, <1>8, <1>9, <1>10
       DEF Step, PreCallStep, TicketStep, CallerStep

LEMMA RoomStep ==
    ASSUME Room, GuardrailInv, TablesInv, [Next]_vars
    PROVE  TablesInv'
<1>1. CASE UNCHANGED vars
    BY <1>1 DEF TablesInv, vars, tables, Distinct
<1>2. CASE Next
    <2>1. PICK x \in Requests : Step(x)
        BY <1>2 DEF Next, Step
    <2>2. /\ audited \in Seq(Requests) /\ counted \in Seq(Requests)
          /\ observed \in Seq(Requests) /\ pending \in Seq(Requests)
        BY DEF GuardrailInv, TypeOK, Typed
    <2>3. /\ audited' \in {audited, Put(audited, x)}
          /\ counted' \in {counted, Put(counted, x)}
          /\ observed' \in {observed, Put(observed, x)}
          /\ \/ pending' \in {pending, PutLast(pending, x)}
             \/ /\ pending' = Without(pending, x)
                /\ facts[x] \/ Has(audited, x) \/ audited' = Put(audited, x)
        BY <2>1, TableSteps DEF GuardrailInv, TypeOK
    <2>4. Distinct(audited') /\ \A r : Has(audited, r) => Has(audited', r)
        BY <2>2, <2>3, PutKeeps DEF TablesInv
    <2>5. Distinct(counted') /\ \A r : Has(counted, r) => Has(counted', r)
        BY <2>2, <2>3, PutKeeps DEF TablesInv
    <2>6. Distinct(observed') /\ \A r : Has(observed, r) => Has(observed', r)
        BY <2>2, <2>3, PutKeeps DEF TablesInv
    <2>7. Distinct(pending')
          /\ \A r \in Requests : Has(pending, r) => Has(pending', r) \/ Has(audited', r) \/ facts[r]
        <3>1. CASE pending' \in {pending, PutLast(pending, x)}
            BY <2>2, <3>1, PutLastKeeps DEF TablesInv
        <3>2. CASE /\ pending' = Without(pending, x)
                   /\ facts[x] \/ Has(audited, x) \/ audited' = Put(audited, x)
            <4>1. facts[x] \/ Has(audited', x)
                BY <2>2, <2>4, <3>2, PutFacts
            <4> QED
                BY <2>2, <3>2, <4>1, WithoutKeeps DEF TablesInv
        <3> QED
            BY <2>3, <3>1, <3>2
    <2>8. Evicted = {}
        BY <2>4, <2>5, <2>6, <2>7 DEF Evicted
    <2> QED
        BY <1>2, <2>4, <2>5, <2>6, <2>7, <2>8 DEF Next, TablesInv
<1> QED
    BY <1>1, <1>2

\* Tables that have room for every request forget none (_AUDIT_DEDUP_CAP,
\* _CANCEL_PENDING_CAP): an entry goes only when it is written or handed over,
\* so that what OneEffect and NothingLost say then holds without exception.
THEOREM RoomTheorem ==
    ASSUME Room
    PROVE  Spec => [](forgotten = {})
<1>1. Init => TablesInv
    BY DEF Init, TablesInv, Distinct
<1>2. GuardrailInv /\ TablesInv /\ [Next]_vars => TablesInv'
    BY RoomStep
<1>3. TablesInv => forgotten = {}
    BY DEF TablesInv
<1> QED
    BY <1>1, <1>2, <1>3, GuardrailInvariant, PTL DEF Spec

------------------------------------------------------------------------------
(* The ticket.                                                              *)

\* Who writes, who is about to, and what is already certain.
RecordOK(t) ==
    /\ ~facts[t] => decided[t] = "undecided"
    /\ decided[t] = "undecided" =>
           attempts[t] = 0 /\ writer[t] = "none" /\ ~closing[t] /\ stored[t] = 0
    /\ decided[t] = "undecided" => ~published[t] /\ (closed[t] => ~facts[t])
    /\ published[t] =>
           attempts[t] >= 1 /\ writer[t] = "none" /\ ~closing[t] /\ lost[t] = 0
    /\ writer[t] # "none" => attempts[t] >= 1
    /\ writer[t] = "response" => attempts[t] = 1 /\ ~closing[t] /\ (closed[t] => retry[t])
    /\ writer[t] = "close" => closing[t]
    /\ retry[t] => closed[t] /\ writer[t] = "response"
    /\ closing[t] => closed[t] /\ lost[t] = 0
    /\ closing[t] /\ writer[t] = "none" => attempts[t] <= 1
    /\ ~closed[t] => attempts[t] <= 1 /\ lost[t] = 0
    /\ attempts[t] <= MaxAttempts
    /\ lost[t] \in {0, 1}
    /\ lost[t] = 1 => attempts[t] >= 1 /\ writer[t] = "none"
    /\ closed[t] /\ facts[t] /\ Idle(t) => published[t] \/ lost[t] = 1

\* The drain starts after every close, and no write starts after it returned.
DrainOK ==
    /\ drained # "no" => \A t \in Requests : closed[t]
    /\ drained = "yes" => \A t \in Requests : Idle(t)

TicketInv == TicketTypeOK /\ (\A t \in Requests : RecordOK(t)) /\ DrainOK

(* Every step keeps every variable in its type.                               *)
LEMMA TypeStep == TicketTypeOK /\ [TicketNext]_ticketVars => TicketTypeOK'
<1> SUFFICES ASSUME TicketTypeOK, [TicketNext]_ticketVars PROVE TicketTypeOK'
  OBVIOUS
<1> USE DEF TicketTypeOK, Outcomes, request, record, writes
<1>1. CASE UNCHANGED ticketVars
  BY <1>1 DEF ticketVars
<1>2. CASE DrainStarts \/ DrainReturns \/ DrainTimesOut
  BY <1>2 DEF DrainStarts, DrainReturns, DrainTimesOut
<1>3. ASSUME NEW t \in Requests, TicketMoves(t) PROVE TicketTypeOK'
  <2>1. CASE Deposit(t)
    BY <2>1 DEF Deposit
  <2>2. ASSUME NEW who \in {"client", "server"}, MarkCancelled(t, who) PROVE TicketTypeOK'
    BY <2>2 DEF MarkCancelled
  <2>3. CASE Decide(t)
    BY <2>3 DEF Decide
  <2>4. ASSUME NEW outcome \in {"ok", "failed", "internal"}, Publish(t, outcome)
        PROVE  TicketTypeOK'
    <3>1. PublishedOutcome(t, outcome) \in Outcomes
      BY DEF PublishedOutcome
    <3>2. CASE attempts[t] = 0
      <4>1. /\ StartWrite(t, "response")
            /\ decided' \in [Requests -> Outcomes \union {"undecided"}]
            /\ UNCHANGED <<request, published, retry, closing, stored, lost, drained>>
        BY <2>4, <3>1, <3>2 DEF Publish
      <4> QED
        BY <4>1 DEF StartWrite
    <3>3. CASE attempts[t] # 0
      BY <2>4, <3>1, <3>3 DEF Publish
    <3> QED
      BY <3>2, <3>3
  <2>5. CASE OnClose(t)
    BY <2>5 DEF OnClose, ClosingOutcome
  <2>6. CASE SinkStores(t)
    BY <2>6 DEF SinkStores
  <2>7. CASE Written(t)
    BY <2>7 DEF Written
  <2>8. CASE NotWritten(t)
    BY <2>8 DEF NotWritten
  <2>9. CASE CloseWrites(t)
    BY <2>9 DEF CloseWrites, StartWrite
  <2> QED
    BY <1>3, <2>1, <2>2, <2>3, <2>4, <2>5, <2>6, <2>7, <2>8, <2>9
       DEF TicketMoves, WriteStep, EmitReturns, EmitRaises, EmitCancelled
<1> QED
  BY <1>1, <1>2, <1>3 DEF TicketNext

(* A step of one ticket leaves the records of the others alone.               *)
LEMMA RecordStep ==
    ASSUME TicketInv, NEW t \in Requests, TicketMoves(t)
    PROVE  \A s \in Requests : RecordOK(s)'
<1> USE DEF TicketInv, TicketTypeOK, RecordOK, Idle, MaxAttempts, request, record, writes
<1>1. CASE Deposit(t)
  BY <1>1 DEF Deposit
<1>2. ASSUME NEW who \in {"client", "server"}, MarkCancelled(t, who)
      PROVE  \A s \in Requests : RecordOK(s)'
  BY <1>2 DEF MarkCancelled
<1>3. CASE Decide(t)
  BY <1>3 DEF Decide
<1>4. ASSUME NEW outcome \in {"ok", "failed", "internal"}, Publish(t, outcome)
      PROVE  \A s \in Requests : RecordOK(s)'
  <2>1. PublishedOutcome(t, outcome) # "undecided"
    BY DEF PublishedOutcome
  <2>2. CASE attempts[t] = 0
    <3>1. /\ StartWrite(t, "response")
          /\ facts[t] /\ ~closed[t] /\ writer[t] = "none"
          /\ decided'[t] # "undecided"
          /\ \A s \in Requests \ {t} : decided'[s] = decided[s]
          /\ UNCHANGED <<request, published, retry, closing, stored, lost, drained>>
      BY <1>4, <2>1, <2>2 DEF Publish
    <3>2. \A s \in Requests \ {t} : RecordOK(s)'
      BY <3>1 DEF StartWrite
    <3>3. RecordOK(t)'
      BY <2>2, <3>1 DEF StartWrite
    <3> QED
      BY <3>2, <3>3
  <2>3. CASE attempts[t] # 0
    BY <1>4, <2>1, <2>3 DEF Publish
  <2> QED
    BY <2>2, <2>3
<1>5. CASE OnClose(t)
  BY <1>5 DEF OnClose, ClosingOutcome
<1>6. CASE SinkStores(t)
  BY <1>6 DEF SinkStores
<1>7. ASSUME writer[t] # "none", Written(t) PROVE \A s \in Requests : RecordOK(s)'
  <2>1. CASE writer[t] = "response"
    BY <1>7, <2>1 DEF Written
  <2>2. CASE writer[t] = "close"
    BY <1>7, <2>2 DEF Written
  <2> QED
    BY <1>7, <2>1, <2>2
<1>8. ASSUME writer[t] # "none", NotWritten(t) PROVE \A s \in Requests : RecordOK(s)'
  <2>1. \A s \in Requests \ {t} : RecordOK(s)'
    BY <1>8 DEF NotWritten
  <2>2. CASE writer[t] = "response"
    BY <1>8, <2>1, <2>2 DEF NotWritten
  <2>3. CASE writer[t] = "close"
    BY <1>8, <2>1, <2>3 DEF NotWritten
  <2> QED
    BY <1>8, <2>2, <2>3
<1>9. CASE CloseWrites(t)
  BY <1>9 DEF CloseWrites, StartWrite
<1> QED
  BY <1>1, <1>2, <1>3, <1>4, <1>5, <1>6, <1>7, <1>8, <1>9
     DEF TicketMoves, WriteStep, EmitReturns, EmitRaises, EmitCancelled
(* Once drain() has returned, no step of a ticket starts a write.             *)
LEMMA DrainStep ==
    ASSUME TicketInv, NEW t \in Requests, TicketMoves(t)
    PROVE  DrainOK'
<1> USE DEF TicketInv, TicketTypeOK, DrainOK, Idle, request, record, writes
<1>1. drained' = drained /\ \A s \in Requests : closed[s] => closed'[s]
  BY DEF TicketMoves, WriteStep, Deposit, MarkCancelled, Decide, Publish, OnClose, SinkStores,
         EmitReturns, EmitRaises, EmitCancelled, Written, NotWritten, CloseWrites
<1>2. ASSUME drained = "yes" PROVE \A s \in Requests : Idle(s)'
  <2>1. \A s \in Requests : closed[s] /\ writer[s] = "none" /\ ~closing[s]
    BY <1>2
  <2>2. writer' = writer /\ closing' = closing
    BY <2>1 DEF TicketMoves, WriteStep, Deposit, MarkCancelled, Decide, Publish, OnClose,
                SinkStores, EmitReturns, EmitRaises, EmitCancelled, CloseWrites
  <2> QED
    BY <2>1, <2>2
<1> QED
  BY <1>1, <1>2

(* TicketInv is inductive.                                                    *)
LEMMA TicketInvStep == TicketInv /\ [TicketNext]_ticketVars => TicketInv'
<1> SUFFICES ASSUME TicketInv, [TicketNext]_ticketVars PROVE TicketInv'
  OBVIOUS
<1>1. TicketTypeOK'
  BY TypeStep DEF TicketInv
<1>2. ASSUME UNCHANGED <<request, record, writes>>
      PROVE  \A t \in Requests : RecordOK(t)' /\ Idle(t)' = Idle(t)
  BY <1>2 DEF TicketInv, RecordOK, Idle, request, record, writes
<1>3. CASE UNCHANGED ticketVars
  BY <1>1, <1>2, <1>3 DEF ticketVars, TicketInv, DrainOK, request
<1>4. ASSUME NEW t \in Requests, TicketMoves(t) PROVE TicketInv'
  BY <1>1, <1>4, RecordStep, DrainStep DEF TicketInv
<1>5. CASE DrainStarts \/ DrainReturns \/ DrainTimesOut
  <2>1. UNCHANGED <<request, record, writes>>
    BY <1>5 DEF DrainStarts, DrainReturns, DrainTimesOut
  <2>2. DrainOK'
    BY <1>5 DEF DrainStarts, DrainReturns, DrainTimesOut, TicketInv, DrainOK, Idle,
                request, record, writes
  <2> QED
    BY <1>1, <1>2, <2>1, <2>2 DEF TicketInv
<1> QED
  BY <1>3, <1>4, <1>5 DEF TicketNext

(* TicketInv holds in every reachable state.                                  *)
THEOREM TicketInvariant == TicketSafeSpec => []TicketInv
<1>1. TicketInit => TicketInv
  BY DEF TicketInit, TicketInv, TicketTypeOK, RecordOK, DrainOK, Idle, MaxAttempts, Outcomes
<1> QED
  BY <1>1, TicketInvStep, PTL DEF TicketSafeSpec

(* At most one retry, and no write after a record that may have landed.       *)
THEOREM OneRetryTheorem == TicketSafeSpec => []OneRetry
<1>1. TicketInv => OneRetry
  BY DEF TicketInv, RecordOK, OneRetry, Idle
<1> QED
  BY <1>1, TicketInvariant, PTL

(* A closed ticket whose writes are over has its record or a counted loss,    *)
(* whatever the sink did.                                                     *)
THEOREM NoSilentLossTheorem == TicketSafeSpec => []NoSilentLoss
<1>1. TicketInv => NoSilentLoss
  BY DEF TicketInv, RecordOK, NoSilentLoss, Idle
<1> QED
  BY <1>1, TicketInvariant, PTL

(* drain() leaves no record behind.                                           *)
THEOREM DrainTheorem == TicketSafeSpec => []DrainMeansSettled
<1>1. TicketInv => DrainMeansSettled
  BY DEF TicketInv, RecordOK, DrainOK, DrainMeansSettled, Idle
<1> QED
  BY <1>1, TicketInvariant, PTL

(* The request decides the outcome, once, and by who cancelled it.            *)
THEOREM OutcomeTheorem == TicketSafeSpec => OutcomeRules
<1> DEFINE Rule == \A t \in Requests :
               decided'[t] # decided[t] =>
                   /\ decided[t] = "undecided"
                   /\ stored[t] = 0
                   /\ origin[t] = "client" => decided'[t] \in {"left", "internal"}
                   /\ decided'[t] = "left" => origin[t] = "client"
                   /\ decided'[t] = "shutdown" => origin[t] = "server"
<1>1. TicketInv /\ [TicketNext]_ticketVars => [Rule]_ticketVars
  <2> SUFFICES ASSUME TicketInv, TicketNext PROVE Rule
    OBVIOUS
  <2>1. ASSUME UNCHANGED decided PROVE Rule
    BY <2>1
  <2>2. CASE DrainStarts \/ DrainReturns \/ DrainTimesOut
    BY <2>1, <2>2 DEF DrainStarts, DrainReturns, DrainTimesOut, record
  <2>3. ASSUME NEW t \in Requests, TicketMoves(t) PROVE Rule
    <3> USE DEF TicketInv, TicketTypeOK, RecordOK, record, writes
    <3>1. CASE Decide(t)
      BY <3>1 DEF Decide
    <3>2. ASSUME NEW outcome \in {"ok", "failed", "internal"}, Publish(t, outcome)
          PROVE  Rule
      BY <3>2 DEF Publish, PublishedOutcome
    <3>3. CASE OnClose(t)
      BY <3>3 DEF OnClose, ClosingOutcome
    <3>4. CASE WriteStep(t) \/ Deposit(t)
      BY <2>1, <3>4 DEF WriteStep, Deposit, SinkStores, EmitReturns, EmitRaises,
                   EmitCancelled, Written, NotWritten, CloseWrites
    <3>5. ASSUME NEW who \in {"client", "server"}, MarkCancelled(t, who) PROVE Rule
      BY <2>1, <3>5 DEF MarkCancelled
    <3> QED
      BY <2>3, <3>1, <3>2, <3>3, <3>4, <3>5 DEF TicketMoves
  <2> QED
    BY <2>2, <2>3 DEF TicketNext
<1>2. TicketSafeSpec => [][Rule]_ticketVars
  BY <1>1, TicketInvariant, PTL DEF TicketSafeSpec
<1> QED
  BY <1>2 DEF OutcomeRules

-----------------------------------------------------------------------------
(* A request whose writes tell whether the record may have arrived never   *)
(* gets a second record, whatever the other requests meet.                 *)

\* What is in the sink, as far as the facts say.
SinkOK(t) ==
    /\ writer[t] # "none" => stored[t] = IF arrived[t] THEN 1 ELSE 0
    /\ writer[t] = "none" /\ ~published[t] => stored[t] = 0
    /\ stored[t] \in {0, 1}

(* An honest ticket's write that is not taken for written did not arrive.     *)
LEMMA HonestEnd ==
    ASSUME NEW t \in Honest, NEW error \in SinkErrors[t], EmitRaises(t, error)
    PROVE  writer[t] # "none" /\ (Written(t) \/ (~arrived[t] /\ NotWritten(t)))
BY DEF Honest, EmitRaises, AmbiguousErrors

(* A step of an honest ticket keeps the count of the sink in line with its    *)
(* record's state.                                                            *)
LEMMA SinkStep ==
    ASSUME TicketInv, NEW t \in Honest, TicketMoves(t), SinkOK(t)
    PROVE  SinkOK(t)'
<1>0. t \in Requests /\ t \notin Cancellable
  BY DEF Honest
<1> USE <1>0 DEF TicketInv, TicketTypeOK, RecordOK, SinkOK, request, record, writes
<1>1. CASE Deposit(t) \/ Decide(t)
  BY <1>1 DEF Deposit, Decide
<1>2. ASSUME NEW who \in {"client", "server"}, MarkCancelled(t, who) PROVE SinkOK(t)'
  BY <1>2 DEF MarkCancelled
<1>3. ASSUME NEW outcome \in {"ok", "failed", "internal"}, Publish(t, outcome)
      PROVE  SinkOK(t)'
  BY <1>3 DEF Publish, StartWrite
<1>4. CASE OnClose(t)
  BY <1>4 DEF OnClose
<1>5. CASE SinkStores(t)
  BY <1>5 DEF SinkStores
<1>6. CASE writer[t] # "none" /\ Written(t)
  BY <1>6 DEF Written
<1>7. CASE writer[t] # "none" /\ ~arrived[t] /\ NotWritten(t)
  BY <1>7 DEF NotWritten
<1>8. CASE CloseWrites(t)
  BY <1>8 DEF CloseWrites, StartWrite
<1> QED
  BY <1>1, <1>2, <1>3, <1>4, <1>5, <1>6, <1>7, <1>8, HonestEnd
     DEF TicketMoves, WriteStep, EmitReturns, EmitCancelled

(* A step of another ticket does not touch this one's record.                 *)
LEMMA OtherStep ==
    ASSUME TicketInv, NEW t \in Requests, NEW s \in Requests, s # t, TicketMoves(t)
    PROVE  /\ decided'[s] = decided[s] /\ stored'[s] = stored[s] /\ lost'[s] = lost[s]
           /\ writer'[s] = writer[s] /\ arrived'[s] = arrived[s]
           /\ published'[s] = published[s]
<1> USE DEF TicketInv, TicketTypeOK, request, record, writes
<1>1. CASE Deposit(t) \/ Decide(t) \/ OnClose(t) \/ SinkStores(t) \/ CloseWrites(t)
  BY <1>1 DEF Deposit, Decide, OnClose, SinkStores, CloseWrites, StartWrite
<1>2. ASSUME NEW who \in {"client", "server"}, MarkCancelled(t, who)
      PROVE  UNCHANGED <<decided, stored, lost, writer, arrived, published>>
  BY <1>2 DEF MarkCancelled
<1>3. ASSUME NEW outcome \in {"ok", "failed", "internal"}, Publish(t, outcome)
      PROVE  /\ decided'[s] = decided[s] /\ stored'[s] = stored[s] /\ lost'[s] = lost[s]
             /\ writer'[s] = writer[s] /\ arrived'[s] = arrived[s]
             /\ published'[s] = published[s]
  BY <1>3 DEF Publish, StartWrite
<1>4. CASE Written(t) \/ NotWritten(t)
  BY <1>4 DEF Written, NotWritten
<1> QED
  BY <1>1, <1>2, <1>3, <1>4
     DEF TicketMoves, WriteStep, EmitReturns, EmitRaises, EmitCancelled

(* The facts of an honest ticket always tell what the sink holds of it.       *)
LEMMA SinkInvariant == TicketSafeSpec => [](TicketInv /\ \A t \in Honest : SinkOK(t))
<1> DEFINE Inv == TicketInv /\ \A t \in Honest : SinkOK(t)
<1>0. Honest \subseteq Requests
  BY DEF Honest
<1>1. TicketInit => \A t \in Honest : SinkOK(t)
  BY <1>0 DEF TicketInit, SinkOK
<1>2. Inv /\ [TicketNext]_ticketVars => (\A t \in Honest : SinkOK(t))'
  <2> SUFFICES ASSUME Inv, [TicketNext]_ticketVars, NEW s \in Honest PROVE SinkOK(s)'
    BY DEF Honest
  <2>1. CASE UNCHANGED <<request, record, writes>>
    BY <2>1 DEF SinkOK, record, writes
  <2>2. ASSUME NEW t \in Requests, TicketMoves(t) PROVE SinkOK(s)'
    <3>1. CASE s = t
      BY <2>2, <3>1, SinkStep
    <3>2. CASE s # t
      BY <1>0, <2>2, <3>2, OtherStep DEF SinkOK
    <3> QED
      BY <3>1, <3>2
  <2> QED
    BY <2>1, <2>2 DEF TicketNext, ticketVars, DrainStarts, DrainReturns, DrainTimesOut
<1> QED
  BY <1>1, <1>2, TicketInvariant, PTL DEF TicketSafeSpec

\* The abstract register's variables.
Verdict == [t \in Honest |-> decided[t]]
Stored  == [t \in Honest |-> stored[t]]
Missing == [t \in Honest |-> lost[t]]

(* A step of an honest ticket decides its record, stores it, counts its loss, *)
(* or leaves it alone.                                                        *)
LEMMA RegisterStep ==
    ASSUME TicketInv, NEW t \in Honest, SinkOK(t), TicketMoves(t)
    PROVE  \/ /\ decided[t] = "undecided" /\ decided'[t] \in Outcomes
              /\ stored'[t] = stored[t] /\ lost'[t] = lost[t]
           \/ /\ decided[t] # "undecided" /\ stored[t] = 0 /\ lost[t] = 0
              /\ stored'[t] = 1 /\ decided'[t] = decided[t] /\ lost'[t] = lost[t]
           \/ /\ decided[t] # "undecided" /\ stored[t] = 0 /\ lost[t] = 0
              /\ lost'[t] = 1 /\ decided'[t] = decided[t] /\ stored'[t] = stored[t]
           \/ decided'[t] = decided[t] /\ stored'[t] = stored[t] /\ lost'[t] = lost[t]
<1>0. t \in Requests /\ t \notin Cancellable
  BY DEF Honest
<1> DEFINE Judged == /\ decided[t] = "undecided" /\ decided'[t] \in Outcomes
                     /\ stored'[t] = stored[t] /\ lost'[t] = lost[t]
           Kept == decided'[t] = decided[t] /\ stored'[t] = stored[t] /\ lost'[t] = lost[t]
<1> USE <1>0 DEF TicketInv, TicketTypeOK, RecordOK, SinkOK, request, record, writes
<1>1. CASE Decide(t)
  BY <1>1 DEF Decide, Outcomes
<1>2. ASSUME NEW outcome \in {"ok", "failed", "internal"}, Publish(t, outcome)
      PROVE  Judged \/ Kept
  <2>1. PublishedOutcome(t, outcome) \in Outcomes
    BY DEF PublishedOutcome, Outcomes
  <2> QED
    BY <1>2, <2>1 DEF Publish
<1>3. CASE OnClose(t)
  <2>1. ClosingOutcome(t) \in Outcomes
    BY DEF ClosingOutcome, Outcomes
  <2> QED
    BY <1>3, <2>1 DEF OnClose
<1>4. CASE SinkStores(t)
  BY <1>4 DEF SinkStores
<1>5. CASE writer[t] # "none" /\ Written(t)
  BY <1>5 DEF Written
<1>6. CASE writer[t] # "none" /\ ~arrived[t] /\ NotWritten(t)
  BY <1>6 DEF NotWritten
<1>7. CASE Deposit(t) \/ CloseWrites(t)
  BY <1>7 DEF Deposit, CloseWrites
<1>8. ASSUME NEW who \in {"client", "server"}, MarkCancelled(t, who) PROVE Kept
  BY <1>8 DEF MarkCancelled
<1> QED
  BY <1>1, <1>2, <1>3, <1>4, <1>5, <1>6, <1>7, <1>8, HonestEnd
     DEF TicketMoves, WriteStep, EmitReturns, EmitCancelled

(* Every step of the system is a step of OneRecord or none of its business.   *)
LEMMA OneRecordStep ==
    ASSUME TicketInv, \A t \in Honest : SinkOK(t), [TicketNext]_ticketVars
    PROVE  Promise!Next \/ UNCHANGED <<Verdict, Stored, Missing>>
<1>0. Honest \subseteq Requests
  BY DEF Honest
<1> USE DEF Verdict, Stored, Missing
<1>1. CASE UNCHANGED <<decided, stored, lost>>
  BY <1>1
<1>2. ASSUME NEW t \in Requests, TicketMoves(t)
      PROVE  Promise!Next \/ UNCHANGED <<Verdict, Stored, Missing>>
  <2>1. \A s \in Honest \ {t} :
            decided'[s] = decided[s] /\ stored'[s] = stored[s] /\ lost'[s] = lost[s]
    BY <1>0, <1>2, OtherStep
  <2>2. CASE t \notin Honest
    BY <2>1, <2>2
  <2>3. CASE t \in Honest
    <3>1. CASE /\ decided[t] = "undecided" /\ decided'[t] \in Outcomes
               /\ stored'[t] = stored[t] /\ lost'[t] = lost[t]
      <4>1. /\ Verdict' = [Verdict EXCEPT ![t] = decided'[t]]
            /\ UNCHANGED <<Stored, Missing>>
        BY <2>1, <2>3, <3>1
      <4>2. Promise!Judge(t)
        BY <2>3, <3>1, <4>1 DEF Promise!Judge
      <4> QED
        BY <2>3, <4>2 DEF Promise!Next
    <3>2. CASE /\ decided[t] # "undecided" /\ stored[t] = 0 /\ lost[t] = 0
               /\ stored'[t] = 1 /\ decided'[t] = decided[t] /\ lost'[t] = lost[t]
      <4>1. /\ Stored' = [Stored EXCEPT ![t] = 1]
            /\ UNCHANGED <<Verdict, Missing>>
        BY <2>1, <2>3, <3>2
      <4>2. Promise!Store(t)
        BY <2>3, <3>2, <4>1 DEF Promise!Store
      <4> QED
        BY <2>3, <4>2 DEF Promise!Next
    <3>3. CASE /\ decided[t] # "undecided" /\ stored[t] = 0 /\ lost[t] = 0
               /\ lost'[t] = 1 /\ decided'[t] = decided[t] /\ stored'[t] = stored[t]
      <4>1. /\ Missing' = [Missing EXCEPT ![t] = 1]
            /\ UNCHANGED <<Verdict, Stored>>
        BY <2>1, <2>3, <3>3
      <4>2. Promise!Lose(t)
        BY <2>3, <3>3, <4>1 DEF Promise!Lose
      <4> QED
        BY <2>3, <4>2 DEF Promise!Next
    <3>4. CASE decided'[t] = decided[t] /\ stored'[t] = stored[t] /\ lost'[t] = lost[t]
      BY <2>1, <3>4
    <3> QED
      BY <1>2, <2>3, <3>1, <3>2, <3>3, <3>4, RegisterStep
  <2> QED
    BY <2>2, <2>3
<1> QED
  BY <1>1, <1>2 DEF TicketNext, ticketVars, record, writes, DrainStarts, DrainReturns, DrainTimesOut

(* Of its honest tickets the terminal audit implements OneRecord.             *)
THEOREM OneRecordTheorem == TicketSafeSpec => ImplementsOneRecord
<1>1. TicketInit => Promise!Init
  BY DEF TicketInit, Promise!Init, Honest
<1>2. /\ TicketInv /\ \A t \in Honest : SinkOK(t)
      /\ [TicketNext]_ticketVars
      => [Promise!Next]_(Promise!vars)
  BY OneRecordStep DEF Promise!vars, Verdict, Stored, Missing
<1> QED
  BY <1>1, <1>2, SinkInvariant, PTL DEF TicketSafeSpec, ImplementsOneRecord, Promise!Spec

(* A record is retried once at most, is written or counted as lost, and a     *)
(* drain waits for it (TerminalAudit._write, drain).                          *)
THEOREM SettledTheorem == TicketSafeSpec => []RecordSettled
BY OneRetryTheorem, NoSilentLossTheorem, DrainTheorem, PTL DEF RecordSettled

------------------------------------------------------------------------------
(* The two writers together.                                                *)

\* Of the guardrail, the two together take its steps or none;
LEMMA GuardrailSide == [TrailNext]_trail => [Next]_vars
<1> SUFFICES ASSUME [TrailNext]_trail PROVE [Next]_vars
    OBVIOUS
<1>1. CASE UNCHANGED vars
    BY <1>1
<1>2. ASSUME NEW r \in Requests,
             GuardrailOnly(r) \/ HandOver(r) \/ ClientGone(r) \/ ServerGone(r) \/ TicketCloses(r)
      PROVE  PreCallStep(r) \/ TicketStep(r) \/ CallerStep(r)
    BY <1>2 DEF GuardrailOnly, HandOver, ClientGone, ServerGone, TicketCloses, PreCallStep,
                TicketStep
<1>3. CASE /\ \E r \in Requests : \/ GuardrailOnly(r) \/ HandOver(r)
                                  \/ ClientGone(r) \/ ServerGone(r) \/ TicketCloses(r)
           /\ forgotten' = forgotten \cup Evicted
    BY <1>2, <1>3 DEF Next
<1> QED
    BY <1>1, <1>3 DEF TrailNext, trail

\* and of the ticket its steps or none: what the guardrail does on its own
\* changes neither the facts nor the close.
LEMMA TicketSide == [TrailNext]_trail => [TicketNext]_ticketVars
<1> SUFFICES ASSUME [TrailNext]_trail PROVE [TicketNext]_ticketVars
    OBVIOUS
<1>1. ASSUME UNCHANGED <<facts, closed, ticketSide>> PROVE UNCHANGED ticketVars
    BY <1>1 DEF ticketSide, ticketVars, request, record, writes
<1>2. CASE UNCHANGED trail
    BY <1>1, <1>2 DEF trail, vars, ticket
<1>3. ASSUME NEW r \in Requests, GuardrailOnly(r) PROVE UNCHANGED ticketVars
    <2>1. UNCHANGED <<facts, closed>>
        BY <1>3 DEF GuardrailOnly, Begin, Register, Refuse, Crash, Answered, Retry, CallerStep,
                    Cancelled, LogEvent, Resume, CutShort, EmitEnds, ticket
    <2> QED
        BY <1>1, <1>3, <2>1 DEF GuardrailOnly
<1>4. ASSUME NEW r \in Requests, HandOver(r) PROVE TicketMoves(r) \/ UNCHANGED ticketVars
    <2>1. closed' = closed
        BY <1>4 DEF HandOver, Complete
    <2> QED
        BY <1>1, <1>4, <2>1 DEF HandOver, TicketMoves
<1>5. ASSUME NEW r \in Requests, ClientGone(r) \/ ServerGone(r)
      PROVE  TicketMoves(r) \/ UNCHANGED ticketVars
    <2>1. UNCHANGED <<facts, closed>>
        BY <1>5 DEF ClientGone, ServerGone, ClientLeaves, ServerStops
    <2>2. UNCHANGED ticketSide \/ \E who \in {"client", "server"} : MarkCancelled(r, who)
        BY <1>5 DEF ClientGone, ServerGone
    <2> QED
        BY <1>1, <2>1, <2>2 DEF TicketMoves
<1>6. ASSUME NEW r \in Requests, TicketCloses(r) \/ TicketOnly(r) PROVE TicketMoves(r)
    BY <1>6 DEF TicketCloses, TicketOnly, TicketMoves
<1> QED
    BY <1>2, <1>3, <1>4, <1>5, <1>6 DEF TrailNext, TicketNext

\* The two writers, joined at the ticket they share, are the guardrail and the
\* terminal audit each as it was checked on its own: what holds of either holds
\* of both together (_hand_over, mark_cancelled, RequestTicket.close).
THEOREM TrailJoins == TrailSpec => Spec /\ TicketSafeSpec
<1>1. TrailInit => Init /\ TicketInit
    BY DEF TrailInit
<1> QED
    BY <1>1, GuardrailSide, TicketSide, PTL DEF TrailSpec, Spec, TicketSafeSpec

\* A request leaves one trail, whichever of its two writers wrote it, for any
\* number of requests, any cap of the tables and whatever the sink does: never
\* two writers, no second ticketSide but one a writer could not know of, and no end
\* without a ticketSide, a refusal or a counted loss.
THEOREM OneTrailTheorem == TrailSpec => []OneTrail
<1> DEFINE Trail(r) ==
               /\ attempts[r] > 0 => landed[r] = 0 /\ ~Emitting(r)
               /\ r \in Honest /\ <<"audited", r>> \notin forgotten =>
                      landed[r] + stored[r] <= 1 + cut[r]
               /\ gated /\ Ended(r) /\ Idle(r) /\ (facts[r] \/ ~stopped[r]) =>
                      landed[r] > 0 \/ refused[r] > 0 \/ published[r] \/ lost[r] = 1
           Inv == GuardrailInv /\ TicketInv /\ \A t \in Honest : SinkOK(t)
<1>1. Inv => \A r \in Requests : Trail(r)
    <2> SUFFICES ASSUME Inv, NEW r \in Requests
                 PROVE  Trail(r)
        OBVIOUS
    <2>1. RequestInv(r) /\ RecordOK(r)
        BY DEF GuardrailInv, TicketInv
    <2>2. /\ landed[r] \in Nat /\ cut[r] \in Nat /\ stored[r] \in Nat /\ attempts[r] \in Nat
        BY DEF GuardrailInv, TypeOK, Typed, TicketInv, TicketTypeOK
    <2>3. facts[r] => landed[r] = 0 /\ ~Emitting(r)
        BY <2>1 DEF RequestInv, HandOverInv, Emitting
    <2>4. ~facts[r] => attempts[r] = 0 /\ stored[r] = 0
        BY <2>1 DEF RecordOK
    <2>5. r \in Honest /\ <<"audited", r>> \notin forgotten =>
              landed[r] + stored[r] <= 1 + cut[r]
        <3>1. CASE facts[r]
            BY <2>2, <2>3, <3>1 DEF SinkOK
        <3>2. CASE ~facts[r]
            BY <2>1, <2>2, <2>4, <3>2 DEF RequestInv, RecordInv, Lost
        <3> QED
            BY <3>1, <3>2
    <2>6. ASSUME gated, Ended(r), Idle(r), facts[r] \/ ~stopped[r]
          PROVE  landed[r] > 0 \/ refused[r] > 0 \/ published[r] \/ lost[r] = 1
        <3>1. CASE facts[r]
            BY <2>1, <2>6, <3>1 DEF RecordOK, Ended
        <3>2. CASE ~facts[r]
            BY <2>6, <3>2, EndTouched
        <3> QED
            BY <3>1, <3>2
    <2> QED
        BY <2>2, <2>3, <2>4, <2>5, <2>6
<1>2. OneEffect /\ (\A r \in Requests : Trail(r)) => OneTrail
    BY DEF OneTrail
<1> QED
    BY <1>1, <1>2, TrailJoins, OneEffectTheorem, GuardrailInvariant, SinkInvariant, PTL

==============================================================================
