---------------------- MODULE InflightLimiter_proofs ----------------------
(***************************************************************************)
(* Proofs about InflightLimiter, for any set of requests and any limits    *)
(* the constructor accepts.  The inductive invariant adds to the counters  *)
(* the phases in which a request may own a slot or bytes: Leave gives back *)
(* what the request owns, so the counters stay exact only if ownership is  *)
(* known at every exit.                                                    *)
(***************************************************************************)
EXTENDS InflightLimiter, FiniteSetTheorems, TLAPS

USE LimiterAssumption

(* Every step keeps every variable in its type.                               *)
LEMMA TypeStep == TypeOK /\ [Next]_vars => TypeOK'
<1> USE DEF TypeOK, Phases, Goto, Marked, Hold, GiveBack, Larger, Smaller,
            CanHold, admission, cancelling, serving
<1> SUFFICES ASSUME TypeOK, [Next]_vars PROVE TypeOK'
  OBVIOUS
<1>1. CASE UNCHANGED vars
  BY <1>1 DEF vars
<1>2. ASSUME NEW r \in Requests, BodyStep(r) PROVE TypeOK'
  <2>1. ASSUME NEW declared \in {NoLength} \union 0..MaxChunk, Arrive(r, declared)
        PROVE  TypeOK'
    BY <2>1 DEF Arrive, NoLength
  <2>2. ASSUME NEW n \in 0..MaxChunk, ChunkRefused(r, n) PROVE TypeOK'
    BY <2>2 DEF ChunkRefused, RefuseBody
  <2>3. ASSUME NEW n \in 0..MaxChunk, ChunkRead(r, n) PROVE TypeOK'
    BY <2>3 DEF ChunkRead
  <2>4. ASSUME NEW n \in 0..MaxChunk, BodyRefused(r, n) PROVE TypeOK'
    BY <2>4 DEF BodyRefused, RefuseBody
  <2>5. ASSUME NEW n \in 0..MaxChunk, Serve(r, n) PROVE TypeOK'
    BY <2>5 DEF Serve
  <2>6. CASE BodyTimeout(r)
    BY <2>6 DEF BodyTimeout, RefuseBody
  <2>7. CASE BodyDisconnect(r)
    BY <2>7 DEF BodyDisconnect
  <2>8. CASE Refused(r)
    <3>1. Leave(r) /\ UNCHANGED <<origin, told, serving>>
      BY <2>8 DEF Refused
    <3> QED
      BY <3>1 DEF Leave
  <2> QED
    BY <1>2, <2>1, <2>2, <2>3, <2>4, <2>5, <2>6, <2>7, <2>8 DEF BodyStep
<1>3. ASSUME NEW r \in Requests, TaskStep(r) PROVE TypeOK'
  <2>1. CASE SendFinalBody(r)
    BY <2>1 DEF SendFinalBody
  <2>2. CASE DownstreamEnds(r)
    BY <2>2 DEF DownstreamEnds
  <2>3. CASE SpawnChild(r) \/ ChildrenEnd(r)
    BY <2>3 DEF SpawnChild, ChildrenEnd
  <2>4. CASE ClientGone(r)
    BY <2>4 DEF ClientGone
  <2>5. CASE WatcherStops(r)
    BY <2>5 DEF WatcherStops
  <2> QED
    BY <1>3, <2>1, <2>2, <2>3, <2>4, <2>5 DEF TaskStep
<1>4. ASSUME NEW r \in Requests, ServeStep(r) PROVE TypeOK'
  <2>1. CASE Wake(r)
    BY <2>1 DEF Wake
  <2>2. CASE GraceEnds(r) \/ SweepEnds(r) \/ HookStarts(r) \/ ServerCancel(r)
    BY <2>2 DEF GraceEnds, SweepEnds, HookStarts, ServerCancel
  <2>3. CASE Settled(r) \/ HookEnds(r) \/ ServerCancelEnds(r) \/ Abort(r)
    <3>1. Leave(r) /\ UNCHANGED <<origin, told, serving>>
      BY <2>3 DEF Settled, HookEnds, ServerCancelEnds, Abort
    <3> QED
      BY <3>1 DEF Leave
  <2> QED
    BY <1>4, <2>1, <2>2, <2>3 DEF ServeStep
<1> QED
  BY <1>1, <1>2, <1>3, <1>4 DEF Next

(* The type invariant holds for every instance of the limiter.                *)
THEOREM TypeCorrect == SafeSpec => []TypeOK
<1>1. Init => TypeOK
  BY DEF Init, TypeOK, Phases
<1> QED
  BY <1>1, TypeStep, PTL DEF SafeSpec
-----------------------------------------------------------------------------
(* Counting.                                                               *)

(* The bytes of one request, one element per byte, are as many as it holds.   *)
LEMMA ColumnCount ==
    ASSUME NEW r, NEW k \in Nat
    PROVE  IsFiniteSet({r} \X (1..k)) /\ Cardinality({r} \X (1..k)) = k
<1>1. IsFiniteSet({r}) /\ Cardinality({r}) = 1
  BY FS_Singleton
<1>2. IsFiniteSet(1..k) /\ Cardinality(1..k) = k
  BY FS_Interval
<1>3. /\ IsFiniteSet({r} \X (1..k))
      /\ Cardinality({r} \X (1..k)) = Cardinality({r}) * Cardinality(1..k)
  BY <1>1, <1>2, FS_Product
<1> QED
  BY <1>1, <1>2, <1>3

(* Giving one request v bytes instead of what it held changes the total by    *)
(* the difference: _hold and _give_back keep _buffered exact.                 *)
LEMMA UnitsChange ==
    ASSUME NEW h \in [Requests -> 0..MaxBody], NEW r \in Requests, NEW v \in 0..MaxBody
    PROVE  /\ Cardinality(Units(h)) \in Nat
           /\ Cardinality(Units([h EXCEPT ![r] = v])) = Cardinality(Units(h)) + v - h[r]
           /\ h[r] <= Cardinality(Units(h))
<1> DEFINE rest == {u \in Units(h) : u[1] # r}
           column(k) == {r} \X (1..k)
           hv == [h EXCEPT ![r] = v]
<1>1. IsFiniteSet(Units(h)) /\ IsFiniteSet(rest)
  <2>1. IsFiniteSet(1..MaxBody)
    BY FS_Interval
  <2>2. IsFiniteSet(Requests \X (1..MaxBody))
    BY <2>1, FS_Product
  <2>3. Units(h) \in SUBSET (Requests \X (1..MaxBody)) /\ rest \in SUBSET Units(h)
    BY DEF Units
  <2> HIDE DEF rest
  <2>4. IsFiniteSet(Units(h))
    BY <2>2, <2>3, FS_Subset
  <2> QED
    BY <2>3, <2>4, FS_Subset
<1>2. /\ IsFiniteSet(column(h[r])) /\ Cardinality(column(h[r])) = h[r]
      /\ IsFiniteSet(column(v)) /\ Cardinality(column(v)) = v
  <2>1. h[r] \in Nat /\ v \in Nat
    OBVIOUS
  <2> QED
    BY <2>1, ColumnCount
<1>3. Units(h) = rest \union column(h[r])
  BY DEF Units
<1>4. Units(hv) = rest \union column(v)
  BY DEF Units
<1>5. rest \intersect column(h[r]) = {} /\ rest \intersect column(v) = {}
  OBVIOUS
<1> HIDE DEF rest, column, hv
<1>6. Cardinality(rest) \in Nat
  BY <1>1, FS_CardinalityType
<1>7. Cardinality(Units(h)) = Cardinality(rest) + h[r]
  <2>1. Cardinality(rest \union column(h[r])) = Cardinality(rest)
            + Cardinality(column(h[r])) - Cardinality(rest \intersect column(h[r]))
    BY <1>1, <1>2, FS_Union
  <2>2. Cardinality(rest \intersect column(h[r])) = 0
    BY <1>5, FS_EmptySet
  <2>3. h[r] \in Nat
    OBVIOUS
  <2> QED
    BY <2>1, <2>2, <2>3, <1>2, <1>3, <1>6
<1>8. Cardinality(Units(hv)) = Cardinality(rest) + v
  <2>1. Cardinality(rest \union column(v)) = Cardinality(rest)
            + Cardinality(column(v)) - Cardinality(rest \intersect column(v))
    BY <1>1, <1>2, FS_Union
  <2>2. Cardinality(rest \intersect column(v)) = 0
    BY <1>5, FS_EmptySet
  <2>3. v \in Nat
    OBVIOUS
  <2> QED
    BY <2>1, <2>2, <2>3, <1>2, <1>4, <1>6
<1> QED
  BY <1>6, <1>7, <1>8 DEF hv

(* One request's hold changes, and the counter by the same amount.            *)
LEMMA BytesStep ==
    ASSUME TypeOK, BytesAccounted, NEW r \in Requests, NEW v \in 0..MaxBody,
           held' = [held EXCEPT ![r] = v],
           buffered' = buffered + v - held[r],
           buffered' <= MaxBytes
    PROVE  BytesAccounted'
BY UnitsChange DEF TypeOK, BytesAccounted

(* _give_back keeps the byte budget exact.                                    *)
LEMMA GiveBackStep ==
    ASSUME TypeOK, BytesAccounted, NEW r \in Requests, GiveBack(r)
    PROVE  BytesAccounted'
<1> DEFINE v == 0
<1>1. held' = [held EXCEPT ![r] = v] /\ buffered' = buffered + v - held[r]
  BY DEF TypeOK, GiveBack
<1>2. buffered' <= MaxBytes /\ v \in 0..MaxBody
  BY <1>1 DEF TypeOK, BytesAccounted
<1> HIDE DEF v
<1> QED
  BY <1>1, <1>2, BytesStep

(* _hold, when it succeeds, keeps the byte budget exact and within its bound. *)
LEMMA HoldStep ==
    ASSUME TypeOK, BytesAccounted, NEW r \in Requests, NEW size \in 0..MaxBody,
           CanHold(r, size), Hold(r, size)
    PROVE  BytesAccounted'
<1> DEFINE v == Larger(held[r], size)
<1>1. v \in 0..MaxBody
  BY DEF TypeOK, Larger
<1>2. held' = [held EXCEPT ![r] = v] /\ buffered' = buffered + v - held[r]
  BY DEF TypeOK, Hold, Larger
<1>3. buffered' <= MaxBytes
  BY <1>2 DEF TypeOK, BytesAccounted, CanHold, Larger
<1> HIDE DEF v
<1> QED
  BY <1>1, <1>2, <1>3, BytesStep

(* The requests in a phase, or holding a slot, are finitely many.             *)
LEMMA CountsFinite ==
    /\ IsFiniteSet(Holders) /\ Cardinality(Holders) \in Nat
    /\ IsFiniteSet(Readers) /\ Cardinality(Readers) \in Nat
<1>1. Holders \in SUBSET Requests /\ Readers \in SUBSET Requests
  BY DEF Holders, Readers
<1> QED
  BY <1>1, FS_Subset, FS_CardinalityType
-----------------------------------------------------------------------------
(* The inductive invariant.                                                *)

ServePhases == {"serving", "settling", "unwinding", "sweeping", "leaving"}

\* Who may own what: a slot is owned from _serve on, bytes while the body is
\* read and then with the slot.
Ownership ==
    \A r \in Requests :
        /\ slot[r] => pc[r] \in ServePhases \union {"notifying"}
        /\ pc[r] \in ServePhases => slot[r]
        /\ held[r] # 0 => pc[r] = "draining" \/ slot[r]

Counters == SlotsAccounted /\ SeatsAccounted /\ BytesAccounted

IndInv == TypeOK /\ Counters /\ Ownership

(* A request sits down to read its body.                                      *)
LEMMA SeatTaken ==
    ASSUME TypeOK, SeatsAccounted, NEW r \in Requests, pc[r] # "draining", ~NoSeat,
           Goto(r, "draining"), draining' = draining + 1
    PROVE  SeatsAccounted'
<1>1. Readers' = Readers \union {r} /\ r \notin Readers
  BY DEF TypeOK, Readers, Goto
<1>2. Cardinality(Readers') = Cardinality(Readers) + 1
  BY <1>1, CountsFinite, FS_AddElement
<1> QED
  BY <1>2, CountsFinite DEF SeatsAccounted, NoSeat

(* A request leaves the body read, whichever way.                             *)
LEMMA SeatLeft ==
    ASSUME TypeOK, SeatsAccounted, NEW r \in Requests, pc[r] = "draining",
           NEW phase, phase # "draining", Goto(r, phase), draining' = draining - 1
    PROVE  SeatsAccounted'
<1>1. Readers' = Readers \ {r} /\ r \in Readers
  BY DEF TypeOK, Readers, Goto
<1>2. Cardinality(Readers') = Cardinality(Readers) - 1
  BY <1>1, CountsFinite, FS_RemoveElement
<1> QED
  BY <1>2, CountsFinite DEF SeatsAccounted

(* A request that reads no body moves on.                                     *)
LEMMA SeatKept ==
    ASSUME TypeOK, SeatsAccounted, NEW r \in Requests, pc[r] # "draining",
           NEW phase, phase # "draining", Goto(r, phase), draining' = draining
    PROVE  SeatsAccounted'
<1>1. Readers' = Readers
  BY DEF TypeOK, Readers, Goto
<1> QED
  BY <1>1 DEF SeatsAccounted

(* try_acquire succeeds.                                                      *)
LEMMA SlotTaken ==
    ASSUME TypeOK, SlotsAccounted, NEW r \in Requests, ~slot[r], ~Full,
           slot' = [slot EXCEPT ![r] = TRUE], inflight' = inflight + 1
    PROVE  SlotsAccounted'
<1>1. Holders' = Holders \union {r} /\ r \notin Holders
  BY DEF TypeOK, Holders
<1>2. Cardinality(Holders') = Cardinality(Holders) + 1
  BY <1>1, CountsFinite, FS_AddElement
<1> QED
  BY <1>2, CountsFinite DEF SlotsAccounted, Full

(* The finally that calls _release, or a request that has no slot to release. *)
LEMMA SlotLeft ==
    ASSUME TypeOK, SlotsAccounted, NEW r \in Requests,
           slot' = [slot EXCEPT ![r] = FALSE],
           inflight' = IF slot[r] THEN inflight - 1 ELSE inflight
    PROVE  SlotsAccounted'
<1>1. Holders' = Holders \ {r}
  BY DEF TypeOK, Holders
<1>2. Cardinality(Holders') =
          IF slot[r] THEN Cardinality(Holders) - 1 ELSE Cardinality(Holders)
  BY <1>1, CountsFinite, FS_RemoveElement DEF Holders
<1> QED
  BY <1>2, CountsFinite DEF SlotsAccounted

(* Counters that an action leaves alone stay exact.                           *)
LEMMA CountersKept ==
    /\ SlotsAccounted /\ UNCHANGED <<slot, inflight>> => SlotsAccounted'
    /\ SeatsAccounted /\ UNCHANGED <<pc, draining>> => SeatsAccounted'
    /\ BytesAccounted /\ UNCHANGED <<held, buffered>> => BytesAccounted'
BY DEF SlotsAccounted, SeatsAccounted, BytesAccounted, Holders, Readers, Units
(* The way out of run(), from any await, gives back exactly what is owned.    *)
LEMMA LeaveStep ==
    ASSUME IndInv, NEW r \in Requests, Leave(r)
    PROVE  Counters' /\ Ownership'
<1>1. SlotsAccounted'
  BY SlotLeft DEF IndInv, Counters, Leave
<1>2. SeatsAccounted'
  <2>1. CASE pc[r] = "draining"
    BY <2>1, SeatLeft DEF IndInv, Counters, Leave
  <2>2. CASE pc[r] # "draining"
    BY <2>2, SeatKept DEF IndInv, Counters, Leave
  <2> QED
    BY <2>1, <2>2
<1>3. BytesAccounted'
  BY GiveBackStep DEF IndInv, Counters, Leave
<1>4. Ownership'
  BY DEF IndInv, TypeOK, Ownership, ServePhases, Leave, Goto, GiveBack
<1> QED
  BY <1>1, <1>2, <1>3, <1>4 DEF Counters

(* A body read that ends in a refusal keeps the counters exact.               *)
LEMMA RefuseBodyStep ==
    ASSUME IndInv, NEW r \in Requests, pc[r] = "draining", RefuseBody(r)
    PROVE  Counters' /\ Ownership'
<1>1. SlotsAccounted'
  BY CountersKept DEF IndInv, Counters, RefuseBody
<1>2. SeatsAccounted'
  BY SeatLeft DEF IndInv, Counters, RefuseBody
<1>3. BytesAccounted'
  BY GiveBackStep DEF IndInv, Counters, RefuseBody
<1>4. Ownership'
  BY DEF IndInv, TypeOK, Ownership, ServePhases, RefuseBody, Goto, GiveBack
<1> QED
  BY <1>1, <1>2, <1>3, <1>4 DEF Counters

(* A step of the serving request that moves its coroutine and nothing else    *)
(* the counters see.                                                          *)
LEMMA MoveStep ==
    ASSUME IndInv, NEW r \in Requests, pc[r] \in ServePhases,
           NEW phase \in ServePhases \union {"notifying"}, Goto(r, phase),
           UNCHANGED admission
    PROVE  Counters' /\ Ownership'
<1>1. SlotsAccounted' /\ BytesAccounted'
  BY CountersKept DEF IndInv, Counters, admission
<1>2. SeatsAccounted'
  BY SeatKept DEF IndInv, Counters, admission, ServePhases
<1>3. Ownership'
  BY DEF IndInv, TypeOK, Ownership, ServePhases, Goto, admission
<1> QED
  BY <1>1, <1>2, <1>3 DEF Counters

(* The whole invariant is inductive.                                          *)
LEMMA IndStep == IndInv /\ [Next]_vars => IndInv'
<1> SUFFICES ASSUME IndInv, [Next]_vars PROVE Counters' /\ Ownership'
  BY TypeStep DEF IndInv
<1> USE DEF IndInv
<1>1. ASSUME UNCHANGED <<pc, admission>> PROVE Counters' /\ Ownership'
  BY <1>1, CountersKept DEF Counters, Ownership, admission
<1>2. CASE UNCHANGED vars
  BY <1>1, <1>2 DEF vars
<1>3. ASSUME NEW r \in Requests, BodyStep(r) PROVE Counters' /\ Ownership'
  <2>1. ASSUME NEW declared \in {NoLength} \union 0..MaxChunk, Arrive(r, declared)
        PROVE  Counters' /\ Ownership'
    <3> DEFINE want == IF declared = NoLength THEN 0 ELSE Smaller(declared, MaxBody)
    <3>1. want \in 0..MaxBody /\ pc[r] = "idle"
      BY <2>1 DEF NoLength, Smaller, Arrive
    <3>2. SlotsAccounted'
      BY <2>1, CountersKept DEF Counters, Arrive
    <3>3. CASE /\ Goto(r, "refusing")
               /\ UNCHANGED <<draining, held, buffered, ticket>>
      <4>1. SeatsAccounted'
        BY <3>1, <3>3, SeatKept DEF Counters
      <4>2. BytesAccounted'
        BY <3>3, CountersKept DEF Counters
      <4>3. Ownership'
        BY <2>1, <3>1, <3>3 DEF TypeOK, Ownership, ServePhases, Goto, Arrive
      <4> QED
        BY <3>2, <4>1, <4>2, <4>3 DEF Counters
    <3>4. CASE /\ ~NoSeat /\ CanHold(r, want) /\ Goto(r, "draining")
               /\ draining' = draining + 1 /\ Hold(r, want)
      <4>1. SeatsAccounted'
        BY <3>1, <3>4, SeatTaken DEF Counters
      <4> HIDE DEF want
      <4>2. BytesAccounted'
        BY <3>1, <3>4, HoldStep DEF Counters
      <4>3. Ownership'
        BY <2>1, <3>1, <3>4 DEF TypeOK, Ownership, ServePhases, Goto, Hold, Arrive
      <4> QED
        BY <3>2, <4>1, <4>2, <4>3 DEF Counters
    <3> QED
      BY <2>1, <3>3, <3>4 DEF Arrive
  <2>2. ASSUME NEW n \in 0..MaxChunk, ChunkRefused(r, n) PROVE Counters' /\ Ownership'
    BY <2>2, RefuseBodyStep DEF ChunkRefused
  <2>3. ASSUME NEW n \in 0..MaxChunk, ChunkRead(r, n) PROVE Counters' /\ Ownership'
    <3> DEFINE size == read[r] + n
    <3>1. size \in 0..MaxBody /\ CanHold(r, size) /\ Hold(r, size)
      BY <2>3 DEF ChunkRead, TypeOK
    <3>2. BytesAccounted'
      BY <3>1, HoldStep DEF Counters
    <3>3. SlotsAccounted' /\ SeatsAccounted'
      BY <2>3, CountersKept DEF Counters, ChunkRead
    <3>4. Ownership'
      BY <2>3 DEF TypeOK, Ownership, ChunkRead, Hold
    <3> QED
      BY <3>2, <3>3, <3>4 DEF Counters
  <2>4. ASSUME NEW n \in 0..MaxChunk, BodyRefused(r, n) PROVE Counters' /\ Ownership'
    BY <2>4, RefuseBodyStep DEF BodyRefused
  <2>5. ASSUME NEW n \in 0..MaxChunk, Serve(r, n) PROVE Counters' /\ Ownership'
    <3> DEFINE size == read[r] + n
    <3>1. size \in 0..MaxBody /\ CanHold(r, size) /\ Hold(r, size)
      BY <2>5 DEF Serve, TypeOK
    <3>2. BytesAccounted'
      BY <3>1, HoldStep DEF Counters
    <3>3. SeatsAccounted'
      BY <2>5, SeatLeft DEF Counters, Serve
    <3>4. ~slot[r]
      BY <2>5 DEF Ownership, Serve, ServePhases
    <3>5. SlotsAccounted'
      BY <2>5, <3>4, SlotTaken DEF Counters, Serve
    <3>6. Ownership'
      BY <2>5 DEF TypeOK, Ownership, ServePhases, Serve, Goto, Hold
    <3> QED
      BY <3>2, <3>3, <3>5, <3>6 DEF Counters
  <2>6. CASE BodyTimeout(r)
    BY <2>6, RefuseBodyStep DEF BodyTimeout
  <2>7. CASE BodyDisconnect(r)
    <3>1. SlotsAccounted'
      BY <2>7, CountersKept DEF Counters, BodyDisconnect
    <3>2. SeatsAccounted'
      BY <2>7, SeatLeft DEF Counters, BodyDisconnect
    <3>3. BytesAccounted'
      BY <2>7, GiveBackStep DEF Counters, BodyDisconnect
    <3>4. Ownership'
      BY <2>7 DEF TypeOK, Ownership, ServePhases, BodyDisconnect, Goto, GiveBack
    <3> QED
      BY <3>1, <3>2, <3>3, <3>4 DEF Counters
  <2>8. CASE Refused(r)
    BY <2>8, LeaveStep DEF Refused
  <2> QED
    BY <1>3, <2>1, <2>2, <2>3, <2>4, <2>5, <2>6, <2>7, <2>8 DEF BodyStep
<1>4. ASSUME NEW r \in Requests, TaskStep(r) PROVE Counters' /\ Ownership'
  <2>1. UNCHANGED <<pc, admission>>
    BY <1>4 DEF TaskStep, SendFinalBody, DownstreamEnds, SpawnChild, ChildrenEnd,
                ClientGone, WatcherStops
  <2> QED
    BY <1>1, <2>1
<1>5. ASSUME NEW r \in Requests, ServeStep(r) PROVE Counters' /\ Ownership'
  <2>1. CASE Wake(r) \/ GraceEnds(r) \/ SweepEnds(r) \/ ServerCancel(r)
    <3>1. PICK phase \in ServePhases \union {"notifying"} : Goto(r, phase)
      BY <2>1 DEF Wake, GraceEnds, SweepEnds, ServerCancel, ServePhases
    <3>2. pc[r] \in ServePhases /\ UNCHANGED admission
      BY <2>1 DEF Wake, GraceEnds, SweepEnds, ServerCancel, ServePhases
    <3> QED
      BY <3>1, <3>2, MoveStep
  <2>2. CASE HookStarts(r)
    BY <1>1, <2>2 DEF HookStarts
  <2>3. CASE Settled(r) \/ HookEnds(r) \/ ServerCancelEnds(r) \/ Abort(r)
    BY <2>3, LeaveStep DEF Settled, HookEnds, ServerCancelEnds, Abort
  <2> QED
    BY <1>5, <2>1, <2>2, <2>3 DEF ServeStep
<1> QED
  BY <1>2, <1>3, <1>4, <1>5 DEF Next

(* Initially nothing is owned and nothing is counted.                         *)
LEMMA IndInit == Init => IndInv
<1> SUFFICES ASSUME Init PROVE IndInv
  OBVIOUS
<1>1. TypeOK
  BY DEF Init, TypeOK, Phases
<1>2. Holders = {} /\ Readers = {} /\ Units(held) = {}
  BY DEF Init, Holders, Readers, Units
<1>3. Counters
  BY <1>2, FS_EmptySet DEF Init, Counters, SlotsAccounted, SeatsAccounted, BytesAccounted
<1>4. Ownership
  BY DEF Init, Ownership, ServePhases
<1> QED
  BY <1>1, <1>3, <1>4 DEF IndInv

(* For every set of requests and every limit: slots, seats and bytes are      *)
(* counted exactly and the three caps hold, and a request that is being       *)
(* refused or is gone keeps nothing.                                          *)
THEOREM LimiterInvariant == SafeSpec => []IndInv
BY IndInit, IndStep, PTL DEF SafeSpec

(* _inflight is exact and never above max_inflight.                           *)
THEOREM SlotsTheorem == SafeSpec => []SlotsAccounted
<1>1. IndInv => SlotsAccounted
  BY DEF IndInv, Counters
<1> QED
  BY <1>1, LimiterInvariant, PTL

(* _draining is exact and never above max_draining.                           *)
THEOREM SeatsTheorem == SafeSpec => []SeatsAccounted
<1>1. IndInv => SeatsAccounted
  BY DEF IndInv, Counters
<1> QED
  BY <1>1, LimiterInvariant, PTL

(* _buffered is the sum of what the requests hold and never above the budget. *)
THEOREM BytesTheorem == SafeSpec => []BytesAccounted
<1>1. IndInv => BytesAccounted
  BY DEF IndInv, Counters
<1> QED
  BY <1>1, LimiterInvariant, PTL
-----------------------------------------------------------------------------
(* Tickets, tasks and who cancelled.                                       *)

\* The watcher reports a client only while _serve first waits, a ticket is
\* open exactly while the request is inside _admit_ticket, and every path
\* that gives up a running downstream has named who cancelled.
Lifecycle ==
    \A r \in Requests :
        /\ watcher[r] = "running" => pc[r] = "serving"
        /\ gone[r] => watcher[r] # "running"
        /\ pc[r] \in {"idle", "refusing", "draining"} =>
               down[r] = "none" /\ ~complete[r] /\ ~gone[r]
        /\ pc[r] \in ServePhases \union {"draining", "notifying"} => ticket[r] = "open"
        /\ pc[r] = "done" => ticket[r] # "open"
        /\ pc[r] \in {"unwinding", "sweeping", "notifying", "leaving"} => origin[r] # "none"
        /\ pc[r] \in {"notifying", "done"} /\ down[r] = "running" => origin[r] # "none"

(* Lifecycle is inductive, given the types.                                   *)
LEMMA LifecycleStep == TypeOK /\ Lifecycle /\ [Next]_vars => Lifecycle'
<1> SUFFICES ASSUME TypeOK, Lifecycle, [Next]_vars PROVE Lifecycle'
  OBVIOUS
<1> USE DEF TypeOK, Phases, ServePhases, Lifecycle, Goto, Marked,
            admission, cancelling, serving
<1>1. CASE UNCHANGED vars
  BY <1>1 DEF vars
<1>2. ASSUME NEW r \in Requests, RefuseBody(r), pc[r] = "draining" PROVE Lifecycle'
  BY <1>2 DEF RefuseBody
<1>3. ASSUME NEW r \in Requests, Leave(r), UNCHANGED <<origin, told, serving>>,
             pc[r] \notin {"idle", "serving", "settling"} \/ down[r] = "done",
             watcher[r] # "running"
      PROVE  Lifecycle'
  BY <1>3 DEF Leave
<1>4. ASSUME NEW r \in Requests, BodyStep(r) PROVE Lifecycle'
  <2>1. ASSUME NEW declared \in {NoLength} \union 0..MaxChunk, Arrive(r, declared)
        PROVE  Lifecycle'
    BY <2>1 DEF Arrive
  <2>2. ASSUME NEW n \in 0..MaxChunk, ChunkRead(r, n) PROVE Lifecycle'
    BY <2>2 DEF ChunkRead
  <2>3. ASSUME NEW n \in 0..MaxChunk, ChunkRefused(r, n) \/ BodyRefused(r, n)
        PROVE  Lifecycle'
    BY <1>2, <2>3 DEF ChunkRefused, BodyRefused
  <2>4. ASSUME NEW n \in 0..MaxChunk, Serve(r, n) PROVE Lifecycle'
    BY <2>4 DEF Serve
  <2>5. CASE BodyTimeout(r)
    BY <1>2, <2>5 DEF BodyTimeout
  <2>6. CASE BodyDisconnect(r)
    BY <2>6 DEF BodyDisconnect
  <2>7. CASE Refused(r)
    BY <1>3, <2>7 DEF Refused
  <2> QED
    BY <1>4, <2>1, <2>2, <2>3, <2>4, <2>5, <2>6, <2>7 DEF BodyStep
<1>5. ASSUME NEW r \in Requests, TaskStep(r) PROVE Lifecycle'
  <2>1. CASE SendFinalBody(r)
    BY <2>1 DEF SendFinalBody
  <2>2. CASE DownstreamEnds(r)
    BY <2>2 DEF DownstreamEnds
  <2>3. CASE SpawnChild(r) \/ ChildrenEnd(r)
    BY <2>3 DEF SpawnChild, ChildrenEnd
  <2>4. CASE ClientGone(r)
    BY <2>4 DEF ClientGone
  <2>5. CASE WatcherStops(r)
    BY <2>5 DEF WatcherStops
  <2> QED
    BY <1>5, <2>1, <2>2, <2>3, <2>4, <2>5 DEF TaskStep
<1>6. ASSUME NEW r \in Requests, ServeStep(r) PROVE Lifecycle'
  <2>1. CASE Wake(r)
    BY <2>1 DEF Wake
  <2>2. CASE GraceEnds(r)
    BY <2>2 DEF GraceEnds
  <2>3. CASE SweepEnds(r)
    BY <2>3 DEF SweepEnds
  <2>4. CASE HookStarts(r)
    BY <2>4 DEF HookStarts
  <2>5. CASE ServerCancel(r)
    BY <2>5 DEF ServerCancel
  <2>6. CASE Settled(r) \/ HookEnds(r) \/ ServerCancelEnds(r) \/ Abort(r)
    <3>1. Leave(r) /\ UNCHANGED <<origin, told, serving>>
      BY <2>6 DEF Settled, HookEnds, ServerCancelEnds, Abort
    <3>2. /\ pc[r] \notin {"idle", "serving", "settling"} \/ down[r] = "done"
          /\ watcher[r] # "running"
      BY <2>6 DEF Settled, HookEnds, ServerCancelEnds, Abort
    <3> QED
      BY <1>3, <3>1, <3>2
  <2> QED
    BY <1>6, <2>1, <2>2, <2>3, <2>4, <2>5, <2>6 DEF ServeStep
<1> QED
  BY <1>1, <1>4, <1>5, <1>6 DEF Next
(* Lifecycle holds initially.                                                 *)
LEMMA LifecycleInit == Init => Lifecycle
BY DEF Init, Lifecycle, ServePhases

(* Types, counters, ownership and life cycle hold together.                   *)
LEMMA FullInvariant == SafeSpec => [](IndInv /\ Lifecycle)
<1>1. Init => IndInv /\ Lifecycle
  BY IndInit, LifecycleInit
<1>2. IndInv /\ Lifecycle /\ [Next]_vars => (IndInv /\ Lifecycle)'
  BY IndStep, LifecycleStep DEF IndInv
<1> QED
  BY <1>1, <1>2, PTL DEF SafeSpec

(* A request being refused or gone keeps no byte, no slot, no open ticket.    *)
THEOREM NothingLeftTheorem == SafeSpec => []NothingLeftBehind
<1>1. IndInv /\ Lifecycle => NothingLeftBehind
  BY DEF IndInv, TypeOK, Ownership, Lifecycle, NothingLeftBehind, ServePhases
<1> QED
  BY <1>1, FullInvariant, PTL

(* A running downstream is let go of only after somebody cancelled.           *)
THEOREM LetsGoTheorem == SafeSpec => []LetsGoOnlyIfCancelled
<1>1. Lifecycle => LetsGoOnlyIfCancelled
  BY DEF Lifecycle, LetsGoOnlyIfCancelled
<1> QED
  BY <1>1, FullInvariant, PTL

(* Who cancelled is settled once, never by a client that leaves after the     *)
(* final body, and never after the close.                                     *)
THEOREM OriginTheorem == SafeSpec => OriginRules
<1> DEFINE Rule == \A r \in Requests :
               origin'[r] # origin[r] =>
                   /\ origin[r] = "none"
                   /\ complete[r] => origin'[r] = "server"
                   /\ ticket[r] = "open"
<1>1. IndInv /\ Lifecycle /\ [Next]_vars => [Rule]_vars
  <2> SUFFICES ASSUME IndInv, Lifecycle, Next PROVE Rule
    BY DEF IndInv
  <2> USE DEF IndInv, TypeOK, Lifecycle, ServePhases, Marked, cancelling
  <2>1. ASSUME UNCHANGED origin PROVE Rule
    BY <2>1
  <2>2. PICK r \in Requests : BodyStep(r) \/ TaskStep(r) \/ ServeStep(r)
    BY DEF Next
  <2>3. CASE BodyDisconnect(r)
    BY <2>3 DEF BodyDisconnect
  <2>4. CASE ClientGone(r)
    BY <2>4 DEF ClientGone
  <2>5. CASE Wake(r)
    BY <2>5 DEF Wake
  <2>6. CASE ServerCancel(r)
    BY <2>6 DEF ServerCancel
  <2>7. CASE ~(BodyDisconnect(r) \/ ClientGone(r) \/ Wake(r) \/ ServerCancel(r))
    <3>1. UNCHANGED origin
      BY <2>2, <2>7 DEF BodyStep, TaskStep, ServeStep, Arrive, ChunkRefused, ChunkRead,
              BodyRefused, RefuseBody, Serve, BodyTimeout, Refused, SendFinalBody,
              DownstreamEnds, SpawnChild, ChildrenEnd, WatcherStops, Settled,
              GraceEnds, SweepEnds, HookStarts, HookEnds, ServerCancelEnds, Abort
    <3> QED
      BY <2>1, <3>1
  <2> QED
    BY <2>3, <2>4, <2>5, <2>6, <2>7
<1>2. SafeSpec => [][Rule]_vars
  BY <1>1, FullInvariant, PTL DEF SafeSpec
<1> QED
  BY <1>2 DEF OriginRules
-----------------------------------------------------------------------------
(* The limiter implements the admission control.                           *)

(* The stages of Admission are the limiter's readers and slot holders.        *)
LEMMA StagesCounted ==
    ASSUME IndInv
    PROVE  /\ {r \in Requests : Stage(r) = "reading"} = Readers
           /\ {r \in Requests : Stage(r) = "admitted"} = Holders
BY DEF IndInv, Ownership, ServePhases, Stage, Readers, Holders

(* A step moves at most one request, from stage to stage as Admission allows. *)
LEMMA AdmissionStep ==
    IndInv /\ IndInv' /\ [Next]_vars => [Promise!Next]_([r \in Requests |-> Stage(r)])
<1> DEFINE stage == [r \in Requests |-> Stage(r)]
<1> SUFFICES ASSUME IndInv, IndInv', [Next]_vars
             PROVE  Promise!Next \/ stage' = stage
  OBVIOUS
<1> USE DEF IndInv, TypeOK
<1>1. ASSUME UNCHANGED <<pc, slot>> PROVE stage' = stage
  BY <1>1 DEF Stage
<1>2. ASSUME NEW r \in Requests,
             \A s \in Requests \ {r} : pc'[s] = pc[s] /\ slot'[s] = slot[s]
      PROVE  stage' = [stage EXCEPT ![r] = Stage(r)']
  <2>1. \A s \in Requests : s # r => Stage(s)' = Stage(s)
    BY <1>2 DEF Stage
  <2> QED
    BY <2>1, Zenon
<1>3. ASSUME NEW r \in Requests,
             \A s \in Requests \ {r} : pc'[s] = pc[s] /\ slot'[s] = slot[s],
             Stage(r)' = Stage(r)
      PROVE  stage' = stage
  <2>1. \A s \in Requests : Stage(s)' = Stage(s)
    BY <1>3 DEF Stage
  <2> QED
    BY <2>1, Zenon
<1>4. ASSUME NEW r \in Requests,
             \A s \in Requests \ {r} : pc'[s] = pc[s] /\ slot'[s] = slot[s],
             Stage(r) # "out", Stage(r)' = "out"
      PROVE  Promise!Next
  <2>1. Stage(r) \in {"new", "reading", "admitted"}
    BY <1>4 DEF Stage
  <2>2. Promise!Depart(r)
    BY <1>2, <1>4, <2>1 DEF Promise!Depart, Promise!Move
  <2> QED
    BY <2>2 DEF Promise!Next
<1>5. CASE UNCHANGED vars
  BY <1>1, <1>5 DEF vars, admission
<1>6. ASSUME NEW r \in Requests, Leave(r), pc[r] # "idle"
      PROVE  Promise!Next \/ stage' = stage
  <2>1. \A s \in Requests \ {r} : pc'[s] = pc[s] /\ slot'[s] = slot[s]
    BY <1>6 DEF Leave, Goto
  <2>2. Stage(r)' = "out"
    BY <1>6 DEF Leave, Goto, Stage
  <2> QED
    BY <1>3, <1>4, <2>1, <2>2
<1>7. ASSUME NEW r \in Requests, RefuseBody(r), pc[r] = "draining"
      PROVE  Promise!Next
  <2>1. \A s \in Requests \ {r} : pc'[s] = pc[s] /\ slot'[s] = slot[s]
    BY <1>7 DEF RefuseBody, Goto
  <2>2. Stage(r)' = "out" /\ Stage(r) = "reading"
    BY <1>7 DEF RefuseBody, Goto, Stage, Ownership, ServePhases
  <2> QED
    BY <1>4, <2>1, <2>2
<1>8. ASSUME NEW r \in Requests, BodyStep(r) PROVE Promise!Next \/ stage' = stage
  <2>1. ASSUME NEW declared \in {NoLength} \union 0..MaxChunk, Arrive(r, declared)
        PROVE  Promise!Next
    <3>1. \A s \in Requests \ {r} : pc'[s] = pc[s] /\ slot'[s] = slot[s]
      BY <2>1 DEF Arrive, Goto
    <3>2. Stage(r) = "new"
      BY <2>1 DEF Arrive, Stage
    <3>3. CASE Goto(r, "refusing")
      <4>1. Stage(r)' = "out"
        BY <2>1, <3>3 DEF Arrive, Goto, Stage, Ownership, ServePhases
      <4> QED
        BY <1>4, <3>1, <3>2, <4>1
    <3>4. CASE ~NoSeat /\ Goto(r, "draining")
      <4>1. Stage(r)' = "reading"
        BY <3>4 DEF Goto, Stage
      <4>2. MaxDraining # 0 => Cardinality(Readers) < MaxDraining
        BY <3>4, CountsFinite DEF NoSeat, Counters, SeatsAccounted
      <4>3. Promise!At("reading") = Readers
        BY StagesCounted DEF Promise!At
      <4>4. Promise!Move(r, "new", "reading")
        BY <1>2, <3>1, <3>2, <4>1, Zenon DEF Promise!Move
      <4>5. Promise!Enter(r)
        BY <4>2, <4>3, <4>4 DEF Promise!Enter, Promise!Cardinality, Cardinality
      <4> QED
        BY <4>5 DEF Promise!Next
    <3> QED
      BY <2>1, <3>3, <3>4 DEF Arrive
  <2>2. ASSUME NEW n \in 0..MaxChunk, ChunkRefused(r, n) \/ BodyRefused(r, n)
        PROVE  Promise!Next
    BY <1>7, <2>2 DEF ChunkRefused, BodyRefused
  <2>3. ASSUME NEW n \in 0..MaxChunk, ChunkRead(r, n) PROVE stage' = stage
    BY <1>1, <2>3 DEF ChunkRead
  <2>4. ASSUME NEW n \in 0..MaxChunk, Serve(r, n) PROVE Promise!Next
    <3>1. \A s \in Requests \ {r} : pc'[s] = pc[s] /\ slot'[s] = slot[s]
      BY <2>4 DEF Serve, Goto
    <3>2. Stage(r) = "reading" /\ Stage(r)' = "admitted"
      BY <2>4 DEF Serve, Goto, Stage
    <3>3. MaxInflight # 0 => Cardinality(Holders) < MaxInflight
      BY <2>4, CountsFinite DEF Serve, Full, Counters, SlotsAccounted
    <3>4. Promise!At("admitted") = Holders
      BY StagesCounted DEF Promise!At
    <3>5. Promise!Move(r, "reading", "admitted")
      BY <1>2, <3>1, <3>2, Zenon DEF Promise!Move
    <3>6. Promise!Admit(r)
      BY <3>3, <3>4, <3>5 DEF Promise!Admit, Promise!Cardinality, Cardinality
    <3> QED
      BY <3>6 DEF Promise!Next
  <2>5. CASE BodyTimeout(r)
    BY <1>7, <2>5 DEF BodyTimeout
  <2>6. CASE BodyDisconnect(r)
    <3>1. \A s \in Requests \ {r} : pc'[s] = pc[s] /\ slot'[s] = slot[s]
      BY <2>6 DEF BodyDisconnect, Goto
    <3>2. Stage(r)' = "out" /\ Stage(r) = "reading"
      BY <2>6 DEF BodyDisconnect, Goto, Stage, Ownership, ServePhases
    <3> QED
      BY <1>4, <3>1, <3>2
  <2>7. CASE Refused(r)
    BY <1>6, <2>7 DEF Refused
  <2> QED
    BY <1>8, <2>1, <2>2, <2>3, <2>4, <2>5, <2>6, <2>7 DEF BodyStep
<1>9. ASSUME NEW r \in Requests, TaskStep(r) PROVE stage' = stage
  <2>1. UNCHANGED <<pc, slot>>
    BY <1>9 DEF TaskStep, SendFinalBody, DownstreamEnds, SpawnChild, ChildrenEnd,
                ClientGone, WatcherStops, admission
  <2> QED
    BY <1>1, <2>1
<1>10. ASSUME NEW r \in Requests, ServeStep(r) PROVE Promise!Next \/ stage' = stage
  <2>1. CASE Wake(r) \/ GraceEnds(r) \/ SweepEnds(r) \/ ServerCancel(r)
    <3>1. \A s \in Requests \ {r} : pc'[s] = pc[s] /\ slot'[s] = slot[s]
      BY <2>1 DEF Wake, GraceEnds, SweepEnds, ServerCancel, Goto, admission
    <3>2. Stage(r) = "admitted" /\ Stage(r)' = "admitted"
      BY <2>1 DEF Wake, GraceEnds, SweepEnds, ServerCancel, Goto, admission, Stage,
                  Ownership, ServePhases
    <3> QED
      BY <1>3, <3>1, <3>2
  <2>2. CASE HookStarts(r)
    BY <1>1, <2>2 DEF HookStarts, admission
  <2>3. CASE Settled(r) \/ HookEnds(r) \/ ServerCancelEnds(r) \/ Abort(r)
    BY <1>6, <2>3 DEF Settled, HookEnds, ServerCancelEnds, Abort
  <2> QED
    BY <1>10, <2>1, <2>2, <2>3 DEF ServeStep
<1> QED
  BY <1>5, <1>8, <1>9, <1>10 DEF Next

(* The limiter implements Admission: at most max_draining bodies are read and *)
(* at most max_inflight requests served at once, and a request that left its  *)
(* slot never takes another.                                                  *)
THEOREM ImplementationTheorem == SafeSpec => ImplementsAdmission
<1>1. Init => Promise!Init
  BY DEF Init, Promise!Init, Stage
<1> QED
  BY <1>1, AdmissionStep, LimiterInvariant, PTL DEF SafeSpec, ImplementsAdmission, Promise!Spec

(* The limiter's budgets balance and no request leaves anything behind, for   *)
(* any number of requests and any caps (_admit_ticket, _serve).               *)
THEOREM AccountedTheorem == SafeSpec => []Accounted
BY SlotsTheorem, SeatsTheorem, BytesTheorem, NothingLeftTheorem, PTL DEF Accounted

=============================================================================
