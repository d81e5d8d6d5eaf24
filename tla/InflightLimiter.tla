-------------------------- MODULE InflightLimiter --------------------------
(***************************************************************************)
(* The in-flight limiter of the route gate (route_gate/inflight.py).       *)
(*                                                                         *)
(* A request on the rewritten route passes through InflightLimiter.run: it *)
(* is refused at the door or reads its body (a draining seat and a share   *)
(* of the byte budget), takes a slot, and is served by a downstream task   *)
(* while a watcher task waits for the client to leave.  Everything between *)
(* two awaits of the asyncio code is one atomic step here; a waiting       *)
(* coroutine is a value of pc, and what wakes it (a finished task, a       *)
(* timer, a cancel thrown in by the server) is the guard of its action.    *)
(*                                                                         *)
(* The downstream is litellm: it may send its final body, end, or do       *)
(* neither, and it may ignore a cancel for ever.  Bytes are counted in     *)
(* abstract units.                                                         *)
(***************************************************************************)
EXTENDS Integers, FiniteSets

CONSTANTS
    Requests,      \* the requests that reach the limiter
    MaxInflight,   \* max_inflight: slots, 0 = no cap
    MaxDraining,   \* max_draining: concurrent body reads, 0 = no cap
    MaxBody,       \* max_body_bytes
    MaxBytes,      \* max_draining_bytes: the byte budget of all bodies
    MaxChunk       \* bound: the largest chunk, and the largest declared length

\* InflightLimiter.__init__ refuses any other configuration.
ASSUME LimiterAssumption ==
    /\ IsFiniteSet(Requests)
    /\ MaxInflight \in Nat /\ MaxDraining \in Nat
    /\ MaxBody \in Nat /\ MaxBytes \in Nat /\ MaxChunk \in Nat
    /\ MaxDraining >= MaxInflight
    /\ MaxBytes >= MaxBody /\ MaxBytes >= 1

VARIABLES
    pc,        \* where the request's run() coroutine is suspended
    inflight,  \* _inflight
    draining,  \* _draining
    buffered,  \* _buffered
    held,      \* _Held.bytes of each request
    read,      \* the body bytes _drain has read (its local `total`)
    slot,      \* the request is inside the try whose finally calls _release
    ticket,    \* its RequestTicket: "none" (not made), "open" or "closed"
    origin,    \* ticket.cancel_origin ("client" is also ticket.cancelled)
    complete,  \* _serve's response_complete
    gone,      \* client_gone() has run: the replay answers http.disconnect
    watcher,   \* the _watch task
    down,      \* the downstream task
    children,  \* the other tasks tagged with the ticket, still pending?
    told       \* the cancel hook was started for the ticket's ids

admission  == <<inflight, draining, buffered, held, read, slot>>
cancelling == <<ticket, origin, told>>
serving    == <<complete, gone, watcher, down, children>>
vars       == <<pc, admission, cancelling, serving>>

Phases == {"idle",        \* not arrived
           "refusing",    \* await refuse(reason)
           "draining",    \* await receive() in _drain
           "serving",     \* first asyncio.wait of _serve
           "settling",    \* _settle(watcher), then asyncio.wait({downstream})
           "unwinding",   \* _cancelled: asyncio.wait({downstream}, grace)
           "sweeping",    \* _cancelled: asyncio.wait(stragglers, grace)
           "notifying",   \* _notify: asyncio.wait(calls, what is left)
           "leaving",     \* _server_cancelled: asyncio.wait(.., grace)
           "done"}        \* run() has returned or raised

NoLength == -1     \* _declared_length is None

Smaller(a, b) == IF a <= b THEN a ELSE b
Larger(a, b)  == IF a <= b THEN b ELSE a

TypeOK ==
    /\ pc \in [Requests -> Phases]
    /\ inflight \in Int /\ draining \in Int /\ buffered \in Int
    /\ held \in [Requests -> 0..MaxBody]
    /\ read \in [Requests -> 0..MaxBody]
    /\ slot \in [Requests -> BOOLEAN]
    /\ ticket \in [Requests -> {"none", "open", "closed"}]
    /\ origin \in [Requests -> {"none", "client", "server"}]
    /\ complete \in [Requests -> BOOLEAN]
    /\ gone \in [Requests -> BOOLEAN]
    /\ watcher \in [Requests -> {"none", "running", "done"}]
    /\ down \in [Requests -> {"none", "running", "done"}]
    /\ children \in [Requests -> BOOLEAN]
    /\ told \in [Requests -> BOOLEAN]

Init ==
    /\ pc = [r \in Requests |-> "idle"]
    /\ inflight = 0 /\ draining = 0 /\ buffered = 0
    /\ held = [r \in Requests |-> 0]
    /\ read = [r \in Requests |-> 0]
    /\ slot = [r \in Requests |-> FALSE]
    /\ ticket = [r \in Requests |-> "none"]
    /\ origin = [r \in Requests |-> "none"]
    /\ complete = [r \in Requests |-> FALSE]
    /\ gone = [r \in Requests |-> FALSE]
    /\ watcher = [r \in Requests |-> "none"]
    /\ down = [r \in Requests |-> "none"]
    /\ children = [r \in Requests |-> FALSE]
    /\ told = [r \in Requests |-> FALSE]

-----------------------------------------------------------------------------
(* Helpers of the limiter and of the ticket.                               *)

Goto(r, phase) == pc' = [pc EXCEPT ![r] = phase]

\* Mutant: the cap is off by one.
FullOffByOne == MaxInflight # 0 /\ inflight > MaxInflight

\* try_acquire would fail; also run()'s early refusal.
Full == MaxInflight # 0 /\ inflight >= MaxInflight

NoSeat == MaxDraining # 0 /\ draining >= MaxDraining

\* _hold(held, size): it succeeds, and what it leaves behind when it does.
CanHold(r, size) == size <= held[r] \/ buffered + (size - held[r]) <= MaxBytes

Hold(r, size) ==
    /\ held' = [held EXCEPT ![r] = Larger(@, size)]
    /\ buffered' = buffered + (Larger(held[r], size) - held[r])

\* Mutant: what a request holds is not reset, so a second give-back counts.
GiveBackKeepsHeld(r) ==
    /\ buffered' = buffered - held[r]
    /\ UNCHANGED held

GiveBack(r) ==
    /\ buffered' = buffered - held[r]
    /\ held' = [held EXCEPT ![r] = 0]

\* RequestTicket.mark_cancelled: the first origin stays.
Marked(r, who) ==
    [origin EXCEPT ![r] = IF @ = "none" THEN who ELSE @]

\* The finally blocks of _admit_ticket, _admit and run, in one step: close the
\* ticket, release the slot, give back the bytes.
Leave(r) ==
    /\ Goto(r, "done")
    /\ ticket' = [ticket EXCEPT ![r] = IF @ = "open" THEN "closed" ELSE @]
    /\ inflight' = IF slot[r] THEN inflight - 1 ELSE inflight
    /\ slot' = [slot EXCEPT ![r] = FALSE]
    /\ draining' = IF pc[r] = "draining" THEN draining - 1 ELSE draining
    /\ GiveBack(r)
    /\ UNCHANGED read

-----------------------------------------------------------------------------
(* Arrival and the body read.                                              *)

\* run() and _admit up to the first receive(): refused for want of a slot, of
\* a draining seat or of room for the declared length, or seated and draining.
Arrive(r, declared) ==
    LET want == IF declared = NoLength THEN 0 ELSE Smaller(declared, MaxBody)
    IN  /\ pc[r] = "idle"
        /\ \/ /\ Full \/ NoSeat \/ ~CanHold(r, want)
              /\ Goto(r, "refusing")
              /\ UNCHANGED <<draining, held, buffered, ticket>>
           \/ /\ ~(Full \/ NoSeat) /\ CanHold(r, want)
              /\ Goto(r, "draining")
              /\ draining' = draining + 1
              /\ Hold(r, want)
              /\ ticket' = [ticket EXCEPT ![r] = "open"]
        /\ UNCHANGED <<inflight, read, slot, origin, told, serving>>

\* The body read is over without a servable body: the seat and the bytes go
\* back before the answer.
RefuseBody(r) ==
    /\ Goto(r, "refusing")
    /\ draining' = draining - 1
    /\ GiveBack(r)
    /\ UNCHANGED <<inflight, read, slot, cancelling, serving>>

\* A chunk past the body cap, or past the byte budget.
ChunkRefused(r, n) ==
    /\ pc[r] = "draining"
    /\ read[r] + n > MaxBody \/ ~CanHold(r, read[r] + n)
    /\ RefuseBody(r)

\* A chunk that fits, with more_body.
ChunkRead(r, n) ==
    /\ pc[r] = "draining"
    /\ read[r] + n <= MaxBody /\ CanHold(r, read[r] + n)
    /\ Hold(r, read[r] + n)
    /\ read' = [read EXCEPT ![r] = @ + n]
    /\ UNCHANGED <<pc, inflight, draining, slot, cancelling, serving>>

\* The last chunk fits, but the body check refuses it or no slot is left.
BodyRefused(r, n) ==
    /\ pc[r] = "draining"
    /\ read[r] + n <= MaxBody /\ CanHold(r, read[r] + n)
    /\ RefuseBody(r)

\* The last chunk fits, the check passes and a slot is free: _serve starts the
\* downstream and the watcher.
Serve(r, n) ==
    /\ pc[r] = "draining"
    /\ read[r] + n <= MaxBody /\ CanHold(r, read[r] + n)
    /\ ~Full
    /\ Goto(r, "serving")
    /\ draining' = draining - 1
    /\ inflight' = inflight + 1
    /\ slot' = [slot EXCEPT ![r] = TRUE]
    /\ Hold(r, read[r] + n)
    /\ read' = [read EXCEPT ![r] = @ + n]
    /\ down' = [down EXCEPT ![r] = "running"]
    /\ watcher' = [watcher EXCEPT ![r] = "running"]
    /\ UNCHANGED <<cancelling, complete, gone, children>>

\* Mutant: the deadline covers the first chunk only.
BodyTimeoutFirstChunk(r) == pc[r] = "draining" /\ read[r] = 0 /\ RefuseBody(r)

\* asyncio.timeout(body_read_s) fires.
BodyTimeout(r) == pc[r] = "draining" /\ RefuseBody(r)

\* http.disconnect (or a message ASGI does not allow) while the body is read:
\* _cancelled(downstream=None) marks the ticket and goes straight to _notify.
BodyDisconnect(r) ==
    /\ pc[r] = "draining"
    /\ Goto(r, "notifying")
    /\ draining' = draining - 1
    /\ GiveBack(r)
    /\ origin' = Marked(r, "client")
    /\ UNCHANGED <<inflight, read, slot, ticket, told, serving>>

\* refuse() has answered.
Refused(r) ==
    /\ pc[r] = "refusing"
    /\ Leave(r)
    /\ UNCHANGED <<origin, told, serving>>

-----------------------------------------------------------------------------
(* The downstream, its tasks, and the watcher.                             *)

\* tracked_send sees the final body: the flag is set before the send.
SendFinalBody(r) ==
    /\ down[r] = "running" /\ ~complete[r]
    /\ complete' = [complete EXCEPT ![r] = TRUE]
    /\ UNCHANGED <<pc, admission, cancelling, gone, watcher, down, children>>

\* The downstream returns, raises or unwinds from a cancel.
DownstreamEnds(r) ==
    /\ down[r] = "running"
    /\ down' = [down EXCEPT ![r] = "done"]
    /\ UNCHANGED <<pc, admission, cancelling, complete, gone, watcher, children>>

\* A task of the request's tree starts another (install_task_factory tags it)
\* or the last one of them ends.
SpawnChild(r) ==
    /\ down[r] = "running" /\ ~children[r]
    /\ children' = [children EXCEPT ![r] = TRUE]
    /\ UNCHANGED <<pc, admission, cancelling, complete, gone, watcher, down>>

ChildrenEnd(r) ==
    /\ children[r]
    /\ children' = [children EXCEPT ![r] = FALSE]
    /\ UNCHANGED <<pc, admission, cancelling, complete, gone, watcher, down>>

\* Mutant: a disconnect after the final body is read as an abort.
ClientGoneUnchecked(r) ==
    /\ watcher[r] = "running"
    /\ watcher' = [watcher EXCEPT ![r] = "done"]
    /\ origin' = Marked(r, "client")
    /\ gone' = [gone EXCEPT ![r] = TRUE]
    /\ UNCHANGED <<pc, admission, ticket, told, complete, down, children>>

\* The watcher's receive() returns http.disconnect or raises: client_gone().
ClientGone(r) ==
    /\ watcher[r] = "running"
    /\ watcher' = [watcher EXCEPT ![r] = "done"]
    /\ origin' = IF complete[r] THEN origin ELSE Marked(r, "client")
    /\ gone' = [gone EXCEPT ![r] = TRUE]
    /\ UNCHANGED <<pc, admission, ticket, told, complete, down, children>>

\* Any other message after the body: the watcher gives up.
WatcherStops(r) ==
    /\ watcher[r] = "running"
    /\ watcher' = [watcher EXCEPT ![r] = "done"]
    /\ UNCHANGED <<pc, admission, cancelling, complete, gone, down, children>>

-----------------------------------------------------------------------------
(* _serve after its first wait, and the two cancel paths.                  *)

\* The first wait returns.  A client that left an incomplete response sends
\* the request to _cancelled; otherwise the watcher is cancelled (it can no
\* longer report the client) and the downstream awaited.
Wake(r) ==
    /\ pc[r] = "serving"
    /\ down[r] = "done" \/ watcher[r] = "done"
    /\ \/ /\ gone[r] /\ ~complete[r]
          /\ Goto(r, "unwinding")
          /\ origin' = Marked(r, "client")
          /\ UNCHANGED watcher
       \/ /\ ~gone[r] \/ complete[r]
          /\ Goto(r, "settling")
          /\ watcher' = [watcher EXCEPT ![r] = "done"]
          /\ UNCHANGED origin
    /\ UNCHANGED <<admission, ticket, told, complete, gone, down, children>>

\* The downstream has returned (replay.complete() has no one left to wake).
Settled(r) ==
    /\ pc[r] = "settling" /\ down[r] = "done"
    /\ Leave(r)
    /\ UNCHANGED <<origin, told, serving>>

\* Mutant: the wait for the cancelled downstream has no timeout.
GraceUnbounded(r) ==
    /\ pc[r] = "unwinding" /\ down[r] = "done"
    /\ Goto(r, IF children[r] THEN "sweeping" ELSE "notifying")
    /\ UNCHANGED <<admission, cancelling, serving>>

\* The downstream unwound or the grace ran out: sweep what it left behind.
GraceEnds(r) ==
    /\ pc[r] = "unwinding"
    /\ Goto(r, IF children[r] THEN "sweeping" ELSE "notifying")
    /\ UNCHANGED <<admission, cancelling, serving>>

\* The stragglers ended or the second grace ran out.
SweepEnds(r) ==
    /\ pc[r] = "sweeping"
    /\ Goto(r, "notifying")
    /\ UNCHANGED <<admission, cancelling, serving>>

\* The tasks of the cancel hook (bound when the gateway is armed) get their
\* first step.
HookStarts(r) ==
    /\ pc[r] = "notifying" /\ ~told[r]
    /\ told' = [told EXCEPT ![r] = TRUE]
    /\ UNCHANGED <<pc, admission, ticket, origin, serving>>

\* Every call of the hook ended, or the rest of the grace did.
HookEnds(r) ==
    /\ pc[r] = "notifying" /\ told[r]
    /\ Leave(r)
    /\ UNCHANGED <<origin, told, serving>>

\* The server cancels the request while _serve waits: _server_cancelled marks
\* it, then cancels the watcher and the downstream.
ServerCancel(r) ==
    /\ pc[r] \in {"serving", "settling"}
    /\ Goto(r, "leaving")
    /\ origin' = Marked(r, "server")
    /\ watcher' = [watcher EXCEPT ![r] = "done"]
    /\ UNCHANGED <<admission, ticket, told, complete, gone, down, children>>

\* Its wait ends (both tasks done, the grace, or a second cancel).
ServerCancelEnds(r) ==
    /\ pc[r] = "leaving"
    /\ Leave(r)
    /\ UNCHANGED <<origin, told, serving>>

\* The server cancels the request at any other await, or receive() raises
\* while the body is read: nothing catches it, the finally blocks run.
Abort(r) ==
    /\ pc[r] \in {"refusing", "draining", "unwinding", "sweeping", "notifying"}
    /\ Leave(r)
    /\ UNCHANGED <<origin, told, serving>>

-----------------------------------------------------------------------------

BodyStep(r) ==
    \/ \E declared \in {NoLength} \union 0..MaxChunk : Arrive(r, declared)
    \/ \E n \in 0..MaxChunk : ChunkRefused(r, n)
    \/ \E n \in 0..MaxChunk : ChunkRead(r, n)
    \/ \E n \in 0..MaxChunk : BodyRefused(r, n)
    \/ \E n \in 0..MaxChunk : Serve(r, n)
    \/ BodyTimeout(r)
    \/ BodyDisconnect(r)
    \/ Refused(r)

TaskStep(r) ==
    \/ SendFinalBody(r)
    \/ DownstreamEnds(r)
    \/ SpawnChild(r)
    \/ ChildrenEnd(r)
    \/ ClientGone(r)
    \/ WatcherStops(r)

ServeStep(r) ==
    \/ Wake(r)
    \/ Settled(r)
    \/ GraceEnds(r)
    \/ SweepEnds(r)
    \/ HookStarts(r)
    \/ HookEnds(r)
    \/ ServerCancel(r)
    \/ ServerCancelEnds(r)
    \/ Abort(r)

Next == \E r \in Requests : BodyStep(r) \/ TaskStep(r) \/ ServeStep(r)

(***************************************************************************)
(* Only what the event loop itself guarantees is fair: a coroutine whose   *)
(* wait is over resumes, and a timer fires.  Nothing is assumed of the     *)
(* client, of the server, or of the downstream.                            *)
(***************************************************************************)
Fairness ==
    \A r \in Requests :
        /\ WF_vars(BodyTimeout(r))
        /\ WF_vars(Wake(r))
        /\ WF_vars(Settled(r))
        /\ WF_vars(GraceEnds(r))
        /\ WF_vars(SweepEnds(r))
        /\ WF_vars(HookStarts(r))
        /\ WF_vars(HookEnds(r))
        /\ WF_vars(ServerCancelEnds(r))

SafeSpec == Init /\ [][Next]_vars
Spec     == SafeSpec /\ Fairness

-----------------------------------------------------------------------------
(* Properties.                                                             *)

Holders == {r \in Requests : slot[r]}
Readers == {r \in Requests : pc[r] = "draining"}

\* Bytes held as h says, one element per byte: Cardinality(Units(held)) is their sum.
Units(h) == {u \in Requests \X (1..MaxBody) : u[2] <= h[u[1]]}

(* A slot is taken and freed exactly once: on every way out of _serve, a      *)
(* cancel inside a cancel included, the counter is the number of requests     *)
(* still inside the try that releases it, and the cap is never passed.        *)
SlotsAccounted ==
    /\ inflight = Cardinality(Holders)
    /\ MaxInflight # 0 => inflight <= MaxInflight

(* The draining counter is the number of requests reading their body, on      *)
(* every way out of the read (timeout, disconnect, refusal, cancel).          *)
SeatsAccounted ==
    /\ draining = Cardinality(Readers)
    /\ MaxDraining # 0 => draining <= MaxDraining

(* The byte budget never leaks and is never given back twice: it is the sum   *)
(* of what the requests hold, declared lengths and re-grown holds included.   *)
BytesAccounted ==
    /\ buffered = Cardinality(Units(held))
    /\ buffered <= MaxBytes

(* A request being refused, or gone, keeps no byte, no slot and (once gone)   *)
(* no open ticket: "Nothing buffered is kept past a refusal".                 *)
NothingLeftBehind ==
    \A r \in Requests :
        /\ pc[r] \in {"idle", "refusing", "done"} => held[r] = 0 /\ ~slot[r]
        /\ pc[r] = "done" => ticket[r] # "open"

(* The limiter's three budgets balance on every way out of a request: slots,  *)
(* draining seats and buffered bytes are exactly those of the requests that   *)
(* are in, none passes its cap, and nothing is left behind (_admit_ticket's   *)
(* and _serve's finally blocks).                                              *)
Accounted == SlotsAccounted /\ SeatsAccounted /\ BytesAccounted /\ NothingLeftBehind

(* The limiter lets go of a downstream that still runs only when somebody     *)
(* cancelled the request: otherwise the slot is held until the downstream     *)
(* returns.                                                                   *)
LetsGoOnlyIfCancelled ==
    \A r \in Requests :
        pc[r] = "done" /\ down[r] = "running" => origin[r] # "none"

(* Who cancelled a request is settled once: the first origin stays, a client  *)
(* that leaves after the final body is not an abort, and nothing a task left  *)
(* behind does after the close changes what the close decided the outcome by. *)
OriginRules ==
    [][\A r \in Requests :
           origin'[r] # origin[r] =>
               /\ origin[r] = "none"
               /\ complete[r] => origin'[r] = "server"
               /\ ticket[r] = "open"]_vars

(* No body read outlives its deadline, whatever the client sends.             *)
BodyReadEnds ==
    \A r \in Requests : pc[r] = "draining" ~> pc[r] # "draining"

(* A cancel frees the slot even if the downstream never unwinds; a client     *)
(* that leaves gets there unless the final body is sent first.                *)
CancelFreesSlot ==
    \A r \in Requests :
        /\ pc[r] \in {"unwinding", "leaving"} ~> ~slot[r]
        /\ gone[r] /\ ~complete[r] ~> ~slot[r] \/ complete[r]
-----------------------------------------------------------------------------
(* What the limiter promises, and the states that count for it.            *)

Stage(r) ==
    IF pc[r] = "idle" THEN "new"
    ELSE IF pc[r] = "draining" THEN "reading"
    ELSE IF slot[r] THEN "admitted"
    ELSE "out"

Promise == INSTANCE Admission WITH
               Slots <- MaxInflight,
               Seats <- MaxDraining,
               stage <- [r \in Requests |-> Stage(r)]

(* The limiter is an admission control: both caps hold at every step and a    *)
(* request that gave its slot back never runs again.                          *)
ImplementsAdmission == Promise!Spec

=============================================================================
