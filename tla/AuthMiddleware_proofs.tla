------------------------ MODULE AuthMiddleware_proofs ------------------------
(***************************************************************************)
(* The offboarding lag of AuthMiddleware, for any callers, tokens, time to *)
(* live and latency.  The invariant dates every piece of evidence: where   *)
(* it is (on its way, handed to a caller, cached) bounds its age, and a    *)
(* row read before the revocation is no younger than the revocation.       *)
(***************************************************************************)
EXTENDS AuthMiddleware, TLAPS

\* What was read of t's row cannot hide a revocation older than the reading.
Sound(info, t) ==
    /\ info.read <= now
    /\ info.revoked = Never => committed[t] = Never \/ info.read <= committed[t]
    /\ info.revoked # Never => info.revoked <= now

Recent(info) == now - info.read <= Latency

CacheInv ==
    \A t \in Tokens : cache[t].has =>
        /\ Sound(cache[t].info, t)
        /\ cache[t].at <= now
        /\ cache[t].at - cache[t].info.read <= Latency

FlightInv ==
    \A t \in Tokens :
        /\ flight[t].stage = "read" => Sound(flight[t].info, t)
        /\ flight[t].stage = "done" /\ flight[t].result = "info" =>
               Sound(flight[t].info, t) /\ Recent(flight[t].info)

CallInv ==
    \A c \in Callers :
        call[c].stage = "ready" /\ call[c].result = "info" =>
            Sound(call[c].info, call[c].token) /\ Recent(call[c].info)

\* A revocation in the row has taken effect, and holds a time that is past.
RowInv ==
    \A t \in Tokens :
        /\ revoked[t] # Never => revoked[t] <= now /\ expires[t] # 0
        /\ stamp[t] # Never => stamp[t] <= now
        /\ committed[t] # Never <=> revoked[t] # Never

SaidInv ==
    /\ RowInv
    /\ \A c \in Callers : said[c].at <= now
    /\ RevocationLag

LagInv == TypeOK /\ CacheInv /\ FlightInv /\ CallInv /\ SaidInv

LEMMA NothingType == Nothing \in Evidence
BY DEF Nothing, Evidence, Never

LEMMA NoCallType == \A t \in Tokens : NoCall(t) \in Waiting
BY NothingType DEF NoCall, Waiting, Results

LEMMA NoFlightType == NoFlight \in Lookup
BY NothingType DEF NoFlight, Lookup, Results

\* The waiters of a lookup that is over are typed and hold its result.
LEMMA WakeFacts ==
    ASSUME TypeOK, NEW t \in Tokens, NEW result \in Results, NEW info \in Evidence,
           Wake(t, result, info)
    PROVE  /\ call' \in [Callers -> Waiting]
           /\ \A c \in Callers :
                 \/ call'[c] = call[c]
                 \/ /\ call'[c].token = t
                    /\ call'[c].result = result
                    /\ call'[c].info = info
<1>1. \A c \in Callers : call[c] \in Waiting
  BY DEF TypeOK
<1>2. \A c \in Callers :
          [call[c] EXCEPT !.stage = "ready", !.result = result, !.info = info] \in Waiting
  BY <1>1 DEF Waiting
<1> QED BY <1>1, <1>2 DEF Wake, Waiting

LEMMA LagInit == Init => LagInv
<1> SUFFICES ASSUME Init PROVE LagInv
    OBVIOUS
<1>1. TypeOK
  BY NothingType, NoCallType, NoFlightType DEF Init, TypeOK, Verdicts, Never
<1>2. CacheInv
  BY DEF Init, CacheInv
<1>3. FlightInv
  BY DEF Init, FlightInv, NoFlight
<1>4. CallInv
  BY DEF Init, CallInv, NoCall
<1>5. SaidInv
  BY DEF Init, SaidInv, RowInv, RevocationLag, LetInAfterRevoke, Never
<1> QED BY <1>1, <1>2, <1>3, <1>4, <1>5 DEF LagInv

\* A row accepted on sound evidence of age below the lag may be said.
LEMMA AcceptedInTime ==
    ASSUME TypeOK, NEW t \in Tokens, NEW info \in Evidence, Sound(info, t),
           now - info.read < TTL + Latency, Validate(info, t) = "accepted"
    PROVE  /\ now < expires[t]
           /\ committed[t] # Never => now < committed[t] + (TTL + Latency)
<1>1. info.revoked = Never
  BY DEF Validate, Sound, Evidence, TypeOK, Never
<1>2. ~(expires[t] <= now)
  BY DEF Validate
<1>3. now < expires[t]
  BY <1>2 DEF TypeOK
<1>4. ASSUME committed[t] # Never PROVE now < committed[t] + (TTL + Latency)
  BY <1>1, <1>4, AuthAssumption DEF Sound, TypeOK, Evidence, Never
<1> QED BY <1>3, <1>4

LEMMA ValidateType ==
    ASSUME NEW t, NEW info
    PROVE  Validate(info, t) \in Verdicts
BY DEF Validate, Verdicts

\* Saying a verdict now keeps what is known about the answers.
LEMMA SayKeeps ==
    ASSUME LagInv, NEW c \in Callers, NEW t \in Tokens, NEW v \in Verdicts,
           Say(c, t, v), UNCHANGED <<now, store>>,
           v = "accepted" =>
               /\ now < expires[t]
               /\ committed[t] # Never => now < committed[t] + (TTL + Latency)
    PROVE  /\ said' \in [Callers -> [verdict : Verdicts, token : Tokens, at : Nat]]
           /\ SaidInv'
<1>1. said' \in [Callers -> [verdict : Verdicts, token : Tokens, at : Nat]]
  BY DEF LagInv, TypeOK, Say
<1>2. \A d \in Callers : said'[d] = IF d = c
                                   THEN [verdict |-> v, token |-> t,
                                         at |-> IF v = "accepted" THEN now ELSE 0]
                                   ELSE said[d]
  BY DEF LagInv, TypeOK, Say
<1>3. \A d \in Callers : said'[d].at <= now'
  BY <1>2 DEF LagInv, SaidInv, TypeOK, store
<1>4. ASSUME NEW d \in Callers, said'[d].verdict = "accepted"
      PROVE  /\ said'[d].at < expires'[said'[d].token]
             /\ ~LetInAfterRevoke(d, TTL + Latency)'
  <2>1. CASE d = c
    <3>1. said'[d] = [verdict |-> v, token |-> t,
                      at |-> IF v = "accepted" THEN now ELSE 0]
      BY <1>2, <2>1
    <3>2. v = "accepted" /\ said'[d].at = now /\ said'[d].token = t
      BY <3>1, <1>4
    <3>3. committed[t] # Never => ~(now >= committed[t] + (TTL + Latency))
      BY <3>2, AuthAssumption DEF LagInv, TypeOK, Never
    <3> QED BY <3>2, <3>3 DEF store, LetInAfterRevoke
  <2>2. CASE d # c
    BY <1>2, <1>4, <2>2 DEF LagInv, SaidInv, RowInv, RevocationLag, LetInAfterRevoke, store
  <2> QED BY <2>1, <2>2
<1>5. RevocationLag'
  BY <1>4 DEF RevocationLag, LetInAfterRevoke
<1>6. RowInv'
  BY DEF LagInv, SaidInv, RowInv, store
<1> QED BY <1>1, <1>3, <1>5, <1>6 DEF SaidInv

LEMMA TickKeeps == LagInv /\ Tick => LagInv'
<1> SUFFICES ASSUME LagInv, Tick PROVE LagInv'
    OBVIOUS
<1> USE DEF Tick, store
<1>1. TypeOK'
  BY DEF LagInv, TypeOK
<1>2. CacheInv'
  BY DEF LagInv, TypeOK, CacheInv, Sound, Evidence, Never
<1>3. FlightInv'
  BY DEF Lookup, Waiting, LagInv, TypeOK, FlightInv, Sound, Evidence, Never
<1>4. CallInv'
  BY DEF LagInv, TypeOK, CallInv
<1>5. SaidInv'
  BY DEF LagInv, TypeOK, SaidInv, RowInv, RevocationLag, LetInAfterRevoke, Never
<1> QED BY <1>1, <1>2, <1>3, <1>4, <1>5 DEF LagInv

LEMMA IssueKeeps == LagInv /\ (\E t \in Tokens : Issue(t)) => LagInv'
<1> SUFFICES ASSUME LagInv, NEW t \in Tokens, Issue(t) PROVE LagInv'
    OBVIOUS
<1> USE DEF Issue
<1>1. TypeOK'
  BY AuthAssumption DEF LagInv, TypeOK
<1>2. CacheInv'
  BY DEF LagInv, CacheInv, Sound
<1>3. FlightInv'
  BY DEF LagInv, FlightInv, Sound, Recent
<1>4. CallInv'
  BY DEF LagInv, CallInv, Sound, Recent
<1>5. \A u \in Tokens : expires'[u] = expires[u] \/ (u = t /\ expires[u] = 0 /\ expires'[u] # 0)
  BY AuthAssumption DEF LagInv, TypeOK
<1>6. \A c \in Callers : said[c].verdict = "accepted" =>
          said[c].at \in Nat /\ said[c].token \in Tokens /\ expires[said[c].token] # 0
  BY DEF LagInv, TypeOK, SaidInv, RowInv, RevocationLag
<1>7. SaidInv'
  BY <1>5, <1>6 DEF LagInv, SaidInv, RowInv, RevocationLag, LetInAfterRevoke
<1> QED BY <1>1, <1>2, <1>3, <1>4, <1>7 DEF LagInv

LEMMA RevokeKeeps == LagInv /\ (\E t \in Tokens : Revoke(t) \/ RevokeFails(t)) => LagInv'
<1> SUFFICES ASSUME LagInv, NEW t \in Tokens, Revoke(t) \/ RevokeFails(t) PROVE LagInv'
    OBVIOUS
<1>0. /\ UNCHANGED <<now, expires, revoked, committed, cache, flight, call, said>>
      /\ stamp' \in [Tokens -> Nat \union {Never}]
      /\ \A u \in Tokens : stamp'[u] = stamp[u] \/ stamp'[u] = now \/ stamp'[u] = Never
  BY DEF Revoke, RevokeFails, LagInv, TypeOK
<1>1. TypeOK'
  BY <1>0 DEF LagInv, TypeOK
<1>2. CacheInv' /\ FlightInv' /\ CallInv'
  BY <1>0 DEF LagInv, CacheInv, FlightInv, CallInv, Sound, Recent
<1>3. RowInv'
  BY <1>0 DEF LagInv, TypeOK, SaidInv, RowInv
<1>4. SaidInv'
  BY <1>0, <1>3 DEF LagInv, SaidInv, RevocationLag, LetInAfterRevoke
<1> QED BY <1>1, <1>2, <1>4 DEF LagInv

LEMMA CommitKeeps == LagInv /\ (\E t \in Tokens : RevokeCommits(t)) => LagInv'
<1> SUFFICES ASSUME LagInv, NEW t \in Tokens, RevokeCommits(t) PROVE LagInv'
    OBVIOUS
<1>0. UNCHANGED <<now, expires, cache, flight, call, said>>
  BY DEF RevokeCommits
<1>1. TypeOK'
  BY DEF RevokeCommits, LagInv, TypeOK
<1>2. \A u \in Tokens :
          /\ \/ revoked'[u] = revoked[u] /\ committed'[u] = committed[u]
             \/ /\ u = t /\ stamp[t] # Never /\ expires[t] # 0 /\ revoked[t] = Never
                /\ revoked'[u] = stamp[t] /\ committed'[u] = now
          /\ stamp'[u] = stamp[u] \/ stamp'[u] = Never
  BY DEF RevokeCommits, LagInv, TypeOK
<1>3. ASSUME NEW u \in Tokens, NEW info \in Evidence, Sound(info, u) PROVE Sound(info, u)'
  BY <1>0, <1>2, <1>3 DEF Sound
<1>4. CacheInv'
  BY <1>0, <1>3 DEF LagInv, TypeOK, CacheInv
<1>5. FlightInv'
  BY <1>0, <1>3 DEF Lookup, Waiting, LagInv, TypeOK, FlightInv, Recent
<1>6. CallInv'
  BY <1>0, <1>3 DEF Lookup, Waiting, LagInv, TypeOK, CallInv, Recent
<1>7. \A c \in Callers : ~(said[c].at >= now + (TTL + Latency))
  <2>1. \A c \in Callers : said[c].at \in Nat /\ said[c].at <= now
    BY DEF LagInv, SaidInv, TypeOK
  <2>2. now \in Nat /\ TTL + Latency \in Nat /\ TTL + Latency > 0
    BY AuthAssumption DEF LagInv, TypeOK
  <2> QED
    <3> SUFFICES ASSUME NEW c \in Callers PROVE ~(said[c].at >= now + (TTL + Latency))
      OBVIOUS
    <3> DEFINE a == said[c].at
               d == TTL + Latency
    <3>1. a \in Nat /\ a <= now /\ d \in Nat /\ d > 0
      BY <2>1, <2>2
    <3> HIDE DEF a, d
    <3>2. ~(a >= now + d)
      BY <2>2, <3>1
    <3> QED BY <3>2 DEF a, d
<1>8. RowInv'
  BY <1>0, <1>2 DEF LagInv, TypeOK, SaidInv, RowInv, Never
<1>9. RevocationLag'
  BY <1>0, <1>2, <1>7 DEF LagInv, TypeOK, SaidInv, RevocationLag, LetInAfterRevoke
<1>10. SaidInv'
  BY <1>0, <1>8, <1>9 DEF LagInv, SaidInv
<1> QED BY <1>1, <1>4, <1>5, <1>6, <1>10 DEF LagInv

LEMMA HitKeeps ==
    LagInv /\ (\E c \in Callers, t \in Tokens : Hit(c, t)) => LagInv'
<1> SUFFICES ASSUME LagInv, NEW c \in Callers, NEW t \in Tokens, Hit(c, t) PROVE LagInv'
    OBVIOUS
<1> DEFINE info == cache[t].info
<1>1. info \in Evidence /\ Sound(info, t) /\ now - info.read < TTL + Latency
  BY AuthAssumption DEF Hit, Fresh, LagInv, TypeOK, CacheInv, Evidence
<1>2. Validate(info, t) = "accepted" =>
          /\ now < expires[t]
          /\ committed[t] # Never => now < committed[t] + (TTL + Latency)
  BY <1>1, AcceptedInTime DEF LagInv
<1>3. Validate(info, t) \in Verdicts
  BY ValidateType
<1>4. Say(c, t, Validate(info, t)) /\ UNCHANGED <<now, store>>
  BY DEF Hit
<1>5. /\ said' \in [Callers -> [verdict : Verdicts, token : Tokens, at : Nat]]
      /\ SaidInv'
  BY <1>2, <1>3, <1>4, SayKeeps
<1>6. TypeOK' /\ CacheInv' /\ FlightInv' /\ CallInv'
  BY <1>5 DEF Hit, LagInv, TypeOK, CacheInv, FlightInv, CallInv, Sound, Recent, store
<1> QED BY <1>5, <1>6 DEF LagInv

LEMMA MissKeeps ==
    LagInv /\ (\E c \in Callers, t \in Tokens : Miss(c, t)) => LagInv'
<1> SUFFICES ASSUME LagInv, NEW c \in Callers, NEW t \in Tokens, Miss(c, t) PROVE LagInv'
    OBVIOUS
<1> USE DEF Miss, store
<1>1. TypeOK'
  <2>1. flight[t] \in Lookup
    BY DEF LagInv, TypeOK
  <2>2. /\ [NoCall(t) EXCEPT !.stage = "waiting"] \in Waiting
        /\ [stage |-> "ready", token |-> t,
            result |-> flight[t].result, info |-> flight[t].info] \in Waiting
    BY <2>1, NoCallType DEF Waiting, Lookup
  <2>3. call' \in [Callers -> Waiting]
    BY <2>2 DEF LagInv, TypeOK
  <2>4. [flight[t] EXCEPT !.stage = "asked"] \in Lookup
    BY <2>1 DEF Lookup
  <2>5. flight' \in [Tokens -> Lookup]
    BY <2>4 DEF LagInv, TypeOK
  <2> QED BY <2>3, <2>5 DEF LagInv, TypeOK
<1>2. CacheInv' /\ SaidInv'
  BY DEF LagInv, CacheInv, SaidInv, RowInv, RevocationLag, LetInAfterRevoke, Sound
<1>3. FlightInv'
  BY DEF LagInv, TypeOK, FlightInv, Sound, Recent
<1>4. CallInv'
  BY DEF LagInv, TypeOK, FlightInv, CallInv, NoCall, Sound, Recent
<1> QED BY <1>1, <1>2, <1>3, <1>4 DEF LagInv

LEMMA ResumeKeeps == LagInv /\ (\E c \in Callers : Resume(c)) => LagInv'
<1> SUFFICES ASSUME LagInv, NEW c \in Callers, Resume(c) PROVE LagInv'
    OBVIOUS
<1> DEFINE t == call[c].token
           info == call[c].info
           v == IF call[c].result = "info" THEN Validate(info, t) ELSE call[c].result
<1>1. t \in Tokens /\ info \in Evidence
  BY DEF Lookup, Waiting, LagInv, TypeOK
<1>2. v = "accepted" =>
          /\ now < expires[t]
          /\ committed[t] # Never => now < committed[t] + (TTL + Latency)
  <2>1. SUFFICES ASSUME v = "accepted"
                 PROVE  /\ now < expires[t]
                        /\ committed[t] # Never => now < committed[t] + (TTL + Latency)
    OBVIOUS
  <2>2. call[c].result = "info" /\ Validate(info, t) = "accepted"
    BY <2>1 DEF Lookup, Waiting, LagInv, TypeOK, Results
  <2>3. Sound(info, t) /\ now - info.read <= Latency
    BY <2>2 DEF Resume, LagInv, CallInv, Recent
  <2>4. now - info.read < TTL + Latency
    BY <1>1, <2>3, AuthAssumption DEF LagInv, TypeOK, Evidence
  <2> QED BY <1>1, <2>2, <2>3, <2>4, AcceptedInTime DEF LagInv
<1>3. v \in Verdicts
  <2>1. call[c].result \in Results
    BY DEF Lookup, Waiting, LagInv, TypeOK
  <2> QED BY <2>1, ValidateType DEF Results, Verdicts
<1>4. Say(c, t, v) /\ UNCHANGED <<now, store>>
  BY DEF Resume
<1>5. /\ said' \in [Callers -> [verdict : Verdicts, token : Tokens, at : Nat]]
      /\ SaidInv'
  <2> HIDE DEF v
  <2> QED BY <1>1, <1>2, <1>3, <1>4, SayKeeps
<1>6. call' \in [Callers -> Waiting]
  BY NoCallType DEF Resume, LagInv, TypeOK, Waiting
<1>7. TypeOK' /\ CacheInv' /\ FlightInv'
  BY <1>5, <1>6 DEF Resume, LagInv, TypeOK, CacheInv, FlightInv, Sound, Recent, store
<1>8. CallInv'
  BY DEF Resume, LagInv, TypeOK, CallInv, NoCall, Sound, Recent, store
<1> QED BY <1>5, <1>7, <1>8 DEF LagInv

LEMMA GiveUpKeeps == LagInv /\ (\E c \in Callers : GiveUp(c)) => LagInv'
<1> SUFFICES ASSUME LagInv, NEW c \in Callers, GiveUp(c) PROVE LagInv'
    OBVIOUS
<1>1. call[c].token \in Tokens /\ "gone" \in Verdicts /\ "gone" # "accepted"
  BY DEF Lookup, Waiting, LagInv, TypeOK, Verdicts
<1>2. Say(c, call[c].token, "gone") /\ UNCHANGED <<now, store>>
  BY DEF GiveUp
<1>3. /\ said' \in [Callers -> [verdict : Verdicts, token : Tokens, at : Nat]]
      /\ SaidInv'
  BY <1>1, <1>2, SayKeeps
<1>4. call' \in [Callers -> Waiting]
  BY NoCallType DEF GiveUp, LagInv, TypeOK, Waiting
<1>5. TypeOK' /\ CacheInv' /\ FlightInv'
  BY <1>3, <1>4 DEF GiveUp, LagInv, TypeOK, CacheInv, FlightInv, Sound, Recent, store
<1>6. CallInv'
  BY DEF GiveUp, LagInv, TypeOK, CallInv, NoCall, Sound, Recent, store
<1> QED BY <1>3, <1>5, <1>6 DEF LagInv

LEMMA ReadKeeps == LagInv /\ (\E t \in Tokens : StoreReads(t)) => LagInv'
<1> SUFFICES ASSUME LagInv, NEW t \in Tokens, StoreReads(t) PROVE LagInv'
    OBVIOUS
<1> USE DEF StoreReads, store
<1>1. TypeOK'
  BY DEF LagInv, TypeOK, Lookup, Evidence, Results
<1>2. CacheInv' /\ CallInv' /\ SaidInv'
  BY DEF LagInv, CacheInv, CallInv, SaidInv, RowInv, RevocationLag, LetInAfterRevoke, Sound, Recent
<1>3. Sound([revoked |-> revoked[t], read |-> now], t)
  BY DEF LagInv, TypeOK, SaidInv, RowInv, Sound, Never
<1>4. FlightInv'
  BY <1>3 DEF LagInv, TypeOK, FlightInv, Sound, Recent
<1> QED BY <1>1, <1>2, <1>4 DEF LagInv

LEMMA ReturnKeeps == LagInv /\ (\E t \in Tokens : LookupReturns(t)) => LagInv'
<1> SUFFICES ASSUME LagInv, NEW t \in Tokens, LookupReturns(t) PROVE LagInv'
    OBVIOUS
<1> DEFINE info == flight[t].info
           entry == [has |-> TRUE, info |-> info, at |-> now]
<1>1. flight[t] \in Lookup /\ info \in Evidence /\ flight[t].result \in Results
  BY DEF LagInv, TypeOK, Lookup
<1>2. UNCHANGED <<now, revoked, expires, stamp, committed, said>> /\ Wake(t, flight[t].result, info)
  BY DEF LookupReturns, store
<1>3. Sound(info, t) /\ Recent(info)
  BY DEF LookupReturns, LagInv, FlightInv, Recent
<1>4. /\ call' \in [Callers -> Waiting]
      /\ \A c \in Callers :
            \/ call'[c] = call[c]
            \/ /\ call'[c].token = t
               /\ call'[c].result = flight[t].result
               /\ call'[c].info = info
  BY <1>1, <1>2, WakeFacts DEF LagInv
<1>5. cache' \in [Tokens -> [has : BOOLEAN, info : Evidence, at : Nat]]
  BY <1>1 DEF LookupReturns, LagInv, TypeOK
<1>6. \A u \in Tokens : cache'[u] = cache[u] \/ (u = t /\ cache'[u] = entry)
  BY DEF LookupReturns, LagInv, TypeOK
<1>7. [flight[t] EXCEPT !.stage = "done"] \in Lookup
  BY <1>1 DEF Lookup
<1>8. flight' = [flight EXCEPT ![t] = [flight[t] EXCEPT !.stage = "done"]]
  BY DEF LookupReturns
<1>9. flight' \in [Tokens -> Lookup]
  BY <1>7, <1>8 DEF LagInv, TypeOK
<1>10. \A u \in Tokens : flight'[u] = flight[u] \/ (u = t /\ flight'[u].info = info)
  BY <1>1, <1>8 DEF LagInv, TypeOK, Lookup
<1>11. TypeOK'
  BY <1>2, <1>4, <1>5, <1>9 DEF LagInv, TypeOK
<1>12. ASSUME NEW u \in Tokens, NEW e, Sound(e, u) PROVE Sound(e, u)'
  BY <1>2, <1>12 DEF Sound
<1>13. CacheInv'
  <2> SUFFICES ASSUME NEW u \in Tokens, cache'[u].has
               PROVE  /\ Sound(cache[u].info, u)'
                      /\ cache'[u].at <= now'
                      /\ cache'[u].at - cache'[u].info.read <= Latency
    BY DEF CacheInv, Sound
  <2>1. CASE cache'[u] = cache[u]
    BY <1>2, <2>1, <1>12 DEF LagInv, CacheInv
  <2>2. CASE u = t /\ cache'[u] = entry
    BY <1>2, <1>3, <2>2, <1>12 DEF LagInv, TypeOK, Recent
  <2> QED BY <1>6, <2>1, <2>2
<1>14. FlightInv'
  BY <1>2, <1>3, <1>10, <1>12 DEF LagInv, FlightInv, Recent, Sound
<1>15. CallInv'
  BY <1>2, <1>3, <1>4, <1>12 DEF LagInv, CallInv, Recent, Sound
<1>16. SaidInv'
  BY <1>2 DEF LagInv, SaidInv, RowInv, RevocationLag, LetInAfterRevoke
<1> QED BY <1>11, <1>13, <1>14, <1>15, <1>16 DEF LagInv

LEMMA FailKeeps == LagInv /\ (\E t \in Tokens : LookupFails(t)) => LagInv'
<1> SUFFICES ASSUME LagInv, NEW t \in Tokens, LookupFails(t) PROVE LagInv'
    OBVIOUS
<1> DEFINE over == [NoFlight EXCEPT !.stage = "done"]
<1>1. UNCHANGED <<now, revoked, expires, stamp, committed, cache, said>> /\ Wake(t, "failed", Nothing)
  BY DEF LookupFails, store
<1>2. over \in Lookup /\ over.result = "failed" /\ over.stage = "done"
  BY NoFlightType DEF Lookup, NoFlight
<1>3. flight' = [flight EXCEPT ![t] = over]
  BY DEF LookupFails
<1>4. flight' \in [Tokens -> Lookup]
  BY <1>2, <1>3 DEF LagInv, TypeOK
<1>5. \A u \in Tokens : flight'[u] = flight[u] \/ flight'[u] = over
  BY <1>3 DEF LagInv, TypeOK
<1>6. "failed" \in Results /\ Nothing \in Evidence
  BY NothingType DEF Results
<1>7. /\ call' \in [Callers -> Waiting]
      /\ \A c \in Callers : call'[c] = call[c] \/ call'[c].result = "failed"
  BY <1>1, <1>6, WakeFacts DEF LagInv
<1>8. TypeOK'
  BY <1>1, <1>4, <1>7 DEF LagInv, TypeOK
<1>9. CacheInv' /\ SaidInv'
  BY <1>1 DEF LagInv, CacheInv, SaidInv, RowInv, RevocationLag, LetInAfterRevoke, Sound
<1>10. FlightInv'
  <2> HIDE DEF over
  <2> QED BY <1>1, <1>2, <1>5 DEF LagInv, FlightInv, Sound, Recent
<1>11. CallInv'
  BY <1>1, <1>7 DEF LagInv, CallInv, Sound, Recent
<1> QED BY <1>8, <1>9, <1>10, <1>11 DEF LagInv

LEMMA ForgetKeeps == LagInv /\ (\E t \in Tokens : Forget(t)) => LagInv'
<1> SUFFICES ASSUME LagInv, NEW t \in Tokens, Forget(t) PROVE LagInv'
    OBVIOUS
<1> USE DEF Forget, store
<1>1. TypeOK'
  BY NoFlightType DEF LagInv, TypeOK
<1>2. CacheInv' /\ SaidInv' /\ CallInv'
  BY DEF LagInv, CacheInv, SaidInv, RowInv, CallInv, RevocationLag, LetInAfterRevoke, Sound, Recent
<1>3. FlightInv'
  BY DEF LagInv, TypeOK, FlightInv, NoFlight, Sound, Recent
<1> QED BY <1>1, <1>2, <1>3 DEF LagInv

LEMMA LagStep == LagInv /\ [Next]_vars => LagInv'
<1> SUFFICES ASSUME LagInv, [Next]_vars PROVE LagInv'
    OBVIOUS
<1>1. CASE UNCHANGED vars
  BY <1>1 DEF vars, store, LagInv, TypeOK, CacheInv, FlightInv, CallInv, SaidInv,
              RowInv, RevocationLag, LetInAfterRevoke, Sound, Recent
<1>2. CASE Next
  BY <1>2, TickKeeps, IssueKeeps, RevokeKeeps, CommitKeeps, HitKeeps, MissKeeps, ResumeKeeps,
     GiveUpKeeps, ReadKeeps, ReturnKeeps, FailKeeps, ForgetKeeps DEF Next, CallerStep, TokenStep
<1> QED BY <1>1, <1>2

(* A token is accepted for less than the time to live plus the latency of an  *)
(* answer once its revocation is in the store, whatever revoked_at says, and  *)
(* never when it has expired: for any number of concurrent                    *)
(* callers sharing lookups (_lookup, _fetch, _validate).                      *)
THEOREM LagTheorem == SafeSpec => []RevocationLag
<1>1. LagInv => RevocationLag
  BY DEF LagInv, SaidInv
<1> QED BY <1>1, LagInit, LagStep, PTL DEF SafeSpec

(* The state of the middleware keeps its type.                                *)
THEOREM AuthTypeCorrect == SafeSpec => []TypeOK
<1>1. LagInv => TypeOK
  BY DEF LagInv
<1> QED BY <1>1, LagInit, LagStep, PTL DEF SafeSpec

==============================================================================
