----------------------------- MODULE Pod_proofs -----------------------------
(***************************************************************************)
(* A pod, for any clients, connections, slots, keys, settings and tables.  *)
(* Token issuance: the invariant says of every request, by where it is,    *)
(* what its transaction may have done and what may have been decided about *)
(* its answer; who may hold a connection; and what was seen of the schema. *)
(* Then the spacing of the key fetches, and the route gate: what an armed  *)
(* pod has passed and what it may have handed to a handler.                *)
(***************************************************************************)
EXTENDS Pod, FiniteSetTheorems, TLAPS

\* TypeOK without the bound of the slot counter, which SlotInv gives.
Types ==
    /\ now \in 0..MaxTime
    /\ schema \in {"old", "current"} /\ verified \in BOOLEAN
    /\ checkedAt \in {Never} \union 0..MaxTime
    /\ probe \in {"idle", "schema"} /\ ready \in BOOLEAN
    /\ phase \in [Clients -> {"idle", "schema", "done"} \union Inside]
    /\ answer \in [Clients -> {"none", "ok"} \union Refusals \union Ambiguous]
    /\ inflight \in Int /\ tokens \in 0..Burst
    /\ published \subseteq Kids /\ keys \subseteq Kids
    /\ refreshedAt \in {Never} \union 0..MaxTime /\ failedAt \in {Never} \union 0..MaxTime
    /\ fetch \in {"none", "running"} \union Results
    /\ awaited \in [Clients -> {"none", "running"} \union Results]
    /\ fetches \in Nat
    /\ holder \in [Connections -> {Pool} \union Clients]
    /\ tx \in [Clients -> {"none", "open", "maybe", "committed", "ended"}]

\* Before the transaction begins.
Early == {"idle", "schema", "body", "key", "team", "acquire"}

Truthful(r) ==
    /\ answer[r] = "ok" => tx[r] = "committed"
    /\ answer[r] \in Refusals => tx[r] \in {"none", "ended"}

\* The answer never runs ahead of the transaction.
StoryInv ==
    \A r \in Clients :
        /\ phase[r] \in Early => tx[r] = "none"
        /\ phase[r] \in Early \union {"store", "commit"} => answer[r] = "none"
        /\ phase[r] = "store" => tx[r] = "open"
        /\ phase[r] = "commit" => tx[r] = "maybe"
        /\ Truthful(r)

\* A connection has one user, who got as far as acquiring it.
PoolInv ==
    /\ \A c \in Connections : holder[c] # Pool => phase[holder[c]] \in Holding \union {"done"}
    /\ \A c, d \in Connections : holder[c] # Pool /\ holder[c] = holder[d] => c = d

Insiders == {r \in Clients : phase[r] \in Inside}

SlotInv == inflight = Cardinality(Insiders) /\ inflight <= Slots

\* Whoever got past the gate was let past it by a pod that issues, after the
\* schema was seen.
GateInv ==
    /\ verified \/ ready => schema = "current"
    /\ \A r \in Clients :
          /\ phase[r] \in Inside \/ tx[r] # "none" => schema = "current" /\ issuing
          /\ phase[r] = "schema" => issuing

ConfigInv ==
    /\ issuing => ~IssuanceProblem(config.issuance, config.prod)
    /\ config.issuance.jwks \in {"https", "http", "not absolute"}

IssuanceInv == Types /\ StoryInv /\ PoolInv /\ SlotInv /\ GateInv /\ ConfigInv

------------------------------------------------------------------------------

LEMMA InsidersFinite == IsFiniteSet(Insiders) /\ Cardinality(Insiders) \in Nat
<1>1. IsFiniteSet(Clients)
    BY ListenerAssumption
<1> QED
    BY <1>1, FS_Subset, FS_CardinalityType DEF Insiders

\* A request that enters or leaves moves the count by one, and no other does.
LEMMA Entering ==
    ASSUME Types, NEW r \in Clients, NEW p, phase' = [phase EXCEPT ![r] = p]
    PROVE  /\ p \in Inside /\ phase[r] \notin Inside =>
                  Cardinality(Insiders)' = Cardinality(Insiders) + 1
           /\ p \notin Inside /\ phase[r] \in Inside =>
                  Cardinality(Insiders)' = Cardinality(Insiders) - 1
           /\ (p \in Inside <=> phase[r] \in Inside) =>
                  Cardinality(Insiders)' = Cardinality(Insiders)
<1>1. \A q \in Clients : phase'[q] = IF q = r THEN p ELSE phase[q]
    BY DEF Types
<1>2. CASE p \in Inside /\ phase[r] \notin Inside
    <2>1. Insiders' = Insiders \union {r} /\ r \notin Insiders
        BY <1>1, <1>2 DEF Insiders
    <2> QED
        BY <1>2, <2>1, InsidersFinite, FS_AddElement
<1>3. CASE p \notin Inside /\ phase[r] \in Inside
    <2>1. Insiders' = Insiders \ {r} /\ r \in Insiders
        BY <1>1, <1>3 DEF Insiders
    <2> QED
        BY <1>3, <2>1, InsidersFinite, FS_RemoveElement
<1>4. CASE p \in Inside <=> phase[r] \in Inside
    <2>1. Insiders' = Insiders
        BY <1>1, <1>4 DEF Insiders
    <2> QED
        BY <1>4, <2>1
<1> QED
    BY <1>2, <1>3, <1>4

\* Up to the acquire a request gets further, or is turned away: nothing is
\* stored.  The end of such a step, the codes it may end with.
Undecided(r) ==
    /\ phase[r] \in Early
    /\ UNCHANGED poolVars
    /\ \E p \in {"schema", "body", "key", "team", "acquire", "done"},
          code \in {"none"} \union Refusals \union Ambiguous :
          /\ phase' = [phase EXCEPT ![r] = p]
          /\ answer' = [answer EXCEPT ![r] = code]
          /\ p # "done" => code = answer[r]

LEMMA UndecidedSteps ==
    ASSUME Types, StoryInv, NEW r \in Clients,
           \/ SchemaChecked(r) \/ Body(r) \/ KeyResume(r) \/ Team(r)
           \/ \E enabled \in BOOLEAN, method \in {"POST", "GET"} : Issue(r, enabled, method)
    PROVE  Undecided(r)
<1> USE DEF Goto, Say, slotVars, poolVars
<1>1. answer[r] = "none" \/ phase[r] \notin Early
    BY DEF StoryInv
<1>2. answer = [answer EXCEPT ![r] = answer[r]]
    BY DEF Types
<1> DEFINE P == {"schema", "body", "key", "team", "acquire", "done"}
           C == {"none"} \union Refusals \union Ambiguous
           Passes(p) == phase' = [phase EXCEPT ![r] = p] /\ UNCHANGED answer
           Ends(code) == /\ phase' = [phase EXCEPT ![r] = "done"]
                         /\ answer' = [answer EXCEPT ![r] = code]
<1>3. ASSUME phase[r] \in Early, UNCHANGED poolVars,
             (\E p \in P \ {"done"} : Passes(p)) \/ (\E code \in C : Ends(code))
      PROVE  Undecided(r)
    BY <1>1, <1>2, <1>3 DEF Undecided
<1>4. ASSUME Handle(r)
      PROVE  (\E p \in P \ {"done"} : Passes(p)) \/ (\E code \in C : Ends(code))
    BY <1>4 DEF Handle, Turned, Refusals
<1>5. ASSUME Decode(r)
      PROVE  (\E p \in P \ {"done"} : Passes(p)) \/ (\E code \in C : Ends(code))
    BY <1>5 DEF Decode, Answered, Refusals
<1> HIDE DEF Passes, Ends
<1>6. CASE SchemaChecked(r)
    <2>1. Handle(r) \/ Ends("E_ISSUE_SCHEMA")
        BY <1>6 DEF SchemaChecked, Turned, Ends
    <2> QED
        BY <1>6, <2>1, <1>3, <1>4 DEF SchemaChecked, Early, Refusals
<1>7. CASE Body(r)
    <2>1. \/ \E code \in {"E_ISSUE_BODY", "E_OIDC", "E_JWKS_UNAVAILABLE"} : Ends(code)
          \/ Decode(r) \/ Passes("key")
        BY <1>7 DEF Body, KeyFor, Answered, Ends, Passes
    <2> QED
        BY <1>7, <2>1, <1>3, <1>5 DEF Body, Early, Refusals
<1>8. CASE KeyResume(r)
    <2>1. Ends("E_JWKS_UNAVAILABLE") \/ Ends("E_OIDC") \/ Decode(r)
        BY <1>8 DEF KeyResume, Answered, Ends
    <2> QED
        BY <1>8, <2>1, <1>3, <1>5 DEF KeyResume, Early, Refusals
<1>9. CASE Team(r)
    <2>1. \/ \E code \in {"E_ISSUE_NO_TEAM", "E_ISSUE_STORE_UNAVAILABLE", "E_ISSUE_INTERNAL"} :
                 Ends(code)
          \/ Passes("acquire")
        BY <1>9 DEF Team, Answered, Ends, Passes
    <2> QED
        BY <1>9, <2>1, <1>3 DEF Team, Early, Refusals, Ambiguous
<1>10. CASE \E enabled \in BOOLEAN, method \in {"POST", "GET"} : Issue(r, enabled, method)
    <2>1. PICK enabled \in BOOLEAN, method \in {"POST", "GET"} : Issue(r, enabled, method)
        BY <1>10
    <2>2. \/ \E code \in {"E_ISSUE_DISABLED", "E_METHOD_NOT_ALLOWED", "E_ISSUE_SCHEMA"} : Ends(code)
          \/ Handle(r) \/ Passes("schema")
        BY <2>1 DEF Issue, Turned, Ends, Passes
    <2> QED
        BY <2>1, <2>2, <1>3, <1>4 DEF Issue, Early, Refusals
<1> QED
    BY <1>6, <1>7, <1>8, <1>9, <1>10

LEMMA UndecidedStory ==
    ASSUME Types, StoryInv, NEW r \in Clients, Undecided(r)
    PROVE  StoryInv'
<1>1. PICK p \in {"schema", "body", "key", "team", "acquire", "done"},
           code \in {"none"} \union Refusals \union Ambiguous :
          /\ phase' = [phase EXCEPT ![r] = p] /\ answer' = [answer EXCEPT ![r] = code]
          /\ p # "done" => code = answer[r]
    BY DEF Undecided
<1>2. \A q \in Clients : phase'[q] = (IF q = r THEN p ELSE phase[q])
                        /\ answer'[q] = (IF q = r THEN code ELSE answer[q])
    BY <1>1 DEF Types
<1>3. tx' = tx /\ tx[r] = "none" /\ answer[r] = "none" /\ code # "ok"
    BY <1>1 DEF Undecided, poolVars, StoryInv, Early, Refusals, Ambiguous
<1>4. p \in Early \union {"store", "commit"} => p \in Early /\ code = "none"
    BY <1>1, <1>3 DEF Early
<1>5. ASSUME NEW q \in Clients, q # r
      PROVE  /\ phase'[q] \in Early => tx'[q] = "none"
             /\ phase'[q] \in Early \union {"store", "commit"} => answer'[q] = "none"
             /\ phase'[q] = "store" => tx'[q] = "open"
             /\ phase'[q] = "commit" => tx'[q] = "maybe"
             /\ Truthful(q)'
    BY <1>2, <1>3, <1>5 DEF StoryInv, Truthful
<1>6. /\ phase'[r] \in Early => tx'[r] = "none"
      /\ phase'[r] \in Early \union {"store", "commit"} => answer'[r] = "none"
      /\ phase'[r] # "store" /\ phase'[r] # "commit"
      /\ Truthful(r)'
    BY <1>1, <1>2, <1>3, <1>4 DEF Truthful, Early
<1> QED
    BY <1>5, <1>6 DEF StoryInv

LEMMA UndecidedPool ==
    ASSUME Types, PoolInv, NEW r \in Clients, Undecided(r)
    PROVE  PoolInv'
<1>1. holder' = holder /\ \A q \in Clients : q # r => phase'[q] = phase[q]
    BY DEF Undecided, poolVars, Types
<1>2. \A c \in Connections : holder[c] # r
    BY ListenerAssumption DEF PoolInv, Undecided, Early, Holding, Pool
<1> QED
    BY <1>1, <1>2 DEF PoolInv, Types

LEMMA UndecidedTypes ==
    ASSUME Types, NEW r \in Clients, Undecided(r)
    PROVE  /\ phase' \in [Clients -> {"idle", "schema", "done"} \union Inside]
           /\ answer' \in [Clients -> {"none", "ok"} \union Refusals \union Ambiguous]
           /\ holder' = holder /\ tx' = tx
    BY DEF Undecided, Types, Inside, Working, poolVars

\* Types, one action of a request at a time.
LEMMA ServeTypes ==
    ASSUME Types, StoryInv, NEW r \in Clients, Serve(r)
    PROVE  Types'
<1>1. CASE SchemaChecked(r)
    <2>1. Undecided(r)
        BY <1>1, UndecidedSteps
    <2>2. verified' \in BOOLEAN
        BY <1>1, Zenon DEF SchemaChecked, SchemaSeen, gateVars, Types
    <2>3. /\ now' = now /\ schema' = schema /\ checkedAt' = checkedAt
          /\ probe' = probe /\ ready' = ready /\ inflight' \in Int /\ tokens' \in 0..Burst
          /\ published' = published /\ keys' = keys /\ refreshedAt' = refreshedAt
          /\ failedAt' = failedAt /\ fetch' \in {"none", "running"} \union Results
          /\ awaited' \in [Clients -> {"none", "running"} \union Results] /\ fetches' \in Nat
        BY <1>1, ListenerAssumption DEF SchemaChecked, SchemaSeen, Handle, Turned, Goto, Say,
               slotVars, jwksVars, poolVars, gateVars, Types, Results
    <2> QED
        BY <2>1, <2>2, <2>3, UndecidedTypes DEF Types
<1>2. CASE Body(r)
    <2>1. Undecided(r)
        BY <1>2, UndecidedSteps
    <2>2. verified' \in BOOLEAN
        BY <1>2, Zenon DEF Body, SchemaSeen, gateVars, Types
    <2>3. /\ now' = now /\ schema' = schema /\ checkedAt' = checkedAt
          /\ probe' = probe /\ ready' = ready /\ inflight' \in Int /\ tokens' \in 0..Burst
          /\ published' = published /\ keys' = keys /\ refreshedAt' = refreshedAt
          /\ failedAt' = failedAt /\ fetch' \in {"none", "running"} \union Results
          /\ awaited' \in [Clients -> {"none", "running"} \union Results] /\ fetches' \in Nat
        BY <1>2, ListenerAssumption DEF Body, KeyFor, Decode, Answered, Goto, Say, slotVars,
               jwksVars, gateVars, Types, Results
    <2> QED
        BY <2>1, <2>2, <2>3, UndecidedTypes DEF Types
<1>3. CASE KeyResume(r)
    <2>1. Undecided(r)
        BY <1>3, UndecidedSteps
    <2>2. verified' \in BOOLEAN
        BY <1>3, Zenon DEF KeyResume, SchemaSeen, gateVars, Types
    <2>3. /\ now' = now /\ schema' = schema /\ checkedAt' = checkedAt
          /\ probe' = probe /\ ready' = ready /\ inflight' \in Int /\ tokens' \in 0..Burst
          /\ published' = published /\ keys' = keys /\ refreshedAt' = refreshedAt
          /\ failedAt' = failedAt /\ fetch' \in {"none", "running"} \union Results
          /\ awaited' \in [Clients -> {"none", "running"} \union Results] /\ fetches' \in Nat
        BY <1>3, ListenerAssumption DEF KeyResume, Decode, Answered, Goto, Say, slotVars, gateVars,
               Types, Results
    <2> QED
        BY <2>1, <2>2, <2>3, UndecidedTypes DEF Types
<1>4. CASE Team(r)
    <2>1. Undecided(r)
        BY <1>4, UndecidedSteps
    <2>2. verified' \in BOOLEAN
        BY <1>4, Zenon DEF Team, SchemaSeen, gateVars, Types
    <2>3. /\ now' = now /\ schema' = schema /\ checkedAt' = checkedAt
          /\ probe' = probe /\ ready' = ready /\ inflight' \in Int /\ tokens' \in 0..Burst
          /\ published' = published /\ keys' = keys /\ refreshedAt' = refreshedAt
          /\ failedAt' = failedAt /\ fetch' \in {"none", "running"} \union Results
          /\ awaited' \in [Clients -> {"none", "running"} \union Results] /\ fetches' \in Nat
        BY <1>4, ListenerAssumption DEF Team, Answered, Goto, Say, slotVars, jwksVars, gateVars,
               Types, Results
    <2> QED
        BY <2>1, <2>2, <2>3, UndecidedTypes DEF Types
<1>5. CASE Acquire(r)
    BY <1>5, ListenerAssumption DEF Acquire, Answered, Goto, Say, Set, slotVars, jwksVars, poolVars,
           gateVars, Types, Never, Inside, Working, Refusals, Ambiguous, Results
<1>6. CASE Refuse(r)
    BY <1>6, ListenerAssumption DEF Refuse, Goto, Say, Set, slotVars, jwksVars, gateVars, Types,
           Never, Inside, Working, Refusals, Ambiguous, Results
<1>7. CASE StatementTimeout(r)
    BY <1>7, ListenerAssumption DEF StatementTimeout, Goto, Say, slotVars, jwksVars, poolVars,
           gateVars, Types, Never, Inside, Working, Refusals, Ambiguous, Results
<1>8. CASE CommitSent(r)
    BY <1>8, ListenerAssumption DEF CommitSent, Goto, Set, slotVars, jwksVars, gateVars, Types,
           Never, Inside, Working, Refusals, Ambiguous, Results
<1>9. CASE Committed(r)
    BY <1>9, ListenerAssumption DEF Committed, Goto, Say, Set, slotVars, jwksVars, gateVars, Types,
           Never, Inside, Working, Refusals, Ambiguous, Results
<1>10. CASE CommitLost(r)
    BY <1>10, ListenerAssumption DEF CommitLost, Goto, Say, slotVars, jwksVars, poolVars, gateVars,
           Types, Never, Inside, Working, Refusals, Ambiguous, Results
<1>11. CASE Release(r)
    BY <1>11, ListenerAssumption DEF Release, Answered, Goto, Say, Freed, slotVars, jwksVars,
           gateVars, Types, Never, Inside, Working, Refusals, Ambiguous, Results
<1>12. CASE Timeout(r)
    BY <1>12, ListenerAssumption DEF Timeout, TimedOut, Answered, Goto, Say, slotVars, poolVars,
           gateVars, Types, Never, Inside, Working, Refusals, Ambiguous, Results
<1>13. CASE Cancelled(r)
    BY <1>13, ListenerAssumption DEF Cancelled, Answered, Goto, Say, Freed, slotVars, jwksVars,
           gateVars, Types, Never, Inside, Working, Refusals, Ambiguous, Results
<1>14. CASE BackgroundRelease(r)
    BY <1>14, ListenerAssumption DEF BackgroundRelease, Freed, slotVars, jwksVars, gateVars, Types,
           Never, Inside, Working, Refusals, Ambiguous, Results
<1>15. CASE OrphanEnds(r)
    BY <1>15, ListenerAssumption DEF OrphanEnds, Orphaned, Set, slotVars, jwksVars, gateVars, Types,
           Never, Inside, Working, Refusals, Ambiguous, Results
<1>16. CASE OrphanCommits(r)
    BY <1>16, ListenerAssumption DEF OrphanCommits, Orphaned, Set, slotVars, jwksVars, gateVars,
           Types, Never, Inside, Working, Refusals, Ambiguous, Results
<1> QED
    BY <1>1, <1>2, <1>3, <1>4, <1>5, <1>6, <1>7, <1>8, <1>9, <1>10, <1>11, <1>12, <1>13,
       <1>14, <1>15, <1>16 DEF Serve

\* A request's step moves that request only, and the slots with it.
Moves(r) ==
    \E p \in {"idle", "schema", "done"} \union Inside :
        /\ phase' = [phase EXCEPT ![r] = p]
        /\ \/ p \in Inside /\ phase[r] \notin Inside /\ inflight < Slots
              /\ inflight' = inflight + 1
           \/ p \notin Inside /\ phase[r] \in Inside /\ inflight' = inflight - 1
           \/ (p \in Inside <=> phase[r] \in Inside) /\ inflight' = inflight

LEMMA ServeMoves ==
    ASSUME Types, NEW r \in Clients, Serve(r)
    PROVE  Moves(r)
<1>1. CASE SchemaChecked(r)
    BY <1>1 DEF SchemaChecked, SchemaSeen, Handle, Turned, Goto, Say, slotVars, jwksVars, poolVars,
           gateVars, Moves, Types, Inside, Working
<1>2. CASE Body(r)
    BY <1>2 DEF Body, KeyFor, Decode, Answered, Goto, Say, slotVars, jwksVars, gateVars, Moves,
           Types, Inside, Working
<1>3. CASE KeyResume(r)
    BY <1>3 DEF KeyResume, Decode, Answered, Goto, Say, slotVars, gateVars, Moves, Types, Inside,
           Working
<1>4. CASE Team(r)
    BY <1>4 DEF Team, Answered, Goto, Say, slotVars, jwksVars, gateVars, Moves, Types, Inside,
           Working
<1>5. CASE Acquire(r)
    BY <1>5 DEF Acquire, Answered, Goto, Say, Set, slotVars, jwksVars, poolVars, gateVars, Moves,
           Types, Inside, Working
<1>6. CASE Refuse(r)
    BY <1>6 DEF Refuse, Goto, Say, Set, slotVars, jwksVars, gateVars, Moves, Types, Inside, Working
<1>7. CASE StatementTimeout(r)
    BY <1>7 DEF StatementTimeout, Goto, Say, slotVars, jwksVars, poolVars, gateVars, Moves, Types,
           Inside, Working
<1>8. CASE CommitSent(r)
    BY <1>8 DEF CommitSent, Goto, Set, slotVars, jwksVars, gateVars, Moves, Types, Inside, Working
<1>9. CASE Committed(r)
    BY <1>9 DEF Committed, Goto, Say, Set, slotVars, jwksVars, gateVars, Moves, Types, Inside,
           Working
<1>10. CASE CommitLost(r)
    BY <1>10 DEF CommitLost, Goto, Say, slotVars, jwksVars, poolVars, gateVars, Moves, Types,
           Inside, Working
<1>11. CASE Release(r)
    BY <1>11 DEF Release, Answered, Goto, Say, Freed, slotVars, jwksVars, gateVars, Moves, Types,
           Inside, Working
<1>12. CASE Timeout(r)
    BY <1>12 DEF Timeout, TimedOut, Answered, Goto, Say, slotVars, poolVars, gateVars, Moves, Types,
           Inside, Working
<1>13. CASE Cancelled(r)
    BY <1>13 DEF Cancelled, Answered, Goto, Say, Freed, slotVars, jwksVars, gateVars, Moves, Types,
           Inside, Working
<1>14. CASE BackgroundRelease(r)
    BY <1>14 DEF BackgroundRelease, Freed, slotVars, jwksVars, gateVars, Moves, Types, Inside,
           Working
<1>15. CASE OrphanEnds(r)
    BY <1>15 DEF OrphanEnds, Orphaned, Set, slotVars, jwksVars, gateVars, Moves, Types, Inside,
           Working
<1>16. CASE OrphanCommits(r)
    BY <1>16 DEF OrphanCommits, Orphaned, Set, slotVars, jwksVars, gateVars, Moves, Types, Inside,
           Working
<1> QED
    BY <1>1, <1>2, <1>3, <1>4, <1>5, <1>6, <1>7, <1>8, <1>9, <1>10, <1>11, <1>12, <1>13,
       <1>14, <1>15, <1>16 DEF Serve

\* The answers and the transaction.
LEMMA ServeStory ==
    ASSUME Types, StoryInv, NEW r \in Clients, Serve(r)
    PROVE  StoryInv'
<1>1. CASE SchemaChecked(r)
    BY <1>1, UndecidedSteps, UndecidedStory
<1>2. CASE Body(r)
    BY <1>2, UndecidedSteps, UndecidedStory
<1>3. CASE KeyResume(r)
    BY <1>3, UndecidedSteps, UndecidedStory
<1>4. CASE Team(r)
    BY <1>4, UndecidedSteps, UndecidedStory
<1>5. CASE Acquire(r)
    BY <1>5 DEF Acquire, Answered, Goto, Say, Set, slotVars, jwksVars, poolVars, gateVars, StoryInv,
           Truthful, Early, Types, Inside, Working, Refusals, Ambiguous, Results
<1>6. CASE Refuse(r)
    BY <1>6 DEF Refuse, Goto, Say, Set, slotVars, jwksVars, gateVars, StoryInv, Truthful, Early,
           Types, Inside, Working, Refusals, Ambiguous, Results
<1>7. CASE StatementTimeout(r)
    BY <1>7 DEF StatementTimeout, Goto, Say, slotVars, jwksVars, poolVars, gateVars, StoryInv,
           Truthful, Early, Types, Inside, Working, Refusals, Ambiguous, Results
<1>8. CASE CommitSent(r)
    BY <1>8 DEF CommitSent, Goto, Set, slotVars, jwksVars, gateVars, StoryInv, Truthful, Early,
           Types, Inside, Working, Refusals, Ambiguous, Results
<1>9. CASE Committed(r)
    BY <1>9 DEF Committed, Goto, Say, Set, slotVars, jwksVars, gateVars, StoryInv, Truthful, Early,
           Types, Inside, Working, Refusals, Ambiguous, Results
<1>10. CASE CommitLost(r)
    BY <1>10 DEF CommitLost, Goto, Say, slotVars, jwksVars, poolVars, gateVars, StoryInv, Truthful,
           Early, Types, Inside, Working, Refusals, Ambiguous, Results
<1>11. CASE Release(r)
    BY <1>11 DEF Release, Answered, Goto, Say, Freed, slotVars, jwksVars, gateVars, StoryInv,
           Truthful, Early, Types, Inside, Working, Refusals, Ambiguous, Results
<1>12. CASE Timeout(r)
    BY <1>12 DEF Timeout, TimedOut, Answered, Goto, Say, slotVars, poolVars, gateVars, StoryInv,
           Truthful, Early, Types, Inside, Working, Refusals, Ambiguous, Results
<1>13. CASE Cancelled(r)
    BY <1>13 DEF Cancelled, Answered, Goto, Say, Freed, slotVars, jwksVars, gateVars, StoryInv,
           Truthful, Early, Types, Inside, Working, Refusals, Ambiguous, Results
<1>14. CASE BackgroundRelease(r)
    BY <1>14 DEF BackgroundRelease, Freed, slotVars, jwksVars, gateVars, StoryInv, Truthful, Early,
           Types, Inside, Working, Refusals, Ambiguous, Results
<1>15. CASE OrphanEnds(r)
    BY <1>15 DEF OrphanEnds, Orphaned, Set, slotVars, jwksVars, gateVars, StoryInv, Truthful, Early,
           Types, Inside, Working, Refusals, Ambiguous, Results
<1>16. CASE OrphanCommits(r)
    BY <1>16 DEF OrphanCommits, Orphaned, Set, slotVars, jwksVars, gateVars, StoryInv, Truthful,
           Early, Types, Inside, Working, Refusals, Ambiguous, Results
<1> QED
    BY <1>1, <1>2, <1>3, <1>4, <1>5, <1>6, <1>7, <1>8, <1>9, <1>10, <1>11, <1>12, <1>13,
       <1>14, <1>15, <1>16 DEF Serve

\* The connections.
LEMMA ServePool ==
    ASSUME Types, StoryInv, PoolInv, NEW r \in Clients, Serve(r)
    PROVE  PoolInv'
<1>1. CASE SchemaChecked(r)
    BY <1>1, UndecidedSteps, UndecidedPool
<1>2. CASE Body(r)
    BY <1>2, UndecidedSteps, UndecidedPool
<1>3. CASE KeyResume(r)
    BY <1>3, UndecidedSteps, UndecidedPool
<1>4. CASE Team(r)
    BY <1>4, UndecidedSteps, UndecidedPool
<1>5. CASE Acquire(r)
    BY <1>5, ListenerAssumption DEF Acquire, Answered, Goto, Say, Set, slotVars, jwksVars, poolVars,
           gateVars, PoolInv, Pool, Holding, Held, Types, Inside, Working
<1>6. CASE Refuse(r)
    BY <1>6, ListenerAssumption DEF Refuse, Goto, Say, Set, slotVars, jwksVars, gateVars, PoolInv,
           Pool, Holding, Held, Types, Inside, Working
<1>7. CASE StatementTimeout(r)
    BY <1>7, ListenerAssumption DEF StatementTimeout, Goto, Say, slotVars, jwksVars, poolVars,
           gateVars, PoolInv, Pool, Holding, Held, Types, Inside, Working
<1>8. CASE CommitSent(r)
    BY <1>8, ListenerAssumption DEF CommitSent, Goto, Set, slotVars, jwksVars, gateVars, PoolInv,
           Pool, Holding, Held, Types, Inside, Working
<1>9. CASE Committed(r)
    BY <1>9, ListenerAssumption DEF Committed, Goto, Say, Set, slotVars, jwksVars, gateVars,
           PoolInv, Pool, Holding, Held, Types, Inside, Working
<1>10. CASE CommitLost(r)
    BY <1>10, ListenerAssumption DEF CommitLost, Goto, Say, slotVars, jwksVars, poolVars, gateVars,
           PoolInv, Pool, Holding, Held, Types, Inside, Working
<1>11. CASE Release(r)
    BY <1>11, ListenerAssumption DEF Release, Answered, Goto, Say, Freed, slotVars, jwksVars,
           gateVars, PoolInv, Pool, Holding, Held, Types, Inside, Working
<1>12. CASE Timeout(r)
    BY <1>12, ListenerAssumption DEF Timeout, TimedOut, Answered, Goto, Say, slotVars, poolVars,
           gateVars, PoolInv, Pool, Holding, Held, Types, Inside, Working
<1>13. CASE Cancelled(r)
    BY <1>13, ListenerAssumption DEF Cancelled, Answered, Goto, Say, Freed, slotVars, jwksVars,
           gateVars, PoolInv, Pool, Holding, Held, Types, Inside, Working
<1>14. CASE BackgroundRelease(r)
    BY <1>14, ListenerAssumption DEF BackgroundRelease, Freed, slotVars, jwksVars, gateVars,
           PoolInv, Pool, Holding, Held, Types, Inside, Working
<1>15. CASE OrphanEnds(r)
    BY <1>15, ListenerAssumption DEF OrphanEnds, Orphaned, Set, slotVars, jwksVars, gateVars,
           PoolInv, Pool, Holding, Held, Types, Inside, Working
<1>16. CASE OrphanCommits(r)
    BY <1>16, ListenerAssumption DEF OrphanCommits, Orphaned, Set, slotVars, jwksVars, gateVars,
           PoolInv, Pool, Holding, Held, Types, Inside, Working
<1> QED
    BY <1>1, <1>2, <1>3, <1>4, <1>5, <1>6, <1>7, <1>8, <1>9, <1>10, <1>11, <1>12, <1>13,
       <1>14, <1>15, <1>16 DEF Serve

\* The schema and the pod's right to issue.
LEMMA ServeGate ==
    ASSUME Types, StoryInv, GateInv, NEW r \in Clients, Serve(r), issuing' = issuing
    PROVE  GateInv'
<1>1. CASE SchemaChecked(r)
    BY <1>1 DEF SchemaChecked, SchemaSeen, Handle, Turned, Goto, Say, slotVars, jwksVars, poolVars,
           gateVars, GateInv, StoryInv, Early, Types, Inside, Working
<1>2. CASE Body(r)
    <2>1. Undecided(r) /\ UNCHANGED <<schema, verified, ready>> /\ phase[r] = "body"
        BY <1>2, UndecidedSteps DEF Body, gateVars
    <2>2. tx' = tx /\ \A q \in Clients : q # r => phase'[q] = phase[q]
        BY <2>1 DEF Undecided, poolVars, Types
    <2>3. phase'[r] # "schema" \/ issuing
        BY <2>1 DEF GateInv, Inside
    <2> QED
        BY <2>1, <2>2, <2>3 DEF GateInv, Inside
<1>3. CASE KeyResume(r)
    BY <1>3 DEF KeyResume, Decode, Answered, Goto, Say, slotVars, gateVars, GateInv, StoryInv,
           Early, Types, Inside, Working
<1>4. CASE Team(r)
    BY <1>4 DEF Team, Answered, Goto, Say, slotVars, jwksVars, gateVars, GateInv, StoryInv, Early,
           Types, Inside, Working
<1>5. CASE Acquire(r)
    BY <1>5 DEF Acquire, Answered, Goto, Say, Set, slotVars, jwksVars, poolVars, gateVars, GateInv,
           StoryInv, Early, Types, Inside, Working
<1>6. CASE Refuse(r)
    BY <1>6 DEF Refuse, Goto, Say, Set, slotVars, jwksVars, gateVars, GateInv, StoryInv, Early,
           Types, Inside, Working
<1>7. CASE StatementTimeout(r)
    BY <1>7 DEF StatementTimeout, Goto, Say, slotVars, jwksVars, poolVars, gateVars, GateInv,
           StoryInv, Early, Types, Inside, Working
<1>8. CASE CommitSent(r)
    BY <1>8 DEF CommitSent, Goto, Set, slotVars, jwksVars, gateVars, GateInv, StoryInv, Early,
           Types, Inside, Working
<1>9. CASE Committed(r)
    BY <1>9 DEF Committed, Goto, Say, Set, slotVars, jwksVars, gateVars, GateInv, StoryInv, Early,
           Types, Inside, Working
<1>10. CASE CommitLost(r)
    BY <1>10 DEF CommitLost, Goto, Say, slotVars, jwksVars, poolVars, gateVars, GateInv, StoryInv,
           Early, Types, Inside, Working
<1>11. CASE Release(r)
    BY <1>11 DEF Release, Answered, Goto, Say, Freed, slotVars, jwksVars, gateVars, GateInv,
           StoryInv, Early, Types, Inside, Working
<1>12. CASE Timeout(r)
    BY <1>12 DEF Timeout, TimedOut, Answered, Goto, Say, slotVars, poolVars, gateVars, GateInv,
           StoryInv, Early, Types, Inside, Working
<1>13. CASE Cancelled(r)
    BY <1>13 DEF Cancelled, Answered, Goto, Say, Freed, slotVars, jwksVars, gateVars, GateInv,
           StoryInv, Early, Types, Inside, Working
<1>14. CASE BackgroundRelease(r)
    BY <1>14 DEF BackgroundRelease, Freed, slotVars, jwksVars, gateVars, GateInv, StoryInv, Early,
           Types, Inside, Working
<1>15. CASE OrphanEnds(r)
    BY <1>15 DEF OrphanEnds, Orphaned, Set, slotVars, jwksVars, gateVars, GateInv, StoryInv, Early,
           Types, Inside, Working
<1>16. CASE OrphanCommits(r)
    BY <1>16 DEF OrphanCommits, Orphaned, Set, slotVars, jwksVars, gateVars, GateInv, StoryInv,
           Early, Types, Inside, Working
<1> QED
    BY <1>1, <1>2, <1>3, <1>4, <1>5, <1>6, <1>7, <1>8, <1>9, <1>10, <1>11, <1>12, <1>13,
       <1>14, <1>15, <1>16 DEF Serve

------------------------------------------------------------------------------
(* The other steps.                                                         *)

LEMMA SlotsKept ==
    ASSUME Types, SlotInv, NEW r \in Clients, Moves(r)
    PROVE  SlotInv'
<1>1. PICK p : /\ phase' = [phase EXCEPT ![r] = p]
               /\ \/ p \in Inside /\ phase[r] \notin Inside /\ inflight < Slots
                     /\ inflight' = inflight + 1
                  \/ p \notin Inside /\ phase[r] \in Inside /\ inflight' = inflight - 1
                  \/ (p \in Inside <=> phase[r] \in Inside) /\ inflight' = inflight
    BY DEF Moves
<1>2. Cardinality(Insiders) \in Nat /\ Slots \in Nat
    BY InsidersFinite, ListenerAssumption
<1>3. \/ inflight < Slots /\ inflight' = inflight + 1
         /\ Cardinality(Insiders)' = Cardinality(Insiders) + 1
      \/ inflight' = inflight - 1 /\ Cardinality(Insiders)' = Cardinality(Insiders) - 1
      \/ inflight' = inflight /\ Cardinality(Insiders)' = Cardinality(Insiders)
    BY <1>1, Entering
<1> QED
    BY <1>2, <1>3 DEF SlotInv

\* The route's first turn.
LEMMA IssueStep ==
    ASSUME IssuanceInv, NEW r \in Clients, NEW method \in {"POST", "GET"},
           Issue(r, issuing, method), issuing \in BOOLEAN, UNCHANGED <<issuing, config>>
    PROVE  IssuanceInv'
<1>1. Undecided(r) /\ phase[r] = "idle"
    BY UndecidedSteps DEF IssuanceInv, Issue
<1>2. Moves(r)
    BY DEF IssuanceInv, Issue, Handle, Turned, Goto, Say, slotVars, Moves, Types, Inside, Working
<1>3. Types'
    <2>1. /\ now' = now /\ schema' = schema /\ verified' = verified
          /\ checkedAt' \in {Never} \union 0..MaxTime
          /\ probe' = probe /\ ready' = ready /\ inflight' \in Int /\ tokens' \in 0..Burst
          /\ published' = published
          /\ UNCHANGED <<keys, refreshedAt, failedAt, fetch, awaited, fetches>>
        BY ListenerAssumption DEF IssuanceInv, Issue, Handle, Turned, slotVars, jwksVars, Types
    <2> QED
        BY <1>1, <2>1, UndecidedTypes DEF IssuanceInv, Types
<1>4. GateInv'
    <2>1. /\ tx' = tx /\ schema' = schema /\ verified' = verified /\ ready' = ready
          /\ \A q \in Clients : q # r => phase'[q] = phase[q]
        BY <1>1 DEF Undecided, Issue, poolVars, IssuanceInv, Types
    <2>2. tx[r] = "none"
        BY <1>1 DEF IssuanceInv, StoryInv, Early
    <2>3. phase'[r] \in Inside => verified /\ issuing
        BY DEF Issue, Turned, Goto, IssuanceInv, Types, Inside, Working
    <2>4. phase'[r] = "schema" => issuing
        BY DEF Issue, Handle, Turned, Goto, IssuanceInv, Types
    <2> QED
        BY <2>1, <2>2, <2>3, <2>4 DEF IssuanceInv, GateInv
<1> QED
    BY <1>1, <1>2, <1>3, <1>4, UndecidedStory, UndecidedPool, SlotsKept DEF IssuanceInv, ConfigInv

\* The readiness probe, Keycloak, the clock and the operator's migration touch
\* no request.
LEMMA OtherListenerStep ==
    ASSUME IssuanceInv, Probes \/ Fetching \/ Tick \/ Migrate \/ Rotate,
           UNCHANGED <<issuing, config>>
    PROVE  IssuanceInv'
<1> USE DEF gateVars, slotVars, jwksVars, poolVars
<1>1. UNCHANGED <<phase, answer, tx, holder, inflight>>
    BY DEF Probes, Ready, ReadyChecked, Fetching, FetchFails, FetchLands, ClearInflight, Tick,
           Migrate, Rotate
<1>2. Types'
    <2>1. CASE Ready
        BY <2>1 DEF Ready, IssuanceInv, Types
    <2>2. CASE ReadyChecked
        <3>1. verified' \in BOOLEAN /\ ready' \in BOOLEAN
            BY <2>2, Zenon DEF ReadyChecked, SchemaSeen, IssuanceInv, Types
        <3> QED
            BY <2>2, <3>1 DEF ReadyChecked, IssuanceInv, Types
    <2>3. CASE FetchFails
        BY <2>3 DEF FetchFails, IssuanceInv, Types, Results
    <2>4. CASE FetchLands
        BY <2>4 DEF FetchLands, IssuanceInv, Types, Results
    <2>5. CASE ClearInflight
        BY <2>5 DEF ClearInflight, IssuanceInv, Types
    <2>6. CASE Tick
        BY <2>6, ListenerAssumption DEF Tick, IssuanceInv, Types, Never
    <2>7. CASE Migrate
        BY <2>7 DEF Migrate, IssuanceInv, Types
    <2>8. CASE Rotate
        BY <2>8 DEF Rotate, IssuanceInv, Types
    <2> QED
        BY <2>1, <2>2, <2>3, <2>4, <2>5, <2>6, <2>7, <2>8 DEF Probes, Fetching
<1>3. schema = "current" => schema' = "current"
    BY DEF Probes, Ready, ReadyChecked, Fetching, FetchFails, FetchLands, ClearInflight, Tick,
           Migrate, Rotate
<1>4. (verified' \/ ready') /\ ~(verified \/ ready) => schema = "current"
    <2>1. CASE Ready \/ Fetching \/ Tick \/ Migrate \/ Rotate
        BY <2>1 DEF Ready, Fetching, FetchFails, FetchLands, ClearInflight, Tick, Migrate, Rotate
    <2>2. CASE ReadyChecked
        BY <2>2, Zenon DEF ReadyChecked, SchemaSeen
    <2> QED
        BY <2>1, <2>2 DEF Probes
<1>5. GateInv'
    BY <1>1, <1>3, <1>4 DEF IssuanceInv, GateInv
<1> QED
    BY <1>1, <1>2, <1>5 DEF IssuanceInv, StoryInv, Truthful, PoolInv, SlotInv, Insiders, ConfigInv

LEMMA ServeStep ==
    ASSUME IssuanceInv, NEW r \in Clients, Serve(r), UNCHANGED <<issuing, config>>
    PROVE  IssuanceInv'
<1>1. Types' /\ StoryInv' /\ PoolInv' /\ Moves(r) /\ GateInv'
    BY ServeTypes, ServeStory, ServePool, ServeMoves, ServeGate DEF IssuanceInv
<1> QED
    BY <1>1, SlotsKept DEF IssuanceInv, ConfigInv

LEMMA Untouched ==
    ASSUME IssuanceInv, UNCHANGED listenerVars, UNCHANGED <<issuing, config>>
    PROVE  IssuanceInv'
<1> USE DEF listenerVars, gateVars, slotVars, jwksVars, poolVars
<1>1. Types'
    BY DEF IssuanceInv, Types
<1>2. StoryInv'
    BY DEF IssuanceInv, StoryInv, Truthful
<1>3. PoolInv'
    BY DEF IssuanceInv, PoolInv
<1>4. SlotInv'
    BY DEF IssuanceInv, SlotInv, Insiders
<1>5. GateInv' /\ ConfigInv'
    BY DEF IssuanceInv, GateInv, ConfigInv
<1> QED
    BY <1>1, <1>2, <1>3, <1>4, <1>5 DEF IssuanceInv

\* The boot: it may begin to issue, and remembers a schema it has seen.
LEMMA BootStep ==
    ASSUME IssuanceInv, Booting
    PROVE  IssuanceInv'
<1>1. /\ UNCHANGED <<config, now, schema, checkedAt, probe, ready, phase, answer, inflight, tokens,
                     published, keys, refreshedAt, failedAt, fetch, awaited, fetches, holder, tx>>
    BY DEF Booting, slotVars, jwksVars, poolVars
<1>2. \/ UNCHANGED <<issuing, verified>>
      \/ /\ issuing' = TRUE /\ verified' = Reachable
         /\ ~IssuanceProblem(config.issuance, config.prod) /\ ~SchemaRefused
    BY DEF Booting, CheckPort, CheckConfig, CheckIssuance, CheckCapacity, CheckDebug, CheckExtras,
           SetupPrisma
<1>3. CASE UNCHANGED <<issuing, verified>>
    BY <1>1, <1>3, Untouched DEF listenerVars, gateVars, slotVars, jwksVars, poolVars
<1>4. CASE /\ issuing' = TRUE /\ verified' = Reachable
           /\ ~IssuanceProblem(config.issuance, config.prod) /\ ~SchemaRefused
    <2>1. verified' \in BOOLEAN
        BY <1>4, Zenon DEF Reachable
    <2>2. verified' => schema = "current"
        BY <1>4 DEF SchemaRefused, Reachable, IssuanceInv, Types
    <2>3. Types' /\ StoryInv' /\ PoolInv' /\ SlotInv'
        BY <1>1, <2>1 DEF IssuanceInv, Types, StoryInv, Truthful, PoolInv, SlotInv, Insiders
    <2>4. GateInv'
        BY <1>1, <1>4, <2>2 DEF IssuanceInv, GateInv
    <2>5. ConfigInv'
        BY <1>1, <1>4 DEF IssuanceInv, ConfigInv
    <2> QED
        BY <2>3, <2>4, <2>5 DEF IssuanceInv
<1> QED
    BY <1>2, <1>3, <1>4

LEMMA InitEstablishes == Init => IssuanceInv
<1> SUFFICES ASSUME Init PROVE IssuanceInv
    OBVIOUS
<1> USE DEF Init, ListenerInit
<1>1. PICK s \in Scenarios : config = s.config
    OBVIOUS
<1>2. schema \in {"old", "current"} /\ config.issuance.jwks \in {"https", "http", "not absolute"}
    BY <1>1, ScenarioAssumption
<1>3. Types
    <2>1. verified \in BOOLEAN /\ ready \in BOOLEAN
        BY Zenon
    <2>2. /\ now \in 0..MaxTime /\ checkedAt \in {Never} \union 0..MaxTime
          /\ probe \in {"idle", "schema"} /\ inflight \in Int /\ tokens \in 0..Burst
          /\ published \subseteq Kids /\ keys \subseteq Kids
          /\ refreshedAt \in {Never} \union 0..MaxTime /\ failedAt \in {Never} \union 0..MaxTime
          /\ fetch \in {"none", "running"} \union Results /\ fetches \in Nat
        BY ListenerAssumption
    <2>3. /\ phase \in [Clients -> {"idle", "schema", "done"} \union Inside]
          /\ answer \in [Clients -> {"none", "ok"} \union Refusals \union Ambiguous]
          /\ awaited \in [Clients -> {"none", "running"} \union Results]
          /\ holder \in [Connections -> {Pool} \union Clients]
          /\ tx \in [Clients -> {"none", "open", "maybe", "committed", "ended"}]
        OBVIOUS
    <2> QED
        BY <1>2, <2>1, <2>2, <2>3 DEF Types
<1>4. Insiders = {}
    BY DEF Insiders, Inside, Working
<1>5. SlotInv
    BY <1>4, FS_EmptySet, ListenerAssumption DEF SlotInv
<1>6. StoryInv
    BY DEF StoryInv, Truthful, Refusals, Early
<1>7. PoolInv /\ GateInv /\ ConfigInv
    BY <1>2 DEF PoolInv, GateInv, ConfigInv, Inside, Working
<1> QED
    BY <1>3, <1>5, <1>6, <1>7 DEF IssuanceInv

\* issuing is a Boolean: a part of its own, since ConfigInv only uses it as one.
IssuingInv == issuing \in BOOLEAN

LEMMA IssuingKept == IssuingInv /\ [Next]_vars => IssuingInv'
<1> SUFFICES ASSUME IssuingInv, [Next]_vars PROVE IssuingInv'
    OBVIOUS
<1>1. UNCHANGED issuing \/ issuing' = TRUE
    BY DEF Next, vars, gatewayVars, bootVars, Booting, CheckPort, CheckConfig, CheckIssuance,
           CheckCapacity, CheckDebug, CheckExtras, SetupPrisma, Lifespan, Gate, Listener,
           MigrateEarly, Ended
<1> QED
    BY <1>1 DEF IssuingInv

LEMMA StepKeeps == IssuanceInv /\ IssuingInv /\ [Next]_vars => IssuanceInv'
<1> SUFFICES ASSUME IssuanceInv, IssuingInv, [Next]_vars PROVE IssuanceInv'
    OBVIOUS
<1>1. CASE Booting
    BY <1>1, BootStep
<1>2. CASE UNCHANGED listenerVars /\ UNCHANGED <<issuing, config>>
    BY <1>2, Untouched
<1>3. CASE Lifespan \/ Gate \/ Ended \/ UNCHANGED vars
    BY <1>2, <1>3 DEF Lifespan, Gate, Ended, vars, gatewayVars, bootVars
<1>4. CASE Listener
    <2>1. UNCHANGED <<issuing, config>>
        BY <1>4 DEF Listener, gatewayVars, bootVars
    <2>2. ASSUME NEW r \in Clients, Admit(r) PROVE IssuanceInv'
        BY <2>1, <2>2, IssueStep DEF Admit, IssuingInv
    <2>3. ASSUME NEW r \in Clients, Serve(r) PROVE IssuanceInv'
        BY <2>1, <2>3, ServeStep
    <2>4. CASE Probes \/ Fetching \/ Tick \/ Migrate \/ Rotate
        BY <2>1, <2>4, OtherListenerStep
    <2> QED
        BY <1>4, <2>2, <2>3, <2>4 DEF Listener
<1>5. CASE MigrateEarly
    BY <1>5, OtherListenerStep DEF MigrateEarly, gatewayVars, bootVars
<1> QED
    BY <1>1, <1>3, <1>4, <1>5 DEF Next

\* The invariant the theorems about issuance follow from: what ControlListener's
\* steps and the boot leave behind.
THEOREM IssuanceInvariant == Spec => [](IssuanceInv /\ IssuingInv)
<1>1. Init => IssuanceInv /\ IssuingInv
    BY InitEstablishes DEF Init, IssuingInv
<1>2. IssuanceInv /\ IssuingInv /\ [Next]_vars => (IssuanceInv /\ IssuingInv)'
    BY StepKeeps, IssuingKept
<1> QED
    BY <1>1, <1>2, PTL DEF Spec

\* The issuance route and what it stands on keep their types (healthz/server.py,
\* healthz/checks.py, tokens/oidc_verifier.py, pg_session.py).
THEOREM ListenerTypeCorrect == Spec => []TypeOK
<1>1. IssuanceInv => TypeOK
    BY InsidersFinite, ListenerAssumption DEF IssuanceInv, SlotInv, Types, TypeOK
<1> QED
    BY <1>1, IssuanceInvariant, PTL

\* What the issuance route answers is what the store did, for any clients and
\* however their transactions are abandoned (HealthRouter._issue).
THEOREM AnswersTheorem == Spec => []AnsweredTruthfully
<1>1. IssuanceInv => AnsweredTruthfully
    BY DEF IssuanceInv, StoryInv, Truthful, AnsweredTruthfully
<1> QED
    BY <1>1, IssuanceInvariant, PTL

\* No slot and no connection of the issuance route is lost or counted twice
\* (HealthRouter._handle_issue_token, pg_session.run_on_connection).
THEOREM SlotsTheorem == Spec => []IssuanceAccounted
<1>1. ASSUME IssuanceInv, NEW r \in Clients PROVE Cardinality(Held(r)) <= 1
    <2>1. \A c, d \in Held(r) : c = d
        BY <1>1, ListenerAssumption DEF Held, IssuanceInv, PoolInv, Pool
    <2>2. CASE Held(r) = {}
        BY <2>2, FS_EmptySet
    <2>3. CASE Held(r) # {}
        <3>1. PICK c \in Held(r) : Held(r) = {c}
            BY <2>1, <2>3
        <3>2. Cardinality({c}) = 1
            BY FS_Singleton
        <3> QED
            BY <3>1, <3>2
    <2> QED
        BY <2>2, <2>3
<1>2. IssuanceInv => IssuanceAccounted
    BY <1>1 DEF IssuanceInv, PoolInv, SlotInv, Insiders, IssuanceAccounted
<1> QED
    BY <1>2, IssuanceInvariant, PTL

\* No token before the schema was seen, and none by a pod whose issuance
\* settings are unsafe (IssuanceSchemaGate, _check_issuance).
THEOREM MintingTheorem == Spec => []MintingGuarded
<1>1. IssuanceInv => MintingGuarded
    <2> SUFFICES ASSUME IssuanceInv PROVE MintingGuarded
        OBVIOUS
    <2>1. Minted # {} => schema = "current" /\ issuing
        BY DEF Minted, IssuanceInv, GateInv
    <2>2. issuing => /\ config.issuance.audience # config.issuance.operatorAudience
                     /\ config.prod => config.issuance.jwks = "https"
        BY DEF IssuanceInv, ConfigInv, IssuanceProblem, UrlProblem
    <2> QED
        BY <2>1, <2>2 DEF MintingGuarded, IssuanceInv, GateInv
<1> QED
    BY <1>1, IssuanceInvariant, PTL

------------------------------------------------------------------------------
(* The key fetches.  The k-th starts no earlier than k - 1 gaps after the    *)
(* clock's zero: a fetch that is over, cleared by its done callback or not,  *)
(* left the time it ended in one of the two stamps, and the next one waits   *)
(* for that stamp to be a gap old.                                           *)

Gap == IF Cooldown < Backoff THEN Cooldown ELSE Backoff

Stamped(stamp) == stamp # Never /\ fetches * Gap <= stamp + Gap

FetchInv ==
    /\ fetches * Gap <= now + Gap
    /\ fetches # 0 /\ fetch # "running" => Stamped(failedAt) \/ Stamped(refreshedAt)

fetchVars == <<now, fetch, fetches, refreshedAt, failedAt>>

\* key_for creates the task.
Starts ==
    /\ fetch = "none" /\ fetch' = "running" /\ fetches' = fetches + 1
    /\ ~Within(failedAt, Backoff) /\ ~Within(refreshedAt, Cooldown)
    /\ UNCHANGED <<now, refreshedAt, failedAt>>

LEMMA FetchEffects ==
    ASSUME [Next]_vars
    PROVE  \/ UNCHANGED fetchVars \/ Starts \/ FetchFails \/ FetchLands \/ ClearInflight \/ Tick
<1> USE DEF fetchVars, jwksVars, gateVars, slotVars, poolVars
<1>1. CASE Booting
    BY <1>1 DEF Booting
<1>2. CASE Lifespan \/ Gate \/ Ended \/ UNCHANGED vars
    BY <1>2 DEF Lifespan, Gate, Ended, vars, listenerVars
<1>3. CASE MigrateEarly
    BY <1>3 DEF MigrateEarly, Migrate
<1>4. CASE Listener
    <2>1. ASSUME NEW r \in Clients, Admit(r) PROVE UNCHANGED fetchVars
        BY <2>1 DEF Admit, Issue
    <2>2. ASSUME NEW r \in Clients, Body(r) PROVE UNCHANGED fetchVars \/ Starts
        BY <2>2 DEF Body, KeyFor, Starts
    <2>3. ASSUME NEW r \in Clients, Serve(r), ~Body(r) PROVE UNCHANGED fetchVars
        BY <2>3 DEF Serve, SchemaChecked, KeyResume, Team, Acquire, Refuse, StatementTimeout,
               CommitSent, Committed, CommitLost, Release, Timeout, Cancelled, BackgroundRelease,
               OrphanEnds, OrphanCommits
    <2>4. CASE Probes \/ Migrate \/ Rotate
        BY <2>4 DEF Probes, Ready, ReadyChecked, Migrate, Rotate
    <2> QED
        BY <1>4, <2>1, <2>2, <2>3, <2>4 DEF Listener, Fetching
<1> QED
    BY <1>1, <1>2, <1>3, <1>4 DEF Next

LEMMA FetchKept == FetchInv /\ Types /\ [Next]_vars => FetchInv'
<1> SUFFICES ASSUME FetchInv, Types, [Next]_vars PROVE FetchInv'
    OBVIOUS
<1> DEFINE due == fetches * Gap
<1>1. Gap \in Nat /\ Gap <= Cooldown /\ Gap <= Backoff
    BY ListenerAssumption DEF Gap
<1>2. /\ now \in Nat /\ fetches \in Nat
      /\ refreshedAt \in Int /\ failedAt \in Int
      /\ due \in Nat /\ (fetches = 0 => due = 0) /\ (fetches + 1) * Gap = due + Gap
    BY <1>1, ListenerAssumption DEF Types, Never
<1>3. CASE UNCHANGED fetchVars
    BY <1>3 DEF fetchVars, FetchInv, Stamped
<1>4. CASE Starts
    <2>1. due <= now
        <3>1. CASE fetches = 0
            BY <1>2, <3>1
        <3>2. CASE Stamped(failedAt)
            BY <1>1, <1>2, <1>4, <3>2, ListenerAssumption DEF Starts, Within, Stamped
        <3>3. CASE Stamped(refreshedAt)
            BY <1>1, <1>2, <1>4, <3>3, ListenerAssumption DEF Starts, Within, Stamped
        <3> QED
            BY <1>4, <3>1, <3>2, <3>3 DEF FetchInv, Starts
    <2>2. fetches' * Gap = due + Gap
        BY <1>2, <1>4 DEF Starts
    <2> QED
        BY <1>1, <1>2, <1>4, <2>1, <2>2 DEF Starts, FetchInv
<1>5. CASE FetchFails
    BY <1>2, <1>5 DEF FetchFails, FetchInv, Stamped, Never
<1>6. CASE FetchLands
    BY <1>2, <1>6 DEF FetchLands, FetchInv, Stamped, Never
<1>7. CASE ClearInflight
    BY <1>7 DEF ClearInflight, FetchInv, Stamped, Results
<1>8. CASE Tick
    BY <1>1, <1>2, <1>8 DEF Tick, FetchInv, Stamped, jwksVars
<1> QED
    BY <1>3, <1>4, <1>5, <1>6, <1>7, <1>8, FetchEffects

LEMMA Quotient ==
    ASSUME NEW n \in Nat, NEW t \in Nat, NEW g \in Nat \ {0}, n * g <= t + g
    PROVE  n <= 1 + t \div g
<1> DEFINE q == t \div g
<1>1. q \in Nat /\ t < (q + 1) * g
    OBVIOUS
<1>2. (q + 1) * g + g = (q + 2) * g
    BY <1>1
<1>3. n * g < (q + 2) * g
    BY <1>1, <1>2
<1>4. n < q + 2
    BY <1>1, <1>3
<1> QED
    BY <1>1, <1>4

\* However many callers present key ids nobody knows, the pod asks Keycloak no
\* more often than once a gap (JwksClient.key_for and its done callback).
THEOREM FetchTheorem == Spec => []FetchesBounded
<1>1. Init => FetchInv
    BY ListenerAssumption DEF Init, ListenerInit, FetchInv, Gap
<1>2. IssuanceInv => Types
    BY DEF IssuanceInv
<1>3. Types /\ FetchInv => FetchesBounded
    <2> SUFFICES ASSUME Types, FetchInv PROVE FetchesBounded
        OBVIOUS
    <2>1. now \in Nat /\ fetches \in Nat /\ Gap \in Nat \ {0} /\ Gap \in {Cooldown, Backoff}
        BY ListenerAssumption DEF Types, Gap
    <2>2. fetches <= 1 + now \div Gap
        BY <2>1, Quotient DEF FetchInv
    <2> QED
        BY <2>1, <2>2 DEF FetchesBounded
<1> QED
    BY <1>1, <1>2, <1>3, FetchKept, IssuanceInvariant, PTL DEF Spec

------------------------------------------------------------------------------
(* The route gate, for any settings, extras and requests.  Of the tables the *)
(* proof uses one fact: no row is for HEAD.  The invariant follows the boot  *)
(* (each check passed holds from then on), the arming, and the request at    *)
(* the gate.                                                                 *)

\* _HEAD_NEVER_REWRITTEN stands on it: HEAD is nowhere a row's own method.
LEMMA NoHeadRow == ASSUME NEW path PROVE Lookup("HEAD", path) = None
<1>1. Exact("HEAD", path) = None
    BY DEF Exact, At, LitellmOther, GatewayRouteTable, None
<1>2. \A i \in DOMAIN LitellmRegexTable : LitellmRegexTable[i].method # "HEAD"
    BY DEF LitellmRegexTable
<1> QED
    BY <1>1, <1>2 DEF Lookup

\* A request that passes runs no handler the tables refuse or rewrite.
LEMMA PassthroughRuns ==
    ASSUME NEW r, NEW e, Classify(r, e) = "passthrough"
    PROVE  Handler(r) \notin {"refuse", "rewritten"}
<1>1. Resolve(r.method, r.path, e) = "passthrough"
    BY DEF Classify, None
<1>2. CASE r.method # "HEAD"
    BY <1>1, <1>2 DEF Resolve, Direct, Handler, None
<1>3. CASE r.method = "HEAD"
    <2>1. Lookup("HEAD", r.path) = None
        BY NoHeadRow
    <2>2. CASE Lookup("GET", r.path) = None
        BY <1>3, <2>2 DEF Handler, None
    <2>3. CASE Lookup("GET", r.path) # None
        BY <1>1, <1>3, <2>1, <2>3 DEF Resolve, First, Handler, None
    <2> QED
        BY <2>2, <2>3
<1> QED
    BY <1>2, <1>3

\* One that is rewritten is no HEAD and runs a rewritten handler.
LEMMA RewrittenRuns ==
    ASSUME NEW r, NEW e, Classify(r, e) = "rewritten"
    PROVE  r.method # "HEAD" /\ Handler(r) = "rewritten"
<1>1. Resolve(r.method, r.path, e) = "rewritten"
    BY DEF Classify, None
<1>2. r.method # "HEAD"
    BY <1>1 DEF Resolve
<1> QED
    BY <1>1, <1>2 DEF Resolve, Direct, Handler, None

------------------------------------------------------------------------------

Request == [type : STRING, upgrade : BOOLEAN, malformed : BOOLEAN, method : STRING,
            path : STRING, ctype : STRING, body : STRING, callId : BOOLEAN]

ResponsePath == {"response mappings", "ticket hook", "cancel hook"}

\* What the boot has checked by now.
PastCapacity == {"debug", "extras", "prisma", "startup", "serving", "stopped"}
PastDebug == PastCapacity \ {"debug"}

BootInv ==
    /\ boot \in PastCapacity => ~CapacityProblem(config.capacity, config.prod)
    /\ boot \in PastDebug => ~(config.allowDebug /\ config.prod)
    /\ config.guardrail # "debug"

ArmedInv ==
    armed =>
        /\ boot \in {"serving", "stopped"}
        /\ ArmProblems = {}
        /\ ResponsePath \subseteq bound

\* The request at the gate is one that was offered, judged by extras that no
\* longer change.
CallInv ==
    /\ offered \subseteq Request
    /\ at # "idle" => boot \in {"serving", "stopped"} /\ req \in Request
    /\ at = "draining" => armed /\ Classify(req, extras) = "rewritten"

\* What a request that runs a rewritten handler found.
Guarded(q) ==
    /\ q.method # "HEAD"
    /\ armed
    /\ ~NotJson(q) /\ q.body \notin {"policies", "escaped policies"} /\ ~q.callId

ReachedInv ==
    \A h \in reached :
        /\ Handler(h.request) # "refuse"
        /\ Handler(h.request) = "rewritten" => Guarded(h.request)

RouteInv == BootInv /\ ArmedInv /\ CallInv /\ ReachedInv

LEMMA RouteInit == Init => RouteInv
<1> SUFFICES ASSUME Init PROVE RouteInv
    OBVIOUS
<1>1. PICK s \in Scenarios : config = s.config /\ offered = s.requests
    BY DEF Init
<1>2. config.guardrail # "debug" /\ offered \subseteq Request
    BY <1>1, ScenarioAssumption DEF Request
<1>3. boot = "port" /\ ~armed /\ at = "idle" /\ reached = {}
    BY DEF Init
<1> QED
    BY <1>2, <1>3 DEF RouteInv, BootInv, ArmedInv, CallInv, ReachedInv, PastCapacity, PastDebug

\* A boot step passes its check or exits; nothing has been received yet.
LEMMA BootKeeps ==
    ASSUME RouteInv, Booting
    PROVE  RouteInv'
<1>1. /\ boot \in {"port", "config", "issuance", "capacity", "debug", "extras", "prisma"}
      /\ UNCHANGED <<config, offered, bound, armed, req, at, reached>>
    BY DEF Booting, CheckPort, CheckConfig, CheckIssuance, CheckCapacity, CheckDebug, CheckExtras,
           SetupPrisma, lifeVars, callVars
<1>2. ~armed /\ at = "idle"
    BY <1>1 DEF RouteInv, ArmedInv, CallInv
<1>3. /\ boot' \in PastCapacity =>
             boot \in PastCapacity \/ ~CapacityProblem(config.capacity, config.prod)
      /\ boot' \in PastDebug => boot \in PastDebug \/ ~(config.allowDebug /\ config.prod)
    BY DEF Booting, CheckPort, CheckConfig, CheckIssuance, CheckCapacity, CheckDebug, CheckExtras,
           SetupPrisma, Proceed, Exit, PastCapacity, PastDebug
<1>4. BootInv'
    BY <1>1, <1>3 DEF RouteInv, BootInv
<1>5. ReachedInv'
    BY <1>1 DEF RouteInv, ReachedInv, Guarded
<1> QED
    BY <1>1, <1>2, <1>4, <1>5 DEF RouteInv, ArmedInv, CallInv

LEMMA LifespanKeeps ==
    ASSUME RouteInv, Lifespan
    PROVE  RouteInv'
<1>1. UNCHANGED <<config, offered, extras, req, at, reached>>
    BY DEF Lifespan, callVars
<1>2. /\ boot' \in PastCapacity => boot \in PastCapacity
      /\ boot' \in PastDebug => boot \in PastDebug
      /\ boot \in {"serving", "stopped"} => boot' \in {"serving", "stopped"}
    BY DEF Lifespan, ArmLifespan, RefuseToArm, StartupFails, Shutdown, Proceed, Exit,
           PastCapacity, PastDebug
<1>3. BootInv'
    BY <1>1, <1>2 DEF RouteInv, BootInv
<1>4. \/ /\ armed' = TRUE /\ ArmProblems = {} /\ bound' = Hooks /\ boot' = "serving"
      \/ armed' = armed /\ bound \ {"task factory"} \subseteq bound'
    BY DEF Lifespan, ArmLifespan, RefuseToArm, StartupFails, Shutdown, lifeVars, Proceed
<1>5. ArmProblems' = ArmProblems
    BY <1>1 DEF ArmProblems, LiveProblems
<1>6. ArmedInv'
    BY <1>2, <1>4, <1>5 DEF RouteInv, ArmedInv, ResponsePath, Hooks
<1>7. armed => armed'
    BY <1>4
<1>8. CallInv' /\ ReachedInv'
    BY <1>1, <1>2, <1>7 DEF RouteInv, CallInv, ReachedInv, Guarded
<1> QED
    BY <1>3, <1>6, <1>8 DEF RouteInv

\* What is handed on is the request without its call id.
LEMMA HandedOn ==
    ASSUME RouteInv, HandsOn, req \in Request, UNCHANGED armed,
           Handler(req) # "refuse",
           Handler(req) = "rewritten" =>
               /\ req.method # "HEAD" /\ armed
               /\ BodyProblem(req) = None
    PROVE  ReachedInv'
<1> DEFINE q == WithoutCallId(req)
<1>1. /\ q \in Request /\ ~q.callId /\ q.method = req.method /\ q.path = req.path
      /\ q.ctype = req.ctype /\ q.body = req.body
    BY DEF WithoutCallId, Request
<1>2. Handler(q) = Handler(req)
    BY <1>1 DEF Handler
<1>3. Handler(q) = "rewritten" => Guarded(q)
    BY <1>1, <1>2 DEF Guarded, BodyProblem, NotJson, None
<1>4. \A h \in reached' : h \in reached \/ h.request = q
    BY DEF HandsOn
<1> HIDE DEF q
<1>5. \A h \in reached' : /\ Handler(h.request) # "refuse"
                          /\ Handler(h.request) = "rewritten" => Guarded(h.request)
    BY <1>2, <1>3, <1>4 DEF ReachedInv, RouteInv
<1> QED
    BY <1>5 DEF ReachedInv, Guarded

LEMMA GateKeeps ==
    ASSUME RouteInv, Gate
    PROVE  RouteInv'
<1>1. UNCHANGED <<config, offered, boot, extras, bound, armed>>
    BY DEF Gate, bootVars, lifeVars
<1>2. BootInv' /\ ArmedInv'
    BY <1>1 DEF RouteInv, BootInv, ArmedInv, ArmProblems, LiveProblems
<1>3. CallInv'
    <2>1. CASE Receive
        BY <1>1, <2>1 DEF Receive, RouteInv, CallInv
    <2>2. CASE Judge
        BY <1>1, <2>2 DEF Judge, Refuses, HandsOn, RouteInv, CallInv
    <2>3. CASE Drain \/ Audit \/ Handshake
        BY <1>1, <2>3 DEF Drain, Audit, Handshake, Refuses, HandsOn, RouteInv, CallInv
    <2> QED
        BY <2>1, <2>2, <2>3 DEF Gate
<1>4. CASE reached' = reached
    BY <1>1, <1>2, <1>3, <1>4 DEF RouteInv, ReachedInv, Guarded
<1>5. CASE Judge /\ HandsOn /\ Classify(req, extras) = "passthrough"
    <2>1. Handler(req) \notin {"refuse", "rewritten"} /\ req \in Request
        BY <1>5, PassthroughRuns DEF Judge, RouteInv, CallInv
    <2> QED
        BY <1>1, <1>2, <1>3, <1>5, <2>1, HandedOn DEF RouteInv
<1>6. CASE Drain /\ HandsOn /\ BodyProblem(req) = None
    <2>1. armed /\ req.method # "HEAD" /\ Handler(req) = "rewritten" /\ req \in Request
        BY <1>6, RewrittenRuns DEF Drain, RouteInv, CallInv
    <2> QED
        BY <1>1, <1>2, <1>3, <1>6, <2>1, HandedOn DEF RouteInv
<1> QED
    BY <1>4, <1>5, <1>6 DEF Gate, Receive, Judge, Drain, Audit, Handshake, Refuses

LEMMA RouteStep == RouteInv /\ [Next]_vars => RouteInv'
<1> SUFFICES ASSUME RouteInv, [Next]_vars PROVE RouteInv'
    OBVIOUS
<1>1. CASE UNCHANGED gatewayVars
    BY <1>1 DEF gatewayVars, bootVars, lifeVars, callVars, RouteInv, BootInv, ArmedInv, ArmProblems,
                LiveProblems, CallInv, ReachedInv, Guarded
<1>2. CASE Listener \/ MigrateEarly \/ Ended \/ UNCHANGED vars
    BY <1>1, <1>2 DEF Listener, MigrateEarly, Ended, vars
<1> QED
    BY <1>2, BootKeeps, LifespanKeeps, GateKeeps DEF Next

\* The invariant of the boot, the arming and the gate.
THEOREM RouteInvariant == Spec => []RouteInv
<1> QED
    BY RouteInit, RouteStep, PTL DEF Spec

LEMMA WithinBounds ==
    ASSUME NEW raw, NEW lowest \in Int, NEW highest \in Int, InBounds(raw, lowest, highest)
    PROVE  raw # Unparsed /\ raw[1] \in Int /\ raw[1] >= lowest
<1> DEFINE x == raw[1]
<1>1. x \in lowest..highest /\ raw # Unparsed
    BY DEF InBounds
<1> HIDE DEF x
<1>2. x \in Int /\ x >= lowest
    BY <1>1
<1> QED
    BY <1>1, <1>2 DEF x

\* What ~CapacityProblem says of the bounds InflightLimiter is built with.
LEMMA CapacityBounds ==
    ASSUME NEW v, NEW prod, ~CapacityProblem(v, prod)
    PROVE  /\ prod => MaxInflight(v) > 0
           /\ MaxDraining(v) >= MaxInflight(v)
           /\ v.bytes[1] >= MAX_DRAINING_BYTES_FLOOR
<1>1. /\ MAX_INFLIGHT_CEILING \in Int /\ MAX_DRAINING_CEILING \in Int
      /\ MAX_DRAINING_BYTES_FLOOR \in Int /\ MAX_DRAINING_BYTES_CEILING \in Int
    BY DEF MAX_INFLIGHT_CEILING, MAX_DRAINING_CEILING, DRAINING_PER_SLOT,
           MAX_DRAINING_BYTES_FLOOR, MAX_DRAINING_BYTES_CEILING
<1>2. MaxInflight(v) \in Int /\ MaxInflight(v) >= 0
    <2>1. InBounds(v.inflight, 0, MAX_INFLIGHT_CEILING)
        BY DEF CapacityProblem
    <2> QED
        BY <1>1, <2>1, WithinBounds DEF MaxInflight
<1>3. prod => MaxInflight(v) > 0
    BY <1>2 DEF CapacityProblem
<1>4. v.bytes[1] >= MAX_DRAINING_BYTES_FLOOR
    <2>1. InBounds(v.bytes, MAX_DRAINING_BYTES_FLOOR, MAX_DRAINING_BYTES_CEILING)
        BY DEF CapacityProblem
    <2> QED
        BY <1>1, <2>1, WithinBounds
<1>5. MaxDraining(v) >= MaxInflight(v)
    <2>1. CASE v.drainingSet
        <3>1. InBounds(v.draining, 0, MAX_DRAINING_CEILING) /\ ~(MaxDraining(v) < MaxInflight(v))
            BY <2>1 DEF CapacityProblem
        <3>2. MaxDraining(v) \in Int
            BY <1>1, <2>1, <3>1, WithinBounds DEF MaxDraining
        <3> QED
            BY <1>2, <3>1, <3>2
    <2>2. CASE ~v.drainingSet
        <3>1. MaxDraining(v) = 4 * MaxInflight(v)
            BY <2>2 DEF MaxDraining, DRAINING_PER_SLOT
        <3> QED
            BY <1>2, <3>1
    <2> QED
        BY <2>1, <2>2
<1> QED
    BY <1>3, <1>4, <1>5

\* No request reaches a litellm handler that the gate does not guard, for any
\* settings, extras and requests (route_gate/middleware.py, classify.py, asgi.py).
THEOREM GuardedTheorem == Spec => []OnlyGuarded
<1>1. RouteInv => OnlyGuarded
    <2> SUFFICES ASSUME RouteInv, armed, boot \in {"serving", "stopped"}
                 PROVE  /\ ResponsePath \subseteq bound
                        /\ config.guardrail = "ok" /\ ~config.compressor
                        /\ config.prod => ~config.debug /\ MaxInflight(config.capacity) > 0
                        /\ MaxDraining(config.capacity) >= MaxInflight(config.capacity)
                        /\ config.capacity.bytes[1] >= MAX_DRAINING_BYTES_FLOOR
        BY DEF RouteInv, ArmedInv, ReachedInv, Guarded, OnlyGuarded, ResponsePath
    <2>1. ~CapacityProblem(config.capacity, config.prod) /\ ~(config.allowDebug /\ config.prod)
        BY DEF RouteInv, BootInv, PastCapacity, PastDebug
    <2>2. ArmProblems = {} /\ config.guardrail # "debug" /\ ResponsePath \subseteq bound
        BY DEF RouteInv, ArmedInv, BootInv
    <2>3. config.guardrail = "ok" /\ ~config.compressor /\ (config.prod => ~config.debug)
        BY <2>1, <2>2 DEF ArmProblems, LiveProblems
    <2> QED
        BY <2>1, <2>2, <2>3, CapacityBounds
<1> QED
    BY <1>1, RouteInvariant, PTL

=============================================================================
