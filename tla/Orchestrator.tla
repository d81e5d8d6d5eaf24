---------------------------- MODULE Orchestrator ----------------------------
(***************************************************************************)
(* sanitizer/orchestrator.py, sanitizer/profile_orchestrator.py,           *)
(* profiles/resolver.py, rules/cached.py and storage/: requests that       *)
(* sanitize a text each, on several pods that share one mapping store.     *)
(* A pod is configured once (Core) and builds one more orchestrator for    *)
(* the profile layers its teams select, when the first of them asks.       *)
(***************************************************************************)
EXTENDS SpanPlan, Profiles

CONSTANTS
    Requests,       \* concurrent sanitize() calls
    Inputs,         \* request -> [pod, team, conv, text]: what the calls may be given
    Pods,
    Core(_),        \* a pod's own orchestrator
    Teams,
    Selected(_),    \* the profile ids of a team; <<>> for a team nobody configured
    DefaultIds,     \* default_profile_ids
    RuleFiles,      \* the contents a team's replace.md may have
    Roots,          \* the contents the profile root may have
    TermFinds(_, _),    \* where a gazetteer term, in any inflection, is in a text
    Oracle(_, _),   \* the pairs the corp LLM answers with, for a text and rules
    Sampled(_, _),  \* _sample_selected, for a conversation and a text
    Unsigned,       \* detectors whose policy_signature() raises
    None,
    MaxEdits        \* edits of a file on disk in one behaviour

\* A text is a sequence of characters; None is no outcome of a call.
ASSUME OrchestratorAssumption ==
    /\ \A i \in Inputs : \A r \in Requests : i[r].text \in Seq(ToSet(i[r].text))
    /\ None # "delivered"

VARIABLES
    ruleFile,       \* team -> its replace.md
    root,           \* the profile root on disk
    edits,
    ruleCache,      \* pod, team -> CachedRulesLoader's entry, None if none is fresh
    ruleLock,       \* pod, team -> the request that reads replace.md
    memo,           \* pod, layer key -> ProfileResolver's and the wrapper's memo
    cacheA,         \* content hash -> pairs
    cacheB,         \* conversation, original -> placeholder (and back)
    req             \* the requests

orchVars == <<ruleFile, root, edits, ruleCache, ruleLock, memo, cacheA, cacheB, req>>
------------------------------------------------------------------------------
(* An orchestrator: [dets, codeSafe, gaz, allow, trigger, oracle, threshold, *)
(* oversize, deliver, window, overlap].  gaz is a set of <<term, label>>.    *)

HasGazetteer(o) == o.gaz # {}
GazFindings(o, text) == Deduplicate(UNION {TermFinds(t, text) : t \in o.gaz})

OracleShouldRun(o, gaz, local, rulesPairs, conv, text) ==
    /\ o.oracle
    /\ \/ gaz # {}
       \/ o.trigger.mode = "sampled" /\ Sampled(conv, text)
       \/ o.trigger.mode = "always"
       \/ o.trigger.mode = "any_local_finding" /\ (local # {} \/ rulesPairs # <<>>)

(* _detect: the pairs of one text.  With a gazetteer the oracle is asked    *)
(* when the trigger says so, without one always, if it is on.               *)
\* The detectors a pass runs: a chunk's is without the regex one.
PassOf(o, chunked) ==
    IF chunked THEN [dets |-> o.dets \ {"regex"}, code |-> o.codeSafe \ {"regex"}]
    ELSE [dets |-> o.dets, code |-> o.codeSafe]

Detect(o, text, rules, conv, chunked) ==
    LET rulesPairs == RulesPairs(text, RuleMatches(rules, text))
        pass == PassOf(o, chunked)
        local == LocalFindings(pass.dets, pass.code, text)
        gaz == GazFindings(o, text)
        asked == IF HasGazetteer(o) THEN OracleShouldRun(o, gaz, local, rulesPairs, conv, text)
                 ELSE o.oracle
        base == IF asked THEN rulesPairs \o Oracle(text, rules) ELSE rulesPairs
    IN  FilterPairs(o.allow, MergeLocal(base, IF HasGazetteer(o) THEN Deduplicate(local \cup gaz)
                                              ELSE local))

\* Nothing to sanitize with: no gazetteer, no detector and no oracle.
NothingLeft(o, chunked) == ~HasGazetteer(o) /\ PassOf(o, chunked).dets = {} /\ ~o.oracle

Sanitized(o, text, rules, conv) ==
    LET matches == RuleMatches(rules, text)
        pairs == Detect(o, text, rules, conv, FALSE)
    IN  PlanReplacements(text, pairs, matches, ActiveRules(pairs, matches))

(* _sanitize_chunked: the rules and the regex detector on the whole text,   *)
(* everything else window by window, the first placeholder of an original   *)
(* kept.  The allocator gives a placeholder that is taken a new number,     *)
(* except to a rule's replacement.                                          *)
Absorb(exempt, acc, pair) ==
    IF \E p \in ToSet(acc) : p[1] = pair[1] THEN acc
    ELSE IF pair[1] \notin exempt /\ \E p \in ToSet(acc) : p[2] = pair[2]
    THEN Append(acc, <<pair[1], [pair[2] EXCEPT !.n = FreshNumber(acc, pair[2].label)]>>)
    ELSE Append(acc, pair)

SanitizedChunked(o, text, rules, conv) ==
    LET matches == RuleMatches(rules, text)
        rulePairs == FilterPairs(o.allow, RulesPairs(text, matches))
        active == {p[1] : p \in ToSet(rulePairs)}
        regex == MergeLocal(<<>>, Finds("regex", text))
        chunks == Chunks(text, o.window, o.overlap)
        found == FoldLeft(LAMBDA acc, c : acc \o Detect(o, c, rules, conv, TRUE), regex, chunks)
        pairs == FoldLeft(LAMBDA acc, p : Absorb(active, acc, p), rulePairs, found)
    IN  PlanReplacements(text, pairs, matches, active)

\* The rescan without the configured detectors, the gazetteer and the oracle.
ScanCleanFloor(o, text, rules, conv) ==
    Finds("regex", text) = {} /\ RuleMatches(rules, text) = {}
(* _scan_findings: everything the normal path would look for.               *)
ScanClean(o, text, rules, conv) ==
    LET gaz == GazFindings(o, text)
        local == LocalFindings(o.dets, o.codeSafe, text)
        rulesPairs == RulesPairs(text, RuleMatches(rules, text))
        asked == IF HasGazetteer(o) THEN OracleShouldRun(o, gaz, local, rulesPairs, conv, text)
                 ELSE o.oracle
    IN  /\ Finds("regex", text) = {} /\ gaz = {} /\ local = {} /\ rulesPairs = <<>>
        /\ asked => Oracle(text, rules) = <<>>

------------------------------------------------------------------------------
(* The key of Cache A.  None turns the cache off.                           *)

\* _detector_identity: class and policy signature, which a detector may fail to give.
Identifiable(d) == d \notin Unsigned

PolicyFingerprint(o) ==
    IF \E d \in o.dets \cup o.codeSafe : ~Identifiable(d) THEN None
    ELSE [dets |-> o.dets, codeSafe |-> o.codeSafe, gaz |-> o.gaz, allow |-> o.allow,
          trigger |-> o.trigger]

\* The key of a build that forgot the policy fingerprint.
ContentHashNoPolicy(o, team, rules, text, profile) ==
    [team |-> team, rules |-> rules, text |-> text, profile |-> profile, oracle |-> o.oracle, policy |-> None]
ContentHash(o, team, rules, text, profile) ==
    [team |-> team, rules |-> rules, text |-> text, profile |-> profile,
     oracle |-> o.oracle, policy |-> PolicyFingerprint(o)]

\* code_safe_detectors and build_inner_orchestrator.
InnerOrchestrator(core, b) ==
    [core EXCEPT !.dets = b.dets, !.codeSafe = b.dets \ NetworkDetectors, !.gaz = b.gaz,
                 !.allow = b.allow, !.threshold = b.policy.size,
                 !.trigger = BroadestOracleMode(<<core.trigger, b.policy.oracle>>)]

------------------------------------------------------------------------------
OrchInit ==
    /\ \E f \in RuleFiles : ruleFile = [t \in Teams |-> f]
    /\ root \in Roots
    /\ edits = 0
    /\ ruleCache = [p \in Pods, t \in Teams |-> None]
    /\ ruleLock = [p \in Pods, t \in Teams |-> None]
    /\ memo = [p \in Pods |-> <<>>]
    /\ cacheA = <<>>
    /\ cacheB = <<>>
    /\ \E i \in Inputs :
          req = [r \in Requests |->
                   [pc |-> "resolve", in |-> i[r], orch |-> Core(i[r].pod), profile |-> None,
                    extra |-> <<>>, rules |-> <<>>, plan |-> None, hit |-> FALSE,
                    out |-> None]]

Stored(f, k, v) == [j \in DOMAIN f \cup {k} |-> IF j = k THEN v ELSE f[j]]

At(r, pc) == req[r].pc = pc
In(r) == req[r].in
Raise(r, error) == req' = [req EXCEPT ![r].pc = "raised", ![r].out = error]
Shared == <<ruleFile, root, edits>>

(* ProfileAwareOrchestrator.resolve.  The team's row may not be readable;   *)
(* extends is walked on every call, the layers are read once per key.       *)
TeamConfigFails(r) ==
    /\ At(r, "resolve")
    /\ Raise(r, "team_config_unavailable")
    /\ UNCHANGED <<Shared, ruleCache, ruleLock, memo, cacheA, cacheB>>

Resolved(r, b) ==
    req' = [req EXCEPT ![r].pc = "load", ![r].orch = InnerOrchestrator(Core(In(r).pod), b),
                       ![r].profile = BundleFingerprint(b), ![r].extra = b.rules]

\* resolve_team: what a team selects, or else the default.
EffectiveIds(t) == IF Selected(t) # <<>> THEN Selected(t) ELSE DefaultIds

\* _resolve_ordered: a key is read once; a later edit of its layers is not seen.
ResolveOrdered(pod, key) ==
    IF key \in DOMAIN memo[pod] THEN memo[pod][key]
    ELSE IF Integrity(root, key) THEN BuildBundle(root, key) ELSE None

Resolve(r) ==
    /\ At(r, "resolve")
    /\ LET pod == In(r).pod
           ids == EffectiveIds(In(r).team)
           ext == ResolveExtends(root, ids)
           b == ResolveOrdered(pod, ext.order)
       IN  \/ ids = <<>> /\ req' = [req EXCEPT ![r].pc = "load"] /\ UNCHANGED memo
           \/ ids # <<>> /\ ext.error # "none" /\ Raise(r, "extends") /\ UNCHANGED memo
           \/ ids # <<>> /\ ext.error = "none" /\ b = None /\ Raise(r, "integrity") /\ UNCHANGED memo
           \/ /\ ids # <<>> /\ ext.error = "none" /\ b # None
              /\ memo' = [memo EXCEPT ![pod] = Stored(@, ext.order, b)]
              /\ Resolved(r, b)
    /\ UNCHANGED <<Shared, ruleCache, ruleLock, cacheA, cacheB>>

(* An oversize text is refused unread, unless it may be cut in windows or   *)
(* its team may have it delivered after a scan.                             *)
Oversize(r) == Len(In(r).text) > req[r].orch.threshold
RefusedUnread(r) ==
    LET o == req[r].orch
    IN  /\ Oversize(r)
        /\ o.oversize = "fail-closed" \/ (o.oversize = "deliver-flag" /\ In(r).team \notin o.deliver)

OversizeBlocked(r) ==
    /\ At(r, "load") /\ RefusedUnread(r)
    /\ Raise(r, "oversize")
    /\ UNCHANGED <<Shared, ruleCache, ruleLock, memo, cacheA, cacheB>>

(* CachedRulesLoader.load under _LayeredRulesLoader: a fresh entry, or the  *)
(* team's lock and a second look.                                           *)
Loaded(r, rules) == req' = [req EXCEPT ![r].pc = "size", ![r].rules = rules \o req[r].extra]

LoadCached(r) ==
    /\ At(r, "load") /\ ~RefusedUnread(r) /\ ruleCache[In(r).pod, In(r).team] # None
    /\ Loaded(r, ruleCache[In(r).pod, In(r).team])
    /\ UNCHANGED <<Shared, ruleCache, ruleLock, memo, cacheA, cacheB>>

LoadTakesLock(r) ==
    LET k == <<In(r).pod, In(r).team>>
    IN  /\ At(r, "load") /\ ~RefusedUnread(r) /\ ruleCache[k] = None /\ ruleLock[k] = None
        /\ ruleLock' = [ruleLock EXCEPT ![k] = r]
        /\ req' = [req EXCEPT ![r].pc = "reading"]
        /\ UNCHANGED <<Shared, ruleCache, memo, cacheA, cacheB>>

LoadReads(r) ==
    LET k == <<In(r).pod, In(r).team>>
    IN  /\ At(r, "reading")
        /\ ruleCache' = [ruleCache EXCEPT ![k] = ruleFile[In(r).team]]
        /\ ruleLock' = [ruleLock EXCEPT ![k] = None]
        /\ Loaded(r, ruleFile[In(r).team])
        /\ UNCHANGED <<Shared, memo, cacheA, cacheB>>

LoadFails(r) ==
    /\ At(r, "reading")
    /\ ruleLock' = [ruleLock EXCEPT ![<<In(r).pod, In(r).team>>] = None]
    /\ Raise(r, "rules")
    /\ UNCHANGED <<Shared, ruleCache, memo, cacheA, cacheB>>

(* sanitize: the size decides the path.                                     *)
Record(r, plan) ==
    [req EXCEPT ![r].pc = "record", ![r].plan = plan]

DeliverBlocked(r) ==
    LET o == req[r].orch
    IN  /\ At(r, "size") /\ Oversize(r) /\ o.oversize = "deliver-flag"
        /\ ~ScanClean(o, In(r).text, req[r].rules, In(r).conv)
        /\ Raise(r, "oversize")
        /\ UNCHANGED <<Shared, ruleCache, ruleLock, memo, cacheA, cacheB>>

OversizeDelivered(r) ==
    LET o == req[r].orch
    IN  /\ At(r, "size") /\ Oversize(r)
        /\ o.oversize = "deliver-flag"
        /\ ScanClean(o, In(r).text, req[r].rules, In(r).conv)
        /\ req' = [req EXCEPT ![r].pc = "done", ![r].out = "delivered"]
        /\ UNCHANGED <<Shared, ruleCache, ruleLock, memo, cacheA, cacheB>>

OversizeChunked(r) ==
    LET o == req[r].orch
    IN  /\ At(r, "size") /\ Oversize(r) /\ o.oversize = "chunk" /\ ~NothingLeft(o, TRUE)
        /\ req' = Record(r, SanitizedChunked(o, In(r).text, req[r].rules, In(r).conv))
        /\ UNCHANGED <<Shared, ruleCache, ruleLock, memo, cacheA, cacheB>>

Key(r) == ContentHash(req[r].orch, In(r).team, req[r].rules, In(r).text, req[r].profile)
Cacheable(r) == PolicyFingerprint(req[r].orch) # None

\* The mapping store: get_dedup, set_dedup, put.
GetDedup(k) == IF k \in DOMAIN cacheA THEN cacheA[k] ELSE None
SetDedup(k, pairs) == cacheA' = Stored(cacheA, k, pairs)
PutAll(conv, puts) ==
    cacheB' = [k \in DOMAIN cacheB \cup {<<conv, p[1]>> : p \in puts} |->
                  IF \E p \in puts : k = <<conv, p[1]>> THEN (CHOOSE p \in puts : p[1] = k[2])[2]
                  ELSE cacheB[k]]

\* A hit plans again, with the pairs that were kept.
CacheHit(r) ==
    /\ At(r, "size") /\ ~Oversize(r) /\ Cacheable(r) /\ GetDedup(Key(r)) # None
    /\ LET matches == RuleMatches(req[r].rules, In(r).text)
           pairs == GetDedup(Key(r))
           plan == PlanReplacements(In(r).text, pairs, matches, ActiveRules(pairs, matches))
       IN  req' = [Record(r, plan) EXCEPT ![r].hit = TRUE]
    /\ UNCHANGED <<Shared, ruleCache, ruleLock, memo, cacheA, cacheB>>

CacheMiss(r) ==
    /\ At(r, "size") /\ ~Oversize(r)
    /\ Cacheable(r) => GetDedup(Key(r)) = None
    /\ req' = [req EXCEPT ![r].pc = "detect"]
    /\ UNCHANGED <<Shared, ruleCache, ruleLock, memo, cacheA, cacheB>>

DetectAndPlan(r) ==
    /\ At(r, "detect") /\ ~NothingLeft(req[r].orch, FALSE)
    /\ req' = [req EXCEPT ![r].pc = "store",
                          ![r].plan = Sanitized(req[r].orch, In(r).text, req[r].rules, In(r).conv)]
    /\ UNCHANGED <<Shared, ruleCache, ruleLock, memo, cacheA, cacheB>>

(* A detector that is down or breaks the batch contract, an oracle that is  *)
(* down or whose answer no strategy can read, nothing to detect with: the   *)
(* text goes nowhere.                                                       *)
Detecting(r) == At(r, "detect") \/ (At(r, "size") /\ Oversize(r))

DetectorFails(r) ==
    /\ Detecting(r) /\ (req[r].orch.dets # {} \/ HasGazetteer(req[r].orch))
    /\ Raise(r, "detection")
    /\ UNCHANGED <<Shared, ruleCache, ruleLock, memo, cacheA, cacheB>>

OracleFails(r) ==
    /\ Detecting(r) /\ req[r].orch.oracle
    /\ Raise(r, "detection")
    /\ UNCHANGED <<Shared, ruleCache, ruleLock, memo, cacheA, cacheB>>

NothingToDetectWith(r) ==
    /\ Detecting(r) /\ NothingLeft(req[r].orch, At(r, "size"))
    /\ Raise(r, "detection")
    /\ UNCHANGED <<Shared, ruleCache, ruleLock, memo, cacheA, cacheB>>

Store(r) ==
    /\ At(r, "store")
    /\ IF Cacheable(r) THEN SetDedup(Key(r), req[r].plan.pairs) ELSE UNCHANGED cacheA
    /\ req' = Record(r, req[r].plan)
    /\ UNCHANGED <<Shared, ruleCache, ruleLock, memo, cacheB>>

\* _record_conversation_mappings, both directions, and the result.  (Nothing
\* reads Cache B in between: the puts are one step.)
Return(r) ==
    /\ At(r, "record")
    /\ PutAll(In(r).conv, ToSet(req[r].plan.pairs))
    /\ req' = [req EXCEPT ![r].pc = "done", ![r].out = "sanitized"]
    /\ UNCHANGED <<Shared, ruleCache, ruleLock, memo, cacheA>>

\* The mapping store cannot be reached.
StoreFails(r) ==
    /\ \/ At(r, "size") /\ ~Oversize(r) /\ Cacheable(r)
       \/ req[r].pc \in {"store", "record"}
    /\ Raise(r, "store")
    /\ UNCHANGED <<Shared, ruleCache, ruleLock, memo, cacheA, cacheB>>

(* The world: files are edited, entries run out.                            *)
Edit ==
    /\ edits < MaxEdits /\ edits' = edits + 1
    /\ \/ \E t \in Teams, f \in RuleFiles : ruleFile' = [ruleFile EXCEPT ![t] = f] /\ UNCHANGED root
       \/ \E x \in Roots : root' = x /\ UNCHANGED ruleFile
    /\ UNCHANGED <<ruleCache, ruleLock, memo, cacheA, cacheB, req>>

RulesExpire ==
    /\ \E k \in Pods \X Teams : ruleCache[k] # None /\ ruleCache' = [ruleCache EXCEPT ![k] = None]
    /\ UNCHANGED <<Shared, ruleLock, memo, cacheA, cacheB, req>>

DedupExpires ==
    /\ \E k \in DOMAIN cacheA : cacheA' = [j \in DOMAIN cacheA \ {k} |-> cacheA[j]]
    /\ UNCHANGED <<Shared, ruleCache, ruleLock, memo, cacheB, req>>

OrchNext ==
    \/ \E r \in Requests :
          \/ TeamConfigFails(r) \/ Resolve(r)
          \/ LoadCached(r) \/ LoadTakesLock(r) \/ LoadReads(r) \/ LoadFails(r)
          \/ OversizeBlocked(r) \/ DeliverBlocked(r) \/ OversizeDelivered(r) \/ OversizeChunked(r)
          \/ CacheHit(r) \/ CacheMiss(r) \/ DetectAndPlan(r) \/ Store(r)
          \/ DetectorFails(r) \/ OracleFails(r) \/ NothingToDetectWith(r) \/ Return(r) \/ StoreFails(r)
    \/ Edit \/ RulesExpire \/ DedupExpires

OrchSpec == OrchInit /\ [][OrchNext]_orchVars
------------------------------------------------------------------------------
Planned(r) == req[r].plan # None
Planner(r) == IF Oversize(r) THEN SanitizedChunked(req[r].orch, In(r).text, req[r].rules, In(r).conv)
              ELSE Sanitized(req[r].orch, In(r).text, req[r].rules, In(r).conv)

\* A plan can be applied: its spans lie in the text, do not overlap, name the
\* text they replace and have a placeholder each, so apply_spans never raises
\* StaleSpanError on a plan of _plan_replacements.
PlansApply == \A r \in Requests : Planned(r) => Applies(In(r).text, req[r].plan)

\* Every plan can be applied, and no two originals the gateway numbered itself
\* share a placeholder, which is what lets the answer be restored.
PlanFits ==
    /\ PlansApply
    /\ \A r \in Requests : Planned(r) =>
          \A p, q \in ToSet(req[r].plan.pairs) :
              p[2] = q[2] /\ p[1] # q[1] => {p[1], q[1]} \subseteq req[r].plan.rules

\* Cache A changes nothing but the cost: a request served from it has the plan
\* its own pod, rules and profile would have made, whichever pod, team rules or
\* profile version filled the entry.  The sampled trigger is left out: it looks
\* at the conversation, which is no part of the key.
CacheTransparent ==
    \A r \in Requests :
        req[r].hit /\ req[r].orch.trigger.mode # "sampled" => req[r].plan = Planner(r)

\* What the detectors of request r keep of its text.  A chunked text is
\* searched whole by the regex detector, window by window by the others.
Kept(r) ==
    LET o == req[r].orch
        text == In(r).text
    IN  IF Oversize(r)
        THEN Finds("regex", text)
             \cup {f \in Deduplicate(LocalFindings(o.dets \ {"regex"}, o.codeSafe \ {"regex"}, text)
                                      \cup GazFindings(o, text)) : Length(f) =< o.overlap}
        ELSE Deduplicate(LocalFindings(o.dets, o.codeSafe, text) \cup GazFindings(o, text))

Allowed(r, original) == original \in req[r].orch.allow

\* No finding and no rule match leaves in the clear: each one overlaps a
\* replaced span, unless it is allowlisted, or overlaps a rule match or a
\* finding that in turn lost to a longer one.  In particular no seam between
\* two windows hides a finding that is no longer than their overlap.
NothingInClear ==
    \A r \in Requests : req[r].out = "sanitized" =>
        LET text == In(r).text
            flagged == {[start |-> f.start, end |-> f.end] : f \in Kept(r)}
                       \cup {[start |-> m.start, end |-> m.end] : m \in RuleMatches(req[r].rules, text)}
            replaced(s) == \E t \in req[r].plan.spans : Overlaps(s, t)
        IN  \A s \in flagged :
               \/ replaced(s)
               \/ Allowed(r, Slice(text, s))
               \/ \E t \in flagged : Overlaps(s, t) /\ (replaced(t) \/ Allowed(r, Slice(text, t)))

\* A text is delivered as it came only when sanitizing it would have replaced
\* nothing: the rescan of _deliver_oversize looks for all the normal path does.
DeliveredIsClean ==
    \A r \in Requests : req[r].out = "delivered" =>
        Sanitized(req[r].orch, In(r).text, req[r].rules, In(r).conv).spans = {}

\* The chains of extends from the ids a team selected, with at most n edges.
Chains(x, ids, n) ==
    LET longer(S) == S \cup UNION {{Append(c, p) : p \in ToSet(x[Last(c)].extends)} :
                                     c \in {d \in S : Last(d) \in DOMAIN x}}
    IN  FoldLeft(LAMBDA S, k : longer(S), {<<id>> : id \in ToSet(ids)}, [k \in 1..n |-> k])
Reached(x, ids) == UNION {ToSet(c) : c \in Chains(x, ids, Cardinality(DOMAIN x))}

\* For a request about to resolve its profiles, in whatever state the files are,
\* resolve_extends names the right reason for a refusal: "cycle" when a chain
\* meets itself within the depth bound, "depth" when a chain of different
\* profiles goes on below the bound (so a loop no longer than the bound is
\* never taken for a deep chain: the ancestor guard trips first), "not_found"
\* when something reached does not exist.  What it accepts reaches no loop and
\* nothing missing, and is laid out whole: each layer once, after all it
\* extends, and none only below the bound.
ExtendsSound ==
    \A r \in {q \in Requests : At(q, "resolve")} :
        LET ids == EffectiveIds(In(r).team)
            walk == ResolveExtends(root, ids)
            all == Reached(root, ids)
            chains == Chains(root, ids, MaxExtendsDepth + 1)
            within == {c \in chains : Len(c) <= MaxExtendsDepth + 1}
            place(id) == CHOOSE i \in DOMAIN walk.order : walk.order[i] = id
        IN  CASE walk.error = "cycle" -> \E c \in within : Last(c) \in ToSet(Front(c))
              [] walk.error = "depth" -> \E c \in chains \ within : IsInjective(Front(c))
              [] walk.error = "not_found" -> ~(all \subseteq DOMAIN root)
              [] OTHER ->
                  /\ ToSet(walk.order) = all /\ Len(walk.order) = Cardinality(all)
                  /\ all \subseteq DOMAIN root /\ all = UNION {ToSet(c) : c \in within}
                  /\ \A id \in all : /\ \A p \in ToSet(root[id].extends) : place(p) < place(id)
                                    /\ id \notin Reached(root, root[id].extends)
==============================================================================
