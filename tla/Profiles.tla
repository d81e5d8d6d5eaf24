------------------------------ MODULE Profiles ------------------------------
(***************************************************************************)
(* profiles/: from the profiles a team selects to one merged bundle.       *)
(* A profile root is a function from profile ids to layer sources          *)
(*   [extends, dets, terms, rules, allow, policy, intact]                  *)
(* ("intact": the declared content hash fits); an id outside its domain    *)
(* has no profile.toml.  terms is a set of <<term, label>>.                *)
(***************************************************************************)
EXTENDS Naturals, Sequences, FiniteSets, SequencesExt

CONSTANTS
    MaxExtendsDepth,    \* MAX_EXTENDS_DEPTH
    Unrestricted        \* allowed_providers = None

------------------------------------------------------------------------------
(* An oracle mode is [mode, pct]; pct counts for "sampled" only.            *)
OracleCoverage ==
    [m \in {"gazetteer_hit", "sampled", "any_local_finding", "always"} |->
        CASE m = "gazetteer_hit" -> 0 [] m = "sampled" -> 1
          [] m = "any_local_finding" -> 2 [] OTHER -> 3]

CanonicalOracleMode(o) ==
    CASE o.mode = "sampled" /\ o.pct >= 100 -> [mode |-> "always", pct |-> 0]
      [] o.mode = "sampled" /\ o.pct = 0 -> [mode |-> "gazetteer_hit", pct |-> 0]
      [] OTHER -> o

OracleRank(o) == OracleCoverage[CanonicalOracleMode(o).mode]

\* The widest of a non-empty sequence of modes; the first of two equal ones.
BroadestOracleMode(modes) ==
    LET canonical == [i \in DOMAIN modes |-> CanonicalOracleMode(modes[i])]
        Wider(a, b) == OracleRank(b) > OracleRank(a) \/ (OracleRank(b) = OracleRank(a) /\ b.pct > a.pct)
    IN  FoldLeft(LAMBDA a, b : IF Wider(a, b) THEN b ELSE a, canonical[1], canonical)

Closed(a, b) == IF "fail-closed" \in {a, b} THEN "fail-closed" ELSE "continue"
IntersectProviders(a, b) ==
    CASE a = Unrestricted -> b [] b = Unrestricted -> a [] OTHER -> a \cap b

(* PolicyKnobs.merge, layer by layer: every knob but retention tightens.    *)
(* A retention of 0 stands for None.                                        *)
Merge(a, b) ==
    [size |-> IF a.size < b.size THEN a.size ELSE b.size,
     block |-> a.block \/ b.block,
     dlp |-> a.dlp \/ b.dlp,
     oracle |-> BroadestOracleMode(<<a.oracle, b.oracle>>),
     providers |-> IntersectProviders(a.providers, b.providers),
     canaries |-> a.canaries \cup b.canaries,
     fail |-> Closed(a.fail, b.fail),
     retention |-> IF b.retention # 0 THEN b.retention ELSE a.retention]

------------------------------------------------------------------------------
(* resolve_extends: a post-order walk; the walk's state is the layers laid  *)
(* so far, or the error that ended it.                                      *)
Walk(ids) == [order : Seq(ids), error : {"none", "depth", "cycle", "not_found"}]

Failing(acc, error) == [acc EXCEPT !.error = error]

Laid(acc, id) == id \in ToSet(acc.order)

\* A walk without the ancestor guard: a loop runs until the depth ends it.
OnPathNever(above, id) == FALSE
OnPath(above, id) == id \in above

\* The visit of one profile, left being the levels it may still go down.
ResolveExtends(root, ids) ==
    LET known == DOMAIN root \cup ToSet(ids)
                     \cup (UNION {ToSet(root[i].extends) : i \in DOMAIN root})
        visit[left \in 0..(MaxExtendsDepth + 1), id \in known, above \in SUBSET known,
              acc \in Walk(known)] ==
            IF acc.error # "none" THEN acc
            ELSE IF left = 0 THEN Failing(acc, "depth")
            ELSE IF OnPath(above, id) THEN Failing(acc, "cycle")
            ELSE IF Laid(acc, id) THEN acc
            ELSE IF id \notin DOMAIN root THEN Failing(acc, "not_found")
            ELSE LET below == FoldLeft(LAMBDA a, parent : visit[left - 1, parent, above \cup {id}, a],
                                       acc, root[id].extends)
                 IN  IF below.error # "none" THEN below
                     ELSE [below EXCEPT !.order = Append(@, id)]
    IN  FoldLeft(LAMBDA acc, id : visit[MaxExtendsDepth + 1, id, {}, acc],
                 [order |-> <<>>, error |-> "none"], ids)

(* build_bundle: detectors, rules, terms and allowlists are put together,   *)
(* the most specific layer labels a term.                                   *)
BuildBundle(root, order) ==
    LET layers == [i \in DOMAIN order |-> root[order[i]]]
        terms == UNION {{t[1] : t \in layers[i].terms} : i \in DOMAIN layers}
        owner(t) == CHOOSE i \in DOMAIN layers :
                       /\ \E e \in layers[i].terms : e[1] = t
                       /\ \A j \in (i + 1)..Len(layers) : ~\E e \in layers[j].terms : e[1] = t
    IN  [ids |-> order,
         dets |-> UNION {layers[i].dets : i \in DOMAIN layers},
         gaz |-> {CHOOSE e \in layers[owner(t)].terms : e[1] = t : t \in terms},
         rules |-> FoldLeft(LAMBDA acc, l : acc \o l.rules, <<>>, layers),
         allow |-> UNION {layers[i].allow : i \in DOMAIN layers},
         policy |-> FoldLeft(LAMBDA acc, l : Merge(acc, l.policy), layers[1].policy, layers)]

\* read_layer_source refuses a layer whose data does not fit its hash.
Integrity(root, order) == \A id \in ToSet(order) : root[id].intact

(* bundle_fingerprint: what Cache A is told about a bundle.  Of the         *)
(* gazetteer only that there is one, of the allowlist nothing.              *)
BundleFingerprint(b) ==
    [ids |-> b.ids, dets |-> b.dets, gaz |-> b.gaz # {}, rules |-> b.rules, policy |-> b.policy]

==============================================================================
