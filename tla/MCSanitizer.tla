--------------------------- MODULE MCSanitizer ------------------------------
(***************************************************************************)
(* The two halves of sanitizing a request, side by side: what is replaced  *)
(* (Orchestrator), and by which labels (PlaceholderAllocator).  They meet  *)
(* only in the pairs, whose originals the allocator takes as they come, so *)
(* each half runs alone, the other at rest.                                *)
(***************************************************************************)
EXTENDS Orchestrator, PlaceholderAllocator

CONSTANTS First, o1, o2

MCFold(c) == IF c = "A" THEN "a" ELSE c

Rule(pattern, label) == [pattern |-> pattern, replacement |-> [label |-> label, n |-> 0]]
Occurrences(text, literal) == FindIter(text, literal, SameText)
Found(text, literal, label, score) ==
    {[start |-> s.start, end |-> s.end, text |-> literal, label |-> label, score |-> score] :
        s \in Occurrences(text, literal)}

\* regex: a secret; ner: a name of three letters; corp: one of two, over the network.
MCFinds(d, text) ==
    CASE d = "regex" -> Found(text, <<"c", "c">>, "SECRET", 2)
      [] d = "ner" -> Found(text, <<"b", "e", "b">>, "PER", 1)
      [] OTHER -> Found(text, <<"a", "b">>, "PER", 1)

MCTermFinds(t, text) ==
    {[start |-> s.start, end |-> s.end, text |-> Slice(text, s), label |-> t[2], score |-> 1] :
        s \in FindIter(text, t[1], SameFolded)}

\* A text that starts with "d" has code after its second character.
MCSegments(text) ==
    IF Len(text) > 2 /\ text[1] = "d"
    THEN {[start |-> 0, end |-> 2, code |-> FALSE], [start |-> 2, end |-> Len(text), code |-> TRUE]}
    ELSE {[start |-> 0, end |-> Len(text), code |-> FALSE]}

MCOracle(text, rules) ==
    IF Occurrences(text, <<"b", "b">>) # {}
    THEN <<<<<<"b", "b">>, [label |-> "PER", n |-> 1]>>, <<<<"x">>, [label |-> "PER", n |-> 2]>>>>
    ELSE <<>>
MCSampled(conv, text) == conv = "c1"

Mode(m, pct) == [mode |-> m, pct |-> pct]
Plain == [dets |-> {"regex", "ner"}, codeSafe |-> {"regex", "ner"}, gaz |-> {}, allow |-> {},
          trigger |-> Mode("gazetteer_hit", 0), oracle |-> TRUE, threshold |-> 6,
          oversize |-> "chunk", deliver |-> {"t1"}, window |-> 4, overlap |-> 3]
MCCore(p) ==
    CASE p = "p1" -> Plain
      [] p = "p2" -> [Plain EXCEPT !.dets = {"regex", "corp"}, !.codeSafe = {"regex"}, !.oracle = FALSE,
                                   !.oversize = "deliver-flag", !.trigger = Mode("sampled", 50)]
      [] p = "p3" -> [Plain EXCEPT !.gaz = {<<<<"b", "a">>, "ORG">>}, !.allow = {<<"a", "b">>},
                                   !.oversize = "fail-closed", !.trigger = Mode("any_local_finding", 0)]
      [] p = "p4" -> [Plain EXCEPT !.dets = {"broken"}, !.codeSafe = {}]
      [] OTHER -> [Plain EXCEPT !.dets = {"regex"}, !.codeSafe = {"regex"}, !.oracle = FALSE]

MCDefaultIds == <<>>
MCSelected(t) == CASE t = "t2" -> <<"ru">> [] OTHER -> <<>>

Policy(size, mode) ==
    [size |-> size, block |-> FALSE, dlp |-> FALSE, oracle |-> mode, providers |-> Unrestricted,
     canaries |-> {}, fail |-> "fail-closed", retention |-> 0]
Layer(extends, dets, rules, allow, policy) ==
    [extends |-> extends, dets |-> dets, terms |-> {<<<<"b", "b">>, "ORG">>}, rules |-> rules,
     allow |-> allow, policy |-> policy, intact |-> TRUE]
CoreLayer(extends) == Layer(extends, {"regex"}, <<>>, {}, Policy(9, Mode("any_local_finding", 0)))
RuLayer(extends, allow) ==
    Layer(extends, {"ner", "corp"}, <<Rule(<<"c">>, "X")>>, allow, Policy(4, Mode("gazetteer_hit", 0)))

Graph(ru, eu, core) == [id \in {"ru", "eu", "core"} |->
    CASE id = "ru" -> ru [] id = "eu" -> eu [] OTHER -> core]
MCRoots ==
    {Graph(RuLayer(<<"eu", "core">>, {}), CoreLayer(<<"core">>), CoreLayer(<<>>)),
     Graph(RuLayer(<<"eu", "core">>, {<<"a", "b">>}), CoreLayer(<<"core">>), CoreLayer(<<>>)),
     Graph(RuLayer(<<"eu">>, {}), CoreLayer(<<"ru">>), CoreLayer(<<>>)),
     Graph(RuLayer(<<"eu">>, {}), CoreLayer(<<"core">>), CoreLayer(<<"gone">>)),
     Graph(RuLayer(<<"core", "gone">>, {}), CoreLayer(<<>>), [CoreLayer(<<>>) EXCEPT !.intact = FALSE]),
     Graph(RuLayer(<<"core">>, {}), CoreLayer(<<>>), [CoreLayer(<<>>) EXCEPT !.intact = FALSE])}

MCRuleFiles == {<<>>, <<Rule(<<"a">>, "Y"), Rule(<<"a", "b">>, "Z")>>}

MCRequestTexts == {<<"b", "b", "A", "b", "e", "b">>, <<"d", "b", "a", "b", "c", "c">>,
            <<"a", "b", "d", "b", "e", "b", "e">>, <<"d", "d", "d", "d", "d", "d", "d">>}

\* Both calls are about one text, in two conversations.
MCInputs ==
    {[r \in Requests |-> [pod |-> p[r], team |-> t[r], conv |-> IF r = First THEN "c1" ELSE "c2", text |-> x]] :
        p \in {q \in [Requests -> Pods] : \/ q[First] = "p1" /\ \A r \in Requests : q[r] # "p5"
                                        \/ \A r \in Requests : q[r] = q[First]},
        t \in {u \in [Requests -> Teams] : \A r \in Requests : u[r] = u[First]},
        x \in MCRequestTexts}

------------------------------------------------------------------------------
Email(w, i) == [wrapped |-> w, name |-> "EMAIL", index |-> i]

MCNames == {"EMAIL", "REDACTED"}

\* Two wrapped labels of a family, the bare form of one of them, a wrapped
\* label of the fallback family and a configured one without a number.
MCTexts == {Email(TRUE, 1), Email(TRUE, 2), Email(FALSE, 1), Email(TRUE, 0),
            Wrap("REDACTED", 1)}

MCTyped == {Email(TRUE, 1), Email(FALSE, 1), Email(FALSE, 2)}

\* Two plain originals, and one that reads like a bare label.
MCOriginals == {o1, o2, Email(FALSE, 2)}

------------------------------------------------------------------------------
\* No request has started, in the simplest of the worlds they may start in.
PlanAtRest ==
    /\ edits = 0
    /\ \A t \in Teams : ruleFile[t] = <<>>
    /\ \A id \in DOMAIN root : root[id].intact /\ root[id].allow = {} /\ ToSet(root[id].extends) \subseteq {"eu", "core"}
    /\ root["core"].extends = <<>>
    /\ \A r \in Requests : At(r, "resolve") /\ In(r).pod = "p1" /\ In(r).team = "t1" /\ In(r).text[1] = "a"

SanitizerInit == OrchInit /\ Init

SanitizerNext ==
    \/ Init /\ OrchNext /\ UNCHANGED vars
    \/ PlanAtRest /\ Next /\ UNCHANGED orchVars

SanitizerSpec == SanitizerInit /\ [][SanitizerNext]_<<orchVars, vars>>
==============================================================================
