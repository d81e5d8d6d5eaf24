------------------------------ MODULE SpanPlan ------------------------------
(***************************************************************************)
(* sanitizer/orchestrator.py, the pure half: which stretches of a text are *)
(* replaced and by what.  A text is a sequence of characters, a span the   *)
(* half-open interval [start, end) of it, a pair <<original, placeholder>>.*)
(* A placeholder is [label, n]: n = 0 for a replacement of a rule that has *)
(* not the form [LABEL_NNN].                                               *)
(*                                                                         *)
(* The code sorts candidates and keeps each one that overlaps none it kept *)
(* before.  It does so four times (regex matches, rule matches, findings,  *)
(* the final plan), with four orders; here it is one operator, Winners.    *)
(***************************************************************************)
EXTENDS Naturals, Sequences, FiniteSets, SequencesExt

CONSTANTS
    Fold(_),        \* a character without its case (re.IGNORECASE)
    Finds(_, _),    \* the findings of a detector on a text
    Segments(_),    \* split_segments: [start, end, code] covering a text
    NetworkDetectors

SecretLabels == {"SECRET"}

Slice(text, s) == SubSeq(text, s.start + 1, s.end)
Length(s) == s.end - s.start
Shift(s, by) == [s EXCEPT !.start = @ + by, !.end = @ + by]
Overlaps(c, d) == c.start < d.end /\ d.start < c.end

\* The candidates a greedy pass keeps, best first.
Winners(C, Better(_, _)) ==
    LET wins[c \in C] == \A d \in C : Better(d, c) /\ Overlaps(c, d) => ~wins[d]
    IN  {c \in C : wins[c]}

\* The stretches of a text.
Spans(text) == {s \in [start : 0..Len(text), end : 0..Len(text)] : s.start =< s.end}

\* finditer: the matches of a literal, leftmost first.
FindIter(text, literal, Same(_, _)) ==
    LET Earlier(c, d) == c.start < d.start
    IN  Winners({s \in Spans(text) : Same(Slice(text, s), literal)}, Earlier)

SameText(a, b) == a = b
SameFolded(a, b) == Len(a) = Len(b) /\ \A k \in 1..Len(a) : Fold(a[k]) = Fold(b[k])

------------------------------------------------------------------------------
(* _rule_matches: the longest configured rule first, then the rule listed   *)
(* first.                                                                   *)
RuleMatches(rules, text) ==
    LET cands == UNION {{[start |-> m.start, end |-> m.end, rule |-> i] :
                            m \in FindIter(text, rules[i].pattern, SameFolded)} : i \in DOMAIN rules}
        Better(c, d) ==
            \/ Length(c) > Length(d)
            \/ Length(c) = Length(d) /\ c.rule < d.rule
            \/ Length(c) = Length(d) /\ c.rule = d.rule /\ c.start < d.start
    IN  {[start |-> c.start, end |-> c.end, original |-> Slice(text, c),
          replacement |-> rules[c.rule].replacement] : c \in Winners(cands, Better)}

\* A set of disjoint spans in the order of the text.
InOrder(text, spans) ==
    FoldLeft(LAMBDA acc, i : LET here == {s \in spans : s.start = i - 1}
                             IN  IF here = {} THEN acc ELSE Append(acc, CHOOSE s \in here : TRUE),
             <<>>, [i \in 1..Len(text) |-> i])

\* The pairs of the rules that matched (dict.fromkeys).
RulesPairs(text, matches) ==
    FoldLeft(LAMBDA acc, m : LET pair == <<m.original, m.replacement>>
                             IN  IF pair \in ToSet(acc) THEN acc ELSE Append(acc, pair),
             <<>>, InOrder(text, matches))

------------------------------------------------------------------------------
(* _deduplicate: the highest score, then the longest, then the leftmost.    *)
BetterFinding(f, g) ==
    \/ f.score > g.score
    \/ f.score = g.score /\ Length(f) > Length(g)
    \/ f.score = g.score /\ Length(f) = Length(g) /\ f.start < g.start

Deduplicate(findings) == Winners(findings, BetterFinding)

(* LocalDetectionPass.findings: a code segment is shown to the code-safe    *)
(* detectors only, and what is found in a segment is moved to its place in  *)
(* the text.                                                                *)
LocalFindings(dets, codeSafe, text) ==
    IF dets = {} THEN {}
    ELSE Deduplicate(UNION {UNION {{Shift(f, seg.start) : f \in Finds(d, Slice(text, seg))} :
                                      d \in IF seg.code THEN codeSafe ELSE dets} :
                               seg \in Segments(text)})

(* _merge_local: the base pairs, then one new placeholder for each original *)
(* no pair has yet, numbered after the last of its label.                   *)
LastNumber(pairs, label) ==
    LET ns == {p[2].n : p \in {q \in ToSet(pairs) : q[2].label = label}} \cup {0}
    IN  CHOOSE n \in ns : \A k \in ns : k =< n

\* The counter that starts at one for every label.
FreshNumberFromOne(pairs, label) == 1
FreshNumber(pairs, label) == LastNumber(pairs, label) + 1

AddFinding(f, pairs) ==
    IF \E p \in ToSet(pairs) : p[1] = f.text THEN pairs
    ELSE Append(pairs, <<f.text, [label |-> f.label, n |-> FreshNumber(pairs, f.label)]>>)

\* The findings are taken in the order of _deduplicate: the last one is added to
\* what the others make.
MergeLocal(base, findings) ==
    MapThenFoldSet(AddFinding, base, LAMBDA f : f,
                   LAMBDA S : CHOOSE f \in S : \A g \in S : ~BetterFinding(f, g), findings)

\* Allowlist.filter_pairs: an allowlisted original goes out as it is, unless its
\* placeholder says it is a secret.
FilterPairs(allow, pairs) ==
    FoldLeft(LAMBDA acc, p : IF p[1] \notin allow \/ p[2].label \in SecretLabels THEN Append(acc, p) ELSE acc,
             <<>>, pairs)

------------------------------------------------------------------------------
(* _plan_replacements: one pool of rule matches and pair occurrences; the   *)
(* longest wins, then a rule over a finding, then the leftmost.  (Two       *)
(* candidates of one length and one start are one substring, hence one      *)
(* pair: the code's last tiebreak, the pair index, never decides.)          *)
\* seen_originals: the first pair of each original stays.  (A list of pairs is
\* cut down to some of its places, which keeps their order.)
FirstPairs(pairs) ==
    Restrict(pairs, {i \in DOMAIN pairs :
                        /\ pairs[i][1] # <<>>
                        /\ \A j \in DOMAIN pairs : j < i => pairs[j][1] # pairs[i][1]})

ActiveRules(pairs, matches) ==
    {m.original : m \in {k \in matches : <<k.original, k.replacement>> \in ToSet(FirstPairs(pairs))}}

BetterCandidate(c, d) ==
    \/ Length(c) > Length(d)
    \/ Length(c) = Length(d) /\ c.finding < d.finding
    \/ Length(c) = Length(d) /\ c.finding = d.finding /\ c.start < d.start

\* The pool: the matches of the active rules, and wherever else an original is.
Pool(text, originals, matches, active) ==
    {[start |-> m.start, end |-> m.end, original |-> m.original, finding |-> 0] :
        m \in {k \in matches : k.original \in active \cap originals}}
    \cup (UNION {{[start |-> s.start, end |-> s.end, original |-> o, finding |-> 1] :
                    s \in FindIter(text, o, SameText)} : o \in originals \ active})

PlanReplacements(text, pairs, matches, active) ==
    LET unique == FirstPairs(pairs)
        kept == Winners(Pool(text, {p[1] : p \in ToSet(unique)}, matches, active), BetterCandidate)
        used == {c.original : c \in kept}
    IN  [spans |-> {[start |-> c.start, end |-> c.end, original |-> c.original] : c \in kept},
         pairs |-> Restrict(unique, {i \in DOMAIN unique : unique[i][1] \in used}),
         rules |-> active \cap used]

\* apply_spans raises StaleSpanError unless the plan fits the text.
Applies(text, plan) ==
    /\ \A s \in plan.spans :
          s.start < s.end /\ s.end =< Len(text) /\ Slice(text, s) = s.original
    /\ \A s, t \in plan.spans : s # t => ~Overlaps(s, t)
    /\ \A s \in plan.spans : \E p \in ToSet(plan.pairs) : p[1] = s.original

\* Windows that advance by their own size, whatever the overlap.
ChunksEndToEnd(text, window, overlap) ==
    LET Cut(k) == SubSeq(text, (k - 1) * window + 1, IF k * window < Len(text) THEN k * window ELSE Len(text))
    IN  [k \in 1..((Len(text) + window - 1) \div window) |-> Cut(k)]
\* _iter_overlapping_chunks.  The first window that reaches the end is the last.
Chunks(text, window, overlap) ==
    LET step == window - overlap
        last == CHOOSE k \in 0..Len(text) :
                   /\ k * step + window >= Len(text)
                   /\ \A j \in 0..(k - 1) : j * step + window < Len(text)
        end(k) == IF k * step + window < Len(text) THEN k * step + window ELSE Len(text)
    IN  [k \in 1..(last + 1) |-> Slice(text, [start |-> (k - 1) * step, end |-> end(k - 1)])]

==============================================================================
