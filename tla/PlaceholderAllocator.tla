------------------------ MODULE PlaceholderAllocator ------------------------
(***************************************************************************)
(* RequestPlaceholderAllocator over the text segments of one request, the  *)
(* request's mapping, and the reverse map that build_reverse_substituter   *)
(* and add_unwrapped_response_aliases derive from it for the response.     *)
(*                                                                         *)
(* A label is a placeholder text: [NAME_index] when it is wrapped and      *)
(* NAME_index when it is not; a configured text without a number           *)
(* ("[CORP_NAME]", "Contoso") has index 0.                                 *)
(***************************************************************************)
EXTENDS Integers, Sequences, FiniteSets

CONSTANTS
    Originals,    \* sensitive texts found in the request
    Names,        \* label families
    Texts,        \* labels the detectors, the oracle and replace.md propose
    Typed,        \* labels that may occur literally in the request
    Fallback,     \* _FALLBACK_FAMILY
    BareAliases,  \* forward_chatgpt_auth
    MaxPairs      \* bound: pairs of a request

Label == [wrapped : BOOLEAN, name : Names, index : Nat]

Numbered(l) == l.index # 0
Wrap(f, i)  == [wrapped |-> TRUE, name |-> f, index |-> i]
Bare(l)     == [l EXCEPT !.wrapped = FALSE]

ASSUME AllocatorAssumption ==
    /\ Fallback \in Names
    /\ Texts \subseteq Label /\ Typed \subseteq Label
    /\ \A l \in Typed : l.wrapped => Numbered(l)   \* find_placeholder_literals
    /\ BareAliases \in BOOLEAN
    /\ MaxPairs \in Nat

VARIABLES
    phase,            \* "scan", "segments", then "answer"
    forbidden,        \* _forbidden
    exclusions,       \* state.response_alias_exclusions
    by_original,      \* _by_original
    by_placeholder,   \* _by_placeholder
    family_next,      \* _family_next, 1 where it has no entry
    exempt_canonical, \* _exempt_canonical
    pairs,            \* state.mapping.pairs
    claims            \* history: how each original first came in

vars == <<phase, forbidden, exclusions, by_original, by_placeholder, family_next,
          exempt_canonical, pairs, claims>>

Empty == [x \in {} |-> x]

\* d[k] = v, on a dict.
Put(d, k, v) == [x \in DOMAIN d \union {k} |-> IF x = k THEN v ELSE d[x]]

Pair == [original : Originals, label : Label]

TypeOK ==
    /\ phase \in {"scan", "segments", "answer"}
    /\ forbidden \subseteq Label /\ exclusions \subseteq Label
    /\ DOMAIN by_original \subseteq Originals
    /\ \A o \in DOMAIN by_original : by_original[o] \in Label
    /\ DOMAIN by_placeholder \subseteq Label
    /\ \A l \in DOMAIN by_placeholder : by_placeholder[l] \in Originals
    /\ family_next \in [Names -> Nat \ {0}]
    /\ DOMAIN exempt_canonical \subseteq Texts
    /\ \A l \in DOMAIN exempt_canonical : exempt_canonical[l] \in Label
    /\ pairs \in Seq(Pair)
    /\ DOMAIN claims = DOMAIN by_original
    /\ \A o \in DOMAIN claims : claims[o] \in [text : Texts, exempt : BOOLEAN]

Init ==
    /\ phase = "scan"
    /\ forbidden = {} /\ exclusions = {}
    /\ by_original = Empty /\ by_placeholder = Empty /\ exempt_canonical = Empty
    /\ family_next = [f \in Names |-> 1]
    /\ pairs = <<>>
    /\ claims = Empty

-----------------------------------------------------------------------------

\* pre_call looks for labels in every text of the request before any segment
\* is sanitized: the wrapped ones are forbidden, the bare ones only excluded
\* from the aliases.
Scan(literals) ==
    /\ phase = "scan"
    /\ forbidden' = {l \in literals : l.wrapped}
    /\ exclusions' = IF BareAliases THEN {l \in literals : ~l.wrapped} ELSE {}
    /\ phase' = "segments"
    /\ UNCHANGED <<by_original, by_placeholder, family_next, exempt_canonical, pairs, claims>>

IsTaken(l) == l \in DOMAIN by_placeholder \/ l \in forbidden

\* placeholder_family, and the fallback.
Family(l) == IF l.wrapped /\ Numbered(l) THEN l.name ELSE Fallback

\* _mint: the first free index from the family's counter on, within as many
\* as there are labels taken.
FreeIndex(f) ==
    {i \in family_next[f]..(family_next[f] + Cardinality(DOMAIN by_placeholder)
                                             + Cardinality(forbidden)) :
        ~IsTaken(Wrap(f, i)) /\ \A j \in family_next[f]..(i - 1) : IsTaken(Wrap(f, j))}

\* The proposed label while it is free, else a minted one of its family, with
\* what becomes of _family_next.
Outcome(l) ==
    IF IsTaken(l)
    THEN {[label |-> Wrap(Family(l), i), next |-> [family_next EXCEPT ![Family(l)] = i + 1]] :
             i \in FreeIndex(Family(l))}
    ELSE {[label |-> l, next |-> family_next]}

Remember(o, l) == pairs' = Append(pairs, [original |-> o, label |-> l])

\* _canonical on an original that has its placeholder.
Reuse(o) ==
    /\ phase = "segments" /\ Len(pairs) < MaxPairs
    /\ o \in DOMAIN by_original
    /\ Remember(o, by_original[o])
    /\ UNCHANGED <<phase, forbidden, exclusions, by_original, by_placeholder, family_next,
                   exempt_canonical, claims>>

\* The end of _canonical, _by_placeholder.setdefault included.
Settle(o, text, exempt, chosen) ==
    /\ by_original' = Put(by_original, o, chosen)
    /\ by_placeholder' = IF chosen \in DOMAIN by_placeholder THEN by_placeholder
                         ELSE Put(by_placeholder, chosen, o)
    /\ claims' = Put(claims, o, [text |-> text, exempt |-> exempt])
    /\ Remember(o, chosen)
    /\ UNCHANGED <<phase, forbidden, exclusions>>

\* _canonical on a detector's or the oracle's new original.
ClaimFound(o, text) ==
    /\ phase = "segments" /\ Len(pairs) < MaxPairs
    /\ o \notin DOMAIN by_original
    /\ \E out \in Outcome(text) :
        /\ family_next' = out.next
        /\ Settle(o, text, FALSE, out.label)
    /\ UNCHANGED exempt_canonical

\* Mutant: the rule's text is resolved for every original anew.
ClaimRuleAnew(o, text) ==
    /\ phase = "segments" /\ Len(pairs) < MaxPairs
    /\ o \notin DOMAIN by_original
    /\ \E out \in Outcome(text) :
        /\ family_next' = out.next
        /\ exempt_canonical' = Put(exempt_canonical, text, out.label)
        /\ Settle(o, text, TRUE, out.label)

\* _canonical on a rule's new original: its configured text is resolved once.
ClaimRule(o, text) ==
    /\ phase = "segments" /\ Len(pairs) < MaxPairs
    /\ o \notin DOMAIN by_original
    /\ \/ /\ text \in DOMAIN exempt_canonical
          /\ Settle(o, text, TRUE, exempt_canonical[text])
          /\ UNCHANGED <<family_next, exempt_canonical>>
       \/ /\ text \notin DOMAIN exempt_canonical
          /\ \E out \in Outcome(text) :
              /\ family_next' = out.next
              /\ exempt_canonical' = Put(exempt_canonical, text, out.label)
              /\ Settle(o, text, TRUE, out.label)

\* Every segment is through: the mapping goes to the response side.
HandOver ==
    /\ phase = "segments"
    /\ phase' = "answer"
    /\ UNCHANGED <<forbidden, exclusions, by_original, by_placeholder, family_next,
                   exempt_canonical, pairs, claims>>

Next ==
    \/ \E literals \in SUBSET Typed : Scan(literals)
    \/ \E o \in Originals : Reuse(o)
    \/ \E o \in Originals, text \in Texts : ClaimFound(o, text) \/ ClaimRule(o, text)
    \/ HandOver

Spec == Init /\ [][Next]_vars

-----------------------------------------------------------------------------
(* The response's reverse map.                                             *)

\* Mutant: an alias may be the text of another pair.
AliasedOver(k) ==
    /\ BareAliases
    /\ pairs[k].label.wrapped
    /\ Bare(pairs[k].label) # pairs[k].original
    /\ Bare(pairs[k].label) \notin exclusions

\* add_unwrapped_response_aliases adds an alias for the k-th pair.  (A later
\* pair with the same alias adds nothing new to Restored: the first one wins.)
Aliased(k) ==
    /\ BareAliases
    /\ pairs[k].label.wrapped
    /\ Bare(pairs[k].label) # pairs[k].original
    /\ Bare(pairs[k].label) \notin exclusions
    /\ \A j \in DOMAIN pairs : pairs[j].label # Bare(pairs[k].label)

\* build_reverse_substituter: the pairs that claim the label l, the first of
\* which is kept.
Claimants(l) ==
    {k \in DOMAIN pairs : pairs[k].label = l \/ (Aliased(k) /\ Bare(pairs[k].label) = l)}

Restores(l, o) ==
    \E k \in Claimants(l) : pairs[k].original = o /\ \A j \in Claimants(l) : k <= j

-----------------------------------------------------------------------------
(* Properties.                                                             *)

Variants(a, b) == claims[a].exempt /\ claims[b].exempt /\ claims[a].text = claims[b].text

(* "different originals never share a placeholder", whatever labels the       *)
(* segments proposed and in whatever order; only a rule's originals share     *)
(* its one configured text, and they always do.                               *)
NoForeignShare ==
    \A a, b \in DOMAIN by_original :
        a # b => (by_original[a] = by_original[b] <=> Variants(a, b))

(* What the request carries restores: a placeholder comes back as the         *)
(* original it stands for, or as a variant matched by the same rule text.     *)
RoundTrip ==
    \A k \in DOMAIN pairs : \E o \in DOMAIN by_original :
        /\ Restores(pairs[k].label, o)
        /\ o = pairs[k].original \/ Variants(o, pairs[k].original)

(* A label the user typed is never taken for a redaction in the response: no  *)
(* wrapped one is restored to anything, and no bare one as an alias.          *)
TypedStays ==
    /\ \A l \in forbidden, o \in Originals : ~Restores(l, o)
    /\ \A l \in exclusions, o \in Originals :
           Restores(l, o) => \E k \in DOMAIN pairs : pairs[k].label = l

(* The response comes back right: each placeholder as the original it stands  *)
(* for, and what the user typed as the user typed it, although labels, rule   *)
(* texts and bare aliases may meet (build_reverse_substituter).               *)
RestoresOnlyRedactions == RoundTrip /\ TypedStays

=============================================================================
