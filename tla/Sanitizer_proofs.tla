-------------------------- MODULE Sanitizer_proofs --------------------------
(***************************************************************************)
(* What the sanitizer replaces, and that it can be undone.                 *)
(*                                                                         *)
(* PlaceholderAllocator: the bijection of a request's placeholders, and    *)
(* that the response's reverse map undoes them, for any originals, labels  *)
(* and segments.  Every label has one owner, the original that claimed it  *)
(* first.  A detector's original owns its label; the owner of a rule       *)
(* text's label is one of the rule's own originals, so no two texts, and   *)
(* no rule and no detector, can meet on a label.                           *)
(*                                                                         *)
(* Orchestrator: a plan fits its text, a request served from Cache A has   *)
(* the plan it would have made itself, and a text delivered unchanged is   *)
(* one that nothing was to be replaced in.  A greedy pass keeps the same   *)
(* when it is run again on some of the candidates and all it kept; so a    *)
(* plan made again from its own pairs, as a cache hit does, is that plan.  *)
(***************************************************************************)
EXTENDS PlaceholderAllocator, Orchestrator, WellFoundedInduction, TLAPS


\* _by_original and _by_placeholder, and what is kept out of them.
OwnerInv ==
    /\ \A o \in DOMAIN by_original : by_original[o] \in DOMAIN by_placeholder
    /\ \A l \in DOMAIN by_placeholder :
           /\ by_placeholder[l] \in DOMAIN by_original
           /\ by_original[by_placeholder[l]] = l
    /\ \A l \in forbidden : l \notin DOMAIN by_placeholder /\ l.wrapped
    /\ phase = "scan" => DOMAIN by_placeholder = {}

\* A rule text's label belongs to that text, a detector's to its original.
RuleInv ==
    /\ \A t \in DOMAIN exempt_canonical :
           /\ exempt_canonical[t] \in DOMAIN by_placeholder
           /\ claims[by_placeholder[exempt_canonical[t]]] = [text |-> t, exempt |-> TRUE]
    /\ \A o \in DOMAIN by_original :
           claims[o].exempt =>
               /\ claims[o].text \in DOMAIN exempt_canonical
               /\ by_original[o] = exempt_canonical[claims[o].text]
    /\ \A o \in DOMAIN by_original :
           ~claims[o].exempt => by_placeholder[by_original[o]] = o

\* The request's mapping is _by_original's, first claims first.
MappingInv ==
    /\ \A k \in DOMAIN pairs :
           /\ pairs[k].original \in DOMAIN by_original
           /\ pairs[k].label = by_original[pairs[k].original]
    /\ \A l \in DOMAIN by_placeholder :
           \E k \in DOMAIN pairs :
               /\ pairs[k].label = l /\ pairs[k].original = by_placeholder[l]
               /\ \A j \in DOMAIN pairs : pairs[j].label = l => k <= j

AllocatorInv == TypeOK /\ OwnerInv /\ RuleInv /\ MappingInv

LEMMA InitEstablishes == Init => AllocatorInv
<1> SUFFICES ASSUME Init PROVE AllocatorInv
    OBVIOUS
<1>1. DOMAIN by_original = {} /\ DOMAIN by_placeholder = {} /\ DOMAIN exempt_canonical = {}
      /\ DOMAIN claims = {} /\ DOMAIN pairs = {} /\ pairs \in Seq(Pair)
    BY DEF Init, Empty
<1>2. family_next \in [Names -> Nat \ {0}]
    BY DEF Init
<1> QED
    BY <1>1, <1>2 DEF Init, AllocatorInv, TypeOK, OwnerInv, RuleInv, MappingInv

\* A settled label is free, and the counters stay counters.
LEMMA OutcomeFacts ==
    ASSUME TypeOK, AllocatorAssumption, NEW l \in Texts, NEW out \in Outcome(l)
    PROVE  /\ out.label \in Label /\ ~IsTaken(out.label)
           /\ out.next \in [Names -> Nat \ {0}]
<1>1. l \in Label /\ Family(l) \in Names
    BY DEF AllocatorAssumption, Label, Family
<1>2. CASE IsTaken(l)
    <2>1. PICK i \in FreeIndex(Family(l)) :
              out = [label |-> Wrap(Family(l), i),
                     next |-> [family_next EXCEPT ![Family(l)] = i + 1]]
        BY <1>2 DEF Outcome
    <2>2. family_next[Family(l)] \in Nat \ {0}
        BY <1>1 DEF TypeOK
    <2>3. i \in Nat /\ ~IsTaken(Wrap(Family(l), i))
        BY <2>2 DEF FreeIndex
    <2>4. Wrap(Family(l), i) \in Label
        BY <1>1, <2>3 DEF Wrap, Label
    <2>5. [family_next EXCEPT ![Family(l)] = i + 1] \in [Names -> Nat \ {0}]
        <3>1. i + 1 \in Nat \ {0}
            BY <2>3
        <3> QED
            BY <3>1 DEF TypeOK
    <2> QED
        BY <2>1, <2>3, <2>4, <2>5
<1>3. CASE ~IsTaken(l)
    BY <1>1, <1>3 DEF Outcome, TypeOK
<1> QED
    BY <1>2, <1>3

\* What is appended to the mapping, and what was there.
LEMMA RememberFacts ==
    ASSUME TypeOK, NEW o \in Originals, NEW l \in Label, Remember(o, l)
    PROVE  /\ pairs' \in Seq(Pair)
           /\ DOMAIN pairs' = DOMAIN pairs \union {Len(pairs) + 1}
           /\ \A k \in DOMAIN pairs : pairs'[k] = pairs[k] /\ k <= Len(pairs)
           /\ pairs'[Len(pairs) + 1] = [original |-> o, label |-> l]
           /\ Len(pairs) \in Nat /\ DOMAIN pairs \subseteq Nat
<1>1. [original |-> o, label |-> l] \in Pair
    BY DEF Pair
<1> QED
    BY <1>1 DEF TypeOK, Remember

\* The mapping stays the allocator's.
LEMMA MappingKept ==
    ASSUME AllocatorInv, NEW o \in Originals, NEW l \in Label, Remember(o, l),
           DOMAIN by_original' = DOMAIN by_original \union {o}, by_original'[o] = l,
           \A x \in DOMAIN by_original : by_original'[x] = by_original[x],
           \/ by_placeholder' = by_placeholder /\ l \in DOMAIN by_placeholder
           \/ /\ l \notin DOMAIN by_placeholder
              /\ by_placeholder' = Put(by_placeholder, l, o)
    PROVE  MappingInv'
<1> DEFINE n == Len(pairs) + 1
<1>1. /\ DOMAIN pairs' = DOMAIN pairs \union {n} /\ n \in Nat /\ DOMAIN pairs \subseteq Nat
      /\ \A k \in DOMAIN pairs : pairs'[k] = pairs[k] /\ k <= n
      /\ pairs'[n].original = o /\ pairs'[n].label = l
    <2>1. /\ DOMAIN pairs' = DOMAIN pairs \union {n} /\ Len(pairs) \in Nat
          /\ DOMAIN pairs \subseteq Nat
          /\ \A k \in DOMAIN pairs : pairs'[k] = pairs[k] /\ k <= Len(pairs)
          /\ pairs'[n] = [original |-> o, label |-> l]
        BY RememberFacts DEF AllocatorInv
    <2> QED
        BY <2>1
<1>2. \A k \in DOMAIN pairs' :
          /\ pairs'[k].original \in DOMAIN by_original'
          /\ pairs'[k].label = by_original'[pairs'[k].original]
    BY <1>1 DEF AllocatorInv, MappingInv
<1>3. ASSUME NEW m \in DOMAIN by_placeholder'
      PROVE  \E k \in DOMAIN pairs' :
                 /\ pairs'[k].label = m /\ pairs'[k].original = by_placeholder'[m]
                 /\ \A j \in DOMAIN pairs' : pairs'[j].label = m => k <= j
    <2>1. CASE m \in DOMAIN by_placeholder
        <3>1. by_placeholder'[m] = by_placeholder[m]
            BY <2>1 DEF Put
        <3>2. PICK k \in DOMAIN pairs :
                  /\ pairs[k].label = m /\ pairs[k].original = by_placeholder[m]
                  /\ \A j \in DOMAIN pairs : pairs[j].label = m => k <= j
            BY <2>1 DEF AllocatorInv, MappingInv
        <3> QED
            BY <1>1, <3>1, <3>2
    <2>2. CASE m \notin DOMAIN by_placeholder
        <3>1. m = l /\ by_placeholder'[m] = o
            BY <1>3, <2>2 DEF Put
        <3>2. \A j \in DOMAIN pairs : pairs[j].label # m
            BY <2>2 DEF AllocatorInv, MappingInv, OwnerInv
        <3> QED
            BY <1>1, <3>1, <3>2
    <2> QED
        BY <2>1, <2>2
<1> QED
    BY <1>2, <1>3 DEF MappingInv

LEMMA ScanStep ==
    ASSUME AllocatorInv, NEW literals \in SUBSET Typed, Scan(literals)
    PROVE  AllocatorInv'
<1>1. literals \subseteq Label
    BY AllocatorAssumption
<1>2. TypeOK'
    BY <1>1 DEF AllocatorInv, TypeOK, Scan
<1> QED
    BY <1>2 DEF AllocatorInv, Scan, OwnerInv, RuleInv, MappingInv

LEMMA ReuseStep ==
    ASSUME AllocatorInv, NEW o \in Originals, Reuse(o)
    PROVE  AllocatorInv'
<1>1. /\ o \in DOMAIN by_original /\ Remember(o, by_original[o])
      /\ by_original[o] \in Label /\ by_original[o] \in DOMAIN by_placeholder
      /\ UNCHANGED <<phase, forbidden, exclusions, by_original, by_placeholder, family_next,
                     exempt_canonical, claims>>
    BY DEF Reuse, AllocatorInv, TypeOK, OwnerInv
<1>2. pairs' \in Seq(Pair)
    BY <1>1, RememberFacts DEF AllocatorInv
<1>3. MappingInv'
    BY <1>1, MappingKept
<1> QED
    BY <1>1, <1>2, <1>3 DEF AllocatorInv, TypeOK, OwnerInv, RuleInv

\* The end of _canonical, for a detector's original, a rule's first original
\* and a rule's further ones.
LEMMA SettleStep ==
    ASSUME AllocatorInv, NEW o \in Originals, NEW text \in Texts, NEW exempt \in BOOLEAN,
           NEW chosen \in Label, phase = "segments", o \notin DOMAIN by_original,
           Settle(o, text, exempt, chosen), family_next' \in [Names -> Nat \ {0}],
           \/ ~exempt /\ ~IsTaken(chosen) /\ exempt_canonical' = exempt_canonical
           \/ /\ exempt /\ ~IsTaken(chosen) /\ text \notin DOMAIN exempt_canonical
              /\ exempt_canonical' = Put(exempt_canonical, text, chosen)
           \/ /\ exempt /\ exempt_canonical' = exempt_canonical
              /\ text \in DOMAIN exempt_canonical /\ chosen = exempt_canonical[text]
    PROVE  AllocatorInv'
<1> DEFINE claim == [text |-> text, exempt |-> exempt]
<1>1. /\ DOMAIN by_original' = DOMAIN by_original \union {o} /\ by_original'[o] = chosen
      /\ \A x \in DOMAIN by_original : by_original'[x] = by_original[x]
    BY DEF Settle, Put
<1>2. /\ DOMAIN claims' = DOMAIN claims \union {o} /\ claims'[o] = claim
      /\ \A x \in DOMAIN claims : claims'[x] = claims[x]
    <2>1. o \notin DOMAIN claims
        BY DEF AllocatorInv, TypeOK
    <2> QED
        BY <2>1 DEF Settle, Put
<1>3. \/ by_placeholder' = by_placeholder /\ chosen \in DOMAIN by_placeholder
      \/ /\ chosen \notin DOMAIN by_placeholder
         /\ by_placeholder' = Put(by_placeholder, chosen, o)
    BY DEF Settle
<1>4. /\ DOMAIN by_placeholder' = DOMAIN by_placeholder \union {chosen}
      /\ \A l \in DOMAIN by_placeholder : by_placeholder'[l] = by_placeholder[l]
      /\ chosen \notin DOMAIN by_placeholder => by_placeholder'[chosen] = o
    BY <1>3 DEF Put
<1>5. /\ UNCHANGED <<phase, forbidden, exclusions>> /\ Remember(o, chosen)
    BY DEF Settle
<1>6. chosen \notin forbidden /\ (chosen \in DOMAIN by_placeholder =>
          exempt /\ text \in DOMAIN exempt_canonical /\ chosen = exempt_canonical[text])
    <2>1. \A t \in DOMAIN exempt_canonical : exempt_canonical[t] \in DOMAIN by_placeholder
        BY DEF AllocatorInv, RuleInv
    <2>2. \A l \in forbidden : l \notin DOMAIN by_placeholder
        BY DEF AllocatorInv, OwnerInv
    <2> QED
        BY <2>1, <2>2 DEF IsTaken
<1>7. /\ DOMAIN exempt_canonical' \subseteq DOMAIN exempt_canonical \union {text}
      /\ DOMAIN exempt_canonical \subseteq DOMAIN exempt_canonical'
      /\ \A t \in DOMAIN exempt_canonical : exempt_canonical'[t] = exempt_canonical[t]
      /\ exempt => text \in DOMAIN exempt_canonical' /\ exempt_canonical'[text] = chosen
      /\ ~exempt => exempt_canonical' = exempt_canonical
      /\ exempt /\ text \notin DOMAIN exempt_canonical => ~IsTaken(chosen)
    BY DEF Put
<1>8. TypeOK'
    <2>1. claim \in [text : Texts, exempt : BOOLEAN]
        OBVIOUS
    <2>2. pairs' \in Seq(Pair)
        BY <1>5, RememberFacts DEF AllocatorInv
    <2>3. /\ DOMAIN by_original' \subseteq Originals
          /\ \A x \in DOMAIN by_original' : by_original'[x] \in Label
          /\ DOMAIN by_placeholder' \subseteq Label
          /\ \A l \in DOMAIN by_placeholder' : by_placeholder'[l] \in Originals
        BY <1>1, <1>4 DEF AllocatorInv, TypeOK
    <2>4. /\ DOMAIN exempt_canonical' \subseteq Texts
          /\ \A t \in DOMAIN exempt_canonical' : exempt_canonical'[t] \in Label
        BY <1>7 DEF AllocatorInv, TypeOK
    <2>5. /\ DOMAIN claims' = DOMAIN by_original'
          /\ \A x \in DOMAIN claims' : claims'[x] \in [text : Texts, exempt : BOOLEAN]
        BY <1>1, <1>2, <2>1 DEF AllocatorInv, TypeOK
    <2> QED
        BY <1>5, <2>2, <2>3, <2>4, <2>5 DEF AllocatorInv, TypeOK
<1>9. OwnerInv'
    BY <1>1, <1>4, <1>5, <1>6 DEF AllocatorInv, OwnerInv, TypeOK
<1>10. RuleInv'
    <2>1. ASSUME NEW t \in DOMAIN exempt_canonical'
          PROVE  /\ exempt_canonical'[t] \in DOMAIN by_placeholder'
                 /\ claims'[by_placeholder'[exempt_canonical'[t]]]
                        = [text |-> t, exempt |-> TRUE]
        <3>1. CASE t \in DOMAIN exempt_canonical
            BY <1>2, <1>4, <1>7, <3>1 DEF AllocatorInv, RuleInv, OwnerInv, TypeOK
        <3>2. CASE t \notin DOMAIN exempt_canonical
            <4>1. t = text /\ exempt /\ exempt_canonical'[t] = chosen /\ ~IsTaken(chosen)
                BY <1>7, <2>1, <3>2
            <4> QED
                BY <1>2, <1>4, <4>1 DEF IsTaken
        <3> QED
            BY <3>1, <3>2
    <2>2. ASSUME NEW x \in DOMAIN by_original', claims'[x].exempt
          PROVE  /\ claims'[x].text \in DOMAIN exempt_canonical'
                 /\ by_original'[x] = exempt_canonical'[claims'[x].text]
        BY <1>1, <1>2, <1>7, <2>2 DEF AllocatorInv, RuleInv, TypeOK
    <2>3. ASSUME NEW x \in DOMAIN by_original', ~claims'[x].exempt
          PROVE  by_placeholder'[by_original'[x]] = x
        BY <1>1, <1>2, <1>4, <1>6, <2>3 DEF AllocatorInv, RuleInv, OwnerInv, TypeOK
    <2> QED
        BY <2>1, <2>2, <2>3 DEF RuleInv
<1>11. MappingInv'
    BY <1>1, <1>3, <1>5, MappingKept
<1> QED
    BY <1>8, <1>9, <1>10, <1>11 DEF AllocatorInv

LEMMA FoundStep ==
    ASSUME AllocatorInv, NEW o \in Originals, NEW text \in Texts, ClaimFound(o, text)
    PROVE  AllocatorInv'
<1>1. PICK out \in Outcome(text) :
          family_next' = out.next /\ Settle(o, text, FALSE, out.label)
    BY DEF ClaimFound
<1>2. /\ out.label \in Label /\ ~IsTaken(out.label)
      /\ out.next \in [Names -> Nat \ {0}]
    BY OutcomeFacts, AllocatorAssumption DEF AllocatorInv
<1> QED
    BY <1>1, <1>2, SettleStep DEF ClaimFound

LEMMA RuleStep ==
    ASSUME AllocatorInv, NEW o \in Originals, NEW text \in Texts, ClaimRule(o, text)
    PROVE  AllocatorInv'
<1>1. CASE text \in DOMAIN exempt_canonical
    <2>1. exempt_canonical[text] \in Label /\ family_next \in [Names -> Nat \ {0}]
        BY <1>1 DEF AllocatorInv, TypeOK
    <2> QED
        BY <1>1, <2>1, SettleStep DEF ClaimRule
<1>2. CASE text \notin DOMAIN exempt_canonical
    <2>1. PICK out \in Outcome(text) :
              /\ family_next' = out.next
              /\ exempt_canonical' = Put(exempt_canonical, text, out.label)
              /\ Settle(o, text, TRUE, out.label)
        BY <1>2 DEF ClaimRule
    <2>2. /\ out.label \in Label /\ ~IsTaken(out.label)
          /\ out.next \in [Names -> Nat \ {0}]
        BY OutcomeFacts, AllocatorAssumption DEF AllocatorInv
    <2> QED
        BY <1>2, <2>1, <2>2, SettleStep DEF ClaimRule
<1> QED
    BY <1>1, <1>2

LEMMA NextPreserves == AllocatorInv /\ [Next]_vars => AllocatorInv'
<1> SUFFICES ASSUME AllocatorInv, [Next]_vars PROVE AllocatorInv'
    OBVIOUS
<1>1. CASE UNCHANGED vars
    BY <1>1 DEF vars, AllocatorInv, TypeOK, OwnerInv, RuleInv, MappingInv
<1>2. CASE HandOver
    BY <1>2 DEF HandOver, AllocatorInv, TypeOK, OwnerInv, RuleInv, MappingInv
<1> QED
    BY <1>1, <1>2, ScanStep, ReuseStep, FoundStep, RuleStep DEF Next

LEMMA AllocatorInvariant == Spec => []AllocatorInv
BY InitEstablishes, NextPreserves, PTL DEF Spec

\* Labels that meet belong to one rule text.
LEMMA SharedOnlyByRule == AllocatorInv => NoForeignShare
<1> SUFFICES ASSUME AllocatorInv, NEW a \in DOMAIN by_original, NEW b \in DOMAIN by_original,
                    a # b
             PROVE  by_original[a] = by_original[b] <=> Variants(a, b)
    BY DEF NoForeignShare
<1>1. claims[a].exempt \in BOOLEAN /\ claims[b].exempt \in BOOLEAN
    BY DEF AllocatorInv, TypeOK
<1>2. ASSUME Variants(a, b) PROVE by_original[a] = by_original[b]
    BY <1>2 DEF Variants, AllocatorInv, RuleInv
<1>3. ASSUME by_original[a] = by_original[b] PROVE Variants(a, b)
    <2> DEFINE l == by_original[a]
    <2>1. CASE claims[a].exempt /\ claims[b].exempt
        <3>1. /\ claims[by_placeholder[l]] = [text |-> claims[a].text, exempt |-> TRUE]
              /\ claims[by_placeholder[l]] = [text |-> claims[b].text, exempt |-> TRUE]
            BY <1>3, <2>1 DEF AllocatorInv, RuleInv
        <3> QED
            BY <2>1, <3>1 DEF Variants
    <2>2. CASE ~claims[a].exempt
        <3>1. by_placeholder[l] = a
            BY <2>2 DEF AllocatorInv, RuleInv
        <3>2. ~claims[b].exempt => by_placeholder[l] = b
            BY <1>3 DEF AllocatorInv, RuleInv
        <3>3. claims[b].exempt => claims[by_placeholder[l]] = [text |-> claims[b].text, exempt |-> TRUE]
            BY <1>3 DEF AllocatorInv, RuleInv
        <3> QED
            BY <2>2, <3>1, <3>2, <3>3
    <2>3. CASE ~claims[b].exempt
        <3>1. by_placeholder[l] = b
            BY <1>3, <2>3 DEF AllocatorInv, RuleInv
        <3>2. ~claims[a].exempt => by_placeholder[l] = a
            BY DEF AllocatorInv, RuleInv
        <3>3. claims[a].exempt => claims[by_placeholder[l]] = [text |-> claims[a].text, exempt |-> TRUE]
            BY DEF AllocatorInv, RuleInv
        <3> QED
            BY <2>3, <3>1, <3>2, <3>3
    <2> QED
        BY <1>1, <2>1, <2>2, <2>3
<1> QED
    BY <1>2, <1>3

\* The first claimant of a label is its owner.
LEMMA OwnerRestored ==
    ASSUME AllocatorInv, NEW l \in DOMAIN by_placeholder
    PROVE  Restores(l, by_placeholder[l])
<1>1. PICK k \in DOMAIN pairs :
          /\ pairs[k].label = l /\ pairs[k].original = by_placeholder[l]
          /\ \A j \in DOMAIN pairs : pairs[j].label = l => k <= j
    BY DEF AllocatorInv, MappingInv
<1>2. \A j \in Claimants(l) : pairs[j].label = l
    BY <1>1 DEF Claimants, Aliased
<1> QED
    BY <1>1, <1>2 DEF Restores, Claimants

LEMMA RestoredRight == AllocatorInv => RoundTrip
<1> SUFFICES ASSUME AllocatorInv, NEW k \in DOMAIN pairs
             PROVE  \E o \in DOMAIN by_original :
                        /\ Restores(pairs[k].label, o)
                        /\ o = pairs[k].original \/ Variants(o, pairs[k].original)
    BY DEF RoundTrip
<1> DEFINE l == pairs[k].label
           owner == by_placeholder[l]
<1>1. /\ pairs[k].original \in DOMAIN by_original /\ by_original[pairs[k].original] = l
      /\ l \in DOMAIN by_placeholder /\ owner \in DOMAIN by_original
      /\ by_original[owner] = l
    BY DEF AllocatorInv, MappingInv, OwnerInv
<1>2. Restores(l, owner)
    BY <1>1, OwnerRestored
<1>3. owner = pairs[k].original \/ Variants(owner, pairs[k].original)
    BY <1>1, SharedOnlyByRule DEF NoForeignShare
<1> QED
    BY <1>1, <1>2, <1>3

LEMMA LiteralsKept == AllocatorInv => TypedStays
<1> SUFFICES ASSUME AllocatorInv PROVE TypedStays
    OBVIOUS
<1>1. \A k \in DOMAIN pairs : pairs[k].label \in DOMAIN by_placeholder /\ pairs[k].label \in Label
    BY DEF AllocatorInv, MappingInv, OwnerInv, TypeOK
<1>2. \A l \in Label : Bare(l).wrapped = FALSE
    BY DEF Bare, Label
<1>3. \A l \in forbidden, o \in Originals : ~Restores(l, o)
    BY <1>1, <1>2 DEF AllocatorInv, OwnerInv, Restores, Claimants
<1>4. \A l \in exclusions, o \in Originals :
          Restores(l, o) => \E k \in DOMAIN pairs : pairs[k].label = l
    BY DEF Restores, Claimants, Aliased
<1> QED
    BY <1>3, <1>4 DEF TypedStays

(* The allocator's dictionaries and the mapping keep their types. *)
THEOREM AllocatorTypeCorrect == Spec => []TypeOK
<1>1. AllocatorInv => TypeOK
    BY DEF AllocatorInv
<1> QED
    BY <1>1, AllocatorInvariant, PTL

(* placeholder_allocator._canonical: no two originals of a request meet on a  *)
(* placeholder, except the originals of one rule text, which always do.       *)
THEOREM BijectionTheorem == Spec => []NoForeignShare
BY AllocatorInvariant, SharedOnlyByRule, PTL

(* placeholder.build_reverse_substituter: the map built from the request's    *)
(* pairs restores what _canonical replaced, aliases included.                 *)
THEOREM RoundTripTheorem == Spec => []RoundTrip
BY AllocatorInvariant, RestoredRight, PTL

(* A label the user typed is not restored to somebody's original.             *)
THEOREM TypedTheorem == Spec => []TypedStays
BY AllocatorInvariant, LiteralsKept, PTL

(* Redactions are restored, and only redactions (build_reverse_substituter).  *)
THEOREM RestoresTheorem == Spec => []RestoresOnlyRedactions
BY RoundTripTheorem, TypedTheorem, PTL DEF RestoresOnlyRedactions

------------------------------------------------------------------------------


\* A set of numbers has a least one.
LEMMA LeastNat ==
    ASSUME NEW T \in SUBSET Nat, T # {}
    PROVE  \E n \in T : \A m \in T : n <= m
<1>1. \E x \in T : \A y \in T : ~(<<y, x>> \in OpToRel(<, Nat))
  BY NatLessThanWellFounded, WFMin, Zenon
<1>2. PICK x \in T : \A y \in T : ~(<<y, x>> \in OpToRel(<, Nat))
  BY <1>1, Zenon
<1>3. ASSUME NEW y \in T PROVE x <= y
  <2>1. <<y, x>> \in Nat \X Nat
    OBVIOUS
  <2>2. ~(y < x)
    BY <2>1, <1>2 DEF OpToRel
  <2> QED BY <2>2
<1> QED BY <1>3

------------------------------------------------------------------------------
(* A greedy choice.  beats is who comes before whom and gets in its way,     *)
(* rank an order of the candidates in which one is only beaten by earlier    *)
(* ones.                                                                     *)

\* W is what a greedy pass over C keeps.
Greedy(C, beats, W) ==
    W \subseteq C /\ \A c \in C : c \in W <=> \A d \in W : <<d, c>> \notin beats

Ranked(C, beats, rank) ==
    rank \in [C -> Nat] /\ \A c, d \in C : <<d, c>> \in beats => rank[d] < rank[c]

\* Of two passes, the second over some of the candidates and all that the first
\* one kept, both keep the same.
LEMMA GreedyAgain ==
    ASSUME NEW C, NEW beats, NEW rank, Ranked(C, beats, rank), NEW W, Greedy(C, beats, W),
           NEW D, W \subseteq D, D \subseteq C, NEW V, Greedy(D, beats, V)
    PROVE  V = W
<1> DEFINE differ == {c \in D : ~(c \in W <=> c \in V)}
           R == {rank[c] : c \in differ}
<1>1. differ = {}
  <2> SUFFICES ASSUME differ # {} PROVE FALSE
    OBVIOUS
  <2>1. R \in SUBSET Nat /\ R # {}
    BY DEF Ranked
  <2>2. PICK n \in R : \A m \in R : n <= m
    BY <2>1, LeastNat
  <2>3. PICK c \in differ : n = rank[c]
    BY <2>2
  <2>4. \A d \in D : rank[d] < rank[c] => (d \in W <=> d \in V)
    BY <2>1, <2>2, <2>3 DEF Ranked
  <2>5. \A d \in D : <<d, c>> \in beats => (d \in W <=> d \in V)
    BY <2>4 DEF Ranked
  <2>6. (\A d \in W : <<d, c>> \notin beats) <=> (\A d \in V : <<d, c>> \notin beats)
    BY <2>5 DEF Greedy
  <2> QED
    BY <2>3, <2>6 DEF Greedy
<1> QED
  BY <1>1 DEF Greedy

\* There is such a pass.
LEMMA GreedyExists ==
    ASSUME NEW C, NEW beats, NEW rank, Ranked(C, beats, rank),
           NEW N \in Nat, \A c \in C : rank[c] < N
    PROVE  \E W \in SUBSET C : Greedy(C, beats, W)
<1> DEFINE Below(n) == {c \in C : rank[c] < n}
           Bad == {n \in Nat : ~\E W \in SUBSET Below(n) : Greedy(Below(n), beats, W)}
<1>1. Bad = {}
  <2> SUFFICES ASSUME Bad # {} PROVE FALSE
    OBVIOUS
  <2>1. PICK n \in Bad : \A m \in Bad : n <= m
    BY LeastNat
  <2>2. n # 0
    <3>1. Below(0) = {}
      BY DEF Ranked
    <3>2. Greedy({}, beats, {})
      BY DEF Greedy
    <3> QED
      BY <3>1, <3>2
  <2>3. n - 1 \in Nat /\ n - 1 \notin Bad
    <3>1. n \in Nat
      OBVIOUS
    <3> HIDE DEF Bad
    <3> QED
      BY <2>1, <2>2, <3>1
  <2>4. PICK W \in SUBSET Below(n - 1) : Greedy(Below(n - 1), beats, W)
    BY <2>3
  <2> DEFINE X == W \union {c \in Below(n) : rank[c] = n - 1 /\ \A d \in W : <<d, c>> \notin beats}
  <2>5. Below(n - 1) \subseteq Below(n) /\ X \subseteq Below(n)
    BY <2>3 DEF Ranked
  <2>6. ASSUME NEW c \in Below(n) PROVE c \in X <=> \A d \in X : <<d, c>> \notin beats
    <3>1. \A d \in X : d \notin W => rank[d] = n - 1 /\ d \in C
      OBVIOUS
    <3>2. rank[c] \in Nat /\ rank[c] < n /\ c \in C
      BY DEF Ranked
    <3>3. \A d \in X : d \notin W => <<d, c>> \notin beats
      BY <2>3, <3>1, <3>2 DEF Ranked
    <3>4. (\A d \in X : <<d, c>> \notin beats) <=> (\A d \in W : <<d, c>> \notin beats)
      BY <3>3
    <3>5. CASE rank[c] = n - 1
      <4>1. c \notin W
        BY <2>4, <3>5
      <4> QED
        BY <3>4, <3>5, <4>1
    <3>6. CASE rank[c] # n - 1
      <4>1. c \in Below(n - 1)
        BY <2>3, <3>2, <3>6
      <4>2. c \in W <=> \A d \in W : <<d, c>> \notin beats
        BY <2>4, <4>1 DEF Greedy
      <4>3. c \in X <=> c \in W
        BY <3>6
      <4> QED
        BY <3>4, <4>2, <4>3
    <3> QED
      BY <3>5, <3>6
  <2> HIDE DEF X
  <2>7. Greedy(Below(n), beats, X)
    BY <2>5, <2>6 DEF Greedy
  <2> QED
    BY <2>1, <2>5, <2>7
<1>2. \A n \in Nat : \E W \in SUBSET Below(n) : Greedy(Below(n), beats, W)
  BY <1>1
<1>3. Below(N) = C
  OBVIOUS
<1> QED
  BY <1>2, <1>3

------------------------------------------------------------------------------
(* The candidates of a plan.                                                 *)

Candidates(C, n) ==
    \A c \in C : /\ c.start \in 0..n /\ c.end \in 0..n /\ c.start <= c.end
                 /\ c.finding \in {0, 1}

Beats(C) ==
    {p \in C \X C : BetterCandidate(p[1], p[2]) /\ Overlaps(p[2], p[1])}

\* Numbers of two digits.
LEMMA RankLess ==
    ASSUME NEW x \in Nat, NEW y \in Nat, x < y, NEW M \in Nat, NEW s \in Nat, s < M, NEW t \in Nat
    PROVE  x * M + s < y * M + t
<1>1. PICK k \in Nat : y = x + 1 + k
  <2>1. y - x - 1 \in Nat /\ y = x + 1 + (y - x - 1)
    OBVIOUS
  <2> QED
    BY <2>1
<1>2. y * M = x * M + M + k * M
  BY <1>1
<1>3. x * M \in Nat /\ k * M \in Nat /\ y * M \in Nat
  OBVIOUS
<1> QED
  BY <1>2, <1>3

\* The longest first, a rule before a finding, the leftmost before the others.
LEMMA RankOf ==
    ASSUME NEW n \in Nat, NEW C, Candidates(C, n)
    PROVE  \E rank : \E N \in Nat : Ranked(C, Beats(C), rank) /\ \A c \in C : rank[c] < N
<1> DEFINE M == n + 1
           high(c) == (n - (c.end - c.start)) * 2 + c.finding
           rank == [c \in C |-> high(c) * M + c.start]
           N == (2 * n + 2) * M
<1>1. M \in Nat /\ n < M
  OBVIOUS
<1>2. ASSUME NEW c \in C PROVE high(c) \in Nat /\ high(c) < 2 * n + 2 /\ c.start \in Nat /\ c.start < M
  BY <1>1 DEF Candidates
<1>3. N \in Nat
  BY <1>1
<1>4. ASSUME NEW c \in C PROVE rank[c] \in Nat /\ rank[c] < N
  <2>1. high(c) * M + c.start < (2 * n + 2) * M + 0
    <3> HIDE DEF M, high
    <3>1. 2 * n + 2 \in Nat
      OBVIOUS
    <3> QED
      BY <1>1, <1>2, <3>1, RankLess
  <2>2. high(c) * M + c.start \in Nat
    <3> HIDE DEF M, high
    <3> QED
      BY <1>1, <1>2
  <2> QED
    BY <1>3, <2>1, <2>2
<1>5. ASSUME NEW c \in C, NEW d \in C, <<d, c>> \in Beats(C) PROVE rank[d] < rank[c]
  <2>1. BetterCandidate(d, c)
    BY <1>5 DEF Beats
  <2>2. high(d) < high(c) \/ (high(d) = high(c) /\ d.start < c.start)
    BY <2>1 DEF BetterCandidate, Length, Candidates
  <2>3. rank[c] = high(c) * M + c.start /\ rank[d] = high(d) * M + d.start
    OBVIOUS
  <2> HIDE DEF M, high, rank
  <2>4. CASE high(d) < high(c)
    BY <1>1, <1>2, <2>3, <2>4, RankLess
  <2>5. CASE high(d) = high(c) /\ d.start < c.start
    <3>1. high(c) * M \in Nat
      BY <1>1, <1>2
    <3> QED
      BY <1>2, <2>3, <2>5, <3>1
  <2> QED
    BY <2>2, <2>4, <2>5
<1>6. rank \in [C -> Nat]
  <2>1. \A c \in C : rank[c] \in Nat
    BY <1>4
  <2> QED
    BY <2>1
<1>7. Ranked(C, Beats(C), rank)
  <2> HIDE DEF rank
  <2> QED
    BY <1>5, <1>6 DEF Ranked
<1>8. \A c \in C : rank[c] < N
  BY <1>4
<1> HIDE DEF rank, N
<1> QED
  BY <1>3, <1>7, <1>8

\* Winners, whose definition is recursive, is a greedy choice.
LEMMA WinnersGreedy ==
    ASSUME NEW n \in Nat, NEW C, Candidates(C, n)
    PROVE  Greedy(C, Beats(C), Winners(C, BetterCandidate))
<1> DEFINE Unrolled(g) == [c \in C |-> \A d \in C : BetterCandidate(d, c) /\ Overlaps(c, d) => ~g[d]]
           wins == CHOOSE g : g = Unrolled(g)
           K == {c \in C : wins[c]}
<1>1. PICK rank : \E N \in Nat : Ranked(C, Beats(C), rank) /\ \A c \in C : rank[c] < N
  BY RankOf
<1>2. PICK W \in SUBSET C : Greedy(C, Beats(C), W)
  BY <1>1, GreedyExists
<1>3. \A c, d \in C : <<d, c>> \in Beats(C) <=> BetterCandidate(d, c) /\ Overlaps(c, d)
  BY DEF Beats
<1>4. \E g : g = Unrolled(g)
  <2> DEFINE f == [c \in C |-> c \in W]
  <2>1. ASSUME NEW c \in C
        PROVE  (c \in W) <=> (\A d \in C : BetterCandidate(d, c) /\ Overlaps(c, d) => ~f[d])
    <3>1. \A d \in C : f[d] = (d \in W)
      OBVIOUS
    <3>2. c \in W <=> \A d \in W : <<d, c>> \notin Beats(C)
      BY <1>2 DEF Greedy
    <3> HIDE DEF f
    <3>3. (\A d \in C : BetterCandidate(d, c) /\ Overlaps(c, d) => ~f[d])
             <=> (\A d \in W : <<d, c>> \notin Beats(C))
      BY <1>2, <1>3, <3>1
    <3> QED
      BY <3>2, <3>3
  <2>2. f = Unrolled(f)
    <3>1. ASSUME NEW c \in C
          PROVE  (c \in W) = (\A d \in C : BetterCandidate(d, c) /\ Overlaps(c, d) => ~f[d])
      <4> DEFINE right == \A d \in C : BetterCandidate(d, c) /\ Overlaps(c, d) => ~f[d]
      <4>1. c \in W <=> right
        BY <2>1
      <4>2. right \in BOOLEAN
        OBVIOUS
      <4> HIDE DEF right
      <4>3. (c \in W) = right
        BY <4>1, <4>2
      <4> QED
        BY <4>3 DEF right
    <3> QED
      BY <3>1, Zenon
  <2> QED
    BY <2>2
<1>5. wins = Unrolled(wins)
  <2> HIDE DEF Unrolled
  <2> QED
    BY <1>4
<1>6. Winners(C, BetterCandidate) = K
  BY DEF Winners
<1> HIDE DEF wins
<1>7. ASSUME NEW c \in C
      PROVE  wins[c] = (\A d \in C : BetterCandidate(d, c) /\ Overlaps(c, d) => ~wins[d])
  BY <1>5, Zenon
<1>8. ASSUME NEW c \in C PROVE c \in K <=> \A d \in K : <<d, c>> \notin Beats(C)
  BY <1>3, <1>7
<1> HIDE DEF K
<1>9. K \subseteq C
  BY DEF K
<1> QED
  BY <1>6, <1>8, <1>9 DEF Greedy

------------------------------------------------------------------------------
(* A plan made again from its own pairs.                                     *)

\* A match of a literal is a stretch of the text.
LEMMA FoundPlaced ==
    ASSUME NEW text, NEW literal
    PROVE  /\ FindIter(text, literal, SameText) \subseteq Spans(text)
           /\ FindIter(text, literal, SameFolded) \subseteq Spans(text)
BY DEF FindIter, Winners

\* A match of a rule is a stretch of the text.
LEMMA MatchesPlaced ==
    ASSUME NEW text, Len(text) \in Nat, NEW rules, NEW m \in RuleMatches(rules, text)
    PROVE  m.start \in 0..Len(text) /\ m.end \in 0..Len(text) /\ m.start <= m.end
<1> DEFINE cands == UNION {{[start |-> s.start, end |-> s.end, rule |-> i] :
                              s \in FindIter(text, rules[i].pattern, SameFolded)} : i \in DOMAIN rules}
           Better(c, d) ==
               \/ Length(c) > Length(d)
               \/ Length(c) = Length(d) /\ c.rule < d.rule
               \/ Length(c) = Length(d) /\ c.rule = d.rule /\ c.start < d.start
           kept == Winners(cands, Better)
<1>1. \E c \in cands : m.start = c.start /\ m.end = c.end
  <2>1. m \in {[start |-> c.start, end |-> c.end, original |-> Slice(text, c),
                replacement |-> rules[c.rule].replacement] : c \in kept}
    BY DEF RuleMatches
  <2>2. kept \subseteq cands
    BY DEF Winners
  <2> HIDE DEF kept, cands
  <2> QED
    BY <2>1, <2>2
<1>2. ASSUME NEW c \in cands
      PROVE  c.start \in 0..Len(text) /\ c.end \in 0..Len(text) /\ c.start <= c.end
  <2>1. PICK i \in DOMAIN rules : \E s \in FindIter(text, rules[i].pattern, SameFolded) :
           c = [start |-> s.start, end |-> s.end, rule |-> i]
    OBVIOUS
  <2>2. PICK s \in Spans(text) : c = [start |-> s.start, end |-> s.end, rule |-> i]
    BY <2>1, FoundPlaced
  <2> QED
    BY <2>2 DEF Spans
<1> HIDE DEF cands
<1> QED
  BY <1>1, <1>2

\* Everything in the pool is a stretch of the text.
LEMMA PoolTyped ==
    ASSUME NEW text, Len(text) \in Nat, NEW rules, NEW originals, NEW active
    PROVE  Candidates(Pool(text, originals, RuleMatches(rules, text), active), Len(text))
<1> DEFINE C == Pool(text, originals, RuleMatches(rules, text), active)
<1> SUFFICES ASSUME NEW c \in C
             PROVE  /\ c.start \in 0..Len(text) /\ c.end \in 0..Len(text) /\ c.start <= c.end
                    /\ c.finding \in {0, 1}
  BY DEF Candidates
<1>1. CASE \E m \in RuleMatches(rules, text) :
              c = [start |-> m.start, end |-> m.end, original |-> m.original, finding |-> 0]
  BY <1>1, MatchesPlaced
<1>2. CASE \E o \in originals : \E s \in FindIter(text, o, SameText) :
              c = [start |-> s.start, end |-> s.end, original |-> o, finding |-> 1]
  <2>1. PICK o \in originals : \E s \in Spans(text) :
           c = [start |-> s.start, end |-> s.end, original |-> o, finding |-> 1]
    BY <1>2, FoundPlaced
  <2> QED
    BY <2>1 DEF Spans
<1> QED
  BY <1>1, <1>2 DEF Pool

\* Two greedy passes of BetterCandidate.
LEMMA PassAgain ==
    ASSUME NEW n \in Nat, NEW C, Candidates(C, n), NEW D, D \subseteq C,
           Winners(C, BetterCandidate) \subseteq D
    PROVE  Winners(D, BetterCandidate) = Winners(C, BetterCandidate)
<1> DEFINE W == Winners(C, BetterCandidate)
           V == Winners(D, BetterCandidate)
<1>1. Candidates(D, n)
  BY DEF Candidates
<1>2. PICK rank : Ranked(C, Beats(C), rank)
  BY RankOf
<1>3. Greedy(C, Beats(C), W)
  BY WinnersGreedy
<1>4. Greedy(D, Beats(D), V)
  BY <1>1, WinnersGreedy
<1> HIDE DEF W, V
<1>5. \A c, d \in D : <<d, c>> \in Beats(D) <=> <<d, c>> \in Beats(C)
  BY DEF Beats
<1>6. Greedy(D, Beats(C), V)
  BY <1>4, <1>5 DEF Greedy
<1>7. W \subseteq D
  BY DEF W
<1>8. V = W
  BY <1>2, <1>3, <1>6, <1>7, GreedyAgain
<1> QED
  BY <1>8 DEF V, W

\* What a plan is made of.
OriginalsOf(unique) == {p[1] : p \in ToSet(unique)}
KeptBy(text, unique, matches, active) ==
    Winners(Pool(text, OriginalsOf(unique), matches, active), BetterCandidate)
UsedBy(kept) == {c.original : c \in kept}
SpansOf(kept) == {[start |-> c.start, end |-> c.end, original |-> c.original] : c \in kept}
PairsUsed(unique, used) == Restrict(unique, {i \in DOMAIN unique : unique[i][1] \in used})

\* A plan, in these words.
LEMMA PlanParts ==
    ASSUME NEW text, NEW list, NEW matches, NEW active, NEW kept,
           kept = KeptBy(text, FirstPairs(list), matches, active)
    PROVE  PlanReplacements(text, list, matches, active)
             = [spans |-> SpansOf(kept), pairs |-> PairsUsed(FirstPairs(list), UsedBy(kept)),
                rules |-> active \cap UsedBy(kept)]
BY DEF PlanReplacements, KeptBy, OriginalsOf, UsedBy, SpansOf, PairsUsed

\* The pairs a plan keeps name each original once.
LEMMA FirstAgain ==
    ASSUME NEW list, NEW used
    PROVE  FirstPairs(PairsUsed(FirstPairs(list), used)) = PairsUsed(FirstPairs(list), used)
<1> DEFINE U == FirstPairs(list)
           P == PairsUsed(U, used)
<1>1. /\ DOMAIN U \subseteq DOMAIN list
      /\ \A i \in DOMAIN U : /\ U[i] = list[i] /\ list[i][1] # <<>>
                             /\ \A j \in DOMAIN list : j < i => list[j][1] # list[i][1]
  BY DEF FirstPairs, Restrict
<1>2. /\ DOMAIN P \subseteq DOMAIN U
      /\ \A i \in DOMAIN P : P[i] = U[i]
      /\ P = [i \in DOMAIN P |-> P[i]]
  <2> HIDE DEF U
  <2> QED
    BY DEF PairsUsed, Restrict
<1> HIDE DEF U, P
<1>3. {i \in DOMAIN P : /\ P[i][1] # <<>>
                        /\ \A j \in DOMAIN P : j < i => P[j][1] # P[i][1]} = DOMAIN P
  <2>1. ASSUME NEW i \in DOMAIN P PROVE P[i][1] # <<>>
    BY <1>1, <1>2
  <2>2. ASSUME NEW i \in DOMAIN P, NEW j \in DOMAIN P, j < i PROVE P[j][1] # P[i][1]
    <3>1. i \in DOMAIN U /\ j \in DOMAIN list /\ P[i] = list[i] /\ P[j] = list[j]
      BY <1>1, <1>2
    <3> QED
      BY <1>1, <2>2, <3>1
  <2> QED
    BY <2>1, <2>2, Zenon
<1>4. FirstPairs(P) = [i \in DOMAIN P |-> P[i]]
  BY <1>3 DEF FirstPairs, Restrict
<1>5. FirstPairs(P) = P
  BY <1>2, <1>4
<1> QED
  BY <1>5 DEF P, U

\* The pairs a plan keeps are those of the originals it replaces.
LEMMA UsedPairs ==
    ASSUME NEW unique, NEW used, used \subseteq OriginalsOf(unique)
    PROVE  /\ OriginalsOf(PairsUsed(unique, used)) = used
           /\ \A p : p \in ToSet(PairsUsed(unique, used)) <=> p \in ToSet(unique) /\ p[1] \in used
           /\ PairsUsed(PairsUsed(unique, used), used) = PairsUsed(unique, used)
<1> DEFINE P == PairsUsed(unique, used)
<1>1. DOMAIN P = {i \in DOMAIN unique : unique[i][1] \in used} /\ \A i \in DOMAIN P : P[i] = unique[i]
  BY DEF PairsUsed, Restrict
<1>2. ToSet(P) = {P[i] : i \in DOMAIN P} /\ ToSet(unique) = {unique[i] : i \in DOMAIN unique}
  BY DEF ToSet
<1>3. P = [i \in DOMAIN P |-> P[i]]
  BY DEF PairsUsed, Restrict
<1> HIDE DEF P
<1>4. \A p : p \in ToSet(P) <=> p \in ToSet(unique) /\ p[1] \in used
  BY <1>1, <1>2
<1>5. OriginalsOf(P) = used
  BY <1>4 DEF OriginalsOf
<1>6. PairsUsed(P, used) = P
  <2>1. {i \in DOMAIN P : P[i][1] \in used} = DOMAIN P
    BY <1>1
  <2> QED
    BY <1>3, <2>1 DEF PairsUsed, Restrict
<1> QED
  BY <1>4, <1>5, <1>6 DEF P

\* The rules that are active with these pairs are those the plan used.
LEMMA ActiveAgain ==
    ASSUME NEW list, NEW used, used \subseteq OriginalsOf(FirstPairs(list)), NEW matches
    PROVE  ActiveRules(PairsUsed(FirstPairs(list), used), matches) = ActiveRules(list, matches) \cap used
<1> DEFINE U == FirstPairs(list)
           P == PairsUsed(U, used)
<1>1. FirstPairs(P) = P
  BY FirstAgain
<1>2. \A p : p \in ToSet(P) <=> p \in ToSet(U) /\ p[1] \in used
  BY UsedPairs
<1> HIDE DEF U, P
<1>3. ActiveRules(P, matches) = {m.original : m \in {k \in matches : <<k.original, k.replacement>> \in ToSet(P)}}
  BY <1>1 DEF ActiveRules
<1>4. ActiveRules(list, matches) = {m.original : m \in {k \in matches : <<k.original, k.replacement>> \in ToSet(U)}}
  BY DEF ActiveRules, U
<1>5. \A k \in matches : <<k.original, k.replacement>> \in ToSet(P)
                            <=> <<k.original, k.replacement>> \in ToSet(U) /\ k.original \in used
  BY <1>2
<1>6. ActiveRules(P, matches) = ActiveRules(list, matches) \cap used
  BY <1>3, <1>4, <1>5
<1> QED
  BY <1>6 DEF P, U

\* Planning with the pairs of a plan gives that plan: the pairs that were left
\* out had won no span, so the others keep all of theirs.
LEMMA PlanAgain ==
    ASSUME NEW text, Len(text) \in Nat, NEW rules, NEW list, NEW matches,
           matches = RuleMatches(rules, text), NEW plan,
           plan = PlanReplacements(text, list, matches, ActiveRules(list, matches))
    PROVE  PlanReplacements(text, plan.pairs, matches, ActiveRules(plan.pairs, matches)) = plan
<1> DEFINE U == FirstPairs(list)
           A == ActiveRules(list, matches)
           C == Pool(text, OriginalsOf(U), matches, A)
           W == KeptBy(text, U, matches, A)
           used == UsedBy(W)
           P == PairsUsed(U, used)
           B == ActiveRules(P, matches)
           D == Pool(text, OriginalsOf(P), matches, B)
           V == KeptBy(text, P, matches, B)
<1>1. plan = [spans |-> SpansOf(W), pairs |-> P, rules |-> A \cap used]
  BY PlanParts
<1>2. Candidates(C, Len(text))
  BY PoolTyped
<1>3. W \subseteq C /\ \A c \in C : c.original \in OriginalsOf(U)
  <2>1. W \subseteq C
    BY DEF KeptBy, Winners
  <2>2. \A c \in C : c.original \in OriginalsOf(U)
    <3> HIDE DEF U, A
    <3> QED
      BY DEF Pool
  <2> QED
    BY <2>1, <2>2
<1>4. used \subseteq OriginalsOf(U)
  BY <1>3 DEF UsedBy
<1>5. B = A \cap used /\ OriginalsOf(P) = used /\ FirstPairs(P) = P /\ PairsUsed(P, used) = P
  <2> HIDE DEF used
  <2> QED
    BY <1>4, ActiveAgain, UsedPairs, FirstAgain
<1>6. D \subseteq C /\ \A c \in C : c.original \in used => c \in D
  <2>1. D = Pool(text, used, matches, A \cap used)
    BY <1>5
  <2> HIDE DEF D, used, U, A
  <2> QED
    BY <1>4, <2>1 DEF Pool
<1>7. W \subseteq D
  BY <1>3, <1>6 DEF UsedBy
<1>8. V = W
  <2>1. W = Winners(C, BetterCandidate) /\ V = Winners(D, BetterCandidate)
    BY DEF KeptBy
  <2> HIDE DEF W, V, C, D
  <2> QED
    BY <1>2, <1>6, <1>7, <2>1, PassAgain
<1>9. PlanReplacements(text, P, matches, B) = [spans |-> SpansOf(V), pairs |-> PairsUsed(P, UsedBy(V)), rules |-> B \cap UsedBy(V)]
  <2>1. V = KeptBy(text, FirstPairs(P), matches, B)
    BY <1>5
  <2> DEFINE again == PlanReplacements(text, P, matches, B)
  <2> HIDE DEF V, P, B
  <2>2. again = [spans |-> SpansOf(V), pairs |-> PairsUsed(FirstPairs(P), UsedBy(V)), rules |-> B \cap UsedBy(V)]
    BY <2>1, PlanParts
  <2> QED
    BY <1>5, <2>2
<1>10. plan.pairs = P
  BY <1>1
<1> HIDE DEF P, V, W, B, A
<1>11. B \cap used = A \cap used
  BY <1>5
<1> QED
  BY <1>1, <1>5, <1>8, <1>9, <1>10, <1>11 DEF B

------------------------------------------------------------------------------
(* A plan fits its text.                                                     *)

\* A candidate names the text it stands for, and that text is not empty.
Named(text, C) ==
    \A c \in C : c.original = SubSeq(text, c.start + 1, c.end) /\ c.start < c.end /\ c.end <= Len(text)

\* An occurrence of an original is that original.
LEMMA FoundNamed ==
    ASSUME NEW text, NEW literal, NEW s \in FindIter(text, literal, SameText)
    PROVE  literal = SubSeq(text, s.start + 1, s.end)
BY DEF FindIter, Winners, SameText, Slice

\* The original of a rule match is the text it matched.
LEMMA MatchNamed ==
    ASSUME NEW text, NEW rules, NEW m \in RuleMatches(rules, text)
    PROVE  m.original = SubSeq(text, m.start + 1, m.end)
<1> DEFINE cands == UNION {{[start |-> s.start, end |-> s.end, rule |-> i] :
                              s \in FindIter(text, rules[i].pattern, SameFolded)} : i \in DOMAIN rules}
           Better(c, d) ==
               \/ Length(c) > Length(d)
               \/ Length(c) = Length(d) /\ c.rule < d.rule
               \/ Length(c) = Length(d) /\ c.rule = d.rule /\ c.start < d.start
           kept == Winners(cands, Better)
<1>1. m \in {[start |-> c.start, end |-> c.end, original |-> Slice(text, c),
              replacement |-> rules[c.rule].replacement] : c \in kept}
  BY DEF RuleMatches
<1> HIDE DEF kept
<1> QED
  BY <1>1 DEF Slice

\* So is the original of everything in the pool.
LEMMA PoolNamed ==
    ASSUME NEW text, Len(text) \in Nat, NEW rules, NEW originals, <<>> \notin originals, NEW active,
           text \in Seq(ToSet(text))
    PROVE  Named(text, Pool(text, originals, RuleMatches(rules, text), active))
<1> DEFINE C == Pool(text, originals, RuleMatches(rules, text), active)
<1> SUFFICES ASSUME NEW c \in C
             PROVE  c.original = SubSeq(text, c.start + 1, c.end) /\ c.start < c.end /\ c.end <= Len(text)
  BY DEF Named
<1>1. c.original \in originals /\ c.original = SubSeq(text, c.start + 1, c.end)
  <2>1. CASE \E m \in RuleMatches(rules, text) : m.original \in originals /\
              c = [start |-> m.start, end |-> m.end, original |-> m.original, finding |-> 0]
    BY <2>1, MatchNamed
  <2>2. CASE \E o \in originals : \E s \in FindIter(text, o, SameText) :
              c = [start |-> s.start, end |-> s.end, original |-> o, finding |-> 1]
    BY <2>2, FoundNamed
  <2> QED
    BY <2>1, <2>2 DEF Pool
<1>2. c.start \in 0..Len(text) /\ c.end \in 0..Len(text) /\ c.start <= c.end
  BY PoolTyped DEF Candidates
<1>3. c.start # c.end
  <2> SUFFICES ASSUME c.start = c.end PROVE FALSE
    OBVIOUS
  <2>1. SubSeq(text, c.start + 1, c.end) = <<>>
    BY <1>2
  <2> QED
    BY <1>1, <2>1
<1> QED
  BY <1>1, <1>2, <1>3

\* BetterCandidate decides between any two that are not at one place.
LEMMA Ties ==
    ASSUME NEW c, NEW d, c.start \in Int, c.end \in Int, d.start \in Int, d.end \in Int,
           c.finding \in Int, d.finding \in Int, ~BetterCandidate(c, d), ~BetterCandidate(d, c)
    PROVE  c.start = d.start /\ c.end = d.end
BY DEF BetterCandidate, Length

\* Two candidates that a pass keeps do not overlap.
LEMMA KeptApart ==
    ASSUME NEW text, Len(text) \in Nat, NEW C, Candidates(C, Len(text)), Named(text, C),
           NEW c \in Winners(C, BetterCandidate), NEW d \in Winners(C, BetterCandidate),
           Overlaps(c, d)
    PROVE  c.start = d.start /\ c.end = d.end /\ c.original = d.original
<1> DEFINE W == Winners(C, BetterCandidate)
<1>1. Greedy(C, Beats(C), W)
  BY WinnersGreedy
<1> HIDE DEF W
<1>2. c \in W /\ d \in W /\ c \in C /\ d \in C
  BY <1>1 DEF Greedy, W
<1>3. <<c, d>> \notin Beats(C) /\ <<d, c>> \notin Beats(C)
  BY <1>1, <1>2 DEF Greedy
<1>4. ~BetterCandidate(c, d) /\ ~BetterCandidate(d, c)
  BY <1>2, <1>3 DEF Beats, Overlaps
<1>5. /\ c.start \in Int /\ c.end \in Int /\ d.start \in Int /\ d.end \in Int
      /\ c.finding \in Int /\ d.finding \in Int
  BY <1>2 DEF Candidates
<1>6. c.start = d.start /\ c.end = d.end
  BY <1>4, <1>5, Ties
<1> QED
  BY <1>2, <1>6 DEF Named

\* apply_spans finds nothing wrong with a plan.
LEMMA PlanApplies ==
    ASSUME NEW text, text \in Seq(ToSet(text)), NEW rules, NEW list, NEW active
    PROVE  Applies(text, PlanReplacements(text, list, RuleMatches(rules, text), active))
<1> DEFINE matches == RuleMatches(rules, text)
           U == FirstPairs(list)
           C == Pool(text, OriginalsOf(U), matches, active)
           W == KeptBy(text, U, matches, active)
           plan == PlanReplacements(text, list, matches, active)
<1>1. Len(text) \in Nat
  OBVIOUS
<1>2. plan = [spans |-> SpansOf(W), pairs |-> PairsUsed(U, UsedBy(W)), rules |-> active \cap UsedBy(W)]
  BY PlanParts
<1>3. Candidates(C, Len(text))
  BY <1>1, PoolTyped
<1>4. <<>> \notin OriginalsOf(U)
  BY DEF OriginalsOf, ToSet, FirstPairs, Restrict
<1>5. Named(text, C)
  <2> HIDE DEF U
  <2> QED
    BY <1>1, <1>4, PoolNamed
<1>6. W = Winners(C, BetterCandidate) /\ W \subseteq C
  BY DEF KeptBy, Winners
<1>7. UsedBy(W) \subseteq OriginalsOf(U)
  <2>1. \A c \in C : c.original \in OriginalsOf(U)
    <3> HIDE DEF U
    <3> QED
      BY DEF Pool
  <2> QED
    BY <1>6, <2>1 DEF UsedBy
<1> HIDE DEF W, C, U, plan
<1>8. ASSUME NEW s \in plan.spans
      PROVE  \E c \in W : s = [start |-> c.start, end |-> c.end, original |-> c.original]
  BY <1>2 DEF SpansOf
<1>9. ASSUME NEW s \in plan.spans
      PROVE  s.start < s.end /\ s.end <= Len(text) /\ Slice(text, s) = s.original
  BY <1>5, <1>6, <1>8 DEF Named, Slice
<1>10. ASSUME NEW s \in plan.spans, NEW t \in plan.spans, s # t PROVE ~Overlaps(s, t)
  <2>1. PICK c \in W : s = [start |-> c.start, end |-> c.end, original |-> c.original]
    BY <1>8
  <2>2. PICK d \in W : t = [start |-> d.start, end |-> d.end, original |-> d.original]
    BY <1>8
  <2>3. Overlaps(s, t) <=> Overlaps(c, d)
    BY <2>1, <2>2 DEF Overlaps
  <2>4. Overlaps(c, d) => c.start = d.start /\ c.end = d.end /\ c.original = d.original
    BY <1>1, <1>3, <1>5, <1>6, KeptApart
  <2> QED
    BY <1>10, <2>1, <2>2, <2>3, <2>4
<1>11. ASSUME NEW s \in plan.spans PROVE \E p \in ToSet(plan.pairs) : p[1] = s.original
  <2>1. s.original \in UsedBy(W)
    BY <1>8 DEF UsedBy
  <2>2. OriginalsOf(PairsUsed(U, UsedBy(W))) = UsedBy(W)
    BY <1>7, UsedPairs
  <2>3. plan.pairs = PairsUsed(U, UsedBy(W))
    BY <1>2
  <2> QED
    BY <2>1, <2>2, <2>3 DEF OriginalsOf
<1>12. Applies(text, plan)
  BY <1>9, <1>10, <1>11 DEF Applies
<1> QED
  BY <1>12 DEF plan

------------------------------------------------------------------------------
(* The invariant.                                                            *)

\* The orchestrator a key of Cache A tells of.
OrchOf(k) ==
    [dets |-> k.policy.dets, codeSafe |-> k.policy.codeSafe, gaz |-> k.policy.gaz,
     allow |-> k.policy.allow, trigger |-> k.policy.trigger, oracle |-> k.oracle]

ReqFields == {"pc", "in", "orch", "profile", "extra", "rules", "plan", "hit", "out"}

ReqShape ==
    /\ DOMAIN req = Requests
    /\ req = [r \in Requests |-> req[r]]
    /\ \A r \in Requests : /\ DOMAIN req[r] = ReqFields
                           /\ req[r] = [f \in ReqFields |-> req[r][f]]
                           /\ In(r).text \in Seq(ToSet(In(r).text))

OwnPlan(r) == Sanitized(req[r].orch, In(r).text, req[r].rules, In(r).conv)

\* A request that was served from the cache is past it, with its own plan.
HitSound(r) ==
    req[r].hit => /\ req[r].pc \in {"record", "done", "raised"}
                  /\ ~Oversize(r)
                  /\ req[r].orch.trigger.mode # "sampled" => req[r].plan = OwnPlan(r)

StoreSound(r) == req[r].pc = "store" => req[r].plan = OwnPlan(r)

PlanSound(r) == Planned(r) => Applies(In(r).text, req[r].plan)

DeliveredSound(r) ==
    req[r].out = "delivered" =>
        req[r].pc = "done" /\ ScanClean(req[r].orch, In(r).text, req[r].rules, In(r).conv)

\* An entry is what the orchestrator of its key makes of its text.
CacheSound ==
    \A k \in DOMAIN cacheA : k.policy.trigger.mode # "sampled" =>
        cacheA[k] = Sanitized(OrchOf(k), k.text, k.rules, None).pairs

OrchInvariant ==
    /\ ReqShape
    /\ \A r \in Requests : HitSound(r) /\ StoreSound(r) /\ PlanSound(r) /\ DeliveredSound(r)
    /\ CacheSound


\* Two orchestrators that find the same, whatever the conversation.
SameSetup(o, q) ==
    /\ o.dets = q.dets /\ o.codeSafe = q.codeSafe /\ o.gaz = q.gaz /\ o.allow = q.allow
    /\ o.trigger = q.trigger /\ o.oracle = q.oracle /\ o.trigger.mode # "sampled"

\* They make the same plan.
LEMMA SanitizedSame ==
    ASSUME NEW o, NEW q, SameSetup(o, q), NEW text, NEW rules, NEW c, NEW d
    PROVE  Sanitized(o, text, rules, c) = Sanitized(q, text, rules, d)
<1>1. HasGazetteer(o) = HasGazetteer(q)
  BY DEF HasGazetteer, SameSetup
<1>2. GazFindings(o, text) = GazFindings(q, text)
  BY DEF GazFindings, SameSetup
<1>3. PassOf(o, FALSE).dets = PassOf(q, FALSE).dets /\ PassOf(o, FALSE).code = PassOf(q, FALSE).code
  BY DEF PassOf, SameSetup
<1>4. \A gaz, local, rp : OracleShouldRun(o, gaz, local, rp, c, text)
                            = OracleShouldRun(q, gaz, local, rp, d, text)
  BY DEF OracleShouldRun, SameSetup
<1>5. Detect(o, text, rules, c, FALSE) = Detect(q, text, rules, d, FALSE)
  BY <1>1, <1>2, <1>3, <1>4 DEF Detect, SameSetup
<1> QED
  BY <1>5 DEF Sanitized

\* A plan made again from the pairs of what Sanitized made.
LEMMA SanitizedAgain ==
    ASSUME NEW o, NEW text, Len(text) \in Nat, NEW rules, NEW c, NEW list,
           list = Sanitized(o, text, rules, c).pairs
    PROVE  PlanReplacements(text, list, RuleMatches(rules, text),
                            ActiveRules(list, RuleMatches(rules, text)))
             = Sanitized(o, text, rules, c)
<1> DEFINE found == Detect(o, text, rules, c, FALSE)
           matches == RuleMatches(rules, text)
           plan == Sanitized(o, text, rules, c)
<1>1. plan = PlanReplacements(text, found, matches, ActiveRules(found, matches))
  BY DEF Sanitized
<1> HIDE DEF found, plan
<1>2. PlanReplacements(text, plan.pairs, matches, ActiveRules(plan.pairs, matches)) = plan
  BY <1>1, PlanAgain
<1> QED
  BY <1>2 DEF plan

\* The key has all of a request and its orchestrator that detection reads.
LEMMA KeyTells ==
    ASSUME NEW r, Cacheable(r), NEW k, k = Key(r)
    PROVE  /\ k.text = In(r).text /\ k.rules = req[r].rules
           /\ OrchOf(k).dets = req[r].orch.dets /\ OrchOf(k).codeSafe = req[r].orch.codeSafe
           /\ OrchOf(k).gaz = req[r].orch.gaz /\ OrchOf(k).allow = req[r].orch.allow
           /\ OrchOf(k).trigger = req[r].orch.trigger /\ OrchOf(k).oracle = req[r].orch.oracle
           /\ k.policy.trigger = req[r].orch.trigger
BY DEF Cacheable, Key, ContentHash, PolicyFingerprint, OrchOf

\* What the key's orchestrator makes of a text is what the request's own makes.
LEMMA KeyPlan ==
    ASSUME NEW r, Cacheable(r), req[r].orch.trigger.mode # "sampled", NEW k, k = Key(r)
    PROVE  Sanitized(OrchOf(k), k.text, k.rules, None) = OwnPlan(r)
<1> DEFINE o == req[r].orch
           q == OrchOf(k)
<1>1. /\ k.text = In(r).text /\ k.rules = req[r].rules
      /\ o.dets = q.dets /\ o.codeSafe = q.codeSafe /\ o.gaz = q.gaz /\ o.allow = q.allow
      /\ o.trigger = q.trigger /\ o.oracle = q.oracle /\ o.trigger.mode # "sampled"
  BY KeyTells
<1> HIDE DEF o, q
<1>2. SameSetup(o, q)
  BY <1>1 DEF SameSetup
<1>3. \A text, rules, c, d : Sanitized(o, text, rules, c) = Sanitized(q, text, rules, d)
  BY <1>2, SanitizedSame, Zenon
<1>4. Sanitized(o, In(r).text, req[r].rules, In(r).conv) = Sanitized(q, In(r).text, req[r].rules, None)
  BY <1>3
<1> QED
  BY <1>1, <1>4 DEF OwnPlan, o, q


------------------------------------------------------------------------------
(* One step changes one request.                                             *)

\* The invariant holds at the start.
LEMMA OrchInitial == OrchInit => OrchInvariant
<1> SUFFICES ASSUME OrchInit PROVE OrchInvariant
  OBVIOUS
<1>1. PICK i \in Inputs :
         req = [r \in Requests |->
                  [pc |-> "resolve", in |-> i[r], orch |-> Core(i[r].pod), profile |-> None,
                   extra |-> <<>>, rules |-> <<>>, plan |-> None, hit |-> FALSE, out |-> None]]
  BY DEF OrchInit
<1>2. ASSUME NEW r \in Requests PROVE i[r].text \in Seq(ToSet(i[r].text))
  BY OrchestratorAssumption
<1>3. ReqShape
  <2>1. ASSUME NEW r \in Requests
        PROVE  DOMAIN req[r] = ReqFields /\ req[r] = [f \in ReqFields |-> req[r][f]]
               /\ In(r).text \in Seq(ToSet(In(r).text))
    BY <1>1, <1>2 DEF ReqFields, In
  <2> QED
    BY <1>1, <2>1 DEF ReqShape
<1>4. ASSUME NEW r \in Requests PROVE HitSound(r) /\ StoreSound(r) /\ PlanSound(r) /\ DeliveredSound(r)
  BY <1>1, OrchestratorAssumption DEF HitSound, StoreSound, PlanSound, Planned, DeliveredSound
<1>5. CacheSound
  BY DEF OrchInit, CacheSound
<1> QED
  BY <1>3, <1>4, <1>5 DEF OrchInvariant

\* q is the request r after a step that leaves its text, its pod and its team.
Becomes(r, q) ==
    /\ req' = [req EXCEPT ![r] = q]
    /\ DOMAIN q = ReqFields /\ q = [f \in ReqFields |-> q[f]]
    /\ q.in = req[r].in

\* Such a step leaves the other requests alone.
LEMMA StepShape ==
    ASSUME ReqShape, NEW r \in Requests, NEW q, Becomes(r, q)
    PROVE  ReqShape' /\ req'[r] = q /\ \A s \in Requests \ {r} : req'[s] = req[s]
<1>1. req'[r] = q /\ \A s \in Requests \ {r} : req'[s] = req[s]
  BY DEF ReqShape, Becomes
<1>2. DOMAIN req' = Requests /\ req' = [s \in Requests |-> req'[s]]
  BY DEF ReqShape, Becomes
<1>3. ASSUME NEW s \in Requests
      PROVE  DOMAIN req'[s] = ReqFields /\ req'[s] = [f \in ReqFields |-> req'[s][f]]
             /\ In(s)'.text \in Seq(ToSet(In(s)'.text))
  <2>1. CASE s = r
    BY <1>1, <2>1 DEF ReqShape, Becomes, In
  <2>2. CASE s # r
    BY <1>1, <2>2 DEF ReqShape, In
  <2> QED
    BY <2>1, <2>2
<1> QED
  BY <1>1, <1>2, <1>3 DEF ReqShape, In

\* The invariant after a step of r is about r and Cache A.
LEMMA StepElsewhere ==
    ASSUME OrchInvariant, NEW r \in Requests, NEW q, Becomes(r, q),
           HitSound(r)', StoreSound(r)', PlanSound(r)', DeliveredSound(r)', CacheSound'
    PROVE  OrchInvariant'
<1>1. ReqShape' /\ \A s \in Requests \ {r} : req'[s] = req[s]
  BY StepShape DEF OrchInvariant
<1>2. ASSUME NEW s \in Requests, s # r PROVE (HitSound(s) /\ StoreSound(s) /\ PlanSound(s) /\ DeliveredSound(s))'
  BY <1>1, <1>2 DEF OrchInvariant, HitSound, StoreSound, PlanSound, Planned, DeliveredSound, OwnPlan, In, Oversize
<1> QED
  BY <1>1, <1>2 DEF OrchInvariant

\* A step that neither hits, stores nor delivers, of a request that did not yet.
LEMMA PlainStep ==
    ASSUME OrchInvariant, NEW r \in Requests, NEW q, Becomes(r, q),
           q.hit = req[r].hit, q.plan = req[r].plan, q.pc # "store", q.out # "delivered",
           req[r].pc \notin {"record", "done", "raised"}, UNCHANGED cacheA
    PROVE  OrchInvariant'
<1>1. req'[r] = q
  BY StepShape DEF OrchInvariant
<1>2. ~req[r].hit
  BY DEF OrchInvariant, HitSound
<1>3. HitSound(r)' /\ StoreSound(r)' /\ DeliveredSound(r)'
  BY <1>1, <1>2 DEF HitSound, StoreSound, DeliveredSound
<1>4. PlanSound(r)'
  BY <1>1 DEF OrchInvariant, PlanSound, Planned, Becomes, In
<1>5. CacheSound'
  BY DEF OrchInvariant, CacheSound
<1> QED
  BY <1>3, <1>4, <1>5, StepElsewhere

\* How the model writes a step of r.
LEMMA Updates ==
    ASSUME ReqShape, NEW r \in Requests
    PROVE  /\ \A pc : req' = [req EXCEPT ![r].pc = pc] => Becomes(r, [req[r] EXCEPT !.pc = pc])
           /\ \A pc, out : req' = [req EXCEPT ![r].pc = pc, ![r].out = out]
                 => Becomes(r, [req[r] EXCEPT !.pc = pc, !.out = out])
           /\ \A pc, plan : req' = [req EXCEPT ![r].pc = pc, ![r].plan = plan]
                 => Becomes(r, [req[r] EXCEPT !.pc = pc, !.plan = plan])
           /\ \A pc, rules : req' = [req EXCEPT ![r].pc = pc, ![r].rules = rules]
                 => Becomes(r, [req[r] EXCEPT !.pc = pc, !.rules = rules])
<1>1. DOMAIN req[r] = ReqFields /\ req[r] = [f \in ReqFields |-> req[r][f]] /\ r \in DOMAIN req
  BY DEF ReqShape
<1>2. ASSUME NEW pc, req' = [req EXCEPT ![r].pc = pc] PROVE Becomes(r, [req[r] EXCEPT !.pc = pc])
  BY <1>1, <1>2 DEF Becomes, ReqFields
<1>3. ASSUME NEW pc, NEW out, req' = [req EXCEPT ![r].pc = pc, ![r].out = out]
      PROVE  Becomes(r, [req[r] EXCEPT !.pc = pc, !.out = out])
  BY <1>1, <1>3 DEF Becomes, ReqFields
<1>4. ASSUME NEW pc, NEW plan, req' = [req EXCEPT ![r].pc = pc, ![r].plan = plan]
      PROVE  Becomes(r, [req[r] EXCEPT !.pc = pc, !.plan = plan])
  BY <1>1, <1>4 DEF Becomes, ReqFields
<1>5. ASSUME NEW pc, NEW rules, req' = [req EXCEPT ![r].pc = pc, ![r].rules = rules]
      PROVE  Becomes(r, [req[r] EXCEPT !.pc = pc, !.rules = rules])
  BY <1>1, <1>5 DEF Becomes, ReqFields
<1> QED
  BY <1>2, <1>3, <1>4, <1>5


\* ProfileAwareOrchestrator.resolve.
LEMMA ResolveStep ==
    ASSUME OrchInvariant, NEW r \in Requests, TeamConfigFails(r) \/ Resolve(r)
    PROVE  OrchInvariant'
<1>1. req[r].pc = "resolve" /\ UNCHANGED cacheA
  BY DEF TeamConfigFails, Resolve, At
<1>2. DOMAIN req[r] = ReqFields /\ ReqShape /\ req[r] = [f \in ReqFields |-> req[r][f]] /\ r \in DOMAIN req
  BY DEF OrchInvariant, ReqShape
<1>3. req[r].out # "delivered"
  BY <1>1 DEF OrchInvariant, DeliveredSound
<1>4. CASE \E error \in {"team_config_unavailable", "extends", "integrity"} : Raise(r, error)
  <2>1. PICK error \in {"team_config_unavailable", "extends", "integrity"} : Raise(r, error)
    BY <1>4
  <2> DEFINE q == [req[r] EXCEPT !.pc = "raised", !.out = error]
  <2>2. Becomes(r, q)
    BY <1>2, <2>1, Updates DEF Raise
  <2>3. q.hit = req[r].hit /\ q.plan = req[r].plan /\ q.pc # "store" /\ q.out # "delivered"
    BY <1>2, <2>1 DEF ReqFields
  <2> HIDE DEF q
  <2> QED
    BY <1>1, <2>2, <2>3, PlainStep
<1>5. CASE req' = [req EXCEPT ![r].pc = "load"]
  <2> DEFINE q == [req[r] EXCEPT !.pc = "load"]
  <2>2. Becomes(r, q)
    BY <1>2, <1>5, Updates
  <2>3. q.hit = req[r].hit /\ q.plan = req[r].plan /\ q.pc # "store" /\ q.out # "delivered"
    BY <1>2, <1>3 DEF ReqFields
  <2> HIDE DEF q
  <2> QED
    BY <1>1, <2>2, <2>3, PlainStep
<1>6. CASE \E b : Resolved(r, b)
  <2>1. PICK b : Resolved(r, b)
    BY <1>6
  <2> DEFINE q == [req[r] EXCEPT !.pc = "load", !.orch = InnerOrchestrator(Core(In(r).pod), b),
                                 !.profile = BundleFingerprint(b), !.extra = b.rules]
  <2>2. Becomes(r, q)
    BY <1>2, <2>1 DEF Resolved, Becomes, ReqFields
  <2>3. q.hit = req[r].hit /\ q.plan = req[r].plan /\ q.pc # "store" /\ q.out # "delivered"
    BY <1>2, <1>3 DEF ReqFields
  <2> HIDE DEF q
  <2> QED
    BY <1>1, <2>2, <2>3, PlainStep
<1> QED
  BY <1>4, <1>5, <1>6 DEF TeamConfigFails, Resolve

\* The rules are loaded, or the text is refused unread.
LEMMA LoadStep ==
    ASSUME OrchInvariant, NEW r \in Requests,
           LoadCached(r) \/ LoadTakesLock(r) \/ LoadReads(r) \/ LoadFails(r) \/ OversizeBlocked(r)
    PROVE  OrchInvariant'
<1>1. req[r].pc \in {"load", "reading"} /\ UNCHANGED cacheA
  BY DEF LoadCached, LoadTakesLock, LoadReads, LoadFails, OversizeBlocked, At
<1>2. DOMAIN req[r] = ReqFields /\ ReqShape
  BY DEF OrchInvariant, ReqShape
<1>3. req[r].out # "delivered"
  BY <1>1 DEF OrchInvariant, DeliveredSound
<1>4. CASE \E error \in {"rules", "oversize"} : Raise(r, error)
  <2>1. PICK error \in {"rules", "oversize"} : Raise(r, error)
    BY <1>4
  <2> DEFINE q == [req[r] EXCEPT !.pc = "raised", !.out = error]
  <2>2. Becomes(r, q)
    BY <1>2, <2>1, Updates DEF Raise
  <2>3. q.hit = req[r].hit /\ q.plan = req[r].plan /\ q.pc # "store" /\ q.out # "delivered"
    BY <1>2, <2>1 DEF ReqFields
  <2> HIDE DEF q
  <2> QED
    BY <1>1, <2>2, <2>3, PlainStep
<1>5. CASE req' = [req EXCEPT ![r].pc = "reading"]
  <2> DEFINE q == [req[r] EXCEPT !.pc = "reading"]
  <2>2. Becomes(r, q)
    BY <1>2, <1>5, Updates
  <2>3. q.hit = req[r].hit /\ q.plan = req[r].plan /\ q.pc # "store" /\ q.out # "delivered"
    BY <1>2, <1>3 DEF ReqFields
  <2> HIDE DEF q
  <2> QED
    BY <1>1, <2>2, <2>3, PlainStep
<1>6. CASE \E rules : Loaded(r, rules)
  <2>1. PICK rules : Loaded(r, rules)
    BY <1>6
  <2> DEFINE q == [req[r] EXCEPT !.pc = "size", !.rules = rules \o req[r].extra]
  <2>2. Becomes(r, q)
    BY <1>2, <2>1, Updates DEF Loaded
  <2>3. q.hit = req[r].hit /\ q.plan = req[r].plan /\ q.pc # "store" /\ q.out # "delivered"
    BY <1>2, <1>3 DEF ReqFields
  <2> HIDE DEF q
  <2> QED
    BY <1>1, <2>2, <2>3, PlainStep
<1> QED
  BY <1>4, <1>5, <1>6 DEF LoadCached, LoadTakesLock, LoadReads, LoadFails, OversizeBlocked

\* Detection fails, or the rescan finds something.
LEMMA DetectFailsStep ==
    ASSUME OrchInvariant, NEW r \in Requests,
           DeliverBlocked(r) \/ DetectorFails(r) \/ OracleFails(r) \/ NothingToDetectWith(r)
    PROVE  OrchInvariant'
<1>1. req[r].pc \in {"size", "detect"} /\ UNCHANGED cacheA
  BY DEF DeliverBlocked, DetectorFails, OracleFails, NothingToDetectWith, Detecting, At
<1>2. DOMAIN req[r] = ReqFields /\ ReqShape
  BY DEF OrchInvariant, ReqShape
<1>3. PICK error \in {"oversize", "detection"} : Raise(r, error)
  BY DEF DeliverBlocked, DetectorFails, OracleFails, NothingToDetectWith
<1> DEFINE q == [req[r] EXCEPT !.pc = "raised", !.out = error]
<1>4. Becomes(r, q)
  BY <1>2, <1>3, Updates DEF Raise
<1>5. q.hit = req[r].hit /\ q.plan = req[r].plan /\ q.pc # "store" /\ q.out # "delivered"
  BY <1>2, <1>3 DEF ReqFields
<1> HIDE DEF q
<1> QED
  BY <1>1, <1>4, <1>5, PlainStep

\* Nothing in Cache A.
LEMMA MissStep ==
    ASSUME OrchInvariant, NEW r \in Requests, CacheMiss(r)
    PROVE  OrchInvariant'
<1> DEFINE q == [req[r] EXCEPT !.pc = "detect"]
<1>1. req[r].pc = "size" /\ UNCHANGED cacheA /\ req' = [req EXCEPT ![r].pc = "detect"]
  BY DEF CacheMiss, At
<1>2. DOMAIN req[r] = ReqFields /\ ReqShape
  BY DEF OrchInvariant, ReqShape
<1>3. req[r].out # "delivered"
  BY <1>1 DEF OrchInvariant, DeliveredSound
<1>4. Becomes(r, q)
  BY <1>1, <1>2, Updates
<1>5. q.hit = req[r].hit /\ q.plan = req[r].plan /\ q.pc # "store" /\ q.out # "delivered"
  BY <1>2, <1>3 DEF ReqFields
<1> HIDE DEF q
<1> QED
  BY <1>1, <1>4, <1>5, PlainStep

\* A text cut in windows is planned whole.
LEMMA ChunkedStep ==
    ASSUME OrchInvariant, NEW r \in Requests, OversizeChunked(r)
    PROVE  OrchInvariant'
<1> DEFINE plan == SanitizedChunked(req[r].orch, In(r).text, req[r].rules, In(r).conv)
           q == [req[r] EXCEPT !.pc = "record", !.plan = plan]
<1>1. DOMAIN req[r] = ReqFields /\ ReqShape /\ In(r).text \in Seq(ToSet(In(r).text))
  BY DEF OrchInvariant, ReqShape
<1>2. req' = Record(r, plan) /\ req[r].pc = "size" /\ UNCHANGED cacheA
  BY DEF OversizeChunked, At
<1>3. Applies(In(r).text, plan)
  BY <1>1, PlanApplies DEF SanitizedChunked
<1> HIDE DEF plan
<1>4. Becomes(r, q)
  BY <1>1, <1>2, Updates DEF Record
<1>5. /\ q.pc = "record" /\ q.plan = plan /\ q.in = req[r].in /\ q.out = req[r].out
      /\ q.hit = req[r].hit
  BY <1>1 DEF ReqFields
<1> HIDE DEF q
<1>6. req'[r] = q
  BY <1>1, <1>4, StepShape
<1>7. HitSound(r)' /\ StoreSound(r)' /\ DeliveredSound(r)'
  BY <1>2, <1>5, <1>6 DEF OrchInvariant, HitSound, StoreSound, DeliveredSound
<1>8. PlanSound(r)'
  BY <1>3, <1>5, <1>6 DEF PlanSound, In
<1>9. CacheSound'
  BY <1>2 DEF OrchInvariant, CacheSound
<1> QED
  BY <1>4, <1>7, <1>8, <1>9, StepElsewhere

\* A hit has the plan the request would have made itself.
LEMMA CacheHitStep ==
    ASSUME OrchInvariant, NEW r \in Requests, CacheHit(r)
    PROVE  OrchInvariant'
<1> DEFINE k == Key(r)
           list == cacheA[k]
           matches == RuleMatches(req[r].rules, In(r).text)
           plan == PlanReplacements(In(r).text, list, matches, ActiveRules(list, matches))
           q == [req[r] EXCEPT !.pc = "record", !.plan = plan, !.hit = TRUE]
<1>1. /\ DOMAIN req[r] = ReqFields /\ ReqShape /\ req[r] = [f \in ReqFields |-> req[r][f]]
      /\ r \in DOMAIN req /\ In(r).text \in Seq(ToSet(In(r).text)) /\ Len(In(r).text) \in Nat
  BY DEF OrchInvariant, ReqShape
<1>2. k \in DOMAIN cacheA /\ GetDedup(k) = list
  BY DEF CacheHit, GetDedup
<1>3. req' = [Record(r, plan) EXCEPT ![r].hit = TRUE]
  BY <1>2 DEF CacheHit
<1>4. ~Oversize(r) /\ Cacheable(r) /\ UNCHANGED cacheA /\ req[r].pc = "size"
  BY DEF CacheHit, At
<1>5. req[r].orch.trigger.mode # "sampled" => plan = OwnPlan(r)
  <2> SUFFICES ASSUME req[r].orch.trigger.mode # "sampled" PROVE plan = OwnPlan(r)
    OBVIOUS
  <2>1. k.policy.trigger.mode # "sampled" /\ k.text = In(r).text /\ k.rules = req[r].rules
    BY <1>4, KeyTells
  <2>2. list = Sanitized(OrchOf(k), k.text, k.rules, None).pairs
    BY <1>2, <2>1 DEF OrchInvariant, CacheSound
  <2>3. Sanitized(OrchOf(k), k.text, k.rules, None) = OwnPlan(r)
    BY <1>4, KeyPlan
  <2> DEFINE own == Sanitized(OrchOf(k), In(r).text, req[r].rules, None)
  <2>4. list = own.pairs /\ own = OwnPlan(r)
    BY <2>1, <2>2, <2>3
  <2>5. plan = own
    <3> HIDE DEF k, list
    <3>1. list = Sanitized(OrchOf(k), In(r).text, req[r].rules, None).pairs
      BY <2>4
    <3> QED
      BY <1>1, <3>1, SanitizedAgain
  <2> QED
    BY <2>4, <2>5
<1>6. Applies(In(r).text, plan)
  <2> HIDE DEF list
  <2> QED
    BY <1>1, PlanApplies
<1> HIDE DEF plan
<1>7. Becomes(r, q)
  BY <1>1, <1>3 DEF Record, Becomes, ReqFields
<1>8. /\ q.pc = "record" /\ q.plan = plan /\ q.orch = req[r].orch /\ q.rules = req[r].rules
      /\ q.in = req[r].in /\ q.out = req[r].out
  BY <1>1 DEF ReqFields
<1> HIDE DEF q
<1>9. req'[r] = q
  BY <1>1, <1>7, StepShape
<1>10. Oversize(r)' = Oversize(r) /\ OwnPlan(r)' = OwnPlan(r)
  BY <1>8, <1>9 DEF Oversize, OwnPlan, In
<1>11. HitSound(r)'
  BY <1>4, <1>5, <1>8, <1>9, <1>10 DEF HitSound
<1>12. StoreSound(r)'
  BY <1>8, <1>9 DEF StoreSound
<1>13. DeliveredSound(r)'
  BY <1>4, <1>8, <1>9 DEF OrchInvariant, DeliveredSound
<1>14. CacheSound'
  BY <1>4 DEF OrchInvariant, CacheSound
<1>15. PlanSound(r)'
  BY <1>6, <1>8, <1>9 DEF PlanSound, In
<1> QED
  BY <1>7, <1>11, <1>12, <1>13, <1>14, <1>15, StepElsewhere

\* Detection and the plan.
LEMMA DetectStep ==
    ASSUME OrchInvariant, NEW r \in Requests, DetectAndPlan(r)
    PROVE  OrchInvariant'
<1> DEFINE plan == Sanitized(req[r].orch, In(r).text, req[r].rules, In(r).conv)
           q == [req[r] EXCEPT !.pc = "store", !.plan = plan]
<1>1. DOMAIN req[r] = ReqFields /\ ReqShape /\ In(r).text \in Seq(ToSet(In(r).text))
  BY DEF OrchInvariant, ReqShape
<1>2. req' = [req EXCEPT ![r].pc = "store", ![r].plan = plan] /\ req[r].pc = "detect" /\ UNCHANGED cacheA
  BY DEF DetectAndPlan, At
<1>3. plan = OwnPlan(r)
  BY DEF OwnPlan
<1>4. Applies(In(r).text, plan)
  BY <1>1, PlanApplies DEF Sanitized
<1> HIDE DEF plan
<1>5. Becomes(r, q)
  BY <1>1, <1>2, Updates
<1>6. /\ q.pc = "store" /\ q.plan = plan /\ q.orch = req[r].orch /\ q.rules = req[r].rules
      /\ q.in = req[r].in /\ q.out = req[r].out /\ q.hit = req[r].hit
  BY <1>1 DEF ReqFields
<1> HIDE DEF q
<1>7. req'[r] = q
  BY <1>1, <1>5, StepShape
<1>8. OwnPlan(r)' = OwnPlan(r)
  BY <1>6, <1>7 DEF OwnPlan, In
<1>9. HitSound(r)'
  BY <1>2, <1>6, <1>7 DEF OrchInvariant, HitSound
<1>10. StoreSound(r)'
  BY <1>3, <1>6, <1>7, <1>8 DEF StoreSound
<1>11. DeliveredSound(r)'
  BY <1>2, <1>6, <1>7 DEF OrchInvariant, DeliveredSound
<1>12. CacheSound'
  BY <1>2 DEF OrchInvariant, CacheSound
<1>13. PlanSound(r)'
  BY <1>4, <1>6, <1>7 DEF PlanSound, In
<1> QED
  BY <1>5, <1>9, <1>10, <1>11, <1>12, <1>13, StepElsewhere

\* _deliver_oversize after a clean rescan.
LEMMA DeliverStep ==
    ASSUME OrchInvariant, NEW r \in Requests, OversizeDelivered(r)
    PROVE  OrchInvariant'
<1> DEFINE q == [req[r] EXCEPT !.pc = "done", !.out = "delivered"]
<1>1. DOMAIN req[r] = ReqFields /\ ReqShape
  BY DEF OrchInvariant, ReqShape
<1>2. /\ req' = [req EXCEPT ![r].pc = "done", ![r].out = "delivered"]
      /\ req[r].pc = "size" /\ UNCHANGED cacheA
      /\ ScanClean(req[r].orch, In(r).text, req[r].rules, In(r).conv)
  BY DEF OversizeDelivered, At
<1>3. Becomes(r, q)
  BY <1>1, <1>2, Updates
<1>4. /\ q.pc = "done" /\ q.orch = req[r].orch /\ q.rules = req[r].rules
      /\ q.in = req[r].in /\ q.hit = req[r].hit /\ q.plan = req[r].plan
  BY <1>1 DEF ReqFields
<1> HIDE DEF q
<1>5. req'[r] = q
  BY <1>1, <1>3, StepShape
<1>6. HitSound(r)' /\ StoreSound(r)'
  BY <1>2, <1>4, <1>5 DEF OrchInvariant, HitSound, StoreSound
<1>7. DeliveredSound(r)'
  BY <1>2, <1>4, <1>5 DEF DeliveredSound, In
<1>8. CacheSound'
  BY <1>2 DEF OrchInvariant, CacheSound
<1>9. PlanSound(r)'
  BY <1>4, <1>5 DEF OrchInvariant, PlanSound, Planned, In
<1> QED
  BY <1>3, <1>6, <1>7, <1>8, <1>9, StepElsewhere

\* An entry is stored under the key of the request that made it.
LEMMA StoreStep ==
    ASSUME OrchInvariant, NEW r \in Requests, Store(r)
    PROVE  OrchInvariant'
<1> DEFINE k == Key(r)
           q == [req[r] EXCEPT !.pc = "record", !.plan = req[r].plan]
<1>1. DOMAIN req[r] = ReqFields /\ ReqShape
  BY DEF OrchInvariant, ReqShape
<1>2. req[r].pc = "store" /\ req' = Record(r, req[r].plan)
  BY DEF Store, At
<1>3. Becomes(r, q)
  BY <1>1, <1>2, Updates DEF Record
<1>4. /\ q.pc = "record" /\ q.out = req[r].out /\ q.in = req[r].in /\ q.hit = req[r].hit
      /\ q.plan = req[r].plan
  BY <1>1 DEF ReqFields
<1> HIDE DEF q
<1>5. req'[r] = q
  BY <1>1, <1>3, StepShape
<1>6. HitSound(r)' /\ StoreSound(r)' /\ DeliveredSound(r)'
  BY <1>2, <1>4, <1>5 DEF OrchInvariant, HitSound, StoreSound, DeliveredSound
<1>7. PlanSound(r)'
  BY <1>4, <1>5 DEF OrchInvariant, PlanSound, Planned, In
<1>8. CASE ~Cacheable(r)
  <2>1. UNCHANGED cacheA
    BY <1>8 DEF Store
  <2>2. CacheSound'
    BY <2>1 DEF OrchInvariant, CacheSound
  <2> QED
    BY <1>3, <1>6, <1>7, <2>2, StepElsewhere
<1>9. CASE Cacheable(r)
  <2>1. cacheA' = Stored(cacheA, k, req[r].plan.pairs)
    BY <1>9 DEF Store, SetDedup
  <2>2. k.policy.trigger.mode # "sampled"
           => req[r].plan.pairs = Sanitized(OrchOf(k), k.text, k.rules, None).pairs
    <3>1. req[r].plan = OwnPlan(r)
      BY <1>2 DEF OrchInvariant, StoreSound
    <3>2. k.policy.trigger = req[r].orch.trigger
      BY <1>9, KeyTells
    <3> QED
      BY <1>9, <3>1, <3>2, KeyPlan
  <2> HIDE DEF k
  <2>3. \A j \in DOMAIN cacheA' : (j = k /\ cacheA'[j] = req[r].plan.pairs)
                                 \/ (j \in DOMAIN cacheA /\ cacheA'[j] = cacheA[j])
    BY <2>1 DEF Stored
  <2>4. CacheSound'
    BY <2>2, <2>3 DEF OrchInvariant, CacheSound
  <2> QED
    BY <1>3, <1>6, <1>7, <2>4, StepElsewhere
<1> QED
  BY <1>8, <1>9

\* The end of a request, with or without the mapping store.
LEMMA EndStep ==
    ASSUME OrchInvariant, NEW r \in Requests, Return(r) \/ StoreFails(r)
    PROVE  OrchInvariant'
<1>1. DOMAIN req[r] = ReqFields /\ ReqShape
  BY DEF OrchInvariant, ReqShape
<1>2. req[r].pc \in {"size", "store", "record"} /\ UNCHANGED cacheA
  BY DEF Return, StoreFails, At
<1>3. PICK pc \in {"done", "raised"} : \E out \in {"sanitized", "store"} :
         req' = [req EXCEPT ![r].pc = pc, ![r].out = out]
  BY DEF Return, StoreFails, Raise
<1>4. PICK out \in {"sanitized", "store"} : req' = [req EXCEPT ![r].pc = pc, ![r].out = out]
  BY <1>3
<1> DEFINE q == [req[r] EXCEPT !.pc = pc, !.out = out]
<1>5. Becomes(r, q)
  BY <1>1, <1>4, Updates
<1>6. /\ q.pc = pc /\ q.out = out /\ q.orch = req[r].orch /\ q.rules = req[r].rules
      /\ q.in = req[r].in /\ q.hit = req[r].hit /\ q.plan = req[r].plan
  BY <1>1 DEF ReqFields
<1> HIDE DEF q
<1>7. req'[r] = q
  BY <1>1, <1>5, StepShape
<1>8. Oversize(r)' = Oversize(r) /\ OwnPlan(r)' = OwnPlan(r)
  BY <1>6, <1>7 DEF Oversize, OwnPlan, In
<1>9. HitSound(r)'
  BY <1>6, <1>7, <1>8 DEF OrchInvariant, HitSound
<1>10. StoreSound(r)' /\ DeliveredSound(r)'
  BY <1>6, <1>7 DEF StoreSound, DeliveredSound
<1>11. CacheSound'
  BY <1>2 DEF OrchInvariant, CacheSound
<1>12. PlanSound(r)'
  BY <1>6, <1>7 DEF OrchInvariant, PlanSound, Planned, In
<1> QED
  BY <1>5, <1>9, <1>10, <1>11, <1>12, StepElsewhere

\* A step that leaves the requests and, of Cache A, at most forgets entries.
LEMMA WorldStep ==
    ASSUME OrchInvariant, UNCHANGED req, DOMAIN cacheA' \subseteq DOMAIN cacheA,
           \A k \in DOMAIN cacheA' : cacheA'[k] = cacheA[k]
    PROVE  OrchInvariant'
<1>1. ReqShape'
  BY DEF OrchInvariant, ReqShape, In
<1>2. ASSUME NEW r \in Requests PROVE (HitSound(r) /\ StoreSound(r) /\ PlanSound(r) /\ DeliveredSound(r))'
  BY DEF OrchInvariant, HitSound, StoreSound, PlanSound, Planned, DeliveredSound, OwnPlan, In, Oversize
<1>3. CacheSound'
  BY DEF OrchInvariant, CacheSound
<1> QED
  BY <1>1, <1>2, <1>3 DEF OrchInvariant


(* Every request that was served from Cache A has its own plan, every entry   *)
(* is what its key stands for, every plan fits its text and every delivered   *)
(* text was clean, whatever pods, teams, edits and expiries came between.     *)
THEOREM OrchInvariantTheorem == OrchSpec => []OrchInvariant
<1>1. OrchInit => OrchInvariant
  BY OrchInitial
<1>2. OrchInvariant /\ [OrchNext]_orchVars => OrchInvariant'
  <2> SUFFICES ASSUME OrchInvariant, [OrchNext]_orchVars PROVE OrchInvariant'
    OBVIOUS
  <2>1. CASE UNCHANGED orchVars
    BY <2>1, WorldStep DEF orchVars
  <2>2. CASE Edit \/ RulesExpire
    BY <2>2, WorldStep DEF Edit, RulesExpire
  <2>3. CASE DedupExpires
    <3>1. PICK k \in DOMAIN cacheA : cacheA' = [j \in DOMAIN cacheA \ {k} |-> cacheA[j]]
      BY <2>3 DEF DedupExpires
    <3>2. DOMAIN cacheA' \subseteq DOMAIN cacheA /\ \A j \in DOMAIN cacheA' : cacheA'[j] = cacheA[j]
      BY <3>1
    <3> QED
      BY <2>3, <3>2, WorldStep DEF DedupExpires
  <2>4. ASSUME NEW r \in Requests, TeamConfigFails(r) \/ Resolve(r) PROVE OrchInvariant'
    BY <2>4, ResolveStep
  <2>5. ASSUME NEW r \in Requests,
               LoadCached(r) \/ LoadTakesLock(r) \/ LoadReads(r) \/ LoadFails(r) \/ OversizeBlocked(r)
        PROVE  OrchInvariant'
    BY <2>5, LoadStep
  <2>6. ASSUME NEW r \in Requests,
               DeliverBlocked(r) \/ DetectorFails(r) \/ OracleFails(r) \/ NothingToDetectWith(r)
        PROVE  OrchInvariant'
    BY <2>6, DetectFailsStep
  <2>7. ASSUME NEW r \in Requests, OversizeChunked(r) \/ CacheMiss(r) PROVE OrchInvariant'
    BY <2>7, ChunkedStep, MissStep
  <2>8. ASSUME NEW r \in Requests, CacheHit(r) PROVE OrchInvariant'
    BY <2>8, CacheHitStep
  <2>9. ASSUME NEW r \in Requests, DetectAndPlan(r) \/ Store(r) PROVE OrchInvariant'
    BY <2>9, DetectStep, StoreStep
  <2>10. ASSUME NEW r \in Requests, OversizeDelivered(r) PROVE OrchInvariant'
    BY <2>10, DeliverStep
  <2>11. ASSUME NEW r \in Requests, Return(r) \/ StoreFails(r) PROVE OrchInvariant'
    BY <2>11, EndStep
  <2> QED
    BY <2>1, <2>2, <2>3, <2>4, <2>5, <2>6, <2>7, <2>8, <2>9, <2>10, <2>11 DEF OrchNext
<1> QED
  BY <1>1, <1>2, PTL DEF OrchSpec

(* apply_spans never raises StaleSpanError: a plan's spans lie in the text,   *)
(* are disjoint, name what they replace and have a placeholder each.          *)
THEOREM PlansApplyTheorem == OrchSpec => []PlansApply
<1>1. OrchInvariant => PlansApply
  BY DEF OrchInvariant, PlanSound, PlansApply
<1> QED
  BY <1>1, OrchInvariantTheorem, PTL

(* sanitize() from Cache A gives what sanitize() without it would have given, *)
(* whichever pod, rules or profile filled the entry.                          *)
THEOREM CacheTransparentTheorem == OrchSpec => []CacheTransparent
<1>1. OrchInvariant => CacheTransparent
  BY DEF OrchInvariant, HitSound, CacheTransparent, Planner, OwnPlan
<1> QED
  BY <1>1, OrchInvariantTheorem, PTL

------------------------------------------------------------------------------
(* Nothing found, nothing planned.                                           *)

\* _merge_local without findings leaves its pairs.
LEMMA MergeNothing ==
    ASSUME NEW base
    PROVE  MergeLocal(base, {}) = base
<1> DEFINE worst(S) == CHOOSE f \in S : \A g \in S : ~BetterFinding(f, g)
           Unrolled(h) == [s \in SUBSET {} |-> IF s = {} THEN base
                                                ELSE AddFinding(worst(s), h[s \ {worst(s)}])]
           iter == CHOOSE h : h = Unrolled(h)
<1>1. MergeLocal(base, {}) = iter[{}]
  BY DEF MergeLocal, MapThenFoldSet
<1>2. \E h : h = Unrolled(h)
  <2> DEFINE h == [s \in SUBSET {} |-> base]
  <2>1. h = Unrolled(h)
    OBVIOUS
  <2> QED
    BY <2>1
<1>3. iter = Unrolled(iter)
  <2> HIDE DEF Unrolled
  <2> QED
    BY <1>2
<1> HIDE DEF iter
<1>4. iter[{}] = base
  BY <1>3
<1> QED
  BY <1>1, <1>4

\* Allowlist.filter_pairs of no pairs.
LEMMA FilterNothing ==
    ASSUME NEW allow
    PROVE  FilterPairs(allow, <<>>) = <<>>
<1> DEFINE keep(p, acc) == IF p[1] \notin allow \/ p[2].label \in SecretLabels THEN Append(acc, p) ELSE acc
           none == <<>>
           Unrolled(h) == [s \in SUBSET (DOMAIN none) |->
                             IF s = {} THEN none ELSE keep(none[Max(s)], h[s \ {Max(s)}])]
           iter == CHOOSE h : h = Unrolled(h)
<1>1. FilterPairs(allow, <<>>) = iter[DOMAIN none]
  BY DEF FilterPairs, FoldLeft, MapThenFoldSet
<1>2. DOMAIN none = {}
  OBVIOUS
<1>3. \E h : h = Unrolled(h)
  <2> DEFINE h == [s \in SUBSET (DOMAIN none) |-> none]
  <2>1. h = Unrolled(h)
    BY <1>2
  <2> QED
    BY <2>1
<1>4. iter = Unrolled(iter)
  <2> HIDE DEF Unrolled
  <2> QED
    BY <1>3
<1> HIDE DEF iter
<1>5. iter[{}] = none
  BY <1>2, <1>4
<1> QED
  BY <1>1, <1>2, <1>5

\* No pairs, no spans.
LEMMA PlanOfNothing ==
    ASSUME NEW text, NEW matches, NEW list, list = <<>>
    PROVE  PlanReplacements(text, list, matches, ActiveRules(list, matches)).spans = {}
<1> DEFINE A == ActiveRules(list, matches)
           W == KeptBy(text, FirstPairs(list), matches, A)
<1>1. FirstPairs(list) = list
  BY DEF FirstPairs, Restrict
<1>2. ToSet(list) = {}
  BY DEF ToSet
<1>3. A = {}
  BY <1>1, <1>2 DEF ActiveRules
<1>4. OriginalsOf(FirstPairs(list)) = {}
  BY <1>1, <1>2 DEF OriginalsOf
<1>5. Pool(text, {}, matches, {}) = {}
  BY DEF Pool
<1>6. W = {}
  BY <1>3, <1>4, <1>5 DEF KeptBy, Winners
<1> HIDE DEF A
<1>7. PlanReplacements(text, list, matches, A).spans = SpansOf(W)
  <2> HIDE DEF W
  <2>1. W = KeptBy(text, FirstPairs(list), matches, A)
    BY DEF W
  <2> QED
    BY <2>1, PlanParts
<1>8. SpansOf(W) = {}
  BY <1>6 DEF SpansOf
<1> QED
  BY <1>7, <1>8 DEF A

\* A rescan that finds nothing speaks for the normal path.
LEMMA CleanIsUnplanned ==
    ASSUME NEW o, NEW text, NEW rules, NEW conv, ScanClean(o, text, rules, conv)
    PROVE  Sanitized(o, text, rules, conv).spans = {}
<1>1. /\ GazFindings(o, text) = {} /\ LocalFindings(o.dets, o.codeSafe, text) = {}
      /\ RulesPairs(text, RuleMatches(rules, text)) = <<>>
  BY DEF ScanClean
<1>2. PassOf(o, FALSE).dets = o.dets /\ PassOf(o, FALSE).code = o.codeSafe
  BY DEF PassOf
<1>3. Deduplicate({} \cup {}) = {}
  BY DEF Deduplicate, Winners
<1>4. Detect(o, text, rules, conv, FALSE) = <<>>
  <2> DEFINE asked == IF HasGazetteer(o)
                      THEN OracleShouldRun(o, GazFindings(o, text), LocalFindings(o.dets, o.codeSafe, text),
                                           RulesPairs(text, RuleMatches(rules, text)), conv, text)
                      ELSE o.oracle
             base == IF asked THEN RulesPairs(text, RuleMatches(rules, text)) \o Oracle(text, rules)
                     ELSE RulesPairs(text, RuleMatches(rules, text))
             found == IF HasGazetteer(o)
                      THEN Deduplicate(LocalFindings(o.dets, o.codeSafe, text) \cup GazFindings(o, text))
                      ELSE LocalFindings(o.dets, o.codeSafe, text)
  <2>1. Detect(o, text, rules, conv, FALSE) = FilterPairs(o.allow, MergeLocal(base, found))
    BY <1>2 DEF Detect
  <2>2. found = {}
    BY <1>1, <1>3
  <2>3. asked => Oracle(text, rules) = <<>>
    BY DEF ScanClean
  <2> HIDE DEF asked
  <2>4. base = <<>>
    BY <1>1, <2>3
  <2> QED
    BY <2>1, <2>2, <2>4, MergeNothing, FilterNothing
<1> QED
  BY <1>4, PlanOfNothing DEF Sanitized

(* _deliver_oversize lets a text through unchanged only when the normal path  *)
(* would have replaced nothing in it.                                         *)
THEOREM DeliveredTheorem == OrchSpec => []DeliveredIsClean
<1>1. OrchInvariant => DeliveredIsClean
  BY CleanIsUnplanned DEF OrchInvariant, DeliveredSound, DeliveredIsClean
<1> QED
  BY <1>1, OrchInvariantTheorem, PTL

==============================================================================
