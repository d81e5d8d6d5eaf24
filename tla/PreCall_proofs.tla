--------------------------- MODULE PreCall_proofs ---------------------------
(***************************************************************************)
(* Proofs about PreCall.  First what the three walks of ContentBlocks have *)
(* to do with each other, for every path; then the inductive invariant of  *)
(* the stages, and from both the run's properties for every request.       *)
(***************************************************************************)
EXTENDS PreCall, WellFoundedInduction, TLAPS

------------------------------------------------------------------------------
(* Least and last elements, and recursions towards the end of a path.  The  *)
(* library's induction principles take a predicate; these take a set.       *)

LEMMA LeastNat ==
    ASSUME NEW T \in SUBSET Nat, T # {}
    PROVE  \E n \in T : \A m \in T : n <= m
<1>1. \E x \in T : \A y \in T : ~(<<y, x>> \in OpToRel(<, Nat))
  BY NatLessThanWellFounded, WFMin, Zenon
<1>2. PICK x \in T : \A y \in T : ~(<<y, x>> \in OpToRel(<, Nat))
  BY <1>1, Zenon
<1>3. ASSUME NEW y \in T PROVE x <= y
  <2>1. <<y, x>> \in Nat \X Nat
    OBVIOUS
  <2>2. ~(y < x)
    BY <2>1, <1>2 DEF OpToRel
  <2> QED BY <2>2
<1> QED BY <1>3

LEMMA LastStep ==
    ASSUME NEW n \in Nat, NEW T \in SUBSET (1..n), T # {}
    PROVE  \E k \in T : \A j \in T : j <= k
<1> DEFINE U == {m \in Nat : n - m \in T}
<1>1. U # {}
  <2>1. PICK k \in T : TRUE
    OBVIOUS
  <2>2. n - k \in Nat /\ n - (n - k) = k
    OBVIOUS
  <2> QED BY <2>2
<1>2. PICK m \in U : \A i \in U : m <= i
  BY <1>1, LeastNat
<1>3. ASSUME NEW j \in T PROVE j <= n - m
  <2>1. n - j \in Nat /\ n - (n - j) = j
    OBVIOUS
  <2>2. m <= n - j
    BY <2>1, <1>2
  <2> QED BY <2>2
<1> QED BY <1>3

\* F looks only at the values of later steps; w is what F makes of itself.
LooksAhead(n, V, F) ==
    \A k \in 1..n : \A u, w \in [1..n -> V] :
        (\A j \in (k + 1)..n : u[j] = w[j]) => F[<<k, u>>] = F[<<k, w>>]
Solves(n, F, w) == \A k \in 1..n : w[k] = F[<<k, w>>]

\* A recursion that only looks ahead has a solution.
LEMMA Recursion ==
    ASSUME NEW n \in Nat, NEW V, NEW F \in [(1..n) \X [1..n -> V] -> V],
           LooksAhead(n, V, F), V # {}
    PROVE  \E w \in [1..n -> V] : Solves(n, F, w)
<1> USE DEF LooksAhead, Solves
<1> DEFINE Ok(w, k) == \A j \in k..n : w[j] = F[<<j, w>>]
<1> DEFINE T == {k \in Nat : ~ \E w \in [1..n -> V] : Ok(w, n + 1 - k)}
<1>1. 0 \notin T
  <2>1. PICK v \in V : TRUE
    OBVIOUS
  <2>2. [j \in 1..n |-> v] \in [1..n -> V]
    OBVIOUS
  <2>3. Ok([j \in 1..n |-> v], n + 1 - 0)
    OBVIOUS
  <2> QED BY <2>2, <2>3
<1>2. ASSUME NEW m \in Nat, m < n, m \notin T PROVE m + 1 \notin T
  <2>1. PICK u \in [1..n -> V] : Ok(u, n + 1 - m)
    BY <1>2
  <2> DEFINE k == n - m
  <2>2. k \in 1..n /\ n + 1 - m = k + 1 /\ n + 1 - (m + 1) = k
    BY <1>2
  <2> HIDE DEF k
  <2> DEFINE w == [u EXCEPT ![k] = F[<<k, u>>]]
  <2>3. w \in [1..n -> V] /\ w[k] = F[<<k, u>>] /\ \A j \in 1..n : j # k => w[j] = u[j]
    <3>1. F[<<k, u>>] \in V
      BY <2>2
    <3> QED BY <3>1, <2>2
  <2> HIDE DEF w
  <2>4. ASSUME NEW j \in k..n PROVE w[j] = F[<<j, w>>]
    <3>1. j \in 1..n
      BY <2>2
    <3>2. F[<<j, u>>] = F[<<j, w>>]
      <4>1. \A i \in (j + 1)..n : u[i] = w[i]
        BY <2>3, <2>2
      <4> QED BY <4>1, <3>1, <2>3
    <3>3. CASE j = k
      BY <3>2, <3>3, <2>3
    <3>4. CASE j # k
      <4>1. j \in (n + 1 - m)..n
        BY <2>2, <3>4
      <4>2. u[j] = F[<<j, u>>]
        BY <2>1, <4>1
      <4> QED BY <4>2, <3>2, <3>1, <2>3, <3>4
    <3> QED BY <3>3, <3>4
  <2> QED BY <2>3, <2>4, <2>2
<1>3. n \notin T
  <2> DEFINE B == {m \in T : m <= n}
  <2>1. SUFFICES ASSUME n \in T PROVE FALSE
    OBVIOUS
  <2> HIDE DEF T
  <2>2. T \subseteq Nat
    BY DEF T
  <2>3. B \subseteq Nat /\ B # {}
    <3>1. n <= n
      OBVIOUS
    <3> QED BY <3>1, <2>1, <2>2
  <2>4. PICK b \in B : \A m \in B : b <= m
    <3> HIDE DEF B
    <3> QED BY <2>3, LeastNat
  <2>5. b \in Nat /\ b # 0 /\ b <= n /\ b \in T
    BY <1>1, <2>4, <2>2
  <2>6. b - 1 \in Nat /\ b - 1 < n /\ b - 1 + 1 = b
    BY <2>5
  <2>7. b - 1 \notin T
    BY <2>4, <2>6
  <2> QED BY <2>7, <2>6, <2>5, <1>2
<1>4. PICK w \in [1..n -> V] : Ok(w, n + 1 - n)
  BY <1>3
<1>5. n + 1 - n = 1
  OBVIOUS
<1> QED BY <1>4, <1>5

\* The same for a recursion that looks back.
LooksBack(n, V, F) ==
    \A k \in 1..n : \A u, w \in [1..n -> V] :
        (\A j \in 1..(k - 1) : u[j] = w[j]) => F[<<k, u>>] = F[<<k, w>>]

LEMMA RecursionBack ==
    ASSUME NEW n \in Nat, NEW V, NEW F \in [(1..n) \X [1..n -> V] -> V],
           LooksBack(n, V, F), V # {}
    PROVE  \E w \in [1..n -> V] : Solves(n, F, w)
<1> USE DEF LooksBack, Solves
<1> DEFINE Ok(w, k) == \A j \in 1..k : w[j] = F[<<j, w>>]
<1> DEFINE T == {k \in 0..n : ~ \E w \in [1..n -> V] : Ok(w, k)}
<1>1. 0 \notin T
  <2>1. PICK v \in V : TRUE
    OBVIOUS
  <2>2. [j \in 1..n |-> v] \in [1..n -> V] /\ Ok([j \in 1..n |-> v], 0)
    OBVIOUS
  <2> QED BY <2>2
<1>2. ASSUME NEW k \in 1..n, k - 1 \notin T PROVE k \notin T
  <2>1. PICK u \in [1..n -> V] : Ok(u, k - 1)
    <3>1. k - 1 \in 0..n
      OBVIOUS
    <3> QED BY <1>2, <3>1
  <2> DEFINE w == [u EXCEPT ![k] = F[<<k, u>>]]
  <2>2. w \in [1..n -> V] /\ w[k] = F[<<k, u>>] /\ \A j \in 1..n : j # k => w[j] = u[j]
    <3>1. F[<<k, u>>] \in V
      OBVIOUS
    <3> QED BY <3>1
  <2> HIDE DEF w
  <2>3. ASSUME NEW j \in 1..k PROVE w[j] = F[<<j, w>>]
    <3>1. j \in 1..n
      OBVIOUS
    <3>2. F[<<j, u>>] = F[<<j, w>>]
      <4>1. ASSUME NEW i \in 1..(j - 1) PROVE u[i] = w[i]
        <5>1. i \in 1..n /\ i # k
          OBVIOUS
        <5> QED BY <2>2, <5>1
      <4> QED BY <4>1, <3>1, <2>2
    <3>3. CASE j = k
      BY <3>2, <3>3, <2>2
    <3>4. CASE j # k
      <4>1. j \in 1..(k - 1)
        BY <3>4
      <4>2. u[j] = F[<<j, u>>]
        BY <2>1, <4>1
      <4> QED BY <4>2, <3>2, <3>1, <2>2, <3>4
    <3> QED BY <3>3, <3>4
  <2> QED BY <2>2, <2>3
<1>3. T = {}
  <2>1. SUFFICES ASSUME T # {} PROVE FALSE
    OBVIOUS
  <2> HIDE DEF T
  <2>2. T \subseteq 0..n /\ T \subseteq Nat
    BY DEF T
  <2>3. PICK b \in T : \A m \in T : b <= m
    BY <2>1, <2>2, LeastNat
  <2>4. b \in 1..n
    BY <1>1, <2>2, <2>3
  <2>5. b - 1 \notin T
    BY <2>3, <2>4
  <2> QED BY <1>2, <2>3, <2>4, <2>5
<1>4. n \in 0..n
  OBVIOUS
<1>5. PICK w \in [1..n -> V] : Ok(w, n)
  BY <1>3, <1>4
<1> QED BY <1>5

------------------------------------------------------------------------------
(* Paths.                                                                   *)

PathSteps == Steps \cup {ContentStep, ListStep}
Paths == {p \in Seq(PathSteps) : WellFormed(p)}
Verdicts == {"hit", "miss", "deep", "refuse"}

LEMMA PathFacts ==
    ASSUME NEW p \in Paths
    PROVE  /\ Len(p) \in Nat /\ Len(p) > 0
           /\ \A k \in 1..Len(p) :
                 /\ p[k].in \in {"dict", "list", "json", "str", "num", "null"}
                 /\ p[k].in \in {"dict", "list", "json"} => k + 1 \in 1..Len(p)
                 /\ k < Len(p) => p[k].in \in {"dict", "list", "json"}
<1>1. p \in Seq(PathSteps) /\ WellFormed(p)
  BY DEF Paths
<1>2. Len(p) \in Nat /\ \A k \in 1..Len(p) : p[k] \in PathSteps
  BY <1>1
<1>3. ASSUME NEW x \in PathSteps PROVE x.in \in {"dict", "list", "json", "str", "num", "null"}
  <2>1. CASE x \in Steps
    BY <2>1 DEF Steps
  <2>2. CASE x = ContentStep
    BY <2>2 DEF ContentStep
  <2>3. CASE x = ListStep
    BY <2>3 DEF ListStep
  <2> QED BY <2>1, <2>2, <2>3 DEF PathSteps
<1> QED BY <1>1, <1>2, <1>3 DEF WellFormed

\* A JSON walk ends, at the first step it does not enter.
LEMMA JsonEndFacts ==
    ASSUME NEW p \in Paths, NEW k \in 1..Len(p)
    PROVE  /\ JsonEnd(p, k) \in k..Len(p)
           /\ ~Enters(p, JsonEnd(p, k))
           /\ \A i \in k..(JsonEnd(p, k) - 1) : Enters(p, i)
<1> DEFINE n == Len(p)
<1> DEFINE T == {j \in k..n : ~Enters(p, j)}
<1>1. n \in Nat /\ n \in 1..n /\ ~Enters(p, n)
  BY PathFacts DEF Enters
<1>2. T \subseteq Nat /\ T # {}
  <2>1. n \in T
    BY <1>1
  <2> QED BY <2>1, <1>1
<1>3. PICK j \in T : \A m \in T : j <= m
  <2> HIDE DEF T
  <2> QED BY <1>2, LeastNat
<1>4. \A i \in k..(j - 1) : Enters(p, i)
  BY <1>3, <1>1
<1>5. \E e \in k..Len(p) : ~Enters(p, e) /\ \A i \in k..(e - 1) : Enters(p, i)
  BY <1>3, <1>4
<1> QED BY <1>5 DEF JsonEnd

\* The verdicts of the JSON walks, where their depths start alike.
LEMMA JsonVerdicts ==
    ASSUME NEW p, NEW k, NEW depth
    PROVE  /\ SanitizeJson(p, k, depth) \in {"hit", "miss", "deep"}
           /\ CollectJsonText(p, k, depth) \in {"hit", "miss"}
           /\ DesanitizeJson(p, k, depth) \in {"hit", "miss"}
           /\ SanitizeJson(p, k, depth) = "hit" =>
                 CollectJsonText(p, k, depth) = "hit" /\ DesanitizeJson(p, k, depth) = "hit"
BY DEF SanitizeJson, CollectJsonText, DesanitizeJson

------------------------------------------------------------------------------
(* The content walks.  A block's verdict depends on the contents below it   *)
(* alone, so each walk's recursion has a solution; what it computes is then *)
(* its own body.                                                            *)

\* u and w agree on the verdicts below step k.
AgreeBelow(p, k, u, w) == \A j \in (k + 1)..Len(p) : u[j] = w[j] /\ u[j] \in Verdicts

LEMMA SourceBelow ==
    ASSUME NEW p \in Paths, NEW k \in 1..Len(p), p[k].in = "dict", SourceContent(p, k)
    PROVE  k + 2 \in (k + 1)..Len(p)
BY PathFacts DEF SourceContent, SourceIs

LEMMA SanitizeBlockBelow ==
    ASSUME NEW p \in Paths, NEW k \in 1..Len(p), p[k].in = "dict", NEW u, NEW w, AgreeBelow(p, k, u, w)
    PROVE  SanitizeBlock(p, k, u) = SanitizeBlock(p, k, w) /\ SanitizeBlock(p, k, u) \in Verdicts
<1>1. k + 1 \in (k + 1)..Len(p)
  BY PathFacts
<1>2. u[k + 1] = w[k + 1] /\ u[k + 1] \in Verdicts
  BY <1>1 DEF AgreeBelow
<1>3. SourceContent(p, k) => u[k + 2] = w[k + 2] /\ u[k + 2] \in Verdicts
  BY SourceBelow DEF AgreeBelow
<1>4. \A depth : SanitizeJson(p, k + 1, depth) \in {"hit", "miss", "deep"}
  BY JsonVerdicts
<1> QED BY <1>2, <1>3, <1>4 DEF SanitizeBlock, Only, Verdicts

LEMMA SanitizeValueBelow ==
    ASSUME NEW p \in Paths, NEW k \in 1..Len(p), NEW u, NEW w, AgreeBelow(p, k, u, w)
    PROVE  SanitizeValue(p, k, u) = SanitizeValue(p, k, w) /\ SanitizeValue(p, k, u) \in Verdicts
<1>1. CASE p[k].in = "dict"
  BY <1>1, SanitizeBlockBelow DEF SanitizeValue, IsStr, Verdicts
<1>2. CASE p[k].in = "list" /\ p[k + 1].in = "dict"
  <2>1. k + 1 \in 1..Len(p)
    BY <1>2, PathFacts
  <2>2. AgreeBelow(p, k + 1, u, w)
    BY DEF AgreeBelow
  <2>3. /\ SanitizeBlock(p, k + 1, u) = SanitizeBlock(p, k + 1, w)
        /\ SanitizeBlock(p, k + 1, u) \in Verdicts
    BY <1>2, <2>1, <2>2, SanitizeBlockBelow
  <2> QED BY <1>2, <2>3 DEF SanitizeValue, IsStr
<1> QED BY <1>1, <1>2 DEF SanitizeValue, IsStr, Verdicts

LEMMA SanitizeContentValue ==
    ASSUME NEW p \in Paths
    PROVE  \E w \in [1..Len(p) -> Verdicts] :
               \A k \in 1..Len(p) : SanitizeContent(p, k) = w[k] /\ w[k] = SanitizeValue(p, k, w)
<1> DEFINE n == Len(p)
<1> DEFINE F == [x \in (1..n) \X [1..n -> Verdicts] |-> SanitizeValue(p, x[1], x[2])]
<1>1. n \in Nat
  BY PathFacts
<1>2. ASSUME NEW k \in 1..n, NEW u \in [1..n -> Verdicts], NEW w \in [1..n -> Verdicts],
             \A j \in (k + 1)..n : u[j] = w[j]
      PROVE  F[<<k, u>>] = F[<<k, w>>] /\ F[<<k, u>>] \in Verdicts
  <2>1. AgreeBelow(p, k, u, w)
    BY <1>1, <1>2 DEF AgreeBelow
  <2>2. F[<<k, u>>] = SanitizeValue(p, k, u) /\ F[<<k, w>>] = SanitizeValue(p, k, w)
    OBVIOUS
  <2> QED BY <2>1, <2>2, SanitizeValueBelow
<1>3. F \in [(1..n) \X [1..n -> Verdicts] -> Verdicts]
  <2>1. ASSUME NEW x \in (1..n) \X [1..n -> Verdicts] PROVE SanitizeValue(p, x[1], x[2]) \in Verdicts
    <3>1. AgreeBelow(p, x[1], x[2], x[2])
      BY <1>1 DEF AgreeBelow
    <3> QED BY <3>1, SanitizeValueBelow
  <2> QED BY <2>1
<1>4. PICK w \in [1..n -> Verdicts] : \A k \in 1..n : w[k] = SanitizeValue(p, k, w)
  <2>1. LooksAhead(n, Verdicts, F)
    <3> HIDE DEF F, n
    <3> QED BY <1>2 DEF LooksAhead
  <2>2. Verdicts # {}
    BY DEF Verdicts
  <2>3. PICK w \in [1..n -> Verdicts] : Solves(n, F, w)
    <3> HIDE DEF F, n
    <3> QED BY <2>1, <2>2, <1>1, <1>3, Recursion
  <2> QED BY <2>3 DEF Solves
<1> DEFINE c == CHOOSE f : f = [i \in 1..Len(p) |-> SanitizeValue(p, i, f)]
<1>5. w = [i \in 1..Len(p) |-> SanitizeValue(p, i, w)]
  BY <1>4
<1>6. c = [i \in 1..Len(p) |-> SanitizeValue(p, i, c)]
  BY <1>5
<1>7. \A k \in 1..n : SanitizeContent(p, k) = c[k]
  BY DEF SanitizeContent
<1> HIDE DEF c
<1>8. \A k \in 1..n : c[k] = SanitizeValue(p, k, c)
  BY <1>6
<1>9. \A k \in 1..n : c[k] \in Verdicts
  <2> DEFINE T == {k \in 1..n : c[k] \notin Verdicts}
  <2>1. SUFFICES ASSUME T # {} PROVE FALSE
    OBVIOUS
  <2>2. PICK k \in T : \A j \in T : j <= k
    BY <2>1, <1>1, LastStep
  <2>3. AgreeBelow(p, k, c, c)
    BY <2>2 DEF AgreeBelow
  <2> QED BY <2>2, <2>3, <1>8, SanitizeValueBelow
<1>10. c \in [1..n -> Verdicts]
  BY <1>6, <1>9
<1> QED BY <1>10, <1>8, <1>7

LEMMA CollectBlockTextBelow ==
    ASSUME NEW p \in Paths, NEW k \in 1..Len(p), p[k].in = "dict", NEW u, NEW w, AgreeBelow(p, k, u, w)
    PROVE  CollectBlockText(p, k, u) = CollectBlockText(p, k, w) /\ CollectBlockText(p, k, u) \in Verdicts
<1>1. k + 1 \in (k + 1)..Len(p)
  BY PathFacts
<1>2. u[k + 1] = w[k + 1] /\ u[k + 1] \in Verdicts
  BY <1>1 DEF AgreeBelow
<1>3. SourceContent(p, k) => u[k + 2] = w[k + 2] /\ u[k + 2] \in Verdicts
  BY SourceBelow DEF AgreeBelow
<1>4. \A depth : CollectJsonText(p, k + 1, depth) \in {"hit", "miss", "deep"}
  BY JsonVerdicts
<1> QED BY <1>2, <1>3, <1>4 DEF CollectBlockText, Only, Verdicts

LEMMA CollectValueBelow ==
    ASSUME NEW p \in Paths, NEW k \in 1..Len(p), NEW u, NEW w, AgreeBelow(p, k, u, w)
    PROVE  CollectValue(p, k, u) = CollectValue(p, k, w) /\ CollectValue(p, k, u) \in Verdicts
<1>1. CASE p[k].in = "dict"
  BY <1>1, CollectBlockTextBelow DEF CollectValue, IsStr, Verdicts
<1>2. CASE p[k].in = "list" /\ p[k + 1].in = "dict"
  <2>1. k + 1 \in 1..Len(p)
    BY <1>2, PathFacts
  <2>2. AgreeBelow(p, k + 1, u, w)
    BY DEF AgreeBelow
  <2>3. /\ CollectBlockText(p, k + 1, u) = CollectBlockText(p, k + 1, w)
        /\ CollectBlockText(p, k + 1, u) \in Verdicts
    BY <1>2, <2>1, <2>2, CollectBlockTextBelow
  <2> QED BY <1>2, <2>3 DEF CollectValue, IsStr
<1> QED BY <1>1, <1>2 DEF CollectValue, IsStr, Verdicts

LEMMA CollectTextValue ==
    ASSUME NEW p \in Paths
    PROVE  \E w \in [1..Len(p) -> Verdicts] :
               \A k \in 1..Len(p) : CollectText(p, k) = w[k] /\ w[k] = CollectValue(p, k, w)
<1> DEFINE n == Len(p)
<1> DEFINE F == [x \in (1..n) \X [1..n -> Verdicts] |-> CollectValue(p, x[1], x[2])]
<1>1. n \in Nat
  BY PathFacts
<1>2. ASSUME NEW k \in 1..n, NEW u \in [1..n -> Verdicts], NEW w \in [1..n -> Verdicts],
             \A j \in (k + 1)..n : u[j] = w[j]
      PROVE  F[<<k, u>>] = F[<<k, w>>] /\ F[<<k, u>>] \in Verdicts
  <2>1. AgreeBelow(p, k, u, w)
    BY <1>1, <1>2 DEF AgreeBelow
  <2>2. F[<<k, u>>] = CollectValue(p, k, u) /\ F[<<k, w>>] = CollectValue(p, k, w)
    OBVIOUS
  <2> QED BY <2>1, <2>2, CollectValueBelow
<1>3. F \in [(1..n) \X [1..n -> Verdicts] -> Verdicts]
  <2>1. ASSUME NEW x \in (1..n) \X [1..n -> Verdicts] PROVE CollectValue(p, x[1], x[2]) \in Verdicts
    <3>1. AgreeBelow(p, x[1], x[2], x[2])
      BY <1>1 DEF AgreeBelow
    <3> QED BY <3>1, CollectValueBelow
  <2> QED BY <2>1
<1>4. PICK w \in [1..n -> Verdicts] : \A k \in 1..n : w[k] = CollectValue(p, k, w)
  <2>1. LooksAhead(n, Verdicts, F)
    <3> HIDE DEF F, n
    <3> QED BY <1>2 DEF LooksAhead
  <2>2. Verdicts # {}
    BY DEF Verdicts
  <2>3. PICK w \in [1..n -> Verdicts] : Solves(n, F, w)
    <3> HIDE DEF F, n
    <3> QED BY <2>1, <2>2, <1>1, <1>3, Recursion
  <2> QED BY <2>3 DEF Solves
<1> DEFINE c == CHOOSE f : f = [i \in 1..Len(p) |-> CollectValue(p, i, f)]
<1>5. w = [i \in 1..Len(p) |-> CollectValue(p, i, w)]
  BY <1>4
<1>6. c = [i \in 1..Len(p) |-> CollectValue(p, i, c)]
  BY <1>5
<1>7. \A k \in 1..n : CollectText(p, k) = c[k]
  BY DEF CollectText
<1> HIDE DEF c
<1>8. \A k \in 1..n : c[k] = CollectValue(p, k, c)
  BY <1>6
<1>9. \A k \in 1..n : c[k] \in Verdicts
  <2> DEFINE T == {k \in 1..n : c[k] \notin Verdicts}
  <2>1. SUFFICES ASSUME T # {} PROVE FALSE
    OBVIOUS
  <2>2. PICK k \in T : \A j \in T : j <= k
    BY <2>1, <1>1, LastStep
  <2>3. AgreeBelow(p, k, c, c)
    BY <2>2 DEF AgreeBelow
  <2> QED BY <2>2, <2>3, <1>8, CollectValueBelow
<1>10. c \in [1..n -> Verdicts]
  BY <1>6, <1>9
<1> QED BY <1>10, <1>8, <1>7

LEMMA DesanitizeBlockBelow ==
    ASSUME NEW p \in Paths, NEW k \in 1..Len(p), p[k].in = "dict", NEW u, NEW w, AgreeBelow(p, k, u, w)
    PROVE  DesanitizeBlock(p, k, u) = DesanitizeBlock(p, k, w) /\ DesanitizeBlock(p, k, u) \in Verdicts
<1>1. k + 1 \in (k + 1)..Len(p)
  BY PathFacts
<1>2. u[k + 1] = w[k + 1] /\ u[k + 1] \in Verdicts
  BY <1>1 DEF AgreeBelow
<1>3. SourceContent(p, k) => u[k + 2] = w[k + 2] /\ u[k + 2] \in Verdicts
  BY SourceBelow DEF AgreeBelow
<1>4. \A depth : DesanitizeJson(p, k + 1, depth) \in {"hit", "miss", "deep"}
  BY JsonVerdicts
<1> QED BY <1>2, <1>3, <1>4 DEF DesanitizeBlock, Only, Verdicts

LEMMA DesanitizeValueBelow ==
    ASSUME NEW p \in Paths, NEW k \in 1..Len(p), NEW u, NEW w, AgreeBelow(p, k, u, w)
    PROVE  DesanitizeValue(p, k, u) = DesanitizeValue(p, k, w) /\ DesanitizeValue(p, k, u) \in Verdicts
<1>1. CASE p[k].in = "dict"
  BY <1>1, DesanitizeBlockBelow DEF DesanitizeValue, IsStr, Verdicts
<1>2. CASE p[k].in = "list" /\ p[k + 1].in = "dict"
  <2>1. k + 1 \in 1..Len(p)
    BY <1>2, PathFacts
  <2>2. AgreeBelow(p, k + 1, u, w)
    BY DEF AgreeBelow
  <2>3. /\ DesanitizeBlock(p, k + 1, u) = DesanitizeBlock(p, k + 1, w)
        /\ DesanitizeBlock(p, k + 1, u) \in Verdicts
    BY <1>2, <2>1, <2>2, DesanitizeBlockBelow
  <2> QED BY <1>2, <2>3 DEF DesanitizeValue, IsStr
<1> QED BY <1>1, <1>2 DEF DesanitizeValue, IsStr, Verdicts

LEMMA DesanitizeContentValue ==
    ASSUME NEW p \in Paths
    PROVE  \E w \in [1..Len(p) -> Verdicts] :
               \A k \in 1..Len(p) : DesanitizeContent(p, k) = w[k] /\ w[k] = DesanitizeValue(p, k, w)
<1> DEFINE n == Len(p)
<1> DEFINE F == [x \in (1..n) \X [1..n -> Verdicts] |-> DesanitizeValue(p, x[1], x[2])]
<1>1. n \in Nat
  BY PathFacts
<1>2. ASSUME NEW k \in 1..n, NEW u \in [1..n -> Verdicts], NEW w \in [1..n -> Verdicts],
             \A j \in (k + 1)..n : u[j] = w[j]
      PROVE  F[<<k, u>>] = F[<<k, w>>] /\ F[<<k, u>>] \in Verdicts
  <2>1. AgreeBelow(p, k, u, w)
    BY <1>1, <1>2 DEF AgreeBelow
  <2>2. F[<<k, u>>] = DesanitizeValue(p, k, u) /\ F[<<k, w>>] = DesanitizeValue(p, k, w)
    OBVIOUS
  <2> QED BY <2>1, <2>2, DesanitizeValueBelow
<1>3. F \in [(1..n) \X [1..n -> Verdicts] -> Verdicts]
  <2>1. ASSUME NEW x \in (1..n) \X [1..n -> Verdicts] PROVE DesanitizeValue(p, x[1], x[2]) \in Verdicts
    <3>1. AgreeBelow(p, x[1], x[2], x[2])
      BY <1>1 DEF AgreeBelow
    <3> QED BY <3>1, DesanitizeValueBelow
  <2> QED BY <2>1
<1>4. PICK w \in [1..n -> Verdicts] : \A k \in 1..n : w[k] = DesanitizeValue(p, k, w)
  <2>1. LooksAhead(n, Verdicts, F)
    <3> HIDE DEF F, n
    <3> QED BY <1>2 DEF LooksAhead
  <2>2. Verdicts # {}
    BY DEF Verdicts
  <2>3. PICK w \in [1..n -> Verdicts] : Solves(n, F, w)
    <3> HIDE DEF F, n
    <3> QED BY <2>1, <2>2, <1>1, <1>3, Recursion
  <2> QED BY <2>3 DEF Solves
<1> DEFINE c == CHOOSE f : f = [i \in 1..Len(p) |-> DesanitizeValue(p, i, f)]
<1>5. w = [i \in 1..Len(p) |-> DesanitizeValue(p, i, w)]
  BY <1>4
<1>6. c = [i \in 1..Len(p) |-> DesanitizeValue(p, i, c)]
  BY <1>5
<1>7. \A k \in 1..n : DesanitizeContent(p, k) = c[k]
  BY DEF DesanitizeContent
<1> HIDE DEF c
<1>8. \A k \in 1..n : c[k] = DesanitizeValue(p, k, c)
  BY <1>6
<1>9. \A k \in 1..n : c[k] \in Verdicts
  <2> DEFINE T == {k \in 1..n : c[k] \notin Verdicts}
  <2>1. SUFFICES ASSUME T # {} PROVE FALSE
    OBVIOUS
  <2>2. PICK k \in T : \A j \in T : j <= k
    BY <2>1, <1>1, LastStep
  <2>3. AgreeBelow(p, k, c, c)
    BY <2>2 DEF AgreeBelow
  <2> QED BY <2>2, <2>3, <1>8, DesanitizeValueBelow
<1>10. c \in [1..n -> Verdicts]
  BY <1>6, <1>9
<1> QED BY <1>10, <1>8, <1>7

------------------------------------------------------------------------------
(* The walks agree: what Sanitize hands to the callback, Collect shows to   *)
(* the scans and Desanitize finds again.                                    *)

HitsBelow(p, k, ws, wc, wd) ==
    \A j \in (k + 1)..Len(p) : ws[j] = "hit" => wc[j] = "hit" /\ wd[j] = "hit"

LEMMA BlocksAgree ==
    ASSUME NEW p \in Paths, NEW k \in 1..Len(p), p[k].in = "dict", NEW ws, NEW wc, NEW wd,
           HitsBelow(p, k, ws, wc, wd), SanitizeBlock(p, k, ws) = "hit"
    PROVE  CollectBlockText(p, k, wc) = "hit" /\ DesanitizeBlock(p, k, wd) = "hit"
<1>1. k + 1 \in (k + 1)..Len(p)
  BY PathFacts
<1>2. ws[k + 1] = "hit" => wc[k + 1] = "hit" /\ wd[k + 1] = "hit"
  BY <1>1 DEF HitsBelow
<1>3. SourceContent(p, k) /\ ws[k + 2] = "hit" => wc[k + 2] = "hit" /\ wd[k + 2] = "hit"
  BY SourceBelow DEF HitsBelow
<1>4. \A depth : SanitizeJson(p, k + 1, depth) = "hit" =>
          CollectJsonText(p, k + 1, depth) = "hit" /\ DesanitizeJson(p, k + 1, depth) = "hit"
  BY JsonVerdicts
<1>5. CollectBlockText(p, k, wc) = "hit"
  BY <1>2, <1>3, <1>4 DEF SanitizeBlock, CollectBlockText, Only, BlockFallbackOpaqueKeys
<1>6. DesanitizeBlock(p, k, wd) = "hit"
  BY <1>2, <1>3, <1>4 DEF SanitizeBlock, DesanitizeBlock, Only
<1> QED BY <1>5, <1>6

LEMMA ContentsAgree ==
    ASSUME NEW p \in Paths, NEW k \in 1..Len(p), SanitizeContent(p, k) = "hit"
    PROVE  CollectText(p, k) = "hit" /\ DesanitizeContent(p, k) = "hit"
<1>1. PICK ws \in [1..Len(p) -> Verdicts] :
          \A i \in 1..Len(p) : SanitizeContent(p, i) = ws[i] /\ ws[i] = SanitizeValue(p, i, ws)
  BY SanitizeContentValue
<1>2. PICK wc \in [1..Len(p) -> Verdicts] :
          \A i \in 1..Len(p) : CollectText(p, i) = wc[i] /\ wc[i] = CollectValue(p, i, wc)
  BY CollectTextValue
<1>3. PICK wd \in [1..Len(p) -> Verdicts] :
          \A i \in 1..Len(p) : DesanitizeContent(p, i) = wd[i] /\ wd[i] = DesanitizeValue(p, i, wd)
  BY DesanitizeContentValue
<1> DEFINE T == {i \in 1..Len(p) : ws[i] = "hit" /\ ~(wc[i] = "hit" /\ wd[i] = "hit")}
<1>4. SUFFICES ASSUME T # {} PROVE FALSE
  BY <1>1, <1>2, <1>3
<1>5. Len(p) \in Nat
  BY PathFacts
<1>6. PICK i \in T : \A j \in T : j <= i
  BY <1>4, <1>5, LastStep
<1>7. HitsBelow(p, i, ws, wc, wd)
  BY <1>6, <1>5 DEF HitsBelow
<1>8. SanitizeValue(p, i, ws) = "hit"
  BY <1>1, <1>6
<1>9. CollectValue(p, i, wc) = "hit" /\ DesanitizeValue(p, i, wd) = "hit"
  <2>1. CASE p[i].in = "dict"
    <3>1. SanitizeBlock(p, i, ws) = "hit"
      BY <1>8, <2>1 DEF SanitizeValue, IsStr
    <3>2. CollectBlockText(p, i, wc) = "hit" /\ DesanitizeBlock(p, i, wd) = "hit"
      BY <3>1, <2>1, <1>7, BlocksAgree
    <3> QED BY <3>2, <2>1 DEF CollectValue, DesanitizeValue, IsStr
  <2>2. CASE p[i].in = "list"
    <3>1. p[i + 1].in = "dict" /\ SanitizeBlock(p, i + 1, ws) = "hit"
      BY <1>8, <2>2 DEF SanitizeValue, IsStr
    <3>2. i + 1 \in 1..Len(p) /\ HitsBelow(p, i + 1, ws, wc, wd)
      BY <2>2, <1>7, PathFacts DEF HitsBelow
    <3>3. CollectBlockText(p, i + 1, wc) = "hit" /\ DesanitizeBlock(p, i + 1, wd) = "hit"
      BY <3>1, <3>2, BlocksAgree
    <3> QED BY <3>1, <3>3, <2>2 DEF CollectValue, DesanitizeValue, IsStr
  <2> QED BY <2>1, <2>2, <1>8 DEF SanitizeValue, CollectValue, DesanitizeValue
<1> QED BY <1>2, <1>3, <1>6, <1>9

LEMMA ArgumentsAgree ==
    ASSUME NEW p, NEW k, SanitizeToolArguments(p, k) = "hit"
    PROVE  CollectToolArgumentsText(p, k) = "hit" /\ DesanitizeToolArguments(p, k) = "hit"
<1>1. \A j, depth : SanitizeJson(p, j, depth) = "hit" =>
          CollectJsonText(p, j, depth) = "hit" /\ DesanitizeJson(p, j, depth) = "hit"
  BY JsonVerdicts
<1> QED BY <1>1 DEF SanitizeToolArguments, CollectToolArgumentsText, DesanitizeToolArguments,
           SanitizeArguments, CollectArgumentsText, DesanitizeArguments, IsStr, IsTree

\* What the loop rewrites, Stage 0 and Stage 5 are shown.
LEMMA CollectAgrees ==
    ASSUME NEW p \in Paths, NEW s, Sanitize(s, p) = "hit"
    PROVE  Collect(s, p) = "hit"
<1>1. CASE p[1].in # "dict"
  BY <1>1 DEF Sanitize, Collect
<1>2. CASE p[1].in = "dict"
  <2>1. 2 \in 1..Len(p)
    BY <1>2, PathFacts
  <2>2. /\ SanitizeContent(p, 2) = "hit" => CollectText(p, 2) = "hit"
        /\ SanitizeToolArguments(p, 2) = "hit" => CollectToolArgumentsText(p, 2) = "hit"
        /\ SanitizeJson(p, 2, 0) = "hit" => CollectJsonText(p, 2, 0) = "hit"
    BY <2>1, ContentsAgree, ArgumentsAgree, JsonVerdicts
  <2>3. SanitizeMessage(p) = "hit" => CollectMessageText(p) = "hit"
    BY <2>2 DEF SanitizeMessage, CollectMessageText
  <2>4. SanitizeResponsesItem(p) = "hit" => CollectResponsesItemText(p) = "hit"
    BY <2>2 DEF SanitizeResponsesItem, CollectResponsesItemText
  <2> QED BY <2>3, <2>4, <1>2 DEF Sanitize, Collect
<1> QED BY <1>1, <1>2

------------------------------------------------------------------------------
(* Nothing is missed: a walk hits a string that nothing on its way excuses, *)
(* or refuses the request.                                                  *)

Freely(f, p, k) == ~LeftAlone(f, p, k, Roles(f, p)[k])
LooseString(f, p) == p[Len(p)].in = "str" /\ \A k \in 1..(Len(p) - 1) : Freely(f, p, k)
Unsigned(p, k) == \A i \in k..(Len(p) - 1) : p[i].in = "dict" => p[i].key # "encrypted_content"

\* The JSON walks reach a string leaf with no signed field above it.
LEMMA JsonReaches ==
    ASSUME NEW p \in Paths, NEW k \in 1..Len(p), p[Len(p)].in = "str", Unsigned(p, k)
    PROVE  IsStr(p, JsonEnd(p, k))
<1>1. /\ JsonEnd(p, k) \in k..Len(p)
      /\ ~Enters(p, JsonEnd(p, k))
  BY JsonEndFacts
<1>2. CASE JsonEnd(p, k) = Len(p)
  BY <1>2 DEF IsStr
<1>3. CASE JsonEnd(p, k) # Len(p)
  <2>1. JsonEnd(p, k) \in 1..Len(p) /\ JsonEnd(p, k) < Len(p) /\ JsonEnd(p, k) \in k..(Len(p) - 1)
    BY <1>1, <1>3, PathFacts
  <2>2. p[JsonEnd(p, k)].in \in {"dict", "list", "json"}
    BY <2>1, PathFacts
  <2> QED BY <1>1, <2>1, <2>2 DEF Enters, IsStr, Unsigned, JsonOpaqueKeys, Key
<1> QED BY <1>2, <1>3

LEMMA JsonNotMissed ==
    ASSUME NEW p \in Paths, NEW k \in 1..Len(p), p[Len(p)].in = "str", Unsigned(p, k), NEW depth
    PROVE  SanitizeJson(p, k, depth) \in {"hit", "deep"}
BY JsonReaches DEF SanitizeJson

\* Within the bound the quiet walks reach it too.
LEMMA JsonWithin ==
    ASSUME NEW p \in Paths, NEW k \in 1..Len(p), p[Len(p)].in = "str", Unsigned(p, k),
           Len(p) - k <= MaxDepth
    PROVE  CollectJsonText(p, k, 0) = "hit" /\ DesanitizeJson(p, k, 0) = "hit"
<1>1. JsonEnd(p, k) \in k..Len(p) /\ Len(p) \in Nat
  BY JsonEndFacts, PathFacts
<1>2. MaxDepth \in Nat
  BY RequestAssumption
<1>3. ~(JsonDepth(p, k, 0) > MaxDepth)
  BY <1>1, <1>2 DEF JsonDepth
<1> QED BY <1>3, JsonReaches DEF CollectJsonText, DesanitizeJson

\* What each step of a path is follows from the one above it.
LEMMA RolesFacts ==
    ASSUME NEW p \in Paths, NEW f
    PROVE  /\ Roles(f, p)[1] = RoleOf(f, p, 1, "item")
           /\ \A k \in 2..Len(p) : Roles(f, p)[k] = RoleOf(f, p, k, Roles(f, p)[k - 1])
<1> DEFINE n == Len(p)
<1> DEFINE Body(k, r) == RoleOf(f, p, k, IF k = 1 THEN "item" ELSE r[k - 1])
<1> DEFINE Kinds == {"content", "item", "value", "block", "source"}
<1> DEFINE F == [x \in (1..n) \X [1..n -> Kinds] |-> Body(x[1], x[2])]
<1>1. n \in Nat /\ 1 \in 1..n
  BY PathFacts
<1>2. \A k, above : RoleOf(f, p, k, above) \in Kinds
  BY DEF RoleOf
<1>3. PICK r \in [1..n -> Kinds] : \A k \in 1..n : r[k] = Body(k, r)
  <2>1. F \in [(1..n) \X [1..n -> Kinds] -> Kinds]
    BY <1>2
  <2>2. ASSUME NEW k \in 1..n, NEW u \in [1..n -> Kinds], NEW w \in [1..n -> Kinds],
               \A j \in 1..(k - 1) : u[j] = w[j]
        PROVE  F[<<k, u>>] = F[<<k, w>>]
    <3>1. k # 1 => k - 1 \in 1..(k - 1)
      BY <1>1
    <3>2. k # 1 => u[k - 1] = w[k - 1]
      BY <2>2, <3>1
    <3>3. F[<<k, u>>] = Body(k, u) /\ F[<<k, w>>] = Body(k, w)
      OBVIOUS
    <3> QED BY <3>2, <3>3
  <2>3. LooksBack(n, Kinds, F)
    <3> HIDE DEF F, n, Kinds
    <3> QED BY <2>2 DEF LooksBack
  <2>4. PICK r \in [1..n -> Kinds] : Solves(n, F, r)
    <3>1. Kinds # {}
      OBVIOUS
    <3> HIDE DEF F, n, Kinds
    <3> QED BY <2>1, <2>3, <1>1, <3>1, RecursionBack
  <2> QED BY <2>4 DEF Solves
<1> DEFINE c == CHOOSE g : g = [k \in 1..Len(p) |-> RoleOf(f, p, k, IF k = 1 THEN "item" ELSE g[k - 1])]
<1>4. r = [k \in 1..Len(p) |-> RoleOf(f, p, k, IF k = 1 THEN "item" ELSE r[k - 1])]
  BY <1>3
<1>5. c = [k \in 1..Len(p) |-> RoleOf(f, p, k, IF k = 1 THEN "item" ELSE c[k - 1])]
  BY <1>4
<1>6. Roles(f, p) = c
  BY DEF Roles
<1> HIDE DEF c
<1>7. ASSUME NEW k \in 2..Len(p) PROVE c[k] = RoleOf(f, p, k, c[k - 1])
  <2>1. k \in 1..Len(p) /\ k # 1
    BY <1>1
  <2> QED BY <2>1, <1>5
<1>8. c[1] = RoleOf(f, p, 1, "item")
  BY <1>1, <1>5
<1> QED BY <1>6, <1>7, <1>8

LEMMA LooseFacts ==
    ASSUME NEW p \in Paths, NEW f, LooseString(f, p), NEW k \in 1..Len(p)
    PROVE  /\ Unsigned(p, k)
           /\ k < Len(p) => Freely(f, p, k) /\ p[k].in \in {"dict", "list", "json"}
           /\ k = Len(p) => p[k].in = "str"
<1>1. Len(p) \in Nat
  BY PathFacts
<1>2. \A i \in k..(Len(p) - 1) : Freely(f, p, i)
  BY <1>1 DEF LooseString
<1>3. Unsigned(p, k)
  BY <1>2 DEF Unsigned, LeftAlone, Freely
<1> QED BY <1>1, <1>3, PathFacts DEF LooseString

\* The contents below step k are not missed.
ContentsFound(f, p, k, w) ==
    \A j \in (k + 1)..Len(p) : Roles(f, p)[j] = "content" => w[j] \in {"hit", "deep"}

LEMMA LooseBlock ==
    ASSUME NEW p \in Paths, NEW f, LooseString(f, p), NEW k \in 1..Len(p),
           IsBlock(p, k, Roles(f, p)[k]), NEW w, ContentsFound(f, p, k, w)
    PROVE  SanitizeBlock(p, k, w) \in {"hit", "deep"}
<1> DEFINE role == Roles(f, p)
<1>1. p[k].in = "dict" /\ k < Len(p) /\ k + 1 \in 1..Len(p) /\ k + 1 \in 2..Len(p) /\ k \in Nat \ {0}
  BY PathFacts, LooseFacts DEF IsBlock
<1>2. ~LeftAlone(f, p, k, role[k])
  BY <1>1, LooseFacts DEF Freely
<1>3. p[k].key # "encrypted_content" /\ (NamedBlock(p[k]) => OwnField(p, k))
      /\ (~NamedBlock(p[k]) => p[k].key \notin {"type", "signature"})
  BY <1>1, <1>2 DEF LeftAlone
<1>4. \A d : SanitizeJson(p, k + 1, d) \in {"hit", "deep"}
  BY <1>1, LooseFacts, JsonNotMissed DEF LooseString
<1>5. role[k + 1] = RoleOf(f, p, k + 1, role[k])
  <2>1. role[k + 1] = RoleOf(f, p, k + 1, role[(k + 1) - 1])
    BY <1>1, RolesFacts
  <2>2. (k + 1) - 1 = k
    BY <1>1
  <2> QED BY <2>1, <2>2
<1> HIDE DEF role
<1>6. role[k] \in {"content", "block"} /\ k + 1 # 1 /\ k + 1 > 1 /\ (k + 1) - 1 = k
  BY <1>1 DEF IsBlock, role
<1>7. /\ p[k].type = "document" /\ SourceDict(p, k) => role[k + 1] = "source"
      /\ /\ Key(p, k) = "content"
         /\ p[k].type = "search_result" \/ (p[k].type = "tool_result" /\ p[k].has)
         => role[k + 1] = "content"
  BY <1>1, <1>5, <1>6 DEF RoleOf, IsBlock
<1>8. role[k + 1] = "content" => w[k + 1] \in {"hit", "deep"}
  BY <1>1 DEF ContentsFound, role
<1>9. CASE ~NamedBlock(p[k])
  BY <1>9, <1>3, <1>4 DEF NamedBlock, SanitizeBlock, Branch, Key, BlockFallbackOpaqueKeys, JsonOpaqueKeys
<1>10. CASE NamedBlock(p[k]) /\ p[k].type \in DOMAIN TextBlockField
  BY <1>10, <1>3 DEF NamedBlock, OwnField, SanitizeBlock, Branch, Only, Key, TextBlockField,
       ToolUseBlockTypes, JsonResultBlockTypes, OpaqueBlockTypes
<1>11. CASE NamedBlock(p[k]) /\ p[k].type = "tool_result"
  BY <1>11, <1>3, <1>7, <1>8 DEF NamedBlock, OwnField, SanitizeBlock, Branch, Only, TextBlockField,
       ToolUseBlockTypes, JsonResultBlockTypes, OpaqueBlockTypes
<1>12. CASE NamedBlock(p[k]) /\ p[k].type \in ToolUseBlockTypes
  BY <1>12, <1>3, <1>4 DEF NamedBlock, OwnField, SanitizeBlock, Branch, Only, TextBlockField,
       ToolUseBlockTypes, JsonResultBlockTypes, OpaqueBlockTypes
<1>13. CASE NamedBlock(p[k]) /\ p[k].type \in JsonResultBlockTypes
  BY <1>13, <1>3, <1>4 DEF NamedBlock, OwnField, SanitizeBlock, Branch, Only, TextBlockField,
       ToolUseBlockTypes, JsonResultBlockTypes, OpaqueBlockTypes
<1>14. CASE p[k].type = "search_result"
  BY <1>14, <1>3, <1>7, <1>8 DEF NamedBlock, OwnField, SanitizeBlock, Branch, Only, TextBlockField,
       ToolUseBlockTypes, JsonResultBlockTypes, OpaqueBlockTypes
<1>15. CASE p[k].type = "document"
  <2>1. SanitizeBlock(p, k, w) = IF FieldText(p, k, {"title", "context"}) \/ SourceText(p, k) THEN "hit"
                                 ELSE IF SourceContent(p, k) THEN w[k + 2] ELSE "miss"
    BY <1>15 DEF SanitizeBlock, Branch, TextBlockField, ToolUseBlockTypes, JsonResultBlockTypes,
         OpaqueBlockTypes
  <2>2. FieldText(p, k, {"title", "context"}) \/ SourceDict(p, k)
    BY <1>3, <1>15 DEF NamedBlock, OwnField, TextBlockField, ToolUseBlockTypes, JsonResultBlockTypes
  <2>3. CASE SourceDict(p, k)
    <3>1. /\ p[k + 1].in = "dict" /\ k + 1 < Len(p) /\ k + 2 \in 1..Len(p) /\ k + 2 \in 2..Len(p)
          /\ (k + 1) + 1 = k + 2 /\ (k + 2) - 1 = k + 1 /\ k + 2 # 1 /\ k + 2 > 1
          /\ k + 2 \in (k + 1)..Len(p)
      BY <1>1, <2>3, PathFacts, LooseFacts DEF SourceDict
    <3>2. role[k + 1] = "source"
      BY <1>7, <1>15, <2>3
    <3>3. ~LeftAlone(f, p, k + 1, role[k + 1])
      BY <1>1, <3>1, LooseFacts DEF Freely, role
    <3>4. \/ p[k + 1].type = "text" /\ FieldText(p, k + 1, {"data"})
          \/ p[k + 1].type = "content" /\ Key(p, k + 1) = "content"
      BY <3>2, <3>3 DEF LeftAlone
    <3>5. CASE p[k + 1].type = "text" /\ FieldText(p, k + 1, {"data"})
      BY <2>1, <2>3, <3>1, <3>5 DEF SourceDict, SourceText, SourceIs, FieldText, Key
    <3>6. CASE p[k + 1].type = "content" /\ Key(p, k + 1) = "content"
      <4>1. role[k + 2] = RoleOf(f, p, k + 2, role[k + 1])
        BY <3>1, RolesFacts DEF role
      <4>2. role[k + 2] = "content"
        BY <3>1, <3>2, <3>6, <4>1 DEF RoleOf, IsBlock
      <4>3. w[k + 2] \in {"hit", "deep"}
        BY <3>1, <4>2 DEF ContentsFound, role
      <4>4. SourceContent(p, k)
        BY <2>3, <3>1, <3>6 DEF SourceDict, SourceContent, SourceIs, Key
      <4> QED BY <2>1, <4>3, <4>4
    <3> QED BY <3>4, <3>5, <3>6
  <2> QED BY <2>1, <2>2, <2>3
<1>16. CASE p[k].type \in OpaqueBlockTypes
  BY <1>16, <1>3 DEF NamedBlock, OwnField, TextBlockField, ToolUseBlockTypes, JsonResultBlockTypes,
       OpaqueBlockTypes
<1> QED BY <1>9, <1>10, <1>11, <1>12, <1>13, <1>14, <1>15, <1>16 DEF NamedBlock

LEMMA LooseContent ==
    ASSUME NEW p \in Paths, NEW f, LooseString(f, p), NEW k \in 1..Len(p), Roles(f, p)[k] = "content"
    PROVE  SanitizeContent(p, k) \in {"hit", "deep"}
<1>1. PICK w \in [1..Len(p) -> Verdicts] :
          \A i \in 1..Len(p) : SanitizeContent(p, i) = w[i] /\ w[i] = SanitizeValue(p, i, w)
  BY SanitizeContentValue
<1> DEFINE T == {i \in 1..Len(p) : Roles(f, p)[i] = "content" /\ w[i] \notin {"hit", "deep"}}
<1>2. SUFFICES ASSUME T # {} PROVE FALSE
  BY <1>1
<1>3. Len(p) \in Nat
  BY PathFacts
<1>4. PICK i \in T : \A j \in T : j <= i
  BY <1>2, <1>3, LastStep
<1>5. i \in 1..Len(p) /\ Roles(f, p)[i] = "content" /\ w[i] = SanitizeValue(p, i, w) /\ w[i] \notin {"hit", "deep"}
  BY <1>1, <1>4
<1>6. \A b \in i..Len(p) : ContentsFound(f, p, b, w)
  <2> SUFFICES ASSUME NEW b \in i..Len(p), NEW j \in (b + 1)..Len(p), Roles(f, p)[j] = "content"
               PROVE  w[j] \in {"hit", "deep"}
    BY DEF ContentsFound
  <2>1. j \in 1..Len(p) /\ ~(j <= i)
    BY <1>3, <1>5
  <2> QED BY <1>4, <2>1
<1> HIDE DEF T
<1>7. CASE p[i].in = "dict"
  <2>1. IsBlock(p, i, Roles(f, p)[i]) /\ ContentsFound(f, p, i, w)
    BY <1>3, <1>5, <1>6, <1>7 DEF IsBlock
  <2>2. SanitizeBlock(p, i, w) \in {"hit", "deep"}
    BY <1>5, <2>1, LooseBlock
  <2> QED BY <1>5, <1>7, <2>2 DEF SanitizeValue, IsStr
<1>8. CASE p[i].in = "list"
  <2>1. i + 1 \in 1..Len(p) /\ i + 1 \in 2..Len(p) /\ i < Len(p) /\ i + 1 \in i..Len(p) /\ (i + 1) - 1 = i
        /\ i + 1 # 1 /\ i + 1 > 1
    BY <1>3, <1>5, <1>8, PathFacts
  <2>2. p[i + 1].in = "dict"
    BY <1>5, <1>8, <2>1, LooseFacts DEF LeftAlone, Freely
  <2>3. Roles(f, p)[i + 1] = "block"
    <3>1. Roles(f, p)[i + 1] = RoleOf(f, p, i + 1, Roles(f, p)[i])
      BY <2>1, RolesFacts
    <3> QED BY <1>5, <1>8, <2>1, <3>1 DEF RoleOf, IsBlock
  <2>4. IsBlock(p, i + 1, Roles(f, p)[i + 1]) /\ ContentsFound(f, p, i + 1, w)
    BY <1>6, <2>1, <2>2, <2>3 DEF IsBlock
  <2>5. SanitizeBlock(p, i + 1, w) \in {"hit", "deep"}
    BY <2>1, <2>4, LooseBlock
  <2> QED BY <1>5, <1>8, <2>2, <2>5 DEF SanitizeValue, IsStr
<1>9. CASE IsStr(p, i)
  BY <1>5, <1>9 DEF SanitizeValue, IsStr
<1> QED BY <1>5, <1>7, <1>8, <1>9, LooseFacts, PathFacts DEF IsStr

LEMMA LooseArguments ==
    ASSUME NEW p \in Paths, NEW f, LooseString(f, p), NEW k \in 1..Len(p)
    PROVE  /\ SanitizeToolArguments(p, k) \in {"hit", "deep"}
           /\ SanitizeJson(p, k, 0) \in {"hit", "deep"}
           /\ IsStr(p, k) \/ IsTree(p, k)
<1>1. IsStr(p, k) \/ IsTree(p, k)
  BY PathFacts, LooseFacts DEF IsStr, IsTree
<1>2. SanitizeJson(p, k, 0) \in {"hit", "deep"}
  BY LooseFacts, JsonNotMissed DEF LooseString
<1>3. p[k].in = "json" => SanitizeJson(p, k + 1, 0) \in {"hit", "deep"}
  <2>1. ASSUME p[k].in = "json" PROVE k + 1 \in 1..Len(p)
    BY <2>1, PathFacts
  <2> QED BY <2>1, LooseFacts, JsonNotMissed DEF LooseString
<1> QED BY <1>1, <1>2, <1>3 DEF SanitizeToolArguments, SanitizeArguments, IsStr, IsTree

\* A loose text of an item is rewritten, or the walk raises.
LEMMA NotMissed ==
    ASSUME NEW p \in Paths, NEW s, NEW f \in {"messages", "input"}, LooseString(f, p),
           s = "messages" <=> f = "messages"
    PROVE  Sanitize(s, p) # "miss"
<1>1. 1 \in 1..Len(p)
  BY PathFacts
<1>2. CASE IsStr(p, 1)
  BY <1>2 DEF Sanitize, IsStr
<1>3. CASE IsTree(p, 1)
  <2>1. 2 \in 1..Len(p) /\ 1 < Len(p)
    BY <1>1, <1>3, PathFacts DEF IsTree
  <2>2. ~LeftAlone(f, p, 1, Roles(f, p)[1])
    BY <1>1, <2>1, LooseFacts DEF Freely
  <2>3. p[1].in = "dict"
    BY <1>3, <2>2 DEF LeftAlone, IsTree, Prompts
  <2>4. Key(p, 1) \in {"content", "summary"} => SanitizeContent(p, 2) \in {"hit", "deep"}
    <3>1. Roles(f, p)[1] = "item"
      BY RolesFacts DEF RoleOf, Prompts
    <3>2. Roles(f, p)[2] = RoleOf(f, p, 2, Roles(f, p)[1])
      <4>1. 2 \in 2..Len(p) /\ 2 - 1 = 1
        BY <2>1
      <4> QED BY <4>1, RolesFacts
    <3>3. Key(p, 1) \in {"content", "summary"} => Roles(f, p)[2] = "content"
      BY <2>3, <3>1, <3>2 DEF RoleOf, IsBlock
    <3> QED BY <3>3, <2>1, LooseContent
  <2>5. /\ SanitizeToolArguments(p, 2) \in {"hit", "deep"}
        /\ SanitizeJson(p, 2, 0) \in {"hit", "deep"}
        /\ IsStr(p, 2) \/ IsTree(p, 2)
    BY <2>1, LooseArguments
  <2>6. CASE f = "messages"
    <3>1. Key(p, 1) = "content" \/ IsCall(p) \/ IsOutput(p)
      BY <2>2, <2>3, <2>6 DEF LeftAlone
    <3>2. SanitizeMessage(p) # "miss"
      BY <3>1, <2>4, <2>5 DEF SanitizeMessage
    <3> QED BY <3>2, <2>3, <2>6 DEF Sanitize, IsStr
  <2>7. CASE f = "input"
    <3>1. ~SkippedField(p)
      BY <2>2, <2>3, <2>7 DEF LeftAlone
    <3>2. SanitizeResponsesItem(p) # "miss"
      BY <3>1, <2>4, <2>5 DEF SanitizeResponsesItem, IsStr, IsTree
    <3> QED BY <3>2, <2>3, <2>7 DEF Sanitize, IsStr
  <2> QED BY <2>6, <2>7
<1> QED BY <1>1, <1>2, <1>3, LooseArguments

\* So is a loose text of a prompt field.
LEMMA PromptNotMissed ==
    ASSUME NEW p \in Paths, NEW f \in Prompts, LooseString(f, p)
    PROVE  SanitizeContent(p, 1) \in {"hit", "deep"}
<1>1. 1 \in 1..Len(p) /\ Roles(f, p)[1] = "content"
  BY PathFacts, RolesFacts DEF RoleOf
<1> QED BY <1>1, LooseContent

------------------------------------------------------------------------------
(* The paths of a request's items.                                          *)

LEMMA Prefixed ==
    ASSUME NEW p \in Paths, NEW x \in PathSteps, x.in \in {"dict", "list"}, x.type \notin DOMAIN TextBlockField
    PROVE  /\ <<x>> \o p \in Paths
           /\ Len(<<x>> \o p) = Len(p) + 1
           /\ (<<x>> \o p)[1] = x
           /\ \A k \in 1..Len(p) : (<<x>> \o p)[k + 1] = p[k]
<1> DEFINE q == <<x>> \o p
<1>1. p \in Seq(PathSteps) /\ WellFormed(p) /\ Len(p) \in Nat
  BY DEF Paths
<1>2. q \in Seq(PathSteps) /\ Len(q) = Len(p) + 1
  BY <1>1
<1>3. q[1] = x /\ \A k \in 1..Len(p) : q[k + 1] = p[k]
  BY <1>1
<1> HIDE DEF q
<1>4. ASSUME NEW k \in 1..Len(q), k # 1 PROVE k - 1 \in 1..Len(p) /\ q[k] = p[k - 1]
  <2>1. k - 1 \in 1..Len(p) /\ k - 1 + 1 = k
    BY <1>1, <1>2, <1>4
  <2> QED BY <2>1, <1>3
<1>5. ASSUME NEW k \in 1..Len(q) PROVE k < Len(q) <=> q[k].in \in {"dict", "list", "json"}
  <2>1. CASE k = 1
    BY <2>1, <1>1, <1>2, <1>3 DEF WellFormed
  <2>2. CASE k # 1
    <3>1. k - 1 < Len(p) <=> p[k - 1].in \in {"dict", "list", "json"}
      BY <2>2, <1>4, <1>1 DEF WellFormed
    <3> QED BY <3>1, <2>2, <1>4, <1>2, <1>1
  <2> QED BY <2>1, <2>2
<1>6. ASSUME NEW k \in 1..Len(q), q[k].in = "dict", q[k].has, q[k].type \in DOMAIN TextBlockField,
             Key(q, k) = TextBlockField[q[k].type]
      PROVE  IsStr(q, k + 1)
  <2>1. k # 1
    BY <1>6, <1>3
  <2>2. k - 1 \in 1..Len(p) /\ q[k] = p[k - 1]
    BY <2>1, <1>4
  <2>3. k - 1 < Len(p)
    BY <2>2, <1>6, <1>1 DEF WellFormed
  <2>4. IsStr(p, (k - 1) + 1)
    BY <2>2, <1>6, <1>1 DEF WellFormed, Key
  <2>5. k \in 1..Len(p) /\ (k - 1) + 1 = k
    BY <2>2, <2>3, <1>1
  <2>6. q[k + 1] = p[k]
    BY <2>5, <1>3
  <2> QED BY <2>4, <2>5, <2>6 DEF IsStr
<1>7. WellFormed(q)
  BY <1>1, <1>2, <1>5, <1>6 DEF WellFormed
<1> QED BY <1>2, <1>3, <1>7 DEF Paths, q

------------------------------------------------------------------------------
(* What was rewritten is found again.  A hit leaves no signed field above   *)
(* the first string on the way, and the answer's walk, which goes by field  *)
(* names, reaches that string.                                              *)

\* Step k of p goes on to the next one and is no signed field.
Passes(p, k) == IsTree(p, k) /\ (p[k].in = "dict" => Key(p, k) \notin JsonOpaqueKeys)

\* From step k on, the first string of p stands below no signed field.
Clear(p, k) == \E e \in k..Len(p) : IsStr(p, e) /\ \A i \in k..(e - 1) : Passes(p, i)

LEMMA ClearHere ==
    ASSUME NEW p \in Paths, NEW k \in 1..Len(p), IsStr(p, k)
    PROVE  Clear(p, k)
<1>1. k \in k..Len(p) /\ \A i \in k..(k - 1) : Passes(p, i)
  BY PathFacts
<1> QED BY <1>1 DEF Clear

LEMMA ClearAbove ==
    ASSUME NEW p \in Paths, NEW k \in 1..Len(p), Passes(p, k), Clear(p, k + 1)
    PROVE  Clear(p, k)
<1>1. PICK e \in (k + 1)..Len(p) : IsStr(p, e) /\ \A i \in (k + 1)..(e - 1) : Passes(p, i)
  BY DEF Clear
<1>2. e \in k..Len(p) /\ \A i \in k..(e - 1) : Passes(p, i)
  <2>1. ASSUME NEW i \in k..(e - 1) PROVE i = k \/ i \in (k + 1)..(e - 1)
    BY PathFacts
  <2> QED BY <2>1, <1>1, PathFacts
<1> QED BY <1>1, <1>2 DEF Clear

LEMMA JsonClear ==
    ASSUME NEW p \in Paths, NEW k \in 1..Len(p), NEW depth, SanitizeJson(p, k, depth) = "hit"
    PROVE  Clear(p, k)
<1>1. /\ JsonEnd(p, k) \in k..Len(p)
      /\ \A i \in k..(JsonEnd(p, k) - 1) : Enters(p, i)
  BY JsonEndFacts
<1>2. IsStr(p, JsonEnd(p, k))
  BY DEF SanitizeJson
<1>3. \A i \in k..(JsonEnd(p, k) - 1) : Passes(p, i)
  BY <1>1 DEF Enters, Passes, IsTree
<1> QED BY <1>1, <1>2, <1>3 DEF Clear

ClearBelow(p, k, w) == \A j \in (k + 1)..Len(p) : w[j] = "hit" => Clear(p, j)

LEMMA BlockClear ==
    ASSUME NEW p \in Paths, NEW k \in 1..Len(p), p[k].in = "dict", NEW w, ClearBelow(p, k, w),
           SanitizeBlock(p, k, w) = "hit"
    PROVE  Clear(p, k)
<1>1. k + 1 \in 1..Len(p) /\ k + 1 \in (k + 1)..Len(p)
  BY PathFacts
<1>2. \A depth : SanitizeJson(p, k + 1, depth) = "hit" => Clear(p, k + 1)
  BY <1>1, JsonClear
<1>3. w[k + 1] = "hit" => Clear(p, k + 1)
  BY <1>1 DEF ClearBelow
<1>4. IsStr(p, k + 1) => Clear(p, k + 1)
  BY <1>1, ClearHere
<1>5. ASSUME Branch(p, k, DOMAIN TextBlockField), Key(p, k) = TextBlockField[p[k].type]
      PROVE  Clear(p, k + 1) /\ Key(p, k) \notin JsonOpaqueKeys
  <2>1. IsStr(p, k + 1)
    BY <1>5 DEF Branch, Paths, WellFormed
  <2>2. Key(p, k) \in {"text", "refusal"}
    BY <1>5 DEF Branch, TextBlockField
  <2> QED BY <2>1, <2>2, <1>4 DEF JsonOpaqueKeys
<1>6. ASSUME SourceText(p, k) \/ (SourceContent(p, k) /\ w[k + 2] = "hit")
      PROVE  Clear(p, k + 1) /\ Key(p, k) \notin JsonOpaqueKeys
  <2>1. /\ Key(p, k) = "source" /\ p[k + 1].in = "dict" /\ Key(p, k + 1) \in {"data", "content"}
    BY <1>6 DEF SourceText, SourceContent, SourceIs, Key
  <2>2. k + 2 \in 1..Len(p) /\ k + 2 \in (k + 1)..Len(p) /\ (k + 1) + 1 = k + 2
    BY <1>1, <2>1, PathFacts
  <2>3. Clear(p, k + 2)
    BY <1>6, <2>2, ClearHere DEF SourceText, ClearBelow
  <2>4. Passes(p, k + 1)
    BY <2>1 DEF Passes, IsTree, JsonOpaqueKeys
  <2>5. Clear(p, k + 1)
    BY <1>1, <2>2, <2>3, <2>4, ClearAbove
  <2> QED BY <2>1, <2>5 DEF JsonOpaqueKeys
<1>7. Clear(p, k + 1) /\ Key(p, k) \notin JsonOpaqueKeys
  BY <1>2, <1>3, <1>4, <1>5, <1>6
     DEF SanitizeBlock, Only, FieldText, BlockFallbackOpaqueKeys, JsonOpaqueKeys
<1>8. Passes(p, k)
  BY <1>7 DEF Passes, IsTree
<1> QED BY <1>7, <1>8, ClearAbove

LEMMA ContentClear ==
    ASSUME NEW p \in Paths, NEW k \in 1..Len(p), SanitizeContent(p, k) = "hit"
    PROVE  Clear(p, k)
<1>1. PICK w \in [1..Len(p) -> Verdicts] :
          \A i \in 1..Len(p) : SanitizeContent(p, i) = w[i] /\ w[i] = SanitizeValue(p, i, w)
  BY SanitizeContentValue
<1> DEFINE T == {i \in 1..Len(p) : w[i] = "hit" /\ ~Clear(p, i)}
<1>2. SUFFICES ASSUME T # {} PROVE FALSE
  BY <1>1
<1>3. Len(p) \in Nat
  BY PathFacts
<1>4. PICK i \in T : \A j \in T : j <= i
  BY <1>2, <1>3, LastStep
<1>5. ClearBelow(p, i, w)
  BY <1>3, <1>4 DEF ClearBelow
<1>6. SanitizeValue(p, i, w) = "hit"
  BY <1>1, <1>4
<1>7. Clear(p, i)
  <2>1. CASE p[i].in = "dict"
    <3>1. SanitizeBlock(p, i, w) = "hit"
      BY <1>6, <2>1 DEF SanitizeValue, IsStr
    <3> QED BY <3>1, <2>1, <1>5, BlockClear
  <2>2. CASE p[i].in = "list"
    <3>1. p[i + 1].in = "dict" /\ SanitizeBlock(p, i + 1, w) = "hit"
      BY <1>6, <2>2 DEF SanitizeValue, IsStr
    <3>2. i + 1 \in 1..Len(p) /\ ClearBelow(p, i + 1, w)
      BY <2>2, <1>5, PathFacts DEF ClearBelow
    <3>3. Clear(p, i + 1)
      BY <3>1, <3>2, BlockClear
    <3>4. Passes(p, i)
      BY <2>2 DEF Passes, IsTree
    <3> QED BY <3>3, <3>4, ClearAbove
  <2>3. CASE IsStr(p, i)
    BY <2>3, ClearHere
  <2> QED BY <2>1, <2>2, <2>3, <1>6 DEF SanitizeValue
<1> QED BY <1>4, <1>7

\* A rewritten text of a Responses item stands below no signed field.
LEMMA ItemClear ==
    ASSUME NEW p \in Paths, p[1].in = "dict", SanitizeResponsesItem(p) = "hit"
    PROVE  Clear(p, 1)
<1>1. 1 \in 1..Len(p) /\ 2 \in 1..Len(p) /\ 1 + 1 = 2
  BY PathFacts
<1>2. SanitizeContent(p, 2) = "hit" => Clear(p, 2)
  BY <1>1, ContentClear
<1>3. SanitizeJson(p, 2, 0) = "hit" => Clear(p, 2)
  BY <1>1, JsonClear
<1>4. IsStr(p, 2) => Clear(p, 2)
  BY <1>1, ClearHere
<1>5. SanitizeToolArguments(p, 2) = "hit" => Clear(p, 2)
  BY <1>3, <1>4 DEF SanitizeToolArguments
<1>6. ~SkippedField(p)
  BY DEF SanitizeResponsesItem
<1>7. Clear(p, 2)
  BY <1>2, <1>3, <1>4, <1>5, <1>6 DEF SanitizeResponsesItem
<1>8. Passes(p, 1)
  BY <1>6 DEF Passes, IsTree, SkippedField
<1> QED BY <1>1, <1>7, <1>8, ClearAbove

\* The walk of the answer ends at the first string, whose field is FieldOf.
LEMMA PayloadFacts ==
    ASSUME NEW p \in Paths, p[1].in = "dict", Clear(p, 1)
    PROVE  /\ PayloadEnd(p) \in 1..Len(p) /\ IsStr(p, PayloadEnd(p))
           /\ \A i \in DictsBefore(p, PayloadEnd(p)) : Key(p, i) \notin JsonOpaqueKeys
           /\ PayloadField(p, PayloadEnd(p)) = FieldOf(p)
<1>1. PICK e \in 1..Len(p) : IsStr(p, e) /\ \A i \in 1..(e - 1) : Passes(p, i)
  BY DEF Clear
<1>2. Len(p) \in Nat
  BY PathFacts
<1>3. ~IsTree(p, e) /\ \A i \in 1..(e - 1) : IsTree(p, i)
  BY <1>1 DEF IsStr, IsTree, Passes
<1>4. PayloadEnd(p) \in 1..Len(p) /\ ~IsTree(p, PayloadEnd(p)) /\ \A i \in 1..(PayloadEnd(p) - 1) : IsTree(p, i)
  BY <1>3 DEF PayloadEnd
<1>5. PayloadEnd(p) = e
  <2>1. ~(e < PayloadEnd(p))
    BY <1>2, <1>3, <1>4
  <2>2. ~(PayloadEnd(p) < e)
    BY <1>2, <1>3, <1>4
  <2> QED BY <1>2, <1>4, <2>1, <2>2
<1>6. \A i \in DictsBefore(p, e) : Key(p, i) \notin JsonOpaqueKeys
  BY <1>1 DEF DictsBefore, Passes
<1> DEFINE text1 == CHOOSE i \in 1..Len(p) : IsStr(p, i) /\ \A j \in 1..(i - 1) : ~IsStr(p, j)
<1>7. text1 = e
  <2>1. \A j \in 1..(e - 1) : ~IsStr(p, j)
    BY <1>3 DEF IsStr, IsTree
  <2>2. text1 \in 1..Len(p) /\ IsStr(p, text1) /\ \A j \in 1..(text1 - 1) : ~IsStr(p, j)
    BY <1>1, <2>1
  <2> HIDE DEF text1
  <2>3. ~(text1 < e) /\ ~(e < text1)
    BY <1>1, <1>2, <2>1, <2>2
  <2> QED BY <1>2, <2>2, <2>3
<1>8. {i \in 1..e : p[i].in = "dict"} = DictsBefore(p, e)
  <2>1. p[e].in # "dict"
    BY <1>1 DEF IsStr
  <2>2. \A i \in 1..e : i = e \/ i \in 1..(e - 1)
    BY <1>2
  <2> QED BY <1>2, <2>1, <2>2 DEF DictsBefore
<1>9. DictsBefore(p, e) # {}
  <2>1. 1 # e
    BY <1>1 DEF IsStr
  <2>2. 1 \in 1..(e - 1)
    BY <1>2, <2>1
  <2> QED BY <2>2 DEF DictsBefore
<1>10. FieldOf(p) = p[CHOOSE i \in DictsBefore(p, e) : \A j \in DictsBefore(p, e) : j =< i].key
  BY <1>7, <1>8 DEF FieldOf
<1>11. PayloadField(p, e) = FieldOf(p)
  BY <1>9, <1>10 DEF PayloadField, Key
<1> QED BY <1>1, <1>5, <1>6, <1>11

LEMMA ItemEcho ==
    ASSUME NEW p \in Paths, p[1].in = "dict", p[Len(p)].in = "str", SanitizeResponsesItem(p) = "hit",
           FieldOf(p) \in ResponsesTextFields, ~(Len(p) + 1 > MaxDepth),
           ~(FieldOf(p) = "arguments" /\ Signed(p))
    PROVE  DesanitizeResponsesPayload(p) = "hit"
<1> DEFINE end == PayloadEnd(p)
<1>1. /\ end \in 1..Len(p) /\ IsStr(p, end) /\ PayloadField(p, end) = FieldOf(p)
      /\ \A i \in DictsBefore(p, end) : Key(p, i) \notin JsonOpaqueKeys
  BY ItemClear, PayloadFacts
<1>2. Len(p) \in Nat /\ MaxDepth \in Nat
  BY PathFacts, RequestAssumption
<1>3. ~(PayloadDepth(p) > MaxDepth)
  BY <1>1, <1>2 DEF PayloadDepth
<1>4. FieldOf(p) = "arguments" => DesanitizeArguments(p, end) = "hit"
  <2>1. ASSUME FieldOf(p) = "arguments", p[end].in = "json" PROVE DesanitizeJson(p, end + 1, 0) = "hit"
    <3>1. end + 1 \in 1..Len(p)
      BY <1>1, <2>1, PathFacts
    <3>2. Unsigned(p, end + 1)
      BY <1>2, <3>1, <2>1 DEF Signed, Unsigned
    <3>3. Len(p) - (end + 1) <= MaxDepth
      BY <1>2, <3>1
    <3> HIDE DEF end
    <3> QED BY <3>1, <3>2, <3>3, JsonWithin
  <2> QED BY <2>1 DEF DesanitizeArguments
<1> HIDE DEF end
<1>5. DesanitizeResponsesPayload(p) =
          CASE \/ PayloadDepth(p) > MaxDepth \/ ~IsStr(p, end)
               \/ \E i \in DictsBefore(p, end) : Key(p, i) \in JsonOpaqueKeys -> "miss"
            [] OTHER -> CASE FieldOf(p) = "arguments" -> DesanitizeArguments(p, end)
                          [] FieldOf(p) \in ResponsesTextFields \ {"arguments"} -> "hit"
                          [] OTHER -> "miss"
  BY <1>1 DEF DesanitizeResponsesPayload, end
<1> QED BY <1>1, <1>3, <1>4, <1>5

LEMMA MessageEcho ==
    ASSUME NEW p \in Paths, p[1].in = "dict", SanitizeMessage(p) = "hit",
           ~(Key(p, 1) = "content" /\ p[2].in = "dict")
    PROVE  ReverseChoice(p) = "hit"
<1>1. 2 \in 1..Len(p)
  BY PathFacts
<1>2. CASE Key(p, 1) = "content"
  <2>1. SanitizeContent(p, 2) = "hit"
    BY <1>2 DEF SanitizeMessage, IsCall, IsOutput, CallKeys
  <2>2. DesanitizeContent(p, 2) = "hit"
    BY <1>1, <2>1, ContentsAgree
  <2>3. PICK w \in [1..Len(p) -> Verdicts] :
            \A i \in 1..Len(p) : SanitizeContent(p, i) = w[i] /\ w[i] = SanitizeValue(p, i, w)
    BY SanitizeContentValue
  <2>4. SanitizeValue(p, 2, w) = "hit"
    BY <1>1, <2>1, <2>3
  <2>5. IsStr(p, 2) \/ p[2].in = "list"
    BY <1>2, <2>4 DEF SanitizeValue
  <2> QED BY <1>2, <2>2, <2>5 DEF ReverseChoice
<1>3. CASE Key(p, 1) # "content"
  <2>1. /\ SanitizeToolArguments(p, 2) = "hit" => DesanitizeToolArguments(p, 2) = "hit"
        /\ SanitizeJson(p, 2, 0) = "hit" => DesanitizeJson(p, 2, 0) = "hit"
    BY ArgumentsAgree, JsonVerdicts
  <2> QED BY <1>3, <2>1 DEF SanitizeMessage, ReverseChoice, DesanitizeToolCalls
<1> QED BY <1>2, <1>3

------------------------------------------------------------------------------
(* The stages.  A request's body is at every stage a function of the body   *)
(* it came with, of the stage and of the loop's position; what the scans    *)
(* found is known of the body as it came.                                   *)

\* The items as they came, what the loop makes of each, and the ones it raises on.
Came == RequestItems(req.body)
VerdictOf(i) == Sanitize(Shape, ItemPath(Came[i]))
Want == [i \in 1..Len(Came) |-> Rewritten(Came[i], VerdictOf(i))]
Fails == {i \in 1..Len(Came) : ErrorOf(VerdictOf(i), Came[i].text) # "none"}

\* The same for the prompt fields.
PromptWant == [f \in Prompts |-> RewrittenPrompt(f, req.body[f])]
PromptFails == {f \in Prompts : PromptError(f, req.body[f]) # "none"}

\* The body in the loop, after it, and after each prompt field.
InLoop ==
    IF Shape = "unmanaged" THEN req.body
    ELSE [req.body EXCEPT ![Managed].items =
             [i \in 1..Len(Came) |-> IF i < at THEN Want[i] ELSE Came[i]]]
AfterItems ==
    IF Shape = "unmanaged" THEN req.body ELSE [req.body EXCEPT ![Managed].items = Want]
AfterSystem == [AfterItems EXCEPT !["system"].items = PromptWant["system"]]
AfterPrompts == [AfterSystem EXCEPT !["instructions"].items = PromptWant["instructions"]]
Echoed ==
    IF Shape = "unmanaged" THEN AfterPrompts
    ELSE [AfterPrompts EXCEPT ![Managed].items = [i \in 1..Len(@) |->
             IF @[i].text = "placeholder" /\ Desanitize(Shape, ItemPath(@[i])) = "hit"
             THEN [@[i] EXCEPT !.text = "restored"] ELSE @[i]]]

\* What the scans were shown of the body as it came.
CameShown == ShownItems(req.body)
CameTexts == ShownTexts(req.body)
CameUnmanaged == UnmanagedTexts(req.body)

Early == {"entry", "auth", "bridge", "shape", "profile", "stage0"}
Sending == {"refresh", "stage5", "forwarded"}
Late == {"system", "instructions", "answered"} \cup Sending

Given ==
    /\ req.body \in Bodies /\ \A f \in Fields : FieldFits(req.body[f])
    /\ req.extra \subseteq {"metadata", "user"} /\ req.token \subseteq Places

Scanned ==
    cfg.stage0 => seen = CameShown /\ "dump" \notin CameTexts /\ "oversize" \notin CameUnmanaged

DataInv ==
    /\ stage \in Early => data = req.body /\ at = 1
    /\ stage = "items" => data = InLoop
    /\ stage = "system" => data = AfterItems
    /\ stage = "instructions" => data = AfterSystem
    /\ stage \in Sending => data = AfterPrompts
    /\ stage = "answered" => data = Echoed
    /\ stage = "refused" => data = req.body \/ (Scanned /\ data \in {InLoop, AfterItems, AfterSystem, AfterPrompts})

\* Nothing raised on the way to where the request stands.
PassedInv ==
    /\ stage = "items" => \A i \in Fails : i >= at
    /\ stage \in Late => Fails = {}
    /\ stage \in Late \ {"system"} => "system" \notin PromptFails
    /\ stage \in Late \ {"system", "instructions"} => PromptFails = {}
    /\ stage \in Late \cup {"items"} => Scanned
    /\ stage \in Late \cup {"profile", "stage0", "items"} =>
           req.body.messages.as = "absent" \/ req.body.input.as = "absent"
    /\ stage = "forwarded" =>
           /\ cfg.dlp \/ cfg.canaries =>
                  "oversize" \notin UnmanagedTexts(data) /\ "secret" \notin ShownTexts(data)
           /\ cfg.canaries => "canary" \notin ShownTexts(data)

CopyInv ==
    /\ stage # "entry" => token \cap TokenPlaces = {}
    /\ Bridged /\ stage \in Late \cup {"shape", "profile", "stage0", "items"} =>
           kept \cap Scrubbed = {}
    /\ answer = "E_DLP_BLOCKED" => stage = "refused"
    /\ stage \in {"stage5", "forwarded"} \/ answer = "E_DLP_BLOCKED" =>
        /\ \A f \in Fields : body[f].as # "absent" => body[f] = data[f]
        /\ Shape # "unmanaged" => logged = RequestItems(data)

IInv ==
    /\ stage \in Early \cup Late \cup {"items", "refused"} /\ at \in Nat \ {0}
    /\ Given /\ DataInv /\ PassedInv /\ CopyInv

------------------------------------------------------------------------------
(* No step changes the request it is about, nor what is said of it above.   *)

LEMMA FrameShape ==
    ASSUME UNCHANGED req
    PROVE  Shape' = Shape /\ Managed' = Managed /\ Came' = Came
BY DEF Shape, RequestShape, Managed, Came, RequestItems

LEMMA FrameItems ==
    ASSUME UNCHANGED req
    PROVE  Want' = Want /\ Fails' = Fails
BY FrameShape DEF Want, Fails, VerdictOf, ItemPath

LEMMA FrameShown ==
    ASSUME UNCHANGED req
    PROVE  CameShown' = CameShown /\ CameTexts' = CameTexts /\ CameUnmanaged' = CameUnmanaged
<1>1. Shape' = Shape /\ Managed' = Managed
  BY FrameShape
<1>2. CameShown' = CameShown
  BY <1>1 DEF CameShown, ShownItems, RequestItems, ItemPath
<1>3. CameUnmanaged' = CameUnmanaged
  BY <1>1 DEF CameUnmanaged, UnmanagedTexts
<1> QED BY <1>1, <1>2, <1>3 DEF CameTexts, CameShown, CameUnmanaged, ShownTexts, PromptTexts, RequestItems, PromptPath

LEMMA FramePrompts ==
    ASSUME UNCHANGED <<req, cfg>>
    PROVE  PromptWant' = PromptWant /\ PromptFails' = PromptFails
BY DEF PromptWant, PromptFails, RewrittenPrompt, PromptError, Exempt, LeadingIdentity, PromptPath

LEMMA FrameBodies ==
    ASSUME UNCHANGED <<req, cfg>>
    PROVE  /\ AfterItems' = AfterItems /\ AfterSystem' = AfterSystem /\ AfterPrompts' = AfterPrompts
           /\ UNCHANGED at => InLoop' = InLoop
           /\ Bridged' = Bridged /\ Scrubbed' = Scrubbed /\ Given' = Given
<1>1. AfterItems' = AfterItems
  BY FrameShape, FrameItems DEF AfterItems
<1>2. AfterSystem' = AfterSystem
  BY <1>1, FramePrompts DEF AfterSystem
<1>3. AfterPrompts' = AfterPrompts
  BY <1>2, FramePrompts DEF AfterPrompts
<1>4. UNCHANGED at => InLoop' = InLoop
  BY FrameShape, FrameItems DEF InLoop
<1>5. Bridged' = Bridged /\ Scrubbed' = Scrubbed /\ Given' = Given
  BY DEF Bridged, Given, Scrubbed
<1> QED BY <1>1, <1>2, <1>3, <1>4, <1>5

\* The scans of the body as it stands.
LEMMA FrameScans ==
    ASSUME UNCHANGED <<req, data>>
    PROVE  /\ UnmanagedTexts(data)' = UnmanagedTexts(data)
           /\ ShownTexts(data)' = ShownTexts(data)
           /\ RequestItems(data)' = RequestItems(data)
<1>1. Shape' = Shape /\ Managed' = Managed
  BY FrameShape
<1>2. RequestItems(data)' = RequestItems(data)
  BY <1>1 DEF RequestItems
<1>3. ShownItems(data)' = ShownItems(data)
  BY <1>1, <1>2 DEF ShownItems, RequestItems, ItemPath
<1>4. UnmanagedTexts(data)' = UnmanagedTexts(data)
  BY <1>1 DEF UnmanagedTexts
<1>5. PromptTexts(data)' = PromptTexts(data)
  BY DEF PromptTexts, PromptPath
<1> QED BY <1>2, <1>3, <1>4, <1>5 DEF ShownTexts

------------------------------------------------------------------------------
(* Bodies and their fields.                                                 *)

LEMMA ManagedField ==
    /\ Managed \in {"messages", "input"} /\ Managed \in Fields /\ Managed \notin Prompts
    /\ Shape = "unmanaged" => Came = <<>> /\ Managed = "input"
    /\ Shape # "unmanaged" => \A d : RequestItems(d) = d[Managed].items
BY DEF Managed, Fields, Prompts, Came, RequestItems

\* An item as it came: its path is a path, its text none of the gateway's own.
LEMMA CameFacts ==
    ASSUME Given
    PROVE  /\ req.body \in Bodies
           /\ \A f \in Fields : /\ req.body[f].items \in Seq(Items)
                                /\ \A i \in 1..Len(req.body[f].items) :
                                       /\ req.body[f].items[i].path \in Paths
                                       /\ req.body[f].items[i].text \notin {"placeholder", "restored"}
           /\ Came \in Seq(Items)
           /\ \A i \in 1..Len(Came) : /\ Came[i] \in Items
                                      /\ Came[i].path \in Paths
                                      /\ Came[i].text \notin {"placeholder", "restored"}
<1>1. req.body \in Bodies /\ \A f \in Fields : FieldFits(req.body[f])
  BY DEF Given
<1>2. ASSUME NEW f \in Fields PROVE req.body[f].items \in Seq(Items)
  BY <1>1 DEF Bodies
<1>3. ASSUME NEW f \in Fields, NEW i \in 1..Len(req.body[f].items)
      PROVE  /\ req.body[f].items[i] \in Items
             /\ req.body[f].items[i].path \in Paths
             /\ req.body[f].items[i].text \notin {"placeholder", "restored"}
  <2>1. req.body[f].items[i] \in Items
    BY <1>2
  <2>2. FieldFits(req.body[f])
    BY <1>1
  <2>3. req.body[f].items[i].path \in Seq(PathSteps)
    BY <2>1 DEF Items, PathSteps
  <2> QED BY <2>1, <2>2, <2>3 DEF FieldFits, Paths
<1>4. CASE Shape = "unmanaged"
  <2>1. Came = <<>>
    BY <1>4, ManagedField
  <2>2. Came \in Seq(Items) /\ 1..Len(Came) = {}
    BY <2>1
  <2> QED BY <1>1, <1>2, <1>3, <2>2
<1>5. CASE Shape # "unmanaged"
  <2>1. Came = req.body[Managed].items /\ Managed \in Fields
    BY <1>5, ManagedField DEF Came
  <2> QED BY <2>1, <1>1, <1>2, <1>3
<1> QED BY <1>4, <1>5

LEMMA RewrittenFacts ==
    ASSUME NEW it \in Items, NEW verdict
    PROVE  /\ Rewritten(it, verdict) \in Items
           /\ Rewritten(it, verdict).path = it.path
           /\ Rewritten(it, verdict).text = IF verdict = "hit" THEN SanitizeOne(it.text) ELSE it.text
<1> DEFINE t == IF verdict = "hit" THEN SanitizeOne(it.text) ELSE it.text
<1>1. it.path \in Seq(Steps) /\ it.text \in Texts /\ it = [path |-> it.path, text |-> it.text]
  BY DEF Items
<1>2. t \in Texts
  BY <1>1 DEF SanitizeOne, Texts
<1>3. Rewritten(it, verdict) = [it EXCEPT !.text = t]
  BY DEF Rewritten
<1> HIDE DEF t
<1>4. Rewritten(it, verdict) = [path |-> it.path, text |-> t]
  BY <1>1, <1>3
<1>5. [path |-> it.path, text |-> t] \in Items
  BY <1>1, <1>2 DEF Items
<1> QED BY <1>4, <1>5 DEF t

LEMMA WantFacts ==
    ASSUME Given
    PROVE  /\ Want \in Seq(Items) /\ Len(Want) = Len(Came) /\ DOMAIN Want = 1..Len(Came)
           /\ \A i \in 1..Len(Came) :
                 /\ Want[i] = Rewritten(Came[i], VerdictOf(i))
                 /\ Want[i] \in Items /\ Want[i].path = Came[i].path
                 /\ Want[i].text = IF VerdictOf(i) = "hit" THEN SanitizeOne(Came[i].text) ELSE Came[i].text
<1>1. Len(Came) \in Nat /\ \A i \in 1..Len(Came) : Came[i] \in Items
  BY CameFacts
<1>2. \A i \in 1..Len(Came) : Want[i] = Rewritten(Came[i], VerdictOf(i))
  BY DEF Want
<1>3. \A i \in 1..Len(Came) :
          /\ Want[i] \in Items /\ Want[i].path = Came[i].path
          /\ Want[i].text = IF VerdictOf(i) = "hit" THEN SanitizeOne(Came[i].text) ELSE Came[i].text
  BY <1>1, <1>2, RewrittenFacts
<1>4. Want \in [1..Len(Came) -> Items]
  BY <1>2, <1>3 DEF Want
<1>5. Want \in Seq(Items) /\ Len(Want) = Len(Came)
  BY <1>1, <1>4
<1> QED BY <1>2, <1>3, <1>4, <1>5

LEMMA PromptWantFacts ==
    ASSUME Given, NEW f \in Prompts
    PROVE  LET old == req.body[f].items
               new == PromptWant[f]
           IN  /\ new \in Seq(Items) /\ Len(new) = Len(old)
               /\ \A i \in 1..Len(old) :
                     /\ new[i] = IF i \in Exempt(f, req.body[f]) THEN old[i]
                                 ELSE Rewritten(old[i], SanitizeContent(PromptPath(req.body[f], old[i]), 1))
                     /\ new[i] \in Items /\ new[i].path = old[i].path
<1> DEFINE old == req.body[f].items
<1> DEFINE new == PromptWant[f]
<1>0. f \in Fields
  BY DEF Prompts, Fields
<1>1. old \in Seq(Items) /\ Len(old) \in Nat /\ \A i \in 1..Len(old) : old[i] \in Items
  BY <1>0, CameFacts
<1>2. new = [i \in 1..Len(old) |->
                IF i \in Exempt(f, req.body[f]) THEN old[i]
                ELSE Rewritten(old[i], SanitizeContent(PromptPath(req.body[f], old[i]), 1))]
  BY DEF PromptWant, RewrittenPrompt
<1> HIDE DEF old, new
<1>3. \A i \in 1..Len(old) : new[i] \in Items /\ new[i].path = old[i].path
  BY <1>1, <1>2, RewrittenFacts
<1>4. new \in [1..Len(old) -> Items]
  BY <1>2, <1>3
<1>5. new \in Seq(Items) /\ Len(new) = Len(old)
  BY <1>1, <1>4
<1> QED BY <1>2, <1>3, <1>5 DEF old, new

\* The fields of the body at each stage.
LEMMA BodyFields ==
    ASSUME Given
    PROVE  /\ AfterItems["system"] = req.body["system"]
           /\ AfterSystem["instructions"] = req.body["instructions"]
           /\ \A f \in Fields : AfterPrompts[f].as = req.body[f].as
           /\ \A f \in Prompts : AfterPrompts[f].items = PromptWant[f]
           /\ Shape # "unmanaged" =>
                 /\ AfterItems[Managed].items = Want /\ AfterSystem[Managed].items = Want
                 /\ AfterPrompts[Managed].items = Want
                 /\ InLoop[Managed].items = [i \in 1..Len(Came) |-> IF i < at THEN Want[i] ELSE Came[i]]
           /\ \A f \in Fields \ (Prompts \cup (IF Shape = "unmanaged" THEN {} ELSE {Managed})) :
                 AfterPrompts[f] = req.body[f]
<1>1. /\ req.body \in [Fields -> [as : {"absent", "null", "string", "list", "dict", "bad"}, items : Seq(Items)]]
      /\ Fields = {"messages", "input", "system", "instructions"} /\ Prompts = {"system", "instructions"}
  BY DEF Given, Bodies, Fields, Prompts
<1>2. Managed \in {"messages", "input"}
  BY ManagedField
<1>3. CASE Shape = "unmanaged"
  BY <1>1, <1>2, <1>3 DEF AfterItems, AfterSystem, AfterPrompts
<1>4. CASE Shape # "unmanaged"
  BY <1>1, <1>2, <1>4 DEF AfterItems, AfterSystem, AfterPrompts, InLoop
<1> QED BY <1>3, <1>4

LEMMA ItemPaths ==
    ASSUME NEW it, it.path \in Paths
    PROVE  /\ ItemPath(it) \in Paths
           /\ \A field : PromptPath(field, it) \in Paths
<1>1. /\ ContentStep \in PathSteps /\ ContentStep.in \in {"dict", "list"} /\ ContentStep.type \notin DOMAIN TextBlockField
      /\ ListStep \in PathSteps /\ ListStep.in \in {"dict", "list"} /\ ListStep.type \notin DOMAIN TextBlockField
  BY DEF ContentStep, ListStep, PathSteps, TextBlockField
<1>2. <<ContentStep>> \o it.path \in Paths /\ <<ListStep>> \o it.path \in Paths
  BY <1>1, Prefixed
<1> QED BY <1>2 DEF ItemPath, PromptPath

------------------------------------------------------------------------------
(* The invariant holds at first, and every step keeps it.                   *)

THEOREM InitIInv == Init => IInv
<1> SUFFICES ASSUME Init PROVE IInv
  OBVIOUS
<1>1. PICK g \in Groups : req \in RequestsOf(g) /\ cfg \in SettingsOf(g)
  BY DEF Init
<1>2. Given
  BY <1>1, RequestAssumption DEF Given
<1>3. DataInv
  BY DEF Init, DataInv, Early, Sending
<1>4. PassedInv
  BY DEF Init, PassedInv, Late, Sending
<1>5. CopyInv
  BY <1>2 DEF Init, CopyInv, Given, Late, Sending
<1> QED BY <1>2, <1>3, <1>4, <1>5 DEF IInv, Init, Early

\* A refusal leaves the body as it stands, for the reason that it is the one
\* that came or that the scan has been passed.
LEMMA Refusal ==
    ASSUME IInv, UNCHANGED <<req, cfg, at, data>>, stage' = "refused", answer' # "E_DLP_BLOCKED",
           token' \cap TokenPlaces = {},
           stage \in Early \/ (UNCHANGED seen /\ stage \in {"items", "system", "instructions", "stage5"})
    PROVE  IInv'
<1>1. /\ AfterItems' = AfterItems /\ AfterSystem' = AfterSystem /\ AfterPrompts' = AfterPrompts
      /\ InLoop' = InLoop /\ Given'
  BY FrameBodies DEF IInv
<1>2. DataInv'
  <2>1. CASE stage \in Early
    BY <2>1 DEF IInv, DataInv, Early, Sending
  <2>2. CASE UNCHANGED seen /\ stage \in {"items", "system", "instructions", "stage5"}
    <3>1. Scanned
      BY <2>2 DEF IInv, PassedInv, Late, Sending
    <3>2. Scanned'
      BY <3>1, <2>2, FrameShown DEF Scanned
    <3> QED BY <1>1, <2>2, <3>2 DEF IInv, DataInv, Early, Sending
  <2> QED BY <2>1, <2>2
<1>3. PassedInv'
  BY DEF PassedInv, Late, Sending
<1>4. CopyInv'
  BY DEF CopyInv, Late, Sending
<1> QED BY <1>1, <1>2, <1>3, <1>4 DEF IInv

\* The strip goes through every place litellm copies the token to.
LEMMA StripCovers == TokenPlaces \subseteq StripPlaces
<1> DEFINE Inbound == {"data"} \X {"request"} \X ({"headers", "secret_fields", "proxy"} \cup Metadata) \X {"own"}
<1> DEFINE Copies == Snapshot(Deepcopied(Inbound))
<1>1. ASSUME NEW x \in Copies
      PROVE  /\ x \in {"data"} \X {"request", "body"} \X ({"headers", "secret_fields", "proxy"} \cup Metadata)
                        \X {"own", "requester"}
             /\ x[3] \notin Metadata => x[2] = "request" /\ x[4] = "own"
  BY DEF Snapshot, Deepcopied
<1> HIDE DEF Copies
<1>2. ASSUME NEW x \in Copies, NEW h, NEW y, y = <<h, x[2], x[3], x[4]>>,
             x[3] \in Metadata \cup {"proxy"}
      PROVE  y \in DropFromRequest(h)
  BY <1>1, <1>2 DEF DropFromRequest, DropFromMetadata
<1>3. ASSUME NEW x \in Copies, NEW h, NEW params, NEW y, y = <<h, x[2], x[3], x[4]>>
      PROVE  y \in StripEverywhere(h, params)
  <2>1. CASE x[3] \in Metadata \cup {"proxy"}
    BY <1>2, <1>3, <2>1 DEF StripEverywhere
  <2>2. CASE x[3] \in {"headers", "secret_fields"} /\ x[3] \notin Metadata
    BY <1>1, <1>3, <2>2 DEF StripEverywhere
  <2> QED BY <1>1, <2>1, <2>2
<1>4. ASSUME NEW x \in Copies PROVE x = <<"data", x[2], x[3], x[4]>>
  BY <1>1
<1>5. ASSUME NEW y \in Shared(Copies) PROVE y \in StripPlaces
  <2>1. CASE y \in Copies
    BY <1>3, <1>4, <2>1 DEF StripPlaces
  <2>2. CASE \E x \in Copies : y = <<"details", x[2], x[3], x[4]>>
    BY <1>3, <2>2 DEF StripPlaces, StripLoggingObj
  <2>3. CASE \E h \in {"params", "details_params", "logged_params"} : \E x \in Copies :
                 x[3] \in Metadata \cup {"proxy"} /\ y = <<h, x[2], x[3], x[4]>>
    <3>1. y \in DropFromRequest("params") \cup DropFromRequest("details_params")
                    \cup DropFromRequest("logged_params")
      BY <1>2, <2>3
    <3> QED BY <3>1 DEF StripPlaces, StripLoggingObj, StripEverywhere
  <2> QED BY <1>5, <2>1, <2>2, <2>3 DEF Shared
<1> QED BY <1>5 DEF TokenPlaces, Copies

Turned == stage' = "refused" /\ answer' # "E_DLP_BLOCKED"

LEMMA StepEnter == IInv /\ Enter => IInv'
<1> SUFFICES ASSUME IInv, Enter PROVE IInv'
  OBVIOUS
<1>1. /\ stage = "entry" /\ UNCHANGED <<req, cfg, at, data, body, logged, kept, seen>>
      /\ token' = token \ StripPlaces
      /\ \/ stage' = "refused" /\ answer' = "E_CLIENT_DISCONNECTED"
         \/ stage' = "auth" /\ UNCHANGED answer
  BY DEF Enter, Goto, outcome
<1>2. token' \cap TokenPlaces = {}
  BY <1>1, StripCovers
<1>3. CASE stage' = "refused" /\ answer' = "E_CLIENT_DISCONNECTED"
  BY <1>1, <1>2, <1>3, Refusal DEF Early, IInv, CopyInv
<1>4. CASE stage' = "auth" /\ UNCHANGED answer
  <2>1. Given' /\ Bridged' = Bridged /\ Scrubbed' = Scrubbed
    BY <1>1, FrameBodies DEF IInv
  <2>2. DataInv'
    BY <1>1, <1>4 DEF IInv, DataInv, Early, Sending
  <2>3. PassedInv'
    BY <1>4 DEF PassedInv, Late, Sending
  <2>4. CopyInv'
    BY <1>1, <1>2, <1>4 DEF IInv, CopyInv, Late, Sending
  <2> QED BY <1>1, <1>4, <2>1, <2>2, <2>3, <2>4 DEF IInv, Early
<1> QED BY <1>1, <1>3, <1>4

LEMMA StepAuthenticate == IInv /\ Authenticate => IInv'
<1> SUFFICES ASSUME IInv, Authenticate PROVE IInv'
  OBVIOUS
<1>1. /\ stage = "auth" /\ UNCHANGED <<req, cfg, at, data, body, logged, kept, token, seen>>
      /\ token \cap TokenPlaces = {}
  BY DEF Authenticate, content, IInv, CopyInv
<1>2. \/ Turned
      \/ stage' = "bridge" /\ UNCHANGED answer
  BY DEF Authenticate, AuthErrors, Goto, outcome, Turned, Refuse, Crash
<1>3. CASE Turned
  BY <1>1, <1>3, Refusal DEF Turned, Early
<1>4. CASE stage' = "bridge" /\ UNCHANGED answer
  <2>1. Given' /\ Bridged' = Bridged /\ Scrubbed' = Scrubbed
    BY <1>1, FrameBodies DEF IInv
  <2>2. DataInv'
    BY <1>1, <1>4 DEF IInv, DataInv, Early, Sending
  <2>3. PassedInv'
    BY <1>4 DEF PassedInv, Late, Sending
  <2>4. CopyInv'
    BY <1>1, <1>4 DEF IInv, CopyInv, Late, Sending
  <2> QED BY <1>1, <1>4, <2>1, <2>2, <2>3, <2>4 DEF IInv, Early
<1> QED BY <1>2, <1>3, <1>4

LEMMA StepBridge == IInv /\ Bridge => IInv'
<1> SUFFICES ASSUME IInv, Bridge PROVE IInv'
  OBVIOUS
<1>1. /\ stage = "bridge" /\ UNCHANGED <<req, cfg, at, data, body, logged, token, seen>>
      /\ token \cap TokenPlaces = {}
  BY DEF Bridge, IInv, CopyInv
<1>2. \/ Turned /\ UNCHANGED kept
      \/ stage' = "shape" /\ UNCHANGED answer
         /\ (Bridged => kept' = kept \ Scrubbed)
  BY DEF Bridge, Goto, outcome, Turned, Refuse
<1>3. CASE Turned /\ UNCHANGED kept
  BY <1>1, <1>3, Refusal DEF Turned, Early
<1>4. CASE /\ stage' = "shape" /\ UNCHANGED answer
           /\ (Bridged => kept' = kept \ Scrubbed)
  <2>1. Given' /\ Bridged' = Bridged /\ Scrubbed' = Scrubbed
    BY <1>1, FrameBodies DEF IInv
  <2>2. DataInv'
    BY <1>1, <1>4 DEF IInv, DataInv, Early, Sending
  <2>3. PassedInv'
    BY <1>4 DEF PassedInv, Late, Sending
  <2>4. CopyInv'
    <3>1. Bridged => kept' \cap Scrubbed' = {}
      BY <1>1, <1>4 DEF Scrubbed
    <3> QED BY <1>1, <1>4, <2>1, <3>1 DEF IInv, CopyInv, Late, Sending
  <2> QED BY <1>1, <1>4, <2>1, <2>2, <2>3, <2>4 DEF IInv, Early
<1> QED BY <1>2, <1>3, <1>4

LEMMA StepCheckShape == IInv /\ CheckShape => IInv'
<1> SUFFICES ASSUME IInv, CheckShape PROVE IInv'
  OBVIOUS
<1>1. /\ stage = "shape" /\ UNCHANGED <<req, cfg, at, data, body, logged, kept, token, seen>>
      /\ token \cap TokenPlaces = {}
  BY DEF CheckShape, content, IInv, CopyInv
<1>2. \/ Turned
      \/ stage' = "profile" /\ UNCHANGED answer
         /\ (req.body.messages.as = "absent" \/ req.body.input.as = "absent")
  BY DEF CheckShape, Goto, Turned, Refuse
<1>3. CASE Turned
  BY <1>1, <1>3, Refusal DEF Turned, Early
<1>4. CASE /\ stage' = "profile" /\ UNCHANGED answer
           /\ (req.body.messages.as = "absent" \/ req.body.input.as = "absent")
  <2>1. Given' /\ Bridged' = Bridged /\ Scrubbed' = Scrubbed
    BY <1>1, FrameBodies DEF IInv
  <2>2. DataInv'
    BY <1>1, <1>4 DEF IInv, DataInv, Early, Sending
  <2>3. PassedInv'
    BY <1>1, <1>4 DEF PassedInv, Late, Sending
  <2>4. CopyInv'
    BY <1>1, <1>4, <2>1 DEF IInv, CopyInv, Late, Sending
  <2> QED BY <1>1, <1>4, <2>1, <2>2, <2>3, <2>4 DEF IInv, Early
<1> QED BY <1>2, <1>3, <1>4

LEMMA StepResolveProfile == IInv /\ ResolveProfile => IInv'
<1> SUFFICES ASSUME IInv, ResolveProfile PROVE IInv'
  OBVIOUS
<1>1. /\ stage = "profile" /\ UNCHANGED <<req, cfg, at, data, body, logged, kept, token, seen>>
      /\ token \cap TokenPlaces = {}
  BY DEF ResolveProfile, content, IInv, CopyInv
<1>2. \/ Turned
      \/ stage' = "stage0" /\ UNCHANGED answer
  BY DEF ResolveProfile, Goto, outcome, Turned, Refuse
<1>3. CASE Turned
  BY <1>1, <1>3, Refusal DEF Turned, Early
<1>4. CASE stage' = "stage0" /\ UNCHANGED answer
  <2>1. Given' /\ Bridged' = Bridged /\ Scrubbed' = Scrubbed
    BY <1>1, FrameBodies DEF IInv
  <2>2. DataInv'
    BY <1>1, <1>4 DEF IInv, DataInv, Early, Sending
  <2>3. PassedInv'
    BY <1>1, <1>4 DEF IInv, PassedInv, Late, Sending
  <2>4. CopyInv'
    BY <1>1, <1>4, <2>1 DEF IInv, CopyInv, Late, Sending
  <2> QED BY <1>1, <1>4, <2>1, <2>2, <2>3, <2>4 DEF IInv, Early
<1> QED BY <1>2, <1>3, <1>4

\* The loop has not begun, or is over.
LEMMA LoopEnds ==
    ASSUME Given, at \in Nat \ {0}
    PROVE  /\ at = 1 => InLoop = req.body
           /\ at > Len(Came) => InLoop = AfterItems
<1>1. CASE Shape = "unmanaged"
  BY <1>1 DEF InLoop, AfterItems
<1>2. CASE Shape # "unmanaged"
  <2>1. Came \in Seq(Items) /\ Len(Came) \in Nat /\ Managed \in Fields /\ Came = req.body[Managed].items
    BY <1>2, CameFacts, ManagedField DEF Came
  <2>2. ASSUME at = 1 PROVE [i \in 1..Len(Came) |-> IF i < at THEN Want[i] ELSE Came[i]] = Came
    <3>1. \A i \in 1..Len(Came) : ~(i < 1)
      BY <2>1
    <3>2. Came = [i \in 1..Len(Came) |-> Came[i]]
      BY <2>1
    <3> QED BY <2>2, <3>1, <3>2
  <2>3. ASSUME at > Len(Came) PROVE [i \in 1..Len(Came) |-> IF i < at THEN Want[i] ELSE Came[i]] = Want
    <3>1. \A i \in 1..Len(Came) : i < at
      BY <2>1, <2>3
    <3>2. Want = [i \in 1..Len(Came) |-> Want[i]]
      BY DEF Want
    <3> QED BY <3>1, <3>2
  <2>4. [req.body EXCEPT ![Managed].items = Came] = req.body
    <3>1. req.body \in [Fields -> [as : {"absent", "null", "string", "list", "dict", "bad"}, items : Seq(Items)]]
      BY DEF Given, Bodies
    <3> QED BY <2>1, <3>1
  <2> QED BY <1>2, <2>2, <2>3, <2>4 DEF InLoop, AfterItems
<1> QED BY <1>1, <1>2

LEMMA StepStage0 == IInv /\ Stage0 => IInv'
<1> SUFFICES ASSUME IInv, Stage0 PROVE IInv'
  OBVIOUS
<1>1. /\ stage = "stage0" /\ UNCHANGED <<req, cfg, at, data, body, logged, kept, token>>
      /\ seen' = (IF cfg.stage0 THEN ShownItems(data) ELSE seen)
      /\ token \cap TokenPlaces = {} /\ data = req.body /\ at = 1 /\ Given
  BY DEF Stage0, IInv, CopyInv, DataInv, Early
<1>2. \/ Turned
      \/ /\ stage' = "items" /\ UNCHANGED answer
         /\ cfg.stage0 => "oversize" \notin UnmanagedTexts(data) /\ "dump" \notin ShownTexts(data)
  BY DEF Stage0, Goto, outcome, Turned, Refuse
<1>3. CASE Turned
  BY <1>1, <1>3, Refusal DEF Turned, Early
<1>4. CASE /\ stage' = "items" /\ UNCHANGED answer
           /\ cfg.stage0 => "oversize" \notin UnmanagedTexts(data) /\ "dump" \notin ShownTexts(data)
  <2>1. Given' /\ Bridged' = Bridged /\ Scrubbed' = Scrubbed /\ InLoop' = InLoop
    BY <1>1, FrameBodies
  <2>2. DataInv'
    BY <1>1, <1>4, <2>1, LoopEnds DEF IInv, DataInv, Early, Sending
  <2>3. Scanned'
    <3>1. cfg.stage0 => seen' = CameShown /\ "dump" \notin CameTexts /\ "oversize" \notin CameUnmanaged
      BY <1>1, <1>4 DEF CameShown, CameTexts, CameUnmanaged
    <3> QED BY <1>1, <3>1, FrameShown DEF Scanned
  <2>4. PassedInv'
    <3>1. \A i \in Fails' : i >= at'
      BY <1>1, FrameItems, CameFacts DEF Fails
    <3> QED BY <1>1, <1>4, <2>3, <3>1 DEF IInv, PassedInv, Late, Sending
  <2>5. CopyInv'
    BY <1>1, <1>4, <2>1 DEF IInv, CopyInv, Late, Sending
  <2> QED BY <1>1, <1>4, <2>1, <2>2, <2>4, <2>5 DEF IInv
<1> QED BY <1>2, <1>3, <1>4

LEMMA RaisedFacts ==
    ASSUME NEW verdict, NEW text
    PROVE  ErrorOf(verdict, text) # "E_DLP_BLOCKED"
BY DEF ErrorOf, Raised

\* A round of the loop is a step from one position to the next.
LEMMA LoopStep ==
    ASSUME Given, Given', UNCHANGED req, Shape # "unmanaged", at \in 1..Len(Came), at' = at + 1,
           data = InLoop, data' = [data EXCEPT ![Managed].items[at] = Want[at]]
    PROVE  data' = InLoop'
<1>1. Came \in Seq(Items) /\ Len(Came) \in Nat /\ Managed \in Fields /\ Came = req.body[Managed].items
  BY CameFacts, ManagedField DEF Came
<1>2. Shape' = Shape /\ Managed' = Managed /\ Came' = Came /\ Want' = Want
  BY FrameShape, FrameItems
<1> DEFINE now == [i \in 1..Len(Came) |-> IF i < at THEN Want[i] ELSE Came[i]]
<1> DEFINE next == [i \in 1..Len(Came) |-> IF i < at + 1 THEN Want[i] ELSE Came[i]]
<1>3. InLoop = [req.body EXCEPT ![Managed].items = now]
  BY DEF InLoop
<1>4. InLoop' = [req.body EXCEPT ![Managed].items = next]
  BY <1>2 DEF InLoop
<1>5. [now EXCEPT ![at] = Want[at]] = next
  <2>1. \A i \in 1..Len(Came) : i < at + 1 <=> (i < at \/ i = at)
    BY <1>1
  <2> QED BY <2>1
<1> HIDE DEF now, next
<1>6. req.body \in [Fields -> [as : {"absent", "null", "string", "list", "dict", "bad"}, items : Seq(Items)]]
  BY DEF Given, Bodies
<1>7. data[Managed].items = now
  BY <1>1, <1>3, <1>6
<1>8. data' = [data EXCEPT ![Managed].items = next]
  BY <1>5, <1>7
<1> QED BY <1>1, <1>3, <1>4, <1>6, <1>8

LEMMA StepRewriteItem == IInv /\ RewriteItem => IInv'
<1> SUFFICES ASSUME IInv, RewriteItem PROVE IInv'
  OBVIOUS
<1>1. /\ stage = "items" /\ UNCHANGED <<req, cfg, body, logged, kept, token, seen>>
      /\ token \cap TokenPlaces = {} /\ data = InLoop /\ Given
      /\ at \in Nat \ {0} /\ at <= Len(RequestItems(data))
  BY DEF RewriteItem, IInv, CopyInv, DataInv
<1>2. Shape # "unmanaged"
  <2>1. Shape = "unmanaged" => RequestItems(data) = <<>>
    BY DEF RequestItems
  <2> QED BY <1>1, <2>1
<1>3. /\ RequestItems(data) = [i \in 1..Len(Came) |-> IF i < at THEN Want[i] ELSE Came[i]]
      /\ Len(RequestItems(data)) = Len(Came) /\ at \in 1..Len(Came) /\ RequestItems(data)[at] = Came[at]
  <2>1. RequestItems(data) = [i \in 1..Len(Came) |-> IF i < at THEN Want[i] ELSE Came[i]]
    BY <1>1, <1>2, BodyFields, ManagedField
  <2>2. Len(Came) \in Nat
    BY <1>1, CameFacts
  <2>3. Len(RequestItems(data)) = Len(Came)
    BY <2>1, <2>2
  <2> QED BY <1>1, <2>1, <2>2, <2>3
<1> DEFINE code == ErrorOf(VerdictOf(at), Came[at].text)
<1>4. \/ code # "none" /\ FailClosed(code) /\ UNCHANGED <<at, data>>
      \/ /\ code = "none" /\ at' = at + 1 /\ UNCHANGED <<stage, answer>>
         /\ data' = [data EXCEPT ![Managed].items[at] = Rewritten(Came[at], VerdictOf(at))]
  BY <1>3 DEF RewriteItem, VerdictOf, outcome
<1> HIDE DEF code
<1>5. CASE code # "none" /\ FailClosed(code) /\ UNCHANGED <<at, data>>
  <2>1. Turned
    BY <1>5, RaisedFacts DEF Turned, FailClosed, Refuse, Crash, Goto, code
  <2> QED BY <1>1, <1>5, <2>1, Refusal DEF Turned
<1>6. CASE /\ code = "none" /\ at' = at + 1 /\ UNCHANGED <<stage, answer>>
           /\ data' = [data EXCEPT ![Managed].items[at] = Rewritten(Came[at], VerdictOf(at))]
  <2>1. Given' /\ Bridged' = Bridged /\ Scrubbed' = Scrubbed
    BY <1>1, FrameBodies
  <2>2. data' = InLoop'
    <3>1. Want[at] = Rewritten(Came[at], VerdictOf(at))
      BY <1>3 DEF Want
    <3> QED BY <1>1, <1>2, <1>3, <1>6, <2>1, <3>1, LoopStep
  <2>3. DataInv'
    BY <1>1, <1>6, <2>2 DEF DataInv, Early, Sending
  <2>4. Scanned'
    BY <1>1, FrameShown DEF Scanned, IInv, PassedInv
  <2>5. PassedInv'
    <3>1. ASSUME NEW i \in Fails PROVE i >= at + 1
      <4>1. i \in 1..Len(Came) /\ i >= at /\ Len(Came) \in Nat
        BY <1>1, CameFacts DEF IInv, PassedInv, Fails
      <4>2. i # at
        BY <1>6 DEF Fails, code
      <4> QED BY <1>1, <4>1, <4>2
    <3>2. \A i \in Fails' : i >= at'
      BY <1>1, <1>6, <3>1, FrameItems
    <3> QED BY <1>1, <1>6, <2>4, <3>2 DEF IInv, PassedInv, Late, Sending
  <2>6. CopyInv'
    BY <1>1, <1>6, <2>1 DEF IInv, CopyInv, Late, Sending
  <2>7. at' \in Nat \ {0}
    BY <1>1, <1>6
  <2> QED BY <1>1, <1>6, <2>1, <2>3, <2>5, <2>6, <2>7 DEF IInv
<1> QED BY <1>4, <1>5, <1>6

LEMMA StepStoreItems == IInv /\ StoreItems => IInv'
<1> SUFFICES ASSUME IInv, StoreItems PROVE IInv'
  OBVIOUS
<1>1. /\ stage = "items" /\ stage' = "system" /\ data = InLoop /\ Given /\ at \in Nat \ {0}
      /\ UNCHANGED <<req, cfg, at, data, body, logged, kept, token, seen, answer>>
      /\ at > Len(RequestItems(data))
  BY DEF StoreItems, Goto, content, outcome, IInv, DataInv
<1>2. at > Len(Came)
  <2>1. CASE Shape = "unmanaged"
    <3>1. Came = <<>>
      BY <2>1, ManagedField
    <3> QED BY <1>1, <3>1
  <2>2. CASE Shape # "unmanaged"
    <3>1. RequestItems(data) = [i \in 1..Len(Came) |-> IF i < at THEN Want[i] ELSE Came[i]]
      BY <1>1, <2>2, BodyFields, ManagedField
    <3>2. Len(Came) \in Nat
      BY <1>1, CameFacts
    <3>3. Len(RequestItems(data)) = Len(Came)
      BY <3>1, <3>2
    <3> QED BY <1>1, <3>3
  <2> QED BY <2>1, <2>2
<1>3. Given' /\ Bridged' = Bridged /\ Scrubbed' = Scrubbed /\ AfterItems' = AfterItems
  BY <1>1, FrameBodies
<1>4. DataInv'
  <2>1. data' = AfterItems'
    BY <1>1, <1>2, <1>3, LoopEnds
  <2> QED BY <1>1, <2>1 DEF DataInv, Early, Sending
<1>5. PassedInv'
  <2>1. Fails' = {}
    <3>1. ASSUME NEW i \in Fails PROVE FALSE
      <4>1. i \in 1..Len(Came) /\ i >= at /\ Len(Came) \in Nat
        BY <1>1, CameFacts DEF IInv, PassedInv, Fails
      <4> QED BY <1>1, <1>2, <4>1
    <3> QED BY <1>1, <3>1, FrameItems
  <2>2. Scanned'
    BY <1>1, FrameShown DEF Scanned, IInv, PassedInv
  <2> QED BY <1>1, <2>1, <2>2 DEF IInv, PassedInv, Late, Sending
<1>6. CopyInv'
  BY <1>1, <1>3 DEF IInv, CopyInv, Late, Sending
<1> QED BY <1>1, <1>3, <1>4, <1>5, <1>6 DEF IInv, Late

LEMMA PromptErrorFacts ==
    ASSUME NEW f, NEW field
    PROVE  PromptError(f, field) # "E_DLP_BLOCKED"
BY RaisedFacts DEF PromptError

LEMMA StepSystem == IInv /\ RewritePrompt("system", "system", "instructions") => IInv'
<1> SUFFICES ASSUME IInv, RewritePrompt("system", "system", "instructions") PROVE IInv'
  OBVIOUS
<1>1. /\ stage = "system" /\ UNCHANGED <<req, cfg, at, body, logged, kept, token, seen>>
      /\ token \cap TokenPlaces = {} /\ data = AfterItems /\ Given
  BY DEF RewritePrompt, IInv, CopyInv, DataInv
<1>2. data["system"] = req.body["system"]
  BY <1>1, BodyFields
<1> DEFINE code == PromptError("system", req.body["system"])
<1>3. \/ code # "none" /\ FailClosed(code) /\ UNCHANGED data
      \/ /\ code = "none" /\ stage' = "instructions" /\ UNCHANGED answer
         /\ data' = [data EXCEPT !["system"].items = RewrittenPrompt("system", req.body["system"])]
  BY <1>2 DEF RewritePrompt, Goto, outcome
<1> HIDE DEF code
<1>4. CASE code # "none" /\ FailClosed(code) /\ UNCHANGED data
  <2>1. Turned
    BY <1>4, PromptErrorFacts DEF Turned, FailClosed, Refuse, Crash, Goto, code
  <2> QED BY <1>1, <1>4, <2>1, Refusal DEF Turned
<1>5. CASE /\ code = "none" /\ stage' = "instructions" /\ UNCHANGED answer
           /\ data' = [data EXCEPT !["system"].items = RewrittenPrompt("system", req.body["system"])]
  <2>1. Given' /\ Bridged' = Bridged /\ Scrubbed' = Scrubbed /\ AfterSystem' = AfterSystem
    BY <1>1, FrameBodies
  <2>2. DataInv'
    <3>1. data' = AfterSystem
      BY <1>1, <1>5 DEF AfterSystem, PromptWant, Prompts
    <3> QED BY <1>5, <2>1, <3>1 DEF DataInv, Early, Sending
  <2>3. PassedInv'
    <3>1. Scanned'
      BY <1>1, FrameShown DEF Scanned, IInv, PassedInv, Late
    <3>2. "system" \notin PromptFails'
      BY <1>1, <1>5, FramePrompts DEF PromptFails, code
    <3>3. Fails' = {}
      BY <1>1, FrameItems DEF IInv, PassedInv, Late
    <3> QED BY <1>1, <1>5, <3>1, <3>2, <3>3 DEF IInv, PassedInv, Late, Sending
  <2>4. CopyInv'
    BY <1>1, <1>5, <2>1 DEF IInv, CopyInv, Late, Sending
  <2> QED BY <1>1, <1>5, <2>1, <2>2, <2>3, <2>4 DEF IInv, Late
<1> QED BY <1>3, <1>4, <1>5

LEMMA StepInstructions == IInv /\ RewritePrompt("instructions", "instructions", "refresh") => IInv'
<1> SUFFICES ASSUME IInv, RewritePrompt("instructions", "instructions", "refresh") PROVE IInv'
  OBVIOUS
<1>1. /\ stage = "instructions" /\ UNCHANGED <<req, cfg, at, body, logged, kept, token, seen>>
      /\ token \cap TokenPlaces = {} /\ data = AfterSystem /\ Given
  BY DEF RewritePrompt, IInv, CopyInv, DataInv
<1>2. data["instructions"] = req.body["instructions"]
  BY <1>1, BodyFields
<1> DEFINE code == PromptError("instructions", req.body["instructions"])
<1>3. \/ code # "none" /\ FailClosed(code) /\ UNCHANGED data
      \/ /\ code = "none" /\ stage' = "refresh" /\ UNCHANGED answer
         /\ data' = [data EXCEPT !["instructions"].items = RewrittenPrompt("instructions", req.body["instructions"])]
  BY <1>2 DEF RewritePrompt, Goto, outcome
<1> HIDE DEF code
<1>4. CASE code # "none" /\ FailClosed(code) /\ UNCHANGED data
  <2>1. Turned
    BY <1>4, PromptErrorFacts DEF Turned, FailClosed, Refuse, Crash, Goto, code
  <2> QED BY <1>1, <1>4, <2>1, Refusal DEF Turned
<1>5. CASE /\ code = "none" /\ stage' = "refresh" /\ UNCHANGED answer
           /\ data' = [data EXCEPT !["instructions"].items = RewrittenPrompt("instructions", req.body["instructions"])]
  <2>1. Given' /\ Bridged' = Bridged /\ Scrubbed' = Scrubbed /\ AfterPrompts' = AfterPrompts
    BY <1>1, FrameBodies
  <2>2. DataInv'
    <3>1. data' = AfterPrompts
      BY <1>1, <1>5 DEF AfterPrompts, PromptWant, Prompts
    <3> QED BY <1>5, <2>1, <3>1 DEF DataInv, Early, Sending
  <2>3. PassedInv'
    <3>1. Scanned'
      BY <1>1, FrameShown DEF Scanned, IInv, PassedInv, Late
    <3>2. PromptFails' = {}
      <4>1. "system" \notin PromptFails
        BY <1>1 DEF IInv, PassedInv, Late
      <4>2. "instructions" \notin PromptFails
        BY <1>5 DEF PromptFails, code
      <4>3. PromptFails \subseteq {"system", "instructions"}
        BY DEF PromptFails, Prompts
      <4> QED BY <1>1, <4>1, <4>2, <4>3, FramePrompts
    <3>3. Fails' = {}
      BY <1>1, FrameItems DEF IInv, PassedInv, Late
    <3> QED BY <1>1, <1>5, <3>1, <3>2, <3>3 DEF IInv, PassedInv, Late, Sending
  <2>4. CopyInv'
    BY <1>1, <1>5, <2>1 DEF IInv, CopyInv, Late, Sending
  <2> QED BY <1>1, <1>5, <2>1, <2>2, <2>3, <2>4 DEF IInv, Late, Sending
<1> QED BY <1>3, <1>4, <1>5

LEMMA StepRefresh == IInv /\ RefreshSnapshots => IInv'
<1> SUFFICES ASSUME IInv, RefreshSnapshots PROVE IInv'
  OBVIOUS
<1>1. /\ stage = "refresh" /\ stage' = "stage5" /\ data = AfterPrompts /\ Given
      /\ UNCHANGED <<req, cfg, at, data, kept, token, seen, answer>>
      /\ logged' = (IF Shape = "unmanaged" THEN logged ELSE RequestItems(data))
      /\ body' = [f \in Fields |-> IF body[f].as # "absent" THEN data[f] ELSE body[f]]
  BY DEF RefreshSnapshots, Goto, outcome, IInv, DataInv, Sending
<1>2. Given' /\ Bridged' = Bridged /\ Scrubbed' = Scrubbed /\ AfterPrompts' = AfterPrompts
  BY <1>1, FrameBodies
<1>3. DataInv'
  BY <1>1, <1>2 DEF DataInv, Early, Sending
<1>4. PassedInv'
  <2>1. Scanned'
    BY <1>1, FrameShown DEF Scanned, IInv, PassedInv, Late, Sending
  <2>2. PromptFails' = {} /\ Fails' = {}
    BY <1>1, FrameItems, FramePrompts DEF IInv, PassedInv, Late, Sending
  <2> QED BY <1>1, <2>1, <2>2 DEF IInv, PassedInv, Late, Sending
<1>5. CopyInv'
  <2>1. \A f \in Fields : body'[f].as # "absent" => body'[f] = data'[f]
    BY <1>1
  <2>2. Shape' # "unmanaged" => logged' = RequestItems(data)'
    BY <1>1, FrameShape, FrameScans
  <2>3. answer' # "E_DLP_BLOCKED"
    BY <1>1 DEF IInv, CopyInv
  <2> QED BY <1>1, <1>2, <2>1, <2>2, <2>3 DEF IInv, CopyInv, Late, Sending
<1> QED BY <1>1, <1>2, <1>3, <1>4, <1>5 DEF IInv, Late, Sending

LEMMA StepStage5 == IInv /\ Stage5 => IInv'
<1> SUFFICES ASSUME IInv, Stage5 PROVE IInv'
  OBVIOUS
<1>1. /\ stage = "stage5" /\ data = AfterPrompts /\ Given
      /\ UNCHANGED <<req, cfg, at, data, body, logged, kept, token, seen>>
  BY DEF Stage5, content, IInv, DataInv, Sending
<1>2. \/ stage' = "refused"
      \/ /\ stage' = "forwarded" /\ UNCHANGED answer
         /\ cfg.dlp \/ cfg.canaries =>
                "oversize" \notin UnmanagedTexts(data) /\ "secret" \notin ShownTexts(data)
         /\ cfg.canaries => "canary" \notin ShownTexts(data)
  BY DEF Stage5, Goto, outcome, Refuse
<1>3. Given' /\ Bridged' = Bridged /\ Scrubbed' = Scrubbed /\ AfterPrompts' = AfterPrompts
  BY <1>1, FrameBodies
<1>4. Scanned'
  BY <1>1, FrameShown DEF Scanned, IInv, PassedInv, Late, Sending
<1>5. /\ \A f \in Fields : body'[f].as # "absent" => body'[f] = data'[f]
      /\ Shape' # "unmanaged" => logged' = RequestItems(data)'
  <2>1. /\ \A f \in Fields : body[f].as # "absent" => body[f] = data[f]
        /\ Shape # "unmanaged" => logged = RequestItems(data)
    BY <1>1 DEF IInv, CopyInv
  <2> QED BY <1>1, <2>1, FrameShape, FrameScans
<1>6. CASE stage' = "refused"
  <2>1. DataInv'
    BY <1>1, <1>3, <1>4, <1>6 DEF DataInv, Early, Sending
  <2>2. PassedInv'
    BY <1>6 DEF PassedInv, Late, Sending
  <2>3. CopyInv'
    BY <1>1, <1>3, <1>5, <1>6 DEF IInv, CopyInv, Late, Sending
  <2> QED BY <1>1, <1>3, <1>6, <2>1, <2>2, <2>3 DEF IInv
<1>7. CASE /\ stage' = "forwarded" /\ UNCHANGED answer
           /\ cfg.dlp \/ cfg.canaries =>
                  "oversize" \notin UnmanagedTexts(data) /\ "secret" \notin ShownTexts(data)
           /\ cfg.canaries => "canary" \notin ShownTexts(data)
  <2>1. DataInv'
    BY <1>1, <1>3, <1>7 DEF DataInv, Early, Sending
  <2>2. PassedInv'
    <3>1. PromptFails' = {} /\ Fails' = {}
      BY <1>1, FrameItems, FramePrompts DEF IInv, PassedInv, Late, Sending
    <3>2. UnmanagedTexts(data)' = UnmanagedTexts(data) /\ ShownTexts(data)' = ShownTexts(data)
      BY <1>1, FrameScans
    <3> QED BY <1>1, <1>4, <1>7, <3>1, <3>2 DEF IInv, PassedInv, Late, Sending
  <2>3. CopyInv'
    <3>1. answer' # "E_DLP_BLOCKED"
      BY <1>1, <1>7 DEF IInv, CopyInv
    <3> QED BY <1>1, <1>3, <1>5, <1>7, <3>1 DEF IInv, CopyInv, Late, Sending
  <2> QED BY <1>1, <1>3, <1>7, <2>1, <2>2, <2>3 DEF IInv, Late, Sending
<1> QED BY <1>2, <1>6, <1>7

LEMMA StepAnswer == IInv /\ Answer => IInv'
<1> SUFFICES ASSUME IInv, Answer PROVE IInv'
  OBVIOUS
<1>1. /\ stage = "forwarded" /\ stage' = "answered" /\ data = AfterPrompts /\ Given
      /\ UNCHANGED <<req, cfg, at, body, logged, kept, token, seen, answer>>
  BY DEF Answer, Goto, outcome, IInv, DataInv, Sending
<1>2. data' = Echoed
  BY <1>1 DEF Answer, Echoed
<1>3. Given' /\ Bridged' = Bridged /\ Scrubbed' = Scrubbed /\ AfterPrompts' = AfterPrompts
  BY <1>1, FrameBodies
<1>4. Echoed' = Echoed
  BY <1>1, <1>3, FrameShape DEF Echoed, ItemPath
<1>5. DataInv'
  BY <1>1, <1>2, <1>4 DEF DataInv, Early, Sending
<1>6. PassedInv'
  <2>1. Scanned'
    BY <1>1, FrameShown DEF Scanned, IInv, PassedInv, Late, Sending
  <2>2. PromptFails' = {} /\ Fails' = {}
    BY <1>1, FrameItems, FramePrompts DEF IInv, PassedInv, Late, Sending
  <2> QED BY <1>1, <2>1, <2>2 DEF IInv, PassedInv, Late, Sending
<1>7. CopyInv'
  BY <1>1, <1>3 DEF IInv, CopyInv, Late, Sending
<1> QED BY <1>1, <1>3, <1>5, <1>6, <1>7 DEF IInv, Late

LEMMA StepStutter == IInv /\ UNCHANGED vars => IInv'
<1> SUFFICES ASSUME IInv, UNCHANGED vars PROVE IInv'
  OBVIOUS
<1>1. UNCHANGED <<req, cfg, stage, at, data, body, logged, kept, token, seen, answer>>
  BY DEF vars, content, outcome
<1>2. /\ Given' = Given /\ Bridged' = Bridged /\ Scrubbed' = Scrubbed /\ InLoop' = InLoop /\ AfterItems' = AfterItems
      /\ AfterSystem' = AfterSystem /\ AfterPrompts' = AfterPrompts
  BY <1>1, FrameBodies
<1>3. Scanned' = Scanned
  BY <1>1, FrameShown DEF Scanned
<1>4. Echoed' = Echoed
  BY <1>1, <1>2, FrameShape DEF Echoed, ItemPath
<1>5. DataInv'
  BY <1>1, <1>2, <1>3, <1>4 DEF IInv, DataInv
<1>6. PassedInv'
  BY <1>1, <1>3, FrameItems, FramePrompts, FrameScans DEF IInv, PassedInv
<1>7. CopyInv'
  BY <1>1, <1>2, FrameShape, FrameScans DEF IInv, CopyInv
<1> QED BY <1>1, <1>2, <1>5, <1>6, <1>7 DEF IInv

LEMMA StepIInv == IInv /\ [Next]_vars => IInv'
BY StepEnter, StepAuthenticate, StepBridge, StepCheckShape, StepResolveProfile, StepStage0,
   StepRewriteItem, StepStoreItems, StepSystem, StepInstructions, StepRefresh, StepStage5,
   StepAnswer, StepStutter DEF Next

\* At every stage the body is what the stages so far make of the one that came,
\* and what the scans passed over is known of it.
THEOREM StagesInvariant == Spec => []IInv
BY InitIInv, StepIInv, PTL DEF Spec

------------------------------------------------------------------------------
(* The run's properties.                                                    *)

LEMMA SanitizeVerdicts ==
    ASSUME NEW p \in Paths, NEW s
    PROVE  Sanitize(s, p) \in Verdicts
<1>1. CASE p[1].in # "dict"
  BY <1>1 DEF Sanitize, Verdicts
<1>2. CASE p[1].in = "dict"
  <2>1. 2 \in 1..Len(p)
    BY <1>2, PathFacts
  <2>2. SanitizeContent(p, 2) \in Verdicts
    <3>1. PICK w \in [1..Len(p) -> Verdicts] :
              \A k \in 1..Len(p) : SanitizeContent(p, k) = w[k] /\ w[k] = SanitizeValue(p, k, w)
      BY SanitizeContentValue
    <3> QED BY <2>1, <3>1
  <2>3. \A j, depth : SanitizeJson(p, j, depth) \in {"hit", "miss", "deep"}
    BY JsonVerdicts
  <2>4. SanitizeToolArguments(p, 2) \in Verdicts
    BY <2>3 DEF SanitizeToolArguments, SanitizeArguments, Verdicts
  <2>5. SanitizeMessage(p) \in Verdicts
    BY <2>2, <2>3, <2>4 DEF SanitizeMessage, Verdicts
  <2>6. SanitizeResponsesItem(p) \in Verdicts
    BY <2>2, <2>3, <2>4 DEF SanitizeResponsesItem, Verdicts
  <2> QED BY <1>2, <2>5, <2>6 DEF Sanitize, Verdicts
<1> QED BY <1>1, <1>2

\* A verdict that raises nothing on a text that is not missed is a hit.
LEMMA HitOrMiss ==
    ASSUME NEW verdict \in Verdicts, NEW text, ErrorOf(verdict, text) = "none", verdict # "miss"
    PROVE  verdict = "hit" /\ text \notin DOMAIN Raised
<1>1. verdict = "hit"
  BY DEF ErrorOf, Verdicts
<1>2. \A t \in DOMAIN Raised : Raised[t] # "none"
  BY DEF Raised
<1> QED BY <1>1, <1>2 DEF ErrorOf

LEMMA PromptPassed ==
    ASSUME NEW f, NEW field, field.items \in Seq(Items), PromptError(f, field) = "none",
           NEW i \in 1..Len(field.items), i \notin Exempt(f, field)
    PROVE  ErrorOf(SanitizeContent(PromptPath(field, field.items[i]), 1), field.items[i].text) = "none"
<1> DEFINE code(j) == ErrorOf(SanitizeContent(PromptPath(field, field.items[j]), 1), field.items[j].text)
<1> DEFINE bad == {j \in 1..Len(field.items) : j \notin Exempt(f, field) /\ code(j) # "none"}
<1>1. PromptError(f, field) = IF bad = {} THEN "none" ELSE code(CHOOSE j \in bad : \A m \in bad : j <= m)
  BY DEF PromptError
<1>2. bad # {} => \E j \in bad : \A m \in bad : j <= m
  <2>1. bad \subseteq Nat
    OBVIOUS
  <2> HIDE DEF bad
  <2> QED BY <2>1, LeastNat
<1>3. \A j \in bad : code(j) # "none"
  OBVIOUS
<1>4. bad = {}
  <2> HIDE DEF bad, code
  <2> QED BY <1>1, <1>2, <1>3
<1> QED BY <1>4

\* What is known of a text that went out and that nothing excuses: it was shown
\* to both scans and rewritten, or it is the identity preamble.
SparedIdentity(f, i) ==
    /\ data[f].items[i].text = "identity"
    /\ f = "system" /\ cfg.bridge = "anthropic" /\ req.provider = "anthropic"
    /\ \A j \in 1..(i - 1) : data[f].items[j].text = "billing"
ScannedText(f, i) ==
    \E old \in ShownTexts(req.body) :
        /\ old \notin DOMAIN Raised
        /\ data[f].items[i].text = SanitizeOne(old)
        /\ data[f].items[i].text \in ShownTexts(data)

LEMMA LooseItem ==
    ASSUME IInv, stage = "forwarded", Shape # "unmanaged", NEW i \in 1..Len(data[Managed].items),
           Loose(Managed, data[Managed].items[i])
    PROVE  ScannedText(Managed, i)
<1>1. Given /\ data = AfterPrompts /\ Fails = {}
  BY DEF IInv, DataInv, PassedInv, Late, Sending
<1>2. /\ Managed \in {"messages", "input"} /\ Managed \notin Prompts
      /\ RequestItems(data) = data[Managed].items /\ RequestItems(req.body) = Came
  BY ManagedField DEF Came
<1>3. data[Managed].items = Want
  BY <1>1, BodyFields
<1>4. /\ i \in 1..Len(Came) /\ Len(Want) = Len(Came)
      /\ Want[i].path = Came[i].path /\ Came[i].path \in Paths
      /\ Want[i].text = IF VerdictOf(i) = "hit" THEN SanitizeOne(Came[i].text) ELSE Came[i].text
  BY <1>1, <1>3, WantFacts, CameFacts
<1> DEFINE p == ItemPath(Came[i])
<1>5. ItemPath(Want[i]) = p
  BY <1>4 DEF ItemPath
<1>6. p \in Paths
  BY <1>4, ItemPaths
<1>7. LooseString(Managed, p)
  BY <1>2, <1>3, <1>5 DEF Loose, LooseString, Freely, PathOf
<1>8. Shape = "messages" <=> Managed = "messages"
  BY DEF Managed
<1> HIDE DEF p
<1>9. Sanitize(Shape, p) # "miss" /\ Sanitize(Shape, p) \in Verdicts
  BY <1>2, <1>6, <1>7, <1>8, NotMissed, SanitizeVerdicts
<1>10. VerdictOf(i) = Sanitize(Shape, p) /\ ErrorOf(VerdictOf(i), Came[i].text) = "none"
  BY <1>1, <1>4 DEF VerdictOf, p, Fails
<1>11. VerdictOf(i) = "hit" /\ Came[i].text \notin DOMAIN Raised
  BY <1>9, <1>10, HitOrMiss
<1>12. Collect(Shape, p) = "hit"
  BY <1>6, <1>10, <1>11, CollectAgrees
<1>13. Came[i].text \in ShownTexts(req.body)
  <2>1. i \in ShownItems(req.body)
    BY <1>2, <1>4, <1>12 DEF ShownItems, p
  <2> QED BY <2>1, <1>2 DEF ShownTexts
<1>14. Want[i].text \in ShownTexts(data)
  <2>1. i \in ShownItems(data)
    BY <1>2, <1>3, <1>4, <1>5, <1>12 DEF ShownItems
  <2> QED BY <2>1, <1>2, <1>3 DEF ShownTexts
<1> QED BY <1>3, <1>4, <1>11, <1>13, <1>14 DEF ScannedText

LEMMA LoosePrompt ==
    ASSUME IInv, stage = "forwarded", NEW f \in Prompts, NEW i \in 1..Len(data[f].items),
           Loose(f, data[f].items[i])
    PROVE  SparedIdentity(f, i) \/ ScannedText(f, i)
<1> DEFINE old == req.body[f].items
<1> DEFINE new == PromptWant[f]
<1>1. Given /\ data = AfterPrompts /\ PromptFails = {} /\ f \in Fields
  BY DEF IInv, DataInv, PassedInv, Late, Sending, Prompts, Fields
<1>2. data[f].items = new /\ data[f].as = req.body[f].as
  BY <1>1, BodyFields
<1>3. /\ old \in Seq(Items) /\ Len(old) \in Nat
      /\ \A j \in 1..Len(old) : old[j] \in Items /\ old[j].path \in Paths
  BY <1>1, CameFacts
<1>4. /\ Len(new) = Len(old)
      /\ \A j \in 1..Len(old) :
            /\ new[j] = IF j \in Exempt(f, req.body[f]) THEN old[j]
                        ELSE Rewritten(old[j], SanitizeContent(PromptPath(req.body[f], old[j]), 1))
            /\ new[j].path = old[j].path
  BY <1>1, PromptWantFacts
<1>5. PromptError(f, req.body[f]) = "none"
  BY <1>1 DEF PromptFails
<1> HIDE DEF new
<1>6. i \in 1..Len(old)
  BY <1>2, <1>4
<1>7. CASE i \in Exempt(f, req.body[f])
  <2>1. /\ f = "system" /\ cfg.bridge = "anthropic" /\ req.provider = "anthropic"
        /\ old[i].text = "identity" /\ \A j \in 1..(i - 1) : old[j].text = "billing"
    BY <1>7 DEF Exempt, LeadingIdentity
  <2>2. ASSUME NEW j \in 1..(i - 1) PROVE new[j].text = "billing"
    <3>1. j \in 1..Len(old) /\ old[j].text = "billing" /\ old[j] \in Items
      BY <1>3, <1>6, <2>1
    <3>2. new[j] = old[j] \/ \E verdict : new[j] = Rewritten(old[j], verdict)
      BY <1>4, <3>1
    <3> QED BY <3>1, <3>2, RewrittenFacts DEF SanitizeOne
  <2>3. new[i].text = "identity"
    BY <1>4, <1>6, <1>7, <2>1
  <2> QED BY <1>2, <2>1, <2>2, <2>3 DEF SparedIdentity
<1>8. CASE i \notin Exempt(f, req.body[f])
  <2> DEFINE p == PromptPath(req.body[f], old[i])
  <2>1. PromptPath(data[f], new[i]) = p
    BY <1>2, <1>4, <1>6 DEF PromptPath
  <2>2. p \in Paths
    BY <1>3, <1>6, ItemPaths
  <2>3. LooseString(f, p)
    BY <1>2, <2>1 DEF Loose, LooseString, Freely, PathOf
  <2>4. ErrorOf(SanitizeContent(p, 1), old[i].text) = "none"
    BY <1>3, <1>5, <1>6, <1>8, PromptPassed
  <2>5. new[i] = Rewritten(old[i], SanitizeContent(p, 1))
    BY <1>4, <1>6, <1>8
  <2> HIDE DEF p
  <2>6. SanitizeContent(p, 1) = "hit" /\ old[i].text \notin DOMAIN Raised
    <3>1. SanitizeContent(p, 1) \in Verdicts /\ SanitizeContent(p, 1) # "miss"
      BY <2>2, <2>3, PromptNotMissed DEF Verdicts
    <3> QED BY <2>4, <3>1, HitOrMiss
  <2>7. new[i].text = SanitizeOne(old[i].text)
    BY <1>3, <1>6, <2>5, <2>6, RewrittenFacts
  <2>8. CollectText(p, 1) = "hit"
    <3>1. 1 \in 1..Len(p)
      BY <2>2, PathFacts
    <3> QED BY <2>2, <2>6, <3>1, ContentsAgree
  <2>9. old[i].text \in ShownTexts(req.body)
    <3>1. old[i] \in ToSet(req.body[f].items)
      BY <1>3, <1>6 DEF ToSet
    <3>2. old[i].text \in PromptTexts(req.body)
      BY <2>8, <3>1 DEF PromptTexts, p
    <3> QED BY <3>2 DEF ShownTexts
  <2>10. new[i].text \in ShownTexts(data)
    <3>1. new[i] \in ToSet(data[f].items)
      <4>1. new \in Seq(Items)
        BY <1>1, PromptWantFacts DEF new
      <4> QED BY <1>2, <1>4, <1>6, <4>1 DEF ToSet
    <3>2. new[i].text \in PromptTexts(data)
      BY <2>1, <2>8, <3>1 DEF PromptTexts
    <3> QED BY <3>2 DEF ShownTexts
  <2> QED BY <1>2, <2>6, <2>7, <2>9, <2>10 DEF ScannedText
<1> QED BY <1>7, <1>8

LEMMA LooseText ==
    ASSUME IInv, stage = "forwarded", NEW f \in Rewrites, NEW i \in 1..Len(data[f].items),
           Loose(f, data[f].items[i])
    PROVE  SparedIdentity(f, i) \/ ScannedText(f, i)
BY LooseItem, LoosePrompt DEF Rewrites

\* A text of an input that is only scanned was shown to the scans.
LEMMA RawText ==
    ASSUME IInv, stage = "forwarded", NEW t \in RawTexts
    PROVE  /\ t \in UnmanagedTexts(data) /\ t \in UnmanagedTexts(req.body)
           /\ t \in ShownTexts(data) /\ t \in ShownTexts(req.body)
<1>1. Given /\ data = AfterPrompts
  BY DEF IInv, DataInv, Sending
<1>2. Shape = "unmanaged"
  BY DEF RawTexts
<1>3. data.input = req.body.input
  <2>1. "input" \in Fields \ Prompts
    BY DEF Fields, Prompts
  <2> QED BY <1>1, <1>2, <2>1, BodyFields
<1>4. PICK x \in ToSet(req.body.input.items) :
          /\ t = x.text /\ x.path[Len(x.path)].in = "str" /\ Len(x.path) - 1 <= MaxDepth
          /\ \A k \in 1..(Len(x.path) - 1) : x.path[k].in = "dict" => x.path[k].key # "encrypted_content"
  BY <1>2, <1>3 DEF RawTexts
<1>5. x.path \in Paths /\ req.body.input.as # "absent"
  <2>1. "input" \in Fields
    BY DEF Fields
  <2>2. req.body.input.items \in Seq(Items) /\ FieldFits(req.body.input)
    BY <1>1, <2>1, CameFacts DEF Given
  <2>3. PICK i \in 1..Len(req.body.input.items) : x = req.body.input.items[i]
    BY <2>2 DEF ToSet
  <2>4. x.path \in Paths
    BY <1>1, <2>1, <2>3, CameFacts
  <2>5. req.body.input.items # <<>>
    BY <2>3
  <2> QED BY <2>2, <2>4, <2>5 DEF FieldFits
<1>6. CollectJsonText(x.path, 1, 0) = "hit"
  <2>1. 1 \in 1..Len(x.path)
    BY <1>5, PathFacts
  <2>2. Unsigned(x.path, 1)
    BY <1>4 DEF Unsigned
  <2> QED BY <1>4, <1>5, <2>1, <2>2, JsonWithin
<1>7. t \in UnmanagedTexts(req.body)
  BY <1>2, <1>4, <1>5, <1>6 DEF UnmanagedTexts
<1>8. UnmanagedTexts(data) = UnmanagedTexts(req.body)
  BY <1>3 DEF UnmanagedTexts
<1> QED BY <1>7, <1>8 DEF ShownTexts

\* What the answer's walk leaves of the items.
LEMMA EchoedItems ==
    ASSUME Given, Shape # "unmanaged"
    PROVE  Echoed[Managed].items = [j \in 1..Len(Want) |->
               IF Want[j].text = "placeholder" /\ Desanitize(Shape, ItemPath(Want[j])) = "hit"
               THEN [Want[j] EXCEPT !.text = "restored"] ELSE Want[j]]
<1> DEFINE after == [j \in 1..Len(Want) |->
        IF Want[j].text = "placeholder" /\ Desanitize(Shape, ItemPath(Want[j])) = "hit"
        THEN [Want[j] EXCEPT !.text = "restored"] ELSE Want[j]]
<1>1. /\ req.body \in [Fields -> [as : {"absent", "null", "string", "list", "dict", "bad"}, items : Seq(Items)]]
      /\ Fields = {"messages", "input", "system", "instructions"} /\ Managed \in {"messages", "input"}
  BY ManagedField DEF Given, Bodies, Fields
<1>2. AfterPrompts[Managed].items = Want
  BY BodyFields
<1>3. Managed \in DOMAIN AfterPrompts /\ "items" \in DOMAIN AfterPrompts[Managed]
  <2>1. DOMAIN AfterPrompts = Fields
    BY <1>1 DEF AfterPrompts, AfterSystem, AfterItems
  <2>2. AfterPrompts[Managed] = AfterItems[Managed]
    BY <1>1 DEF AfterPrompts, AfterSystem, AfterItems
  <2> QED BY <1>1, <2>1, <2>2 DEF AfterItems
<1>4. Echoed = [AfterPrompts EXCEPT ![Managed].items = after]
  BY <1>2 DEF Echoed
<1> HIDE DEF after
<1>5. Echoed[Managed].items = after
  BY <1>3, <1>4
<1> QED BY <1>5 DEF after

\* An item that holds a placeholder was rewritten by the loop, behind the scan.
LEMMA PlaceholderItem ==
    ASSUME IInv, NEW i \in 1..Len(RequestItems(data)), RequestItems(data)[i].text = "placeholder"
    PROVE  /\ i \in 1..Len(Came) /\ Shape # "unmanaged" /\ VerdictOf(i) = "hit" /\ Scanned
           /\ stage = "answered" => /\ RequestItems(data)[i] = Want[i]
                                    /\ Desanitize(Shape, ItemPath(Came[i])) # "hit"
<1>1. Given /\ DataInv
  BY DEF IInv
<1>2. Shape # "unmanaged"
  BY DEF RequestItems
<1>3. RequestItems(data) = data[Managed].items /\ RequestItems(req.body) = req.body[Managed].items /\ Managed \in Fields
  BY <1>2, ManagedField
<1>4. /\ Came \in Seq(Items) /\ Len(Came) \in Nat /\ Came = req.body[Managed].items
      /\ \A j \in 1..Len(Came) : Came[j].text \notin {"placeholder", "restored"}
  BY <1>1, <1>3, CameFacts DEF Came
<1>5. /\ Want \in Seq(Items) /\ Len(Want) = Len(Came)
      /\ \A j \in 1..Len(Came) :
            /\ Want[j].path = Came[j].path /\ Want[j] \in Items
            /\ Want[j].text = "placeholder" => VerdictOf(j) = "hit"
  BY <1>1, <1>4, WantFacts
<1>6. CASE data = req.body
  BY <1>3, <1>4, <1>6
<1>7. CASE data \in {InLoop, AfterItems, AfterSystem, AfterPrompts} /\ stage # "answered" /\ Scanned
  <2>1. /\ Len(RequestItems(data)) = Len(Came)
        /\ \A j \in 1..Len(Came) : RequestItems(data)[j] \in {Came[j], Want[j]}
    <3>1. CASE data = InLoop
      <4>1. RequestItems(data) = [j \in 1..Len(Came) |-> IF j < at THEN Want[j] ELSE Came[j]]
        BY <1>1, <1>2, <1>3, <3>1, BodyFields
      <4> QED BY <1>4, <4>1
    <3>2. CASE data \in {AfterItems, AfterSystem, AfterPrompts}
      <4>1. RequestItems(data) = Want
        BY <1>1, <1>2, <1>3, <3>2, BodyFields
      <4> QED BY <1>5, <4>1
    <3> QED BY <1>7, <3>1, <3>2
  <2> QED BY <1>2, <1>4, <1>5, <1>7, <2>1
<1>8. CASE stage = "answered"
  <2>1. Scanned /\ data = Echoed
    BY <1>1, <1>8 DEF IInv, DataInv, PassedInv, Late
  <2>3. RequestItems(data) = [j \in 1..Len(Want) |->
            IF Want[j].text = "placeholder" /\ Desanitize(Shape, ItemPath(Want[j])) = "hit"
            THEN [Want[j] EXCEPT !.text = "restored"] ELSE Want[j]]
    BY <1>1, <1>2, <1>3, <2>1, EchoedItems
  <2>4. Len(RequestItems(data)) = Len(Came) /\ i \in 1..Len(Came)
    BY <1>4, <1>5, <2>3
  <2>5. [Want[i] EXCEPT !.text = "restored"].text # "placeholder"
    BY <1>5, <2>4 DEF Items
  <2>6. /\ RequestItems(data)[i] = Want[i] /\ Want[i].text = "placeholder"
        /\ Desanitize(Shape, ItemPath(Want[i])) # "hit"
    BY <1>5, <2>3, <2>4, <2>5
  <2>7. ItemPath(Want[i]) = ItemPath(Came[i])
    BY <1>5, <2>4 DEF ItemPath
  <2> QED BY <1>2, <1>5, <2>1, <2>4, <2>6, <2>7
<1>9. \/ data = req.body \/ stage = "answered"
      \/ data \in {InLoop, AfterItems, AfterSystem, AfterPrompts} /\ stage # "answered" /\ Scanned
  BY DEF IInv, DataInv, PassedInv, Early, Late, Sending
<1> QED BY <1>6, <1>7, <1>8, <1>9

\* The texts of a body are those of its lists.
LEMMA RewritesAreLists ==
    ASSUME IInv, stage = "forwarded", NEW f \in Rewrites
    PROVE  data[f].items \in Seq(Items)
<1>1. Given /\ data = AfterPrompts
  BY DEF IInv, DataInv, Sending
<1>2. CASE f \in Prompts
  BY <1>1, <1>2, BodyFields, PromptWantFacts
<1>3. CASE f \notin Prompts
  <2>1. Shape # "unmanaged" /\ f = Managed
    BY <1>3 DEF Rewrites
  <2> QED BY <1>1, <2>1, BodyFields, WantFacts
<1> QED BY <1>2, <1>3

LEMMA AnsweredIsList ==
    ASSUME IInv, stage = "answered"
    PROVE  DOMAIN RequestItems(data) = 1..Len(RequestItems(data))
<1>1. CASE Shape = "unmanaged"
  BY <1>1 DEF RequestItems
<1>2. CASE Shape # "unmanaged"
  <2>1. Given /\ data = Echoed
    BY DEF IInv, DataInv
  <2>2. RequestItems(data) = Echoed[Managed].items /\ Len(Want) \in Nat
    BY <1>2, <2>1, ManagedField, WantFacts
  <2> QED BY <1>2, <2>1, <2>2, EchoedItems
<1> QED BY <1>1, <1>2

\* Every text is looked at: what the loop rewrites, the classifier saw, and what
\* goes out as it came is excused by name (_collect_block_text, _sanitize_block).
THEOREM TextsScanned == Spec => []EveryTextScanned
<1>1. IInv => PreScanSees
  <2> SUFFICES ASSUME IInv, cfg.stage0, NEW i \in 1..Len(RequestItems(data)),
                      RequestItems(data)[i].text = "placeholder"
               PROVE  i \in seen
    BY DEF PreScanSees
  <2>1. i \in 1..Len(Came) /\ VerdictOf(i) = "hit" /\ seen = CameShown
    BY PlaceholderItem DEF Scanned
  <2>2. ItemPath(Came[i]) \in Paths
    BY <2>1, CameFacts, ItemPaths DEF IInv
  <2>3. Collect(Shape, ItemPath(Came[i])) = "hit"
    BY <2>1, <2>2, CollectAgrees DEF VerdictOf
  <2> QED BY <2>1, <2>3 DEF CameShown, ShownItems, Came
<1>2. IInv => UnknownIsScanned
  <2> SUFFICES ASSUME IInv, stage = "forwarded" PROVE UnknownIsScanned
    BY DEF UnknownIsScanned
  <2>1. ASSUME NEW f \in Rewrites, NEW x \in ToSet(data[f].items), Loose(f, x), x.text = "pii"
        PROVE  FALSE
    <3>1. PICK i \in 1..Len(data[f].items) : x = data[f].items[i]
      BY RewritesAreLists, <2>1 DEF ToSet
    <3>2. SparedIdentity(f, i) \/ ScannedText(f, i)
      BY <2>1, <3>1, LooseText
    <3> QED BY <2>1, <3>1, <3>2 DEF SparedIdentity, ScannedText, SanitizeOne
  <2>2. ASSUME NEW f \in Rewrites, NEW i \in 1..Len(data[f].items),
               data[f].items[i].text = "identity", Loose(f, data[f].items[i])
        PROVE  SparedIdentity(f, i)
    <3>1. ~ScannedText(f, i)
      BY <2>2 DEF ScannedText, SanitizeOne
    <3> QED BY <2>2, <3>1, LooseText
  <2> QED BY <2>1, <2>2 DEF UnknownIsScanned, LooseTexts, SparedIdentity
<1> QED BY <1>1, <1>2, StagesInvariant, PTL DEF EveryTextScanned

\* What a guard that is on was there to stop has not gone out.
THEOREM NothingStoppedLeaves == Spec => []GuardsHold
<1>1. IInv => GuardsHold
  <2> SUFFICES ASSUME IInv, stage = "forwarded" PROVE GuardsHold
    BY DEF GuardsHold
  <2>1. Given /\ Scanned /\ data = AfterPrompts
    BY DEF IInv, DataInv, PassedInv, Late, Sending
  <2>2. ASSUME NEW t \in LooseTexts
        PROVE  t = "identity" \/ (t \notin DOMAIN Raised /\ t \in ShownTexts(data)
                                  /\ (t = "placeholder" \/ t \in ShownTexts(req.body)))
    <3>0. PICK f \in Rewrites : t \in {x.text : x \in {y \in ToSet(data[f].items) : Loose(f, y)}}
      BY DEF LooseTexts
    <3>1. PICK x \in ToSet(data[f].items) : Loose(f, x) /\ t = x.text
      BY <3>0
    <3>2. PICK i \in 1..Len(data[f].items) : x = data[f].items[i]
      BY RewritesAreLists, <3>1 DEF ToSet
    <3>3. SparedIdentity(f, i) \/ ScannedText(f, i)
      BY <3>1, <3>2, LooseText
    <3> QED BY <3>1, <3>2, <3>3 DEF SparedIdentity, ScannedText, SanitizeOne, Raised
  <2>3. LooseTexts \cap DOMAIN Raised = {}
    BY <2>2 DEF Raised
  <2>4. cfg.stage0 => "dump" \notin LooseTexts \cup RawTexts
    BY <2>1, <2>2, RawText DEF Scanned, CameTexts
  <2>5. cfg.dlp \/ cfg.canaries => "secret" \notin LooseTexts \cup RawTexts
    BY <2>2, RawText DEF IInv, PassedInv
  <2>6. cfg.canaries => "canary" \notin LooseTexts \cup RawTexts
    BY <2>2, RawText DEF IInv, PassedInv
  <2>7. cfg.stage0 \/ cfg.dlp => "oversize" \notin RawTexts
    BY <2>1, RawText DEF IInv, PassedInv, Scanned, CameUnmanaged
  <2>8. data.messages.as = "absent" \/ data.input.as = "absent"
    <3>1. data.messages.as = req.body.messages.as /\ data.input.as = req.body.input.as
      BY <2>1, BodyFields DEF Fields
    <3> QED BY <3>1 DEF IInv, PassedInv, Late, Sending
  <2> QED BY <2>3, <2>4, <2>5, <2>6, <2>7, <2>8 DEF GuardsHold
<1> QED BY <1>1, StagesInvariant, PTL

\* What the pre-call takes out survives in no copy that litellm made of it and
\* that a provider or a log event is given; where litellm copies the token to is
\* said apart from where the strip goes.
THEOREM CopiesCleared == Spec => []NoCopyKept
<1>1. IInv => NoCopyKept
  <2> SUFFICES ASSUME IInv PROVE NoCopyKept
    OBVIOUS
  <2>1. ASSUME Bridged, stage \in {"stage5", "forwarded"}
        PROVE  /\ \A h \in {"data", "details", "details_params"} : <<h, "metadata">> \notin kept
               /\ cfg.bridge = "anthropic" =>
                      \A h \in {"data", "details", "details_params"} : <<h, "user">> \notin kept
    <3>1. kept \cap Scrubbed = {}
      BY <2>1 DEF IInv, CopyInv, Late, Sending
    <3>2. \A h \in {"data", "details", "details_params"} : <<h, "metadata">> \in Scrubbed
      BY DEF Scrubbed
    <3>3. cfg.bridge = "anthropic" =>
              \A h \in {"data", "details", "details_params"} : <<h, "user">> \in Scrubbed
      BY DEF Scrubbed
    <3> QED BY <3>1, <3>2, <3>3
  <2> QED BY <2>1 DEF IInv, CopyInv, NoCopyKept
<1> QED BY <1>1, StagesInvariant, PTL

\* What was rewritten comes back as it was typed when the provider repeats it.
THEOREM EchoesRestored == Spec => []EchoRestored
<1>1. IInv => EchoRestored
  <2> SUFFICES ASSUME IInv, stage = "answered", NEW it \in ToSet(RequestItems(data)),
                      it.text = "placeholder", ItemPath(it)[Len(ItemPath(it))].in = "str",
                      ItemPath(it)[1].in = "dict"
               PROVE  IF Shape = "messages" THEN Key(ItemPath(it), 1) = "content" /\ ItemPath(it)[2].in = "dict"
                      ELSE \/ FieldOf(ItemPath(it)) \notin ResponsesTextFields
                           \/ Len(ItemPath(it)) + 1 > MaxDepth
                           \/ FieldOf(ItemPath(it)) = "arguments" /\ Signed(ItemPath(it))
    BY DEF EchoRestored
  <2>1. PICK i \in 1..Len(RequestItems(data)) : it = RequestItems(data)[i]
    BY AnsweredIsList DEF ToSet
  <2>2. /\ i \in 1..Len(Came) /\ VerdictOf(i) = "hit" /\ it = Want[i] /\ Shape # "unmanaged"
        /\ Desanitize(Shape, ItemPath(Came[i])) # "hit"
    BY <2>1, PlaceholderItem
  <2> DEFINE p == ItemPath(it)
  <2>3. p = ItemPath(Came[i]) /\ p \in Paths
    BY <2>2, WantFacts, CameFacts, ItemPaths DEF IInv, ItemPath
  <2>4. Sanitize(Shape, p) = "hit" /\ Desanitize(Shape, p) # "hit"
    BY <2>2, <2>3 DEF VerdictOf
  <2> HIDE DEF p
  <2>5. p[1].in = "dict" /\ p[Len(p)].in = "str"
    BY DEF p
  <2>6. CASE Shape = "messages"
    <3>1. SanitizeMessage(p) = "hit" /\ ReverseChoice(p) # "hit"
      BY <2>4, <2>5, <2>6 DEF Sanitize, Desanitize, IsStr
    <3>2. Key(p, 1) = "content" /\ p[2].in = "dict"
      BY <2>3, <2>5, <3>1, MessageEcho
    <3> QED BY <2>6, <3>2 DEF p
  <2>7. CASE Shape # "messages"
    <3>1. SanitizeResponsesItem(p) = "hit" /\ DesanitizeResponsesPayload(p) # "hit"
      BY <2>4, <2>5, <2>7 DEF Sanitize, Desanitize, IsStr
    <3>2. \/ FieldOf(p) \notin ResponsesTextFields
          \/ Len(p) + 1 > MaxDepth
          \/ FieldOf(p) = "arguments" /\ Signed(p)
      BY <2>3, <2>5, <3>1, ItemEcho
    <3> QED BY <2>7, <3>2 DEF p
  <2> QED BY <2>6, <2>7
<1> QED BY <1>1, StagesInvariant, PTL

=============================================================================
