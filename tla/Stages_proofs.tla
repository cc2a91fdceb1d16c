--------------------------- MODULE Stages_proofs ---------------------------
(***************************************************************************)
(* What Stages keeps, for all layout definitions, knowledge items,         *)
(* documents and bounds that satisfy the assumptions of the modules.       *)
(*                                                                         *)
(* A score is a sum over the rules of a definition and a text is what the  *)
(* typography items leave of it, one after the other: both are recursive   *)
(* functions, which exist by Recursion and are bounded by UpTo (both by a  *)
(* least counterexample).  The invariant, StagesInv, has three parts: what *)
(* was found in the document, what was loaded, and where the rows of the   *)
(* document are, every one of them in just one place (Accounted).          *)
(***************************************************************************)
EXTENDS Stages, FiniteSetTheorems, TLAPS

-----------------------------------------------------------------------------
(* Numbers and recursive functions.                                        *)

\* A set of numbers that is not empty has a lowest one.
LEMMA LowestExists ==
  ASSUME NEW S \in SUBSET Nat, S # {}
  PROVE  \E m \in S : \A n \in S : m <= n
<1>1. OpToRel(<, Nat) = {ss \in Nat \X Nat : ss[1] < ss[2]}
  BY Zenon DEF OpToRel
<1>2. IsWellFoundedOn({ss \in Nat \X Nat : ss[1] < ss[2]}, Nat)
  BY Zenon, <1>1, NatLessThanWellFounded
<1>3. PICK m \in S : \A n \in S : <<n, m>> \notin {ss \in Nat \X Nat : ss[1] < ss[2]}
  BY <1>2, WFMin
<1>4. \A n \in S : m <= n
  <2> TAKE n \in S
  <2>1. <<n, m>> \in Nat \X Nat /\ <<n, m>>[1] = n /\ <<n, m>>[2] = m /\ n \in Nat /\ m \in Nat
    OBVIOUS
  <2>2. ~(n < m)
    BY <1>3, <2>1
  <2> QED
    BY <2>1, <2>2
<1> QED
  BY <1>4

\* Min() finds it.
LEMMA Lowest ==
  ASSUME NEW S \in SUBSET Nat, S # {}
  PROVE  Min(S) \in S /\ \A n \in S : Min(S) <= n
BY LowestExists DEF Min

\* What holds of 0 and of the successor of each number it holds of holds up to n:
\* a set of numbers stands for the property.
LEMMA UpTo ==
  ASSUME NEW n \in Nat, NEW S, 0 \in S,
         \A i \in 1..n : i - 1 \in S => i \in S
  PROVE  0..n \subseteq S
<1> DEFINE Out == (0..n) \ S
<1> SUFFICES ASSUME Out # {} PROVE FALSE
  OBVIOUS
<1>1. Out \in SUBSET Nat
  OBVIOUS
<1>2. PICK m \in Out : \A k \in Out : m <= k
  BY <1>1, LowestExists
<1>3. m \in 1..n
  BY <1>2
<1>4. m - 1 \in 0..n /\ ~(m <= m - 1)
  BY <1>3
<1>5. m - 1 \in S
  BY <1>2, <1>4
<1> QED
  BY <1>2, <1>3, <1>5

\* A step from the value at a place to the value at the next one.
Steps(n, V) == [(1..n) \X V -> V]

\* The values from place 0 to place n.
IsRecursion(f, n, V, v0, step) ==
  f \in [0..n -> V] /\ f[0] = v0 /\ \A i \in 1..n : f[i] = step[<<i, f[i - 1]>>]

\* They can be computed, one after the other.
LEMMA Recursion ==
  ASSUME NEW n \in Nat, NEW V, NEW v0 \in V, NEW step \in Steps(n, V)
  PROVE  \E f : IsRecursion(f, n, V, v0, step)
<1> USE DEF Steps
<1> DEFINE IsIt(f, m) == IsRecursion(f, m, V, v0, step)
           S == {m \in 0..n : \E f : IsIt(f, m)}
<1>1. 0 \in S
  <2>1. IsIt([i \in 0..0 |-> v0], 0)
    BY DEF IsRecursion
  <2> HIDE DEF IsIt
  <2> QED
    BY <2>1
<1>2. ASSUME NEW m \in 1..n, m - 1 \in S
      PROVE  m \in S
  <2>1. PICK f : IsIt(f, m - 1)
    BY <1>2
  <2> DEFINE g == [i \in 0..m |-> IF i = m THEN step[<<m, f[m - 1]>>] ELSE f[i]]
  <2>2. f[m - 1] \in V
    BY <2>1 DEF IsRecursion
  <2>3. step[<<m, f[m - 1]>>] \in V
    BY <2>2
  <2>4. g \in [0..m -> V]
    BY <2>1, <2>3 DEF IsRecursion
  <2>5. g[0] = v0
    BY <2>1 DEF IsRecursion
  <2>6. ASSUME NEW i \in 1..m
        PROVE  g[i] = step[<<i, g[i - 1]>>]
    <3>1. i - 1 \in 0..m /\ i - 1 # m
      OBVIOUS
    <3>2. g[i - 1] = f[i - 1]
      BY <3>1
    <3>3. CASE i = m
      <4>1. m \in 0..m
        OBVIOUS
      <4>2. g[m] = step[<<m, f[m - 1]>>]
        BY <4>1
      <4> HIDE DEF g
      <4> QED
        BY <3>2, <3>3, <4>2
    <3>4. CASE i # m
      <4>1. i \in 1..(m - 1) /\ g[i] = f[i]
        BY <3>4
      <4> HIDE DEF g
      <4> QED
        BY <2>1, <3>2, <4>1 DEF IsRecursion
    <3> QED
      BY <3>3, <3>4
  <2>7. IsIt(g, m)
    <3> HIDE DEF g
    <3> QED
      BY <2>4, <2>5, <2>6 DEF IsRecursion
  <2> HIDE DEF IsIt, g
  <2> QED
    BY <2>7
<1>3. n \in S
  <2> HIDE DEF S
  <2> QED
    BY <1>1, <1>2, UpTo
<1> QED
  BY <1>3

\* Some of finitely many numbers is the highest.
LEMMA Highest ==
  ASSUME NEW n \in Nat, NEW S \in SUBSET (1..n), S # {}, NEW f \in [S -> Int]
  PROVE  \E i \in S : \A j \in S : f[j] <= f[i]
<1> DEFINE Top(m) == \E i \in S : i <= m /\ \A j \in S : j <= m => f[j] <= f[i]
           P == {m \in 0..n : (\A i \in S : ~(i <= m)) \/ Top(m)}
<1>1. 0 \in P
  OBVIOUS
<1>2. ASSUME NEW m \in 1..n, m - 1 \in P
      PROVE  m \in P
  <2>1. CASE m \notin S
    <3>1. \A i \in S : i <= m <=> i <= m - 1
      BY <2>1
    <3> QED
      BY <1>2, <3>1
  <2>2. CASE m \in S /\ \A i \in S : ~(i <= m - 1)
    <3>1. \A j \in S : j <= m => j = m
      BY <2>2
    <3>2. \A j \in S : j <= m => f[j] <= f[m]
      BY <2>2, <3>1
    <3> QED
      BY <2>2, <3>2
  <2>3. CASE m \in S /\ Top(m - 1)
    <3>1. PICK i \in S : i <= m - 1 /\ \A j \in S : j <= m - 1 => f[j] <= f[i]
      BY <2>3
    <3>2. \A j \in S : j <= m => j = m \/ j <= m - 1
      OBVIOUS
    <3>3. f[i] \in Int /\ f[m] \in Int /\ \A j \in S : f[j] \in Int
      BY <2>3
    <3>4. CASE f[i] <= f[m]
      <4>1. \A j \in S : j <= m => f[j] <= f[m]
        BY <3>1, <3>2, <3>3, <3>4
      <4> QED
        BY <2>3, <4>1
    <3>5. CASE ~(f[i] <= f[m])
      <4>1. \A j \in S : j <= m => f[j] <= f[i]
        BY <3>1, <3>2, <3>3, <3>5
      <4> QED
        BY <3>1, <4>1
    <3> QED
      BY <3>4, <3>5
  <2> QED
    BY <1>2, <2>1, <2>2, <2>3
<1>3. n \in P
  <2> HIDE DEF P
  <2> QED
    BY <1>1, <1>2, UpTo
<1>4. \A i \in S : i <= n
  OBVIOUS
<1>5. Top(n)
  <2> HIDE DEF Top
  <2> QED
    BY <1>3, <1>4
<1> QED
  BY <1>4, <1>5

-----------------------------------------------------------------------------
(* Scores.                                                                 *)

\* The rules of a definition, as the ASSUME has them.
LEMMA RulesOfDefinition ==
  ASSUME NEW i \in DOMAIN Definitions
  PROVE  /\ Len(Definitions[i].rules) \in Nat \ {0}
         /\ DOMAIN Definitions[i].rules = 1..Len(Definitions[i].rules)
         /\ \A k \in DOMAIN Definitions[i].rules : Definitions[i].rules[k].weight \in Nat \ {0}
<1> DEFINE rs == Definitions[i].rules
<1>1. /\ rs # <<>> /\ rs \in Seq({rs[k] : k \in DOMAIN rs})
      /\ \A k \in DOMAIN rs : rs[k].weight \in Nat \ {0}
  BY RulesHaveWeight
<1>2. Len(rs) \in Nat /\ DOMAIN rs = 1..Len(rs) /\ Len(rs) # 0
  <2> HIDE DEF rs
  <2> QED
    BY <1>1
<1> QED
  BY <1>1, <1>2

\* A weight is a number, and there are no rules without weight.
LEMMA WeightType ==
  ASSUME NEW rs, Len(rs) \in Nat, DOMAIN rs = 1..Len(rs),
         \A k \in DOMAIN rs : rs[k].weight \in Nat \ {0},
         NEW S
  PROVE  /\ Weight(rs, S) \in Nat
         /\ Len(rs) # 0 => Weight(rs, DOMAIN rs) > 0
<1> DEFINE n == Len(rs)
           Of(T, k) == IF k \in T THEN rs[k].weight ELSE 0
<1>1. ASSUME NEW T
      PROVE  /\ Weight(rs, T) \in Nat
             /\ n # 0 /\ n \in T => Weight(rs, T) > 0
  <2> DEFINE step == [x \in (1..n) \X Nat |-> x[2] + Of(T, x[1])]
  <2>1. step \in [(1..n) \X Nat -> Nat]
    OBVIOUS
  <2>2. PICK f : IsRecursion(f, n, Nat, 0, step)
    <3>1. n \in Nat /\ 0 \in Nat /\ step \in Steps(n, Nat)
      BY <2>1 DEF Steps
    <3> HIDE DEF step, n
    <3> QED
      BY <3>1, Recursion
  <2>3. ASSUME NEW i \in 1..n
        PROVE  f[i] = f[i - 1] + Of(T, i)
    <3>1. i - 1 \in 0..n
      OBVIOUS
    <3>2. f[i - 1] \in Nat
      BY <2>2, <3>1 DEF IsRecursion
    <3>3. <<i, f[i - 1]>> \in (1..n) \X Nat
      BY <3>2
    <3>4. step[<<i, f[i - 1]>>] = f[i - 1] + Of(T, i)
      BY <3>3
    <3> QED
      BY <2>2, <3>4 DEF IsRecursion
  <2> DEFINE sum == CHOOSE g : g = [i \in 0..n |-> IF i = 0 THEN 0 ELSE g[i - 1] + Of(T, i)]
             Typed == {i \in 0..n : sum[i] \in Nat}
  <2>4. f = [i \in 0..n |-> IF i = 0 THEN 0 ELSE f[i - 1] + Of(T, i)]
    <3> HIDE DEF Of, step
    <3>1. \A i \in 0..n : f[i] = IF i = 0 THEN 0 ELSE f[i - 1] + Of(T, i)
      BY <2>2, <2>3 DEF IsRecursion
    <3>2. f = [i \in 0..n |-> f[i]]
      BY <2>2 DEF IsRecursion
    <3> QED
      BY <3>1, <3>2
  <2>5. sum = [i \in 0..n |-> IF i = 0 THEN 0 ELSE sum[i - 1] + Of(T, i)]
    <3> HIDE DEF Of
    <3> QED
      BY <2>4
  <2>6. /\ sum[0] = 0
        /\ \A i \in 1..n : sum[i] = sum[i - 1] + Of(T, i)
    <3> HIDE DEF Of, sum
    <3> QED
      BY <2>5
  <2>7. \A i \in 1..n : Of(T, i) \in Nat /\ (i \in T => Of(T, i) > 0)
    OBVIOUS
  <2> HIDE DEF sum, Of
  <2>8. 0..n \subseteq Typed
    <3>1. 0 \in Typed
      BY <2>6
    <3>2. \A i \in 1..n : i - 1 \in Typed => i \in Typed
      BY <2>6, <2>7
    <3> HIDE DEF Typed, n
    <3>3. n \in Nat
      BY DEF n
    <3> QED
      BY <3>1, <3>2, <3>3, UpTo
  <2>9. Weight(rs, T) = sum[n]
    BY DEF Weight, sum, Of
  <2>10. sum[n] \in Nat
    BY <2>8
  <2>11. ASSUME n # 0, n \in T
         PROVE  sum[n] > 0
    <3>1. n \in 1..n /\ n - 1 \in 0..n
      BY <2>11
    <3>2. sum[n - 1] \in Nat
      BY <2>8, <3>1
    <3>3. sum[n] = sum[n - 1] + Of(T, n) /\ Of(T, n) \in Nat /\ Of(T, n) > 0
      BY <2>6, <2>7, <2>11, <3>1
    <3> QED
      BY <3>2, <3>3
  <2> QED
    BY <2>9, <2>10, <2>11
<1>2. n # 0 => n \in DOMAIN rs
  OBVIOUS
<1> QED
  BY <1>1, <1>2

\* A score is a number.
LEMMA ScoreType ==
  ASSUME NEW i \in DOMAIN Definitions, NEW pages, NEW fonts
  PROVE  ScoreOfDefinition(i, pages, fonts) \in Int
<1> DEFINE rs == Definitions[i].rules
           matched == {k \in DOMAIN rs : RuleHolds(rs[k], pages, fonts)}
<1>1. Weight(rs, matched) \in Nat /\ Weight(rs, DOMAIN rs) \in Nat /\ Weight(rs, DOMAIN rs) > 0
  <2>1. /\ Len(rs) \in Nat /\ Len(rs) # 0 /\ DOMAIN rs = 1..Len(rs)
        /\ \A k \in DOMAIN rs : rs[k].weight \in Nat \ {0}
    BY RulesOfDefinition
  <2> HIDE DEF rs, matched
  <2> QED
    BY <2>1, WeightType
<1>2. ScoreOfDefinition(i, pages, fonts) = (100 * Weight(rs, matched)) \div Weight(rs, DOMAIN rs)
  BY DEF ScoreOfDefinition, Score
<1> HIDE DEF rs, matched
<1> QED
  BY <1>1, <1>2

\* The definitions are numbered from 1.
LEMMA DefinitionsFacts ==
  /\ Len(Definitions) \in Nat /\ DOMAIN Definitions = 1..Len(Definitions)
  /\ Definitions = <<>> <=> DOMAIN Definitions = {}
<1>1. Definitions \in Seq({Definitions[i] : i \in DOMAIN Definitions})
  BY DefinitionsType
<1> QED
  BY <1>1

\* sorted() puts a candidate first that no other one beats.
LEMMA BestIsBest ==
  ASSUME NEW S \in SUBSET DOMAIN Definitions, S # {}, NEW pages, NEW fonts
  PROVE  /\ Best(S, pages, fonts) \in S
         /\ \A j \in S : ScoreOfDefinition(j, pages, fonts)
                            <= ScoreOfDefinition(Best(S, pages, fonts), pages, fonts)
<1> DEFINE of == [i \in S |-> ScoreOfDefinition(i, pages, fonts)]
           Tops == {i \in S : \A j \in S : ScoreOfDefinition(j, pages, fonts)
                                            <= ScoreOfDefinition(i, pages, fonts)}
<1>1. of \in [S -> Int]
  BY ScoreType
<1>2. PICK i \in S : \A j \in S : of[j] <= of[i]
  <2> HIDE DEF of
  <2> QED
    BY <1>1, Highest, DefinitionsFacts
<1>3. Tops # {} /\ Tops \in SUBSET Nat
  BY <1>2, DefinitionsFacts
<1>4. Min(Tops) \in Tops
  <2> HIDE DEF Tops
  <2> QED
    BY <1>3, Lowest
<1>5. Best(S, pages, fonts) = Min(Tops)
  BY DEF Best
<1> QED
  BY <1>4, <1>5

\* What the LayoutDetector says of any pages: see DetectionIsExplained.
LEMMA DetectionExplained ==
  ASSUME NEW pages, NEW fonts
  PROVE  LET of(i) == ScoreOfDefinition(i, pages, fonts)
             found == Detect(pages, fonts)
         IN  /\ found.layout = NoLayout =>
                   /\ \A i \in DOMAIN Definitions : of(i) < ConfidenceThreshold
                   /\ found.warnings \intersect {"no_match", "low_confidence"} # {}
             /\ found.layout # NoLayout =>
                   \E i \in DOMAIN Definitions :
                      /\ Definitions[i].era = found.layout
                      /\ of(i) >= ConfidenceThreshold
                      /\ \A j \in DOMAIN Definitions \ {i} : of(j) <= of(i)
                      /\ "ambiguous_candidates" \in found.warnings
                           <=> \E j \in DOMAIN Definitions \ {i} : of(i) - of(j) < AmbiguityMargin
<1> DEFINE of(i) == ScoreOfDefinition(i, pages, fonts)
           found == Detect(pages, fonts)
           first == Best(DOMAIN Definitions, pages, fonts)
           others == DOMAIN Definitions \ {first}
           second == Best(others, pages, fonts)
           cands == Candidates(pages, fonts)
<1>1. CASE Definitions = <<>>
  <2>1. DOMAIN Definitions = {}
    BY <1>1, DefinitionsFacts
  <2>2. cands = <<>>
    BY <1>1 DEF Candidates
  <2>3. found.layout = NoLayout /\ found.warnings = {"no_match"}
    <3> HIDE DEF cands
    <3> QED
      BY <2>2 DEF Detect, Result, cands
  <2> QED
    BY <2>1, <2>3
<1>2. CASE Definitions # <<>>
  <2>1. first \in DOMAIN Definitions /\ \A j \in DOMAIN Definitions : of(j) <= of(first)
    BY <1>2, BestIsBest, DefinitionsFacts
  <2>2. others # {} => second \in others /\ \A j \in others : of(j) <= of(second)
    BY BestIsBest
  <2>3. \A j \in DOMAIN Definitions : of(j) \in Int
    BY ScoreType
  <2>4. Definitions[first].era # NoLayout
    BY <2>1, NoLayoutNotEra
  <2>5. /\ cands # <<>> /\ cands[1].score = of(first) /\ cands[1].era = Definitions[first].era
        /\ others = {} => Len(cands) = 1
        /\ others # {} => Len(cands) = 2 /\ cands[2].score = of(second)
    BY <1>2 DEF Candidates
  <2> HIDE DEF first, others, second, cands, of
  <2>6. found = Result(cands)
    BY DEF Detect, cands
  <2>7. /\ found.layout = IF of(first) < ConfidenceThreshold THEN NoLayout ELSE Definitions[first].era
        /\ found.warnings = Warnings(cands)
    <3> HIDE DEF found
    <3> QED
      BY <2>5, <2>6 DEF Result
  <2> HIDE DEF found
  <2>8. CASE found.layout = NoLayout
    <3>1. of(first) < ConfidenceThreshold
      BY <2>4, <2>7, <2>8
    <3>2. \A i \in DOMAIN Definitions : of(i) < ConfidenceThreshold
      BY <2>1, <2>3, <3>1 DEF ConfidenceThreshold
    <3>3. IF of(first) < LowConfidenceThreshold
          THEN "no_match" \in found.warnings ELSE "low_confidence" \in found.warnings
      BY <2>1, <2>3, <2>5, <2>7, <3>1 DEF Warnings, Warning, LowConfidenceThreshold
    <3> QED
      BY <2>8, <3>2, <3>3 DEF of, found
  <2>9. CASE found.layout # NoLayout
    <3>1. ~(of(first) < ConfidenceThreshold) /\ found.layout = Definitions[first].era
      BY <2>7, <2>9
    <3>2. of(first) >= ConfidenceThreshold
      BY <2>1, <2>3, <3>1 DEF ConfidenceThreshold
    <3>3. "ambiguous_candidates" \in found.warnings
            <=> others # {} /\ of(first) - of(second) < AmbiguityMargin
      BY <2>5, <2>7, <3>2 DEF Warnings, Warning
    <3>4. (others # {} /\ of(first) - of(second) < AmbiguityMargin)
            <=> \E j \in others : of(first) - of(j) < AmbiguityMargin
      BY <2>1, <2>2, <2>3 DEF AmbiguityMargin, others
    <3> QED
      BY <2>1, <2>9, <3>1, <3>2, <3>3, <3>4 DEF of, found, others
  <2> QED
    BY <2>8, <2>9
<1> QED
  BY <1>1, <1>2

-----------------------------------------------------------------------------
(* Knowledge.                                                              *)

\* The items are numbered from 1.
LEMMA ItemsFacts ==
  Len(Items) \in Nat /\ DOMAIN Items = 1..Len(Items) /\ DOMAIN Items \subseteq Nat
<1>1. Items \in Seq({Items[i] : i \in DOMAIN Items})
  BY ItemsType
<1> QED
  BY <1>1

\* What is in force on a day is in its effective range on that day.
LEMMA EffectiveIsWithin ==
  ASSUME NEW i \in DOMAIN Items, NEW day \in Nat, IsEffective(Items[i], day)
  PROVE  WithinEffectiveRange(Items[i], day)
BY ItemsType DEF IsEffective, WithinEffectiveRange

\* A lookup returns an item of the snapshot, the first that matches.
LEMMA LookupFinds ==
  ASSUME NEW category, NEW key, NEW snap, snap.items \subseteq DOMAIN Items,
         Matches(category, key, snap) # {}
  PROVE  LET found == Matches(category, key, snap)
         IN  /\ Min(found) \in found /\ First(found) \in {Items[i] : i \in snap.items}
             /\ \A i \in found : Min(found) <= i
<1> DEFINE found == Matches(category, key, snap)
<1>1. found \subseteq snap.items /\ found \in SUBSET Nat
  BY ItemsFacts DEF Matches
<1> HIDE DEF found
<1>2. Min(found) \in found /\ \A i \in found : Min(found) <= i
  BY <1>1, Lowest DEF found
<1> QED
  BY <1>1, <1>2 DEF First, found

\* Typography uses items of the snapshot only.
LEMMA TypographyUses ==
  ASSUME NEW raw, NEW snap
  PROVE  ApplyTypography(raw, snap).used \subseteq {Items[i] : i \in snap.items}
<1> DEFINE n == Len(Items)
           Text == [value : {Nfkc[raw]} \union {Items[i].value : i \in DOMAIN Items},
                    used  : SUBSET {Items[i] : i \in snap.items}]
           text0 == [value |-> Nfkc[raw], used |-> {}]
           Applied(i, t) ==
              IF /\ i \in snap.items
                 /\ Items[i].category = "typography"
                 /\ Items[i].key = t.value
              THEN [value |-> Items[i].value, used |-> t.used \union {Items[i]}]
              ELSE t
           step == [x \in (1..n) \X Text |-> Applied(x[1], x[2])]
<1>1. n \in Nat /\ 1..n = DOMAIN Items
  BY ItemsFacts
<1>2. text0 \in Text
  OBVIOUS
<1>3. ASSUME NEW i \in 1..n, NEW t \in Text
      PROVE  Applied(i, t) \in Text
  BY <1>1
<1>4. step \in Steps(n, Text)
  <2> HIDE DEF Applied, Text
  <2> QED
    BY <1>3 DEF Steps
<1>5. PICK f : IsRecursion(f, n, Text, text0, step)
  <2> HIDE DEF step, n, Text, text0
  <2> QED
    BY <1>1, <1>2, <1>4, Recursion
<1>6. /\ f = [i \in 0..n |-> f[i]] /\ f[0] = text0
      /\ \A i \in 0..n : f[i] \in Text
      /\ \A i \in 1..n : f[i] = step[<<i, f[i - 1]>>]
  <2> HIDE DEF Text, step, text0
  <2> QED
    BY <1>5 DEF IsRecursion
<1>7. ASSUME NEW i \in 1..n
      PROVE  f[i] = Applied(i, f[i - 1])
  <2>1. i - 1 \in 0..n
    BY <1>1
  <2>2. <<i, f[i - 1]>> \in (1..n) \X Text
    <3> HIDE DEF Text
    <3> QED
      BY <1>6, <2>1
  <2>3. step[<<i, f[i - 1]>>] = Applied(i, f[i - 1])
    <3> HIDE DEF Applied, Text
    <3> QED
      BY <2>2
  <2> QED
    BY <1>6, <2>3
<1>8. f = [i \in 0..n |-> IF i = 0 THEN text0 ELSE Applied(i, f[i - 1])]
  <2> HIDE DEF Applied, text0, step, Text
  <2>1. \A i \in 0..n : f[i] = IF i = 0 THEN text0 ELSE Applied(i, f[i - 1])
    BY <1>1, <1>6, <1>7
  <2> QED
    BY <1>6, <2>1
<1> DEFINE text == CHOOSE g : g = [i \in 0..n |-> IF i = 0 THEN text0 ELSE Applied(i, g[i - 1])]
           Typed == {i \in 0..n : text[i] \in Text}
<1>9. text = [i \in 0..n |-> IF i = 0 THEN text0 ELSE Applied(i, text[i - 1])]
  <2> HIDE DEF Applied, text0
  <2> QED
    BY <1>8
<1>10. text[0] = text0 /\ \A i \in 1..n : text[i] = Applied(i, text[i - 1])
  <2> HIDE DEF Applied, text0, text
  <2> QED
    BY <1>1, <1>9
<1>11. ApplyTypography(raw, snap) = text[n]
  BY DEF ApplyTypography
<1> HIDE DEF text, Applied, Text, text0
<1>12. 0 \in Typed
  BY <1>1, <1>2, <1>10
<1>13. \A i \in 1..n : i - 1 \in Typed => i \in Typed
  BY <1>1, <1>3, <1>10
<1>14. n \in Typed
  <2> HIDE DEF Typed
  <2>1. 0..n \subseteq Typed
    <3> HIDE DEF n
    <3> QED
      BY <1>1, <1>12, <1>13, UpTo
  <2> QED
    BY <1>1, <2>1
<1>15. text[n] \in Text
  BY <1>14
<1> QED
  BY <1>11, <1>15 DEF Text

\* So does a field.
LEMMA FieldUses ==
  ASSUME NEW era, NEW raw, NEW snap, snap.items \subseteq DOMAIN Items, NEW c \in DOMAIN raw
  PROVE  Normalize(era, raw, snap)[c].used \subseteq {Items[i] : i \in snap.items}
<1> DEFINE text  == ApplyTypography(raw[c], snap)
           sem   == SemanticName(era, c, snap)
           found == Entries(sem, text.value, snap)
           field == NormalizeField(era, c, raw[c], snap)
<1>1. text.used \subseteq {Items[i] : i \in snap.items}
  BY TypographyUses
<1>2. found # {} => First(found) \in {Items[i] : i \in snap.items}
  <2> HIDE DEF sem, text
  <2>1. found # {} => found = Matches(DictionaryOf[Head(sem)], text.value, snap)
    BY DEF Entries
  <2> HIDE DEF found
  <2> QED
    BY <2>1, LookupFinds
<1>3. /\ found # {} => field.used = text.used \union {First(found)}
      /\ found = {} => field.used = text.used
  <2>1. field = IF found # {}
                THEN [value |-> First(found).value, method |-> "dictionary",
                      used |-> text.used \union {First(found)}]
                ELSE [value  |-> text.value, used |-> text.used,
                      method |-> IF text.used = {} THEN "identity" ELSE "typography"]
    BY DEF NormalizeField
  <2> HIDE DEF found, text, field
  <2> QED
    BY <2>1
<1>4. Normalize(era, raw, snap)[c] = field
  BY DEF Normalize
<1> HIDE DEF field, found, text
<1> QED
  BY <1>1, <1>2, <1>3, <1>4

\* What a column means on a day, and what the rules in force on another day allow in
\* it: see VerdictFollowsRules.
LayoutItems(era, c, asOf) == {k \in DOMAIN Items :
                                /\ Items[k].category = "layout"
                                /\ Items[k].key = <<era, c>>
                                /\ IsEffective(Items[k], asOf)}

RuledValues(era, c, asOf, day) ==
  LET Layout  == LayoutItems(era, c, asOf)
      Meaning == {Items[k].value : k \in {m \in Layout : \A l \in Layout : m <= l}}
  IN  {Items[k].value : k \in {m \in DOMAIN Items :
                                 /\ Items[m].category = "validation"
                                 /\ Items[m].key \in Meaning
                                 /\ IsEffective(Items[m], day)}}

\* The Validator goes by just these.
LEMMA VerdictExplained ==
  ASSUME NEW era, NEW fields, NEW snap, NEW day, snap.asOf \in Nat,
         snap.items = EffectiveItems(snap.asOf)
  PROVE  Validate(era, fields, snap, RulesOf(day)) = "failed" <=>
            \E c \in DOMAIN fields :
               /\ RuledValues(era, c, snap.asOf, day) # {}
               /\ fields[c].value \notin RuledValues(era, c, snap.asOf, day)
<1> DEFINE asOf == snap.asOf
           Layout(c)  == LayoutItems(era, c, asOf)
           Meaning(c) == {Items[k].value :
                             k \in {m \in Layout(c) : \A l \in Layout(c) : m <= l}}
           Ruled(c)   == RuledValues(era, c, asOf, day)
<1>1. snap.items \subseteq DOMAIN Items
  BY DEF EffectiveItems
<1>2. ASSUME NEW c
      PROVE  Matches("layout", <<era, c>>, snap) = Layout(c)
  BY EffectiveIsWithin DEF Matches, EffectiveItems, LayoutItems
<1>3. ASSUME NEW c
      PROVE  /\ SemanticName(era, c, snap) = <<>> => Ruled(c) = {}
             /\ SemanticName(era, c, snap) # <<>> =>
                  AllowedValues(Head(SemanticName(era, c, snap)), RulesOf(day)) = Ruled(c)
  <2>1. CASE Layout(c) = {}
    <3>1. SemanticName(era, c, snap) = <<>>
      BY <1>2, <2>1 DEF SemanticName
    <3>2. Ruled(c) = {}
      BY <2>1 DEF RuledValues
    <3> QED
      BY <3>1, <3>2
  <2>2. CASE Layout(c) # {}
    <3> DEFINE low == Min(Layout(c))
    <3> HIDE DEF Layout
    <3>1. low \in Layout(c) /\ \A k \in Layout(c) : low <= k
      BY <1>1, <1>2, <2>2, LookupFinds
    <3>2. SemanticName(era, c, snap) = <<Items[low].value>>
      BY <1>2, <2>2 DEF SemanticName, First
    <3>3. Layout(c) \subseteq Nat
      BY ItemsFacts DEF Layout, LayoutItems
    <3>4. \A m \in Layout(c) : (\A l \in Layout(c) : m <= l) <=> m = low
      BY <3>1, <3>3
    <3> HIDE DEF low
    <3>5. Meaning(c) = {Items[low].value}
      BY <3>1, <3>4
    <3>6. Head(SemanticName(era, c, snap)) = Items[low].value /\ SemanticName(era, c, snap) # <<>>
      BY <3>2
    <3>7. Ruled(c) = {Items[k].value : k \in {m \in DOMAIN Items :
                                     /\ Items[m].category = "validation"
                                     /\ Items[m].key \in Meaning(c)
                                     /\ IsEffective(Items[m], day)}}
      BY DEF RuledValues, Layout
    <3> HIDE DEF Meaning, Ruled
    <3>8. AllowedValues(Items[low].value, RulesOf(day)) = Ruled(c)
      BY <3>5, <3>7 DEF AllowedValues, RulesOf, EffectiveItems
    <3> QED
      BY <3>6, <3>8
  <2> QED
    BY <2>1, <2>2
<1> HIDE DEF Ruled
<1>4. \A c \in DOMAIN fields :
         c \in Errors(era, fields, snap, RulesOf(day))
            <=> Ruled(c) # {} /\ fields[c].value \notin Ruled(c)
  BY <1>3 DEF Errors
<1>5. Errors(era, fields, snap, RulesOf(day)) \subseteq DOMAIN fields
  BY DEF Errors
<1>6. Validate(era, fields, snap, RulesOf(day)) = "failed"
        <=> Errors(era, fields, snap, RulesOf(day)) # {}
  BY DEF Validate
<1>7. Validate(era, fields, snap, RulesOf(day)) = "failed" <=>
         \E c \in DOMAIN fields : Ruled(c) # {} /\ fields[c].value \notin Ruled(c)
  BY <1>4, <1>5, <1>6
<1> QED
  BY <1>7 DEF Ruled

-----------------------------------------------------------------------------
(* Pages and rows.                                                         *)

\* The rows of a document: see EveryRowIsProcessedOnce.
IsRow(file, layout, p, l) ==
  /\ layout # NoLayout
  /\ p \in DOMAIN file.pages
  /\ p \notin file.unreadable
  /\ Len(file.pages[p]) >= 3
  /\ l \in DOMAIN file.pages[p]
  /\ Len(file.pages[p][l]) >= 2

Rows(file, layout) == {x \in (1..MaxPages) \X (1..MaxLines) : IsRow(file, layout, x[1], x[2])}

\* A document has numbered pages of numbered lines, within the bounds.
LEMMA DocumentFacts ==
  ASSUME NEW file \in Document
  PROVE  /\ Len(file.pages) \in 0..MaxPages /\ DOMAIN file.pages = 1..Len(file.pages)
         /\ file.pages = <<>> <=> DOMAIN file.pages = {}
         /\ \A p \in DOMAIN file.pages :
               /\ Len(file.pages[p]) \in 0..MaxLines
               /\ DOMAIN file.pages[p] = 1..Len(file.pages[p])
               /\ file.pages[p] = <<>> <=> Len(file.pages[p]) = 0
         /\ file.state \in FileState
<1>1. ASSUME NEW P, NEW m \in Nat, NEW s \in UNION {[1..n -> P] : n \in 0..m}
      PROVE  /\ Len(s) \in 0..m /\ DOMAIN s = 1..Len(s) /\ (s = <<>> <=> Len(s) = 0)
             /\ \A i \in DOMAIN s : s[i] \in P
  <2>1. PICK n \in 0..m : s \in [1..n -> P]
    OBVIOUS
  <2>2. s \in Seq(P)
    BY <2>1
  <2>3. Len(s) = n
    BY <2>1, <2>2
  <2> QED
    BY <2>1, <2>2, <2>3
<1>2. /\ file.pages \in Pages(Page) /\ file.state \in FileState
  <2>1. CASE file \in SoundDocument
    BY <2>1 DEF SoundDocument, FileState
  <2>2. CASE file \in DamagedDocument
    <3>1. file.pages \in Pages(DamagedPages) /\ file.state \in FileState
      BY <2>2 DEF DamagedDocument
    <3>2. Pages(DamagedPages) \subseteq Pages(Page)
      BY DamagedPagesType DEF Pages
    <3> QED
      BY <3>1, <3>2
  <2> QED
    BY <2>1, <2>2 DEF Document
<1>3. MaxPages \in Nat /\ MaxLines \in Nat
  BY StagesBounds
<1>4. /\ Len(file.pages) \in 0..MaxPages /\ DOMAIN file.pages = 1..Len(file.pages)
      /\ file.pages = <<>> <=> Len(file.pages) = 0
      /\ \A p \in DOMAIN file.pages : file.pages[p] \in Page
  BY <1>1, <1>2, <1>3 DEF Pages
<1>5. \A s \in Page : Len(s) \in 0..MaxLines /\ DOMAIN s = 1..Len(s) /\ (s = <<>> <=> Len(s) = 0)
  BY <1>1, <1>3 DEF Page
<1>6. \A n \in Nat : 1..n = {} <=> n = 0
  <2> TAKE n \in Nat
  <2>1. n # 0 => 1 \in 1..n
    OBVIOUS
  <2>2. n = 0 => 1..n = {}
    OBVIOUS
  <2> QED
    BY <2>1, <2>2
<1>7. file.pages = <<>> <=> DOMAIN file.pages = {}
  <2>1. Len(file.pages) \in Nat
    BY <1>3, <1>4
  <2>2. DOMAIN file.pages = {} <=> Len(file.pages) = 0
    BY <1>4, <1>6, <2>1
  <2> QED
    BY <1>4, <2>2
<1> QED
  BY <1>2, <1>4, <1>5, <1>7

\* A page counts when it is readable and has a line between its header and footer;
\* a page that is not readable is an empty one, which does not count.
LEMMA CountingIs ==
  ASSUME NEW file \in Document, NEW layout, layout # NoLayout
  PROVE  /\ DOMAIN ReadPages(file) = DOMAIN file.pages
         /\ Counting(ReadPages(file), layout)
               = {p \in DOMAIN file.pages : p \notin file.unreadable /\ Len(file.pages[p]) >= 3}
         /\ \A p \in Counting(ReadPages(file), layout) : ReadPages(file)[p] = file.pages[p]
<1>1. DOMAIN ReadPages(file) = DOMAIN file.pages
  BY DEF ReadPages
<1>2. ASSUME NEW p \in DOMAIN file.pages
      PROVE  SectionScore(ReadPages(file)[p]) >= SectionThreshold
                <=> p \notin file.unreadable /\ Len(file.pages[p]) >= 3
  <2>1. CASE p \in file.unreadable
    <3>1. ReadPages(file)[p] = <<>>
      BY <2>1 DEF ReadPages
    <3> QED
      BY <2>1, <3>1 DEF SectionScore, SectionThreshold
  <2>2. CASE p \notin file.unreadable
    <3>1. ReadPages(file)[p] = file.pages[p]
      BY <2>2 DEF ReadPages
    <3>2. Len(file.pages[p]) \in Nat /\ (file.pages[p] = <<>> <=> Len(file.pages[p]) = 0)
      BY DocumentFacts, StagesBounds
    <3> QED
      BY <2>2, <3>1, <3>2 DEF SectionScore, SectionThreshold
  <2> QED
    BY <2>1, <2>2
<1>3. Counting(ReadPages(file), layout)
         = {p \in DOMAIN file.pages : p \notin file.unreadable /\ Len(file.pages[p]) >= 3}
  BY <1>1, <1>2 DEF Counting
<1>4. \A p \in DOMAIN file.pages : p \notin file.unreadable => ReadPages(file)[p] = file.pages[p]
  BY DEF ReadPages
<1> QED
  BY <1>1, <1>3, <1>4

\* A section is a page and its rows are the lines with enough columns.
LEMMA SectionFacts ==
  ASSUME NEW file \in Document, NEW layout, NEW s \in SectionsOf(ReadPages(file), layout)
  PROVE  /\ layout # NoLayout
         /\ s.index \in DOMAIN file.pages /\ s.index \in 1..MaxPages
         /\ s = [index |-> s.index, lines |-> file.pages[s.index]]
         /\ \A l : IsRow(file, layout, s.index, l)
                   <=> l \in {k \in DOMAIN s.lines : ColumnScore(s.lines[k]) >= RecordThreshold}
<1>1. PICK p \in Counting(ReadPages(file), layout) : s = [index |-> p, lines |-> ReadPages(file)[p]]
  BY DEF SectionsOf
<1>2. layout # NoLayout
  BY <1>1 DEF Counting
<1>3. /\ p \in DOMAIN file.pages /\ p \notin file.unreadable /\ Len(file.pages[p]) >= 3
      /\ ReadPages(file)[p] = file.pages[p]
  BY <1>1, <1>2, CountingIs
<1>4. s.index = p /\ s.lines = file.pages[p] /\ s = [index |-> p, lines |-> file.pages[p]]
  BY <1>1, <1>3
<1>5. p \in 1..MaxPages
  BY <1>3, DocumentFacts, StagesBounds
<1>6. \A line : ColumnScore(line) >= RecordThreshold <=> Len(line) >= 2
  BY DEF ColumnScore, RecordThreshold
<1> QED
  BY <1>2, <1>3, <1>4, <1>5, <1>6 DEF IsRow

\* What is processed next is one of them.
LEMMA ForemostIsIn ==
  ASSUME NEW S, S # {}, \A x \in S : x.index \in Nat
  PROVE  Foremost(S) \in S
<1> DEFINE N == {x.index : x \in S}
<1>1. N \in SUBSET Nat /\ N # {}
  OBVIOUS
<1>2. PICK m \in N : \A n \in N : m <= n
  <2> HIDE DEF N
  <2> QED
    BY <1>1, LowestExists
<1>3. PICK x \in S : m = x.index
  BY <1>2
<1>4. \A y \in S : x.index <= y.index
  BY <1>2, <1>3
<1> QED
  BY <1>4 DEF Foremost

\* Appending to a sequence of anything.
LEMMA AppendFacts ==
  ASSUME NEW s, s \in Seq({s[i] : i \in DOMAIN s}), NEW y
  PROVE  /\ Len(s) \in Nat /\ DOMAIN s = 1..Len(s)
         /\ Len(Append(s, y)) = Len(s) + 1 /\ DOMAIN Append(s, y) = 1..(Len(s) + 1)
         /\ Append(s, y)[Len(s) + 1] = y /\ \A i \in DOMAIN s : Append(s, y)[i] = s[i]
         /\ Append(s, y) \in Seq({Append(s, y)[i] : i \in DOMAIN Append(s, y)})
<1> DEFINE D == {s[i] : i \in DOMAIN s} \union {y}
           t == Append(s, y)
<1>1. s \in Seq({s[i] : i \in DOMAIN s}) /\ {s[i] : i \in DOMAIN s} \subseteq D
  OBVIOUS
<1>2. s \in Seq(D) /\ y \in D
  <2> HIDE DEF D
  <2>1. y \in D
    BY DEF D
  <2> QED
    BY <1>1, <2>1
<1> HIDE DEF D
<1>3. /\ Len(s) \in Nat /\ DOMAIN s = 1..Len(s)
      /\ Len(t) = Len(s) + 1 /\ DOMAIN t = 1..(Len(s) + 1) /\ t \in Seq(D)
      /\ t[Len(s) + 1] = y /\ \A i \in DOMAIN s : t[i] = s[i]
  BY <1>2
<1> HIDE DEF t
<1>4. t \in Seq({t[i] : i \in DOMAIN t})
  BY <1>3
<1> QED
  BY <1>3, <1>4 DEF t

\* The analyzer calls a file broken only when it does not open.
LEMMA BrokenIsNotOpen ==
  ASSUME NEW file, file.state = "open"
  PROVE  "broken_pdf" \notin AnalysisOf(file).warnings
<1>1. "broken_pdf" \notin Probe(file).warnings
  BY DEF Probe, Encrypted
<1>2. "broken_pdf" \notin CollectWarnings(file)
  <2> HIDE DEF Probe
  <2> QED
    BY <1>1 DEF CollectWarnings
<1> QED
  BY <1>2 DEF AnalysisOf

\* It warns of every page that is not read as it was written.
LEMMA LostTextIsWarned ==
  ASSUME NEW file, file.state = "open", ReadPages(file) # file.pages,
         file.pages = [i \in DOMAIN file.pages |-> file.pages[i]]
  PROVE  "unknown_encoding" \in AnalysisOf(file).warnings /\ AnalysisOf(file).confidence < 100
<1>1. PICK i \in DOMAIN file.pages : i \in file.unreadable
  <2>1. ASSUME \A i \in DOMAIN file.pages : i \notin file.unreadable
        PROVE  ReadPages(file) = file.pages
    <3>1. ReadPages(file) = [i \in DOMAIN file.pages |-> file.pages[i]]
      BY <2>1 DEF ReadPages
    <3> QED
      BY <3>1
  <2> QED
    BY <2>1
<1>2. ~InspectPages(file).encoding_ok
  BY <1>1 DEF InspectPages, InspectPage
<1>3. "unknown_encoding" \in Probe(file).warnings
  BY <1>2 DEF Probe
<1>4. "unknown_encoding" \in CollectWarnings(file)
  BY <1>3 DEF CollectWarnings
<1> QED
  BY <1>4 DEF AnalysisOf, AnalysisConfidence

\* A file reported to hold images only has no page that counts, when no page
\* failed.
LEMMA ImagesHaveNoRows ==
  ASSUME NEW file \in Document, file.state = "open", NEW layout,
         "image_only" \in AnalysisOf(file).warnings,
         "unknown_encoding" \notin AnalysisOf(file).warnings
  PROVE  SectionsOf(ReadPages(file), layout) = {} /\ Rows(file, layout) = {}
<1>1. "image_only" \in CollectWarnings(file) /\ "unknown_encoding" \notin CollectWarnings(file)
  BY DEF AnalysisOf
<1>2. /\ "image_only" \notin Probe(file).warnings
      /\ "unknown_encoding" \notin Probe(file).warnings => InspectPages(file).encoding_ok
      /\ InspectPages(file).encoding_ok => Probe(file).has_text = InspectPages(file).has_text
  BY DEF Probe, Encrypted
<1>3. ~Probe(file).has_text /\ InspectPages(file).encoding_ok
  BY <1>1, <1>2 DEF CollectWarnings
<1>4. \A i \in DOMAIN file.pages : file.pages[i] = <<>>
  BY <1>2, <1>3 DEF InspectPages
<1>5. \A i \in DOMAIN file.pages : Len(file.pages[i]) = 0
  BY <1>4, DocumentFacts
<1>6. Rows(file, layout) = {}
  BY <1>5 DEF Rows, IsRow
<1>7. Counting(ReadPages(file), layout) = {}
  <2>1. CASE layout = NoLayout
    BY <2>1 DEF Counting
  <2>2. CASE layout # NoLayout
    BY <1>5, <2>2, CountingIs
  <2> QED
    BY <2>1, <2>2
<1> QED
  BY <1>6, <1>7 DEF SectionsOf

-----------------------------------------------------------------------------
(* The rows are accounted for.                                             *)

KeysOf(recs) == {<<r.section, r.index>> : r \in recs}

DoneKeys(dn) == {<<dn[i].section, dn[i].index>> : i \in DOMAIN dn}

\* The rows of the sections that are still to be processed.
LeftKeys(rows, secs) == {x \in rows : \E s \in secs : s.index = x[1]}

\* Every row is processed, waits as a record or is in a section that waits, one of
\* the three, and is processed once.
Accounted(rows, secs, recs, dn) ==
  /\ rows = DoneKeys(dn) \union KeysOf(recs) \union LeftKeys(rows, secs)
  /\ DoneKeys(dn) \intersect KeysOf(recs) = {}
  /\ (DoneKeys(dn) \union KeysOf(recs)) \intersect LeftKeys(rows, secs) = {}
  /\ IsFiniteSet(DoneKeys(dn)) /\ Cardinality(DoneKeys(dn)) = Len(dn)

\* Records are lines of one page.
AreRecordsOf(recs, file) ==
  /\ \A r \in recs : /\ r.section \in 1..MaxPages /\ r.index \in 1..MaxLines
                     /\ r = [section |-> r.section, index |-> r.index,
                             raw |-> file.pages[r.section][r.index]]
  /\ \A r1, r2 \in recs : r1.section = r2.section

\* A document that was just read has all its rows in its sections.
LEMMA ReadingAccounts ==
  ASSUME NEW file \in Document, NEW layout
  PROVE  Accounted(Rows(file, layout), SectionsOf(ReadPages(file), layout), {}, <<>>)
<1> DEFINE rows == Rows(file, layout)
           secs == SectionsOf(ReadPages(file), layout)
<1>1. DoneKeys(<<>>) = {} /\ KeysOf({}) = {} /\ Len(<<>>) = 0
  BY DEF DoneKeys, KeysOf
<1>2. ASSUME NEW x \in rows
      PROVE  \E s \in secs : s.index = x[1]
  <2>1. IsRow(file, layout, x[1], x[2])
    BY DEF Rows
  <2>2. x[1] \in Counting(ReadPages(file), layout)
    BY <2>1, CountingIs DEF IsRow
  <2>3. [index |-> x[1], lines |-> ReadPages(file)[x[1]]] \in secs
    BY <2>2 DEF SectionsOf
  <2> HIDE DEF secs
  <2> QED
    BY <2>3
<1>3. LeftKeys(rows, secs) = rows
  <2> HIDE DEF rows, secs
  <2> QED
    BY <1>2 DEF LeftKeys
<1> QED
  BY <1>1, <1>3, FS_EmptySet DEF Accounted

\* FieldExtractor moves the rows of a section to its records.
LEMMA ExtractionAccounts ==
  ASSUME NEW file \in Document, NEW layout, NEW dn,
         NEW secs \in SUBSET SectionsOf(ReadPages(file), layout), secs # {},
         Accounted(Rows(file, layout), secs, {}, dn)
  PROVE  LET s == Foremost(secs)
         IN  /\ Accounted(Rows(file, layout), secs \ {s}, RecordsOf(s), dn)
             /\ AreRecordsOf(RecordsOf(s), file)
<1> DEFINE s    == Foremost(secs)
           rows == Rows(file, layout)
           recs == RecordsOf(s)
<1>1. s \in secs
  <2>1. \A x \in secs : x.index \in Nat
    BY SectionFacts
  <2> QED
    BY <2>1, ForemostIsIn
<1> HIDE DEF s
<1>2. /\ s.index \in DOMAIN file.pages /\ s.index \in 1..MaxPages /\ s.lines = file.pages[s.index]
      /\ \A l : IsRow(file, layout, s.index, l)
                <=> l \in {k \in DOMAIN s.lines : ColumnScore(s.lines[k]) >= RecordThreshold}
  <2>1. s \in SectionsOf(ReadPages(file), layout)
    BY <1>1
  <2>2. s = [index |-> s.index, lines |-> file.pages[s.index]]
    BY <2>1, SectionFacts
  <2>3. s.lines = file.pages[s.index]
    BY <2>2
  <2> QED
    BY <2>1, <2>3, SectionFacts
<1>3. \A l : IsRow(file, layout, s.index, l) => l \in 1..MaxLines
  <2>1. \A p \in DOMAIN file.pages : DOMAIN file.pages[p] \subseteq 1..MaxLines
    BY DocumentFacts, StagesBounds
  <2> QED
    BY <2>1 DEF IsRow
<1>4. recs = {RecordAt(s, l) : l \in {k \in 1..MaxLines : IsRow(file, layout, s.index, k)}}
  BY <1>2, <1>3 DEF RecordsOf
<1>5. AreRecordsOf(recs, file)
  <2>1. ASSUME NEW r \in recs
        PROVE  \E l \in 1..MaxLines : r = [section |-> s.index, index |-> l, raw |-> file.pages[s.index][l]]
    BY <1>2, <1>4 DEF RecordAt
  <2>2. ASSUME NEW r \in recs
        PROVE  /\ r.section = s.index /\ r.index \in 1..MaxLines
               /\ r = [section |-> r.section, index |-> r.index,
                       raw |-> file.pages[r.section][r.index]]
    BY <2>1
  <2> HIDE DEF recs
  <2> QED
    BY <1>2, <2>2 DEF AreRecordsOf
<1>6. KeysOf(recs) = {x \in rows : x[1] = s.index}
  <2>1. KeysOf(recs) = {<<s.index, l>> : l \in {k \in 1..MaxLines : IsRow(file, layout, s.index, k)}}
    <3>1. \A l : RecordAt(s, l).section = s.index /\ RecordAt(s, l).index = l
      BY DEF RecordAt
    <3> HIDE DEF recs
    <3> QED
      BY <1>4, <3>1 DEF KeysOf
  <2> QED
    BY <1>2, <2>1 DEF Rows
<1>7. \A x \in secs : x.index = s.index => x = s
  <2> TAKE x \in secs
  <2>1. x \in SectionsOf(ReadPages(file), layout) /\ s \in SectionsOf(ReadPages(file), layout)
    BY <1>1
  <2>2. /\ x = [index |-> x.index, lines |-> file.pages[x.index]]
        /\ s = [index |-> s.index, lines |-> file.pages[s.index]]
    BY <2>1, SectionFacts
  <2> QED
    BY <2>2
<1> HIDE DEF recs, rows
<1>8. LeftKeys(rows, secs \ {s}) = {x \in LeftKeys(rows, secs) : x[1] # s.index}
  BY <1>7 DEF LeftKeys
<1>9. {x \in rows : x[1] = s.index} \subseteq LeftKeys(rows, secs)
  BY <1>1 DEF LeftKeys
<1>10. /\ rows = DoneKeys(dn) \union LeftKeys(rows, secs)
       /\ DoneKeys(dn) \intersect LeftKeys(rows, secs) = {}
       /\ IsFiniteSet(DoneKeys(dn)) /\ Cardinality(DoneKeys(dn)) = Len(dn)
  BY DEF Accounted, KeysOf, rows
<1>11. LeftKeys(rows, secs) \subseteq rows
  BY DEF LeftKeys
<1>12. LeftKeys(rows, secs \ {s}) = LeftKeys(rows, secs) \ KeysOf(recs)
  BY <1>6, <1>8, <1>11
<1>13. KeysOf(recs) \subseteq LeftKeys(rows, secs)
  BY <1>6, <1>9
<1>14. Accounted(rows, secs \ {s}, recs, dn)
  BY <1>10, <1>12, <1>13 DEF Accounted
<1> QED
  BY <1>5, <1>14 DEF s, recs, rows

\* Processing moves one row from the records to the processed ones.
LEMMA ProcessingAccounts ==
  ASSUME NEW file, NEW rows, NEW secs, NEW recs, recs # {}, AreRecordsOf(recs, file),
         NEW dn, dn \in Seq({dn[i] : i \in DOMAIN dn}), Accounted(rows, secs, recs, dn),
         NEW y, y.section = Foremost(recs).section, y.index = Foremost(recs).index
  PROVE  /\ Foremost(recs) \in recs
         /\ Accounted(rows, secs, recs \ {Foremost(recs)}, Append(dn, y))
         /\ AreRecordsOf(recs \ {Foremost(recs)}, file)
<1> DEFINE r == Foremost(recs)
           key == <<r.section, r.index>>
<1>1. r \in recs
  <2>1. \A x \in recs : x.index \in Nat
    BY DEF AreRecordsOf
  <2> QED
    BY <2>1, ForemostIsIn
<1> HIDE DEF r
<1>2. AreRecordsOf(recs \ {r}, file)
  BY DEF AreRecordsOf
<1>3. KeysOf(recs \ {r}) = KeysOf(recs) \ {key}
  <2>1. \A x \in recs : x.section = r.section /\ x.index = r.index => x = r
    BY <1>1 DEF AreRecordsOf
  <2> QED
    BY <1>1, <2>1 DEF KeysOf
<1>4. key \in KeysOf(recs)
  BY <1>1 DEF KeysOf
<1>5. /\ Len(dn) \in Nat /\ DOMAIN dn = 1..Len(dn) /\ Len(Append(dn, y)) = Len(dn) + 1
      /\ DOMAIN Append(dn, y) = 1..(Len(dn) + 1)
      /\ Append(dn, y)[Len(dn) + 1] = y /\ \A i \in DOMAIN dn : Append(dn, y)[i] = dn[i]
  BY AppendFacts
<1>6. DoneKeys(Append(dn, y)) = DoneKeys(dn) \union {key}
  <2> DEFINE t == Append(dn, y)
  <2>1. DOMAIN t = DOMAIN dn \union {Len(dn) + 1}
    BY <1>5
  <2>2. y.section = r.section /\ y.index = r.index
    BY DEF r
  <2> HIDE DEF t
  <2>3. t[Len(dn) + 1] = y /\ \A i \in DOMAIN dn : t[i] = dn[i]
    BY <1>5 DEF t
  <2>4. DoneKeys(t) = DoneKeys(dn) \union {key}
    BY <2>1, <2>2, <2>3 DEF DoneKeys
  <2> QED
    BY <2>4 DEF t
<1> HIDE DEF key
<1>7. key \notin DoneKeys(dn)
  BY <1>4 DEF Accounted
<1>8. IsFiniteSet(DoneKeys(dn)) /\ Cardinality(DoneKeys(dn)) = Len(dn)
  BY DEF Accounted
<1>9. /\ IsFiniteSet(DoneKeys(dn) \union {key})
      /\ Cardinality(DoneKeys(dn) \union {key}) = Len(dn) + 1
  BY <1>7, <1>8, FS_AddElement
<1>10. Accounted(rows, secs, recs \ {r}, Append(dn, y))
  <2>1. /\ rows = DoneKeys(dn) \union KeysOf(recs) \union LeftKeys(rows, secs)
        /\ DoneKeys(dn) \intersect KeysOf(recs) = {}
        /\ (DoneKeys(dn) \union KeysOf(recs)) \intersect LeftKeys(rows, secs) = {}
    BY DEF Accounted
  <2>2. /\ rows = (DoneKeys(dn) \union {key}) \union (KeysOf(recs) \ {key}) \union LeftKeys(rows, secs)
        /\ (DoneKeys(dn) \union {key}) \intersect (KeysOf(recs) \ {key}) = {}
        /\ ((DoneKeys(dn) \union {key}) \union (KeysOf(recs) \ {key})) \intersect LeftKeys(rows, secs) = {}
    BY <1>4, <1>7, <2>1
  <2> QED
    BY <1>3, <1>5, <1>6, <1>9, <2>2 DEF Accounted
<1> QED
  BY <1>1, <1>2, <1>10 DEF r

-----------------------------------------------------------------------------
(* The inductive invariant.                                                *)

\* What is known of the document is what the stages find in it.
DocumentInv ==
  /\ doc \in Document
  /\ pc \in {"snapshot", "rules", "document", "detect", "failed"} \union Past
  /\ pc \in {"snapshot", "rules", "document"} => analysis.warnings = {}
  /\ pc \in {"detect"} \union Past => analysis = AnalysisOf(doc)
  /\ pc \in Past => doc.state = "open" /\ detection = Detect(ReadPages(doc), doc.fonts)

\* What is loaded is what is in force on the day it was loaded.
KnowledgeInv ==
  /\ today \in Nat
  /\ pc # "snapshot" => /\ snapshot.asOf \in Nat
                        /\ snapshot.items = EffectiveItems(snapshot.asOf)
  /\ pc \notin {"snapshot", "rules"} => rules.rules = RulesOf(rules.asOf)

\* What the Normalizer and the Validator make of a record.
IsResult(d) ==
  /\ d.raw = doc.pages[d.section][d.index]
  /\ d.fields = Normalize(detection.layout, d.raw, snapshot)
  /\ d.verdict = IF IsConfident(d.fields)
                 THEN Validate(detection.layout, d.fields, snapshot, rules.rules)
                 ELSE "pending"

\* What waits is of this document, and its rows are accounted for.
RowsInv ==
  /\ pc \notin Past => sections = {} /\ records = {} /\ done = <<>>
  /\ pc # "records" => records = {}
  /\ pc = "done" => sections = {}
  /\ sections \subseteq SectionsOf(ReadPages(doc), detection.layout)
  /\ AreRecordsOf(records, doc)
  /\ pc \in Past => Accounted(Rows(doc, detection.layout), sections, records, done)
  /\ done \in Seq({done[i] : i \in DOMAIN done})
  /\ \A i \in DOMAIN done : IsResult(done[i])

StagesInv == DocumentInv /\ KnowledgeInv /\ RowsInv

\* Nothing waits and nothing is done.
LEMMA NothingYet ==
  ASSUME NEW file
  PROVE  /\ <<>> \in Seq({<<>>[i] : i \in DOMAIN <<>>}) /\ DOMAIN <<>> = {}
         /\ AreRecordsOf({}, file)
BY DEF AreRecordsOf

\* The invariant holds initially.
LEMMA InitInv == Init => StagesInv
<1> SUFFICES ASSUME Init PROVE StagesInv
  OBVIOUS
<1>1. doc \in Document /\ today \in 1..LastDay /\ LastDay \in Nat /\ pc = "snapshot"
  BY StagesBounds DEF Init
<1>2. DocumentInv
  BY <1>1 DEF Init, DocumentInv, Past
<1>3. KnowledgeInv
  BY <1>1 DEF KnowledgeInv
<1>4. RowsInv
  <2>1. sections = {} /\ records = {} /\ done = <<>>
    BY DEF Init
  <2>2. done \in Seq({done[i] : i \in DOMAIN done}) /\ DOMAIN done = {}
    BY <2>1, NothingYet
  <2>3. AreRecordsOf(records, doc)
    BY <2>1, NothingYet
  <2> QED
    BY <1>1, <2>1, <2>2, <2>3 DEF RowsInv, Past
<1> QED
  BY <1>2, <1>3, <1>4 DEF StagesInv

\* A step that is not past the document stages leaves nothing waiting.
LEMMA EarlyRows ==
  ASSUME RowsInv, pc' \notin Past, pc \notin Past, UNCHANGED <<sections, records, done>>
  PROVE  RowsInv'
<1>1. sections' = {} /\ records' = {} /\ done' = <<>>
  BY DEF RowsInv
<1>2. done' \in Seq({done'[i] : i \in DOMAIN done'}) /\ DOMAIN done' = {}
  BY <1>1, NothingYet
<1>3. AreRecordsOf(records', doc')
  BY <1>1, NothingYet
<1>4. pc' # "done"
  BY DEF Past
<1> QED
  BY <1>1, <1>2, <1>3, <1>4 DEF RowsInv

\* Every step keeps it.
LEMMA StepInv == StagesInv /\ [Next]_vars => StagesInv'
<1> SUFFICES ASSUME StagesInv, [Next]_vars PROVE StagesInv'
  OBVIOUS
<1> USE DEF StagesInv
<1>1. CASE LoadSnapshot
  <2>1. DocumentInv'
    BY <1>1 DEF LoadSnapshot, Goto, DocumentInv, Past
  <2>2. KnowledgeInv'
    <3>1. snapshot' = [items |-> EffectiveItems(today), asOf |-> today]
      BY <1>1 DEF LoadSnapshot
    <3>2. snapshot'.asOf = today /\ snapshot'.items = EffectiveItems(today) /\ today \in Nat
      BY <3>1 DEF KnowledgeInv
    <3>3. pc' = "rules" /\ today' = today
      BY <1>1 DEF LoadSnapshot, Goto
    <3> QED
      BY <3>2, <3>3 DEF KnowledgeInv
  <2>3. RowsInv'
    BY <1>1, EarlyRows DEF LoadSnapshot, Goto, Past
  <2> QED
    BY <2>1, <2>2, <2>3
<1>2. CASE LoadRules
  <2>1. DocumentInv'
    BY <1>2 DEF LoadRules, Goto, DocumentInv, Past
  <2>2. KnowledgeInv'
    <3>1. rules' = [rules |-> RulesOf(today), asOf |-> today]
      BY <1>2 DEF LoadRules
    <3>2. rules'.rules = RulesOf(rules'.asOf)
      BY <3>1
    <3>3. pc = "rules" /\ UNCHANGED <<today, snapshot>>
      BY <1>2 DEF LoadRules, Goto
    <3> QED
      BY <3>2, <3>3 DEF KnowledgeInv
  <2>3. RowsInv'
    BY <1>2, EarlyRows DEF LoadRules, Goto, Past
  <2> QED
    BY <2>1, <2>2, <2>3
<1>3. CASE Midnight
  <2>1. DocumentInv'
    BY <1>3 DEF Midnight, DocumentInv
  <2>2. KnowledgeInv'
    BY <1>3 DEF Midnight, KnowledgeInv
  <2>3. RowsInv'
    BY <1>3, EarlyRows DEF Midnight, Past
  <2> QED
    BY <2>1, <2>2, <2>3
<1>4. CASE Analyze
  <2>1. DocumentInv'
    BY <1>4 DEF Analyze, Goto, DocumentInv, Past
  <2>2. KnowledgeInv'
    BY <1>4 DEF Analyze, Goto, KnowledgeInv
  <2>3. RowsInv'
    BY <1>4, EarlyRows DEF Analyze, Goto, Past
  <2> QED
    BY <2>1, <2>2, <2>3
<1>5. CASE ReadDocument
  <2>0. /\ pc = "detect" /\ pc' = "sections" /\ doc.state = "open"
        /\ detection' = Detect(ReadPages(doc), doc.fonts)
        /\ sections' = SectionsOf(ReadPages(doc), detection'.layout)
        /\ UNCHANGED <<doc, today, snapshot, rules, analysis, records, done>>
    BY <1>5 DEF ReadDocument, Goto
  <2>1. DocumentInv'
    BY <2>0 DEF DocumentInv, Past
  <2>2. KnowledgeInv'
    BY <2>0 DEF KnowledgeInv
  <2>3. RowsInv'
    <3>1. records' = {} /\ done' = <<>> /\ doc \in Document
      BY <2>0 DEF RowsInv, Past, DocumentInv
    <3>2. done' \in Seq({done'[i] : i \in DOMAIN done'}) /\ DOMAIN done' = {}
      BY <3>1, NothingYet
    <3>3. AreRecordsOf(records', doc')
      BY <3>1, NothingYet
    <3>4. Accounted(Rows(doc', detection'.layout), sections', records', done')
      BY <2>0, <3>1, ReadingAccounts
    <3> QED
      BY <2>0, <3>1, <3>2, <3>3, <3>4 DEF RowsInv, Past
  <2> QED
    BY <2>1, <2>2, <2>3
<1>6. CASE DocumentStageFails
  <2>1. DocumentInv'
    BY <1>6 DEF DocumentStageFails, DocumentInv, Past
  <2>2. KnowledgeInv'
    BY <1>6 DEF DocumentStageFails, KnowledgeInv
  <2>3. RowsInv'
    BY <1>6, EarlyRows DEF DocumentStageFails, Past
  <2> QED
    BY <2>1, <2>2, <2>3
<1>7. ASSUME pc \in Past, pc' \in Past, UNCHANGED <<doc, today, snapshot, rules, analysis, detection>>
      PROVE  DocumentInv' /\ KnowledgeInv'
  BY <1>7 DEF DocumentInv, KnowledgeInv, Past
<1>8. CASE ExtractFields
  <2>0. /\ pc = "sections" /\ pc' = "records" /\ sections # {}
        /\ records' = RecordsOf(Foremost(sections))
        /\ sections' = sections \ {Foremost(sections)}
        /\ UNCHANGED <<doc, today, snapshot, rules, analysis, detection, done>>
    BY <1>8 DEF ExtractFields, Goto
  <2>1. doc \in Document
    BY DEF DocumentInv
  <2>2. /\ records = {} /\ sections \subseteq SectionsOf(ReadPages(doc), detection.layout)
        /\ Accounted(Rows(doc, detection.layout), sections, records, done)
    BY <2>0 DEF RowsInv, Past
  <2>3. /\ Accounted(Rows(doc, detection.layout), sections', records', done)
        /\ AreRecordsOf(records', doc)
    BY <2>0, <2>1, <2>2, ExtractionAccounts
  <2>4. RowsInv'
    <3>1. sections' \subseteq SectionsOf(ReadPages(doc), detection.layout)
      BY <2>0, <2>2
    <3>2. /\ done' \in Seq({done'[i] : i \in DOMAIN done'})
          /\ \A i \in DOMAIN done : IsResult(done[i])'
      BY <2>0 DEF RowsInv, IsResult
    <3> QED
      BY <2>0, <2>3, <3>1, <3>2 DEF RowsInv, Past
  <2> QED
    BY <1>7, <2>0, <2>4 DEF Past
<1>9. CASE ProcessRecord
  <2> DEFINE record == Foremost(records)
             fields == Normalize(detection.layout, record.raw, snapshot)
             result == [section |-> record.section, index |-> record.index, raw |-> record.raw,
                        fields  |-> fields,
                        verdict |-> IF IsConfident(fields)
                                    THEN Validate(detection.layout, fields, snapshot, rules.rules)
                                    ELSE "pending"]
  <2>0. /\ pc = "records" /\ pc' = "records" /\ records # {}
        /\ done' = Append(done, result) /\ records' = records \ {record}
        /\ UNCHANGED <<doc, today, snapshot, rules, analysis, detection, sections>>
    BY <1>9 DEF ProcessRecord
  <2>1. /\ AreRecordsOf(records, doc) /\ done \in Seq({done[i] : i \in DOMAIN done})
        /\ Accounted(Rows(doc, detection.layout), sections, records, done)
        /\ \A i \in DOMAIN done : IsResult(done[i])
        /\ sections \subseteq SectionsOf(ReadPages(doc), detection.layout)
    BY <2>0 DEF RowsInv, Past
  <2>2. result.section = record.section /\ result.index = record.index
    OBVIOUS
  <2> HIDE DEF result
  <2>3. /\ record \in records /\ Accounted(Rows(doc, detection.layout), sections, records', done')
        /\ AreRecordsOf(records', doc)
    <3> DEFINE rows == Rows(doc, detection.layout)
    <3>1. /\ records # {} /\ AreRecordsOf(records, doc)
          /\ done \in Seq({done[i] : i \in DOMAIN done})
          /\ Accounted(rows, sections, records, done)
          /\ result.section = Foremost(records).section
          /\ result.index = Foremost(records).index
      BY <2>0, <2>1, <2>2
    <3> HIDE DEF rows
    <3>2. /\ Foremost(records) \in records
          /\ Accounted(rows, sections, records \ {Foremost(records)}, Append(done, result))
          /\ AreRecordsOf(records \ {Foremost(records)}, doc)
      BY ONLY <3>1, ProcessingAccounts
    <3> QED
      BY <2>0, <3>2 DEF rows
  <2>4. IsResult(result)
    <3>1. record.raw = doc.pages[record.section][record.index]
      <4>1. record = [section |-> record.section, index |-> record.index,
                      raw |-> doc.pages[record.section][record.index]]
        BY <2>1, <2>3 DEF AreRecordsOf
      <4> HIDE DEF record
      <4> QED
        BY <4>1
    <3> HIDE DEF record, fields
    <3>2. /\ result.raw = record.raw /\ result.fields = fields
          /\ result.verdict = IF IsConfident(fields)
                              THEN Validate(detection.layout, fields, snapshot, rules.rules)
                              ELSE "pending"
      BY DEF result
    <3> QED
      BY <2>2, <3>1, <3>2 DEF IsResult, fields
  <2>5. /\ DOMAIN done' = DOMAIN done \union {Len(done) + 1}
        /\ done'[Len(done) + 1] = result /\ \A i \in DOMAIN done : done'[i] = done[i]
        /\ done' \in Seq({done'[i] : i \in DOMAIN done'})
    <3>1. /\ Len(done) \in Nat /\ DOMAIN done = 1..Len(done)
          /\ DOMAIN done' = 1..(Len(done) + 1)
          /\ done'[Len(done) + 1] = result /\ \A i \in DOMAIN done : done'[i] = done[i]
          /\ done' \in Seq({done'[i] : i \in DOMAIN done'})
      BY <2>0, <2>1, AppendFacts
    <3> QED
      BY <3>1
  <2>6. \A d \in {done'[i] : i \in DOMAIN done'} : IsResult(d)
    BY <2>1, <2>4, <2>5
  <2>7. (\A i \in DOMAIN done : IsResult(done[i]))'
    BY <2>0, <2>6 DEF IsResult
  <2>8. RowsInv'
    BY <2>0, <2>1, <2>3, <2>5, <2>7 DEF RowsInv, Past
  <2> QED
    BY <1>7, <2>0, <2>8 DEF Past
<1>10. ASSUME pc \in Past, pc' \in Past, records = {}, pc' = "done" => sections = {},
              UNCHANGED <<doc, today, snapshot, rules, analysis, detection, sections, records, done>>
       PROVE  RowsInv'
  BY <1>10 DEF RowsInv, IsResult
<1>11. CASE NextSection
  BY <1>7, <1>10, <1>11 DEF NextSection, Goto, Past
<1>12. CASE Finish
  <2>1. records = {}
    BY <1>12 DEF Finish, Goto, RowsInv
  <2> QED
    BY <1>7, <1>10, <1>12, <2>1 DEF Finish, Goto, Past
<1>13. CASE UNCHANGED vars
  BY <1>13 DEF vars, DocumentInv, KnowledgeInv, RowsInv, IsResult
<1> QED
  BY <1>1, <1>2, <1>3, <1>4, <1>5, <1>6, <1>8, <1>9, <1>11, <1>12, <1>13 DEF Next

\* The invariant, for all layouts, knowledge, documents and bounds: what is known
\* of a document is what the stages compute of it from the knowledge in force, and
\* every row of it is done, a record or in a section that waits.
THEOREM StagesInvariant == Spec => []StagesInv
BY InitInv, StepInv, PTL DEF Spec

-----------------------------------------------------------------------------
(* The properties.                                                         *)

\* No text is lost in silence (document/analyzer.py against layout/detector.py).
THEOREM SilenceWarned == Spec => []SilenceIsWarned
<1>1. StagesInv => SilenceIsWarned
  <2> SUFFICES ASSUME StagesInv PROVE SilenceIsWarned
    OBVIOUS
  <2>1. DocumentInv /\ RowsInv
    BY DEF StagesInv
  <2>2. ASSUME pc \in Past, ReadPages(doc) # doc.pages
        PROVE  "unknown_encoding" \in analysis.warnings /\ analysis.confidence < 100
    <3>1. doc.state = "open" /\ analysis = AnalysisOf(doc) /\ doc \in Document
      BY <2>1, <2>2 DEF DocumentInv
    <3>2. doc.pages = [i \in DOMAIN doc.pages |-> doc.pages[i]]
      <4>1. doc.pages \in Pages(Page) \/ doc.pages \in Pages(DamagedPages)
        BY <3>1 DEF Document, SoundDocument, DamagedDocument
      <4> QED
        BY <4>1 DEF Pages
    <3> QED
      BY <2>2, <3>1, <3>2, LostTextIsWarned
  <2>3. ASSUME "broken_pdf" \in analysis.warnings
        PROVE  pc \in {"detect", "failed"}
    BY <2>1, <2>3, BrokenIsNotOpen DEF DocumentInv
  <2>4. ASSUME "image_only" \in analysis.warnings, "unknown_encoding" \notin analysis.warnings
        PROVE  sections = {} /\ records = {} /\ done = <<>>
    <3>1. CASE pc \notin Past
      BY <2>1, <3>1 DEF RowsInv
    <3>2. CASE pc \in Past
      <4>1. doc \in Document /\ doc.state = "open" /\ analysis = AnalysisOf(doc)
        BY <2>1, <3>2 DEF DocumentInv
      <4>2. /\ SectionsOf(ReadPages(doc), detection.layout) = {}
            /\ Rows(doc, detection.layout) = {}
        BY <2>4, <4>1, ImagesHaveNoRows
      <4>3. DoneKeys(done) = {} /\ KeysOf(records) = {} /\ Cardinality(DoneKeys(done)) = Len(done)
        BY <2>1, <3>2, <4>2 DEF RowsInv, Accounted
      <4>4. records = {}
        BY <4>3 DEF KeysOf
      <4>5. DOMAIN done = {}
        BY <4>3 DEF DoneKeys
      <4>6. done = <<>>
        <5>1. done \in Seq({done[i] : i \in DOMAIN done}) /\ Len(done) = 0
          BY <2>1, <4>3, FS_EmptySet DEF RowsInv
        <5> QED
          BY <5>1
      <4> QED
        BY <2>1, <4>2, <4>4, <4>6 DEF RowsInv
    <3> QED
      BY <3>1, <3>2
  <2> QED
    BY <2>2, <2>3, <2>4 DEF SilenceIsWarned
<1> QED
  BY <1>1, StagesInvariant, PTL

\* The LayoutDetector takes a definition no other one beats and says how sure it
\* is, whatever the definitions (layout/detector.py).
THEOREM DetectionIsSound == Spec => []DetectionIsExplained
<1>1. StagesInv => DetectionIsExplained
  <2> SUFFICES ASSUME StagesInv, pc \in Past PROVE DetectionIsExplained
    BY DEF DetectionIsExplained
  <2>1. detection = Detect(ReadPages(doc), doc.fonts)
    BY DEF StagesInv, DocumentInv
  <2> QED
    BY <2>1, DetectionExplained DEF DetectionIsExplained
<1> QED
  BY <1>1, StagesInvariant, PTL

\* Section and record numbers name pages and lines of the PDF, whichever of them
\* count (sections/parser.py, extractors/extractor.py).
THEOREM IndexesNamePlaces == Spec => []IndexNamesPlace
<1>1. StagesInv => IndexNamesPlace
  <2> SUFFICES ASSUME StagesInv PROVE IndexNamesPlace
    OBVIOUS
  <2>1. ASSUME NEW s \in sections
        PROVE  s.lines = doc.pages[s.index]
    <3>1. doc \in Document /\ s \in SectionsOf(ReadPages(doc), detection.layout)
      BY DEF StagesInv, DocumentInv, RowsInv
    <3>2. s = [index |-> s.index, lines |-> doc.pages[s.index]]
      BY <3>1, SectionFacts
    <3> QED
      BY <3>2
  <2>2. \A i \in DOMAIN done : done[i].raw = doc.pages[done[i].section][done[i].index]
    BY DEF StagesInv, RowsInv, IsResult
  <2> QED
    BY <2>1, <2>2 DEF IndexNamesPlace
<1> QED
  BY <1>1, StagesInvariant, PTL

\* A finished document has one record per row, none lost and none twice
\* (pipeline/job_runner.py).
THEOREM RowsProcessedOnce == Spec => []EveryRowIsProcessedOnce
<1>1. StagesInv => EveryRowIsProcessedOnce
  <2> SUFFICES ASSUME StagesInv, pc = "done" PROVE EveryRowIsProcessedOnce
    BY DEF EveryRowIsProcessedOnce
  <2> DEFINE rows == Rows(doc, detection.layout)
  <2>1. sections = {} /\ records = {} /\ Accounted(rows, sections, records, done)
    BY DEF StagesInv, RowsInv, Past
  <2>2. KeysOf(records) = {} /\ LeftKeys(rows, sections) = {}
    BY <2>1 DEF KeysOf, LeftKeys
  <2> HIDE DEF rows
  <2>3. DoneKeys(done) = rows /\ Len(done) = Cardinality(rows)
    BY <2>1, <2>2 DEF Accounted
  <2> QED
    BY <2>3 DEF EveryRowIsProcessedOnce, DoneKeys, rows, Rows, IsRow
<1> QED
  BY <1>1, StagesInvariant, PTL

\* No value rests on knowledge that is out of force on the day of the snapshot
\* (knowledge/service.py, normalizers/normalizer.py).
THEOREM ValuesInForce == Spec => []ValuesAreInForce
<1>1. StagesInv => ValuesAreInForce
  <2> SUFFICES ASSUME StagesInv,
                      NEW i \in DOMAIN done, NEW c \in DOMAIN done[i].fields,
                      NEW item \in done[i].fields[c].used
               PROVE  IsEffective(item, snapshot.asOf)
    BY DEF ValuesAreInForce
  <2> DEFINE raw == done[i].raw
             era == detection.layout
  <2>1. snapshot.items = EffectiveItems(snapshot.asOf)
    <3>1. done # <<>>
      BY NothingYet
    <3>2. pc \in Past
      BY <3>1 DEF StagesInv, RowsInv
    <3> QED
      BY <3>2 DEF StagesInv, KnowledgeInv, Past
  <2>2. done[i].fields = Normalize(era, raw, snapshot)
    BY DEF StagesInv, RowsInv, IsResult
  <2>3. c \in DOMAIN raw
    BY <2>2 DEF Normalize
  <2> HIDE DEF raw, era
  <2>4. snapshot.items \subseteq DOMAIN Items
    BY <2>1 DEF EffectiveItems
  <2>5. item \in {Items[k] : k \in snapshot.items}
    BY <2>2, <2>3, <2>4, FieldUses
  <2> QED
    BY <2>1, <2>5 DEF EffectiveItems
<1> QED
  BY <1>1, StagesInvariant, PTL

\* A verdict is what the rules in force say of the fields by the meaning in force of
\* their columns (validators/).
THEOREM VerdictsFollowRules == Spec => []VerdictFollowsRules
<1>1. StagesInv => VerdictFollowsRules
  <2> SUFFICES ASSUME StagesInv PROVE VerdictFollowsRules
    OBVIOUS
  <2> DEFINE Ruled(c) == RuledValues(detection.layout, c, snapshot.asOf, rules.asOf)
             IsWrong(i) == \E c \in DOMAIN done[i].fields :
                              Ruled(c) # {} /\ done[i].fields[c].value \notin Ruled(c)
  <2>1. ASSUME NEW i \in DOMAIN done, done[i].verdict # "pending"
        PROVE  done[i].verdict = "failed" <=> IsWrong(i)
    <3>1. done # <<>>
      BY NothingYet
    <3>2. pc \in Past
      BY <3>1 DEF StagesInv, RowsInv
    <3>3. /\ snapshot.asOf \in Nat /\ snapshot.items = EffectiveItems(snapshot.asOf)
          /\ rules.rules = RulesOf(rules.asOf)
      BY <3>2 DEF StagesInv, KnowledgeInv, Past
    <3>4. done[i].verdict = IF IsConfident(done[i].fields)
                            THEN Validate(detection.layout, done[i].fields, snapshot, rules.rules)
                            ELSE "pending"
      BY DEF StagesInv, RowsInv, IsResult
    <3>5. Validate(detection.layout, done[i].fields, snapshot, RulesOf(rules.asOf)) = "failed"
             <=> IsWrong(i)
      BY <3>3, VerdictExplained
    <3> HIDE DEF IsWrong
    <3> QED
      BY <2>1, <3>3, <3>4, <3>5
  <2> QED
    BY <2>1 DEF VerdictFollowsRules, RuledValues, LayoutItems
<1> QED
  BY <1>1, StagesInvariant, PTL
=============================================================================
