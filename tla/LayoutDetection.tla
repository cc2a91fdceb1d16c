-------------------------- MODULE LayoutDetection --------------------------
(***************************************************************************)
(* Which layout a PDF has: the scores of the layout definitions, the       *)
(* winner and the warnings (layout/detector.py).                           *)
(*                                                                         *)
(* A page is the sequence of its lines that are not blank, a line the      *)
(* sequence of its columns, and a pattern is contained in a line when it   *)
(* is one of them.  Weights and thresholds are in per cent, and a score is *)
(* cut off to a whole per cent; the code computes floats.  Two scores that *)
(* are less than one per cent apart may be equal here, and equal ones may  *)
(* differ there by a rounding error.                                       *)
(***************************************************************************)
EXTENDS Integers, Sequences, SequencesExt

CONSTANTS
    Definitions,  \* the LayoutDefinitions: [era, rules], rules: [kind, value, weight]
    NoLayout      \* layout_id is None

ASSUME DefinitionsType == Definitions \in Seq({Definitions[i] : i \in DOMAIN Definitions})

\* The models refuse a definition without rules and a weight that is not positive.
ASSUME RulesHaveWeight ==
    \A i \in DOMAIN Definitions :
        LET rules == Definitions[i].rules IN
        /\ rules # <<>> /\ rules \in Seq({rules[k] : k \in DOMAIN rules})
        /\ \A k \in DOMAIN rules : rules[k].weight \in Nat \ {0}

ASSUME NoLayoutNotEra == \A i \in DOMAIN Definitions : Definitions[i].era # NoLayout

\* DEFAULT_CONFIDENCE_THRESHOLD, DEFAULT_LOW_CONFIDENCE_THRESHOLD and
\* _AMBIGUITY_MARGIN.
ConfidenceThreshold    == 60
LowConfidenceThreshold == 30
AmbiguityMargin        == 5

RuleKind == {"header_pattern", "footer_pattern", "min_page_count", "font_name_contains"}

Warning == {"no_match", "low_confidence", "ambiguous_candidates"}

Eras == {Definitions[i].era : i \in DOMAIN Definitions}

\* The first line of the first page and the last line of the last page, an
\* empty sequence when there is none.
HeaderSignature(pages) ==
    IF pages = <<>> \/ Head(pages) = <<>> THEN <<>> ELSE Head(Head(pages))

FooterSignature(pages) ==
    IF pages = <<>> \/ Last(pages) = <<>> THEN <<>> ELSE Last(Last(pages))

RuleHolds(rule, pages, fonts) ==
    \/ rule.kind = "header_pattern"     /\ rule.value \in ToSet(HeaderSignature(pages))
    \/ rule.kind = "footer_pattern"     /\ rule.value \in ToSet(FooterSignature(pages))
    \/ rule.kind = "min_page_count"     /\ Len(pages) >= rule.value
    \/ rule.kind = "font_name_contains" /\ rule.value \in fonts

\* The weight of the rules at the places in S.
Weight(rules, S) ==
    LET sum[k \in 0..Len(rules)] ==
            IF k = 0 THEN 0 ELSE sum[k - 1] + (IF k \in S THEN rules[k].weight ELSE 0)
    IN  sum[Len(rules)]

Score(rules, pages, fonts) ==
    LET matched == {k \in DOMAIN rules : RuleHolds(rules[k], pages, fonts)}
    IN  (100 * Weight(rules, matched)) \div Weight(rules, DOMAIN rules)

ScoreOfDefinition(i, pages, fonts) == Score(Definitions[i].rules, pages, fonts)

\* Faulty: the candidates are left in the order of loading.
CandidatesUnsorted(pages, fonts) ==
    [i \in DOMAIN Definitions |->
        [era |-> Definitions[i].era, score |-> ScoreOfDefinition(i, pages, fonts)]]

\* The definition in S with the highest score.  sorted() is stable: of several it
\* is the one that was loaded first.
Best(S, pages, fonts) ==
    Min({i \in S : \A j \in S :
            ScoreOfDefinition(j, pages, fonts) <= ScoreOfDefinition(i, pages, fonts)})

\* The first two candidates by descending score; no other one is looked at.
Candidates(pages, fonts) ==
    LET Candidate(i) == [era   |-> Definitions[i].era,
                         score |-> ScoreOfDefinition(i, pages, fonts)]
        first  == Best(DOMAIN Definitions, pages, fonts)
        others == DOMAIN Definitions \ {first}
    IN  IF Definitions = <<>> THEN <<>>
        ELSE IF others = {} THEN <<Candidate(first)>>
        ELSE <<Candidate(first), Candidate(Best(others, pages, fonts))>>

Warnings(candidates) ==
    LET best == candidates[1].score
    IN  {w \in Warning :
            \/ w = "no_match" /\ best < LowConfidenceThreshold
            \/ /\ w = "low_confidence"
               /\ best >= LowConfidenceThreshold
               /\ best < ConfidenceThreshold
            \/ /\ w = "ambiguous_candidates"
               /\ Len(candidates) >= 2
               /\ best >= ConfidenceThreshold
               /\ best - candidates[2].score < AmbiguityMargin}

Result(candidates) ==
    IF candidates = <<>>
    THEN [layout |-> NoLayout, warnings |-> {"no_match"}]
    ELSE [layout   |-> IF candidates[1].score < ConfidenceThreshold
                       THEN NoLayout ELSE candidates[1].era,
          warnings |-> Warnings(candidates)]

Detect(pages, fonts) == Result(Candidates(pages, fonts))
=============================================================================
