------------------------------ MODULE MCStages ------------------------------
(* An instance of Stages for TLC: the two layouts and the kinds of          *)
(* knowledge items of the repository, with periods of validity.             *)
EXTENDS Stages

CONSTANTS
    eraA, eraB,        \* layouts
    header, footer,    \* the texts the patterns look for
    gothic, century,   \* fonts
    a, w, m, n, x,     \* column values: a rank, its variant, a name in two widths, a name
    oldRank, newRank, fullName

Rule(kind, value, weight) == [kind |-> kind, value |-> value, weight |-> weight]

TwoLayouts ==
    << [era |-> eraA, rules |-> << Rule("header_pattern", header, 40),
                                   Rule("footer_pattern", footer, 20),
                                   Rule("min_page_count", 1, 20),
                                   Rule("font_name_contains", gothic, 20) >>],
       [era |-> eraB, rules |-> << Rule("header_pattern", header, 36),
                                   Rule("footer_pattern", footer, 36),
                                   Rule("min_page_count", 1, 14),
                                   Rule("font_name_contains", century, 14) >>] >>

Item(category, key, value, from, to) ==
    [category |-> category, key |-> key, value |-> value, from |-> from, to |-> to]

\* On day 2 the rank a has a new name and the spelling w is no longer known.
TwoDaysOfKnowledge ==
    << Item("rank", a, oldRank, Always, 2),
       Item("rank", a, newRank, 2, Always),
       Item("alias", n, fullName, Always, Always),
       Item("typography", w, a, Always, 2),
       Item("layout", <<eraA, 2>>, "name", Always, Always),
       Item("layout", <<eraA, 1>>, "rank", Always, 2),
       Item("layout", <<eraA, 1>>, "rank", 2, Always),
       Item("layout", <<eraB, 2>>, "name", Always, Always),
       Item("validation", "rank", oldRank, Always, 2),
       Item("validation", "rank", newRank, 2, Always),
       Item("validation", "name", fullName, Always, Always) >>

\* m is the full-width form of n.
Folding == [v \in {header, footer, a, w, m, n, x} |-> IF v = m THEN n ELSE v]

FourLines == {<<header>>, <<footer>>, <<a, m>>, <<w, x>>}

ThreePages == {<<>>, <<<<a, m>>>>, <<<<header>>, <<a, m>>, <<footer>>>>}

FontChoices == {{}, {gothic, century}}
=============================================================================
