\* Documents of up to two pages of up to three lines, damaged files, and a midnight.
SPECIFICATION Spec
CONSTANTS
    eraA = eraA
    eraB = eraB
    header = header
    footer = footer
    gothic = gothic
    century = century
    a = a
    w = w
    m = m
    n = n
    x = x
    oldRank = oldRank
    newRank = newRank
    fullName = fullName
    NoLayout = NoLayout
    Always = Always
    Definitions <- TwoLayouts
    Items <- TwoDaysOfKnowledge
    Nfkc <- Folding
    Lines <- FourLines
    FontSets <- FontChoices
    DamagedPages <- ThreePages
    MaxLines = 3
    MaxPages = 2
    LastDay = 2
CHECK_DEADLOCK FALSE
INVARIANTS
    SilenceIsWarned
    DetectionIsExplained
    IndexNamesPlace
    EveryRowIsProcessedOnce
    ValuesAreInForce
    VerdictFollowsRules
