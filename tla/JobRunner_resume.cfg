\* Two releases; a runner is killed and its work resumed.
SPECIFICATION Spec
CONSTANTS
    r1 = r1
    r2 = r2
    v1 = v1
    v2 = v2
    Runners = {r1, r2}
    Versions = {v1, v2}
    VersionOf <- TwoReleases
    NoVersion = NoVersion
    Released <- NewerSecond
    Layout <- OneSection
    Verdicts = {"passed"}
    MaxCrashes = 1
    MaxFailures = 1
    MaxEscapes = 0
    MaxManual = 0
INVARIANTS
    TypeOK
    EveryFailureLearned
    VerdictMatchesNormalized
    SucceededCoversSections
    CountsOwnWork
    AuditFindsNoError
    WarningsAreExplained
PROPERTIES
    VerdictIsFinal
