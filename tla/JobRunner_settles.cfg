\* One runner, two documents, a kill and an exception.
SPECIFICATION FairSpec
CONSTANTS
    r1 = r1
    r2 = r2
    v1 = v1
    v2 = v2
    Runners = {r1}
    Versions = {v1}
    VersionOf <- OneRunner
    NoVersion = NoVersion
    Released <- OneRelease
    Layout <- TwoDocuments
    Verdicts = {"passed", "failed"}
    MaxCrashes = 1
    MaxFailures = 9
    MaxEscapes = 1
    MaxManual = 1
INVARIANTS
    SucceededIsComplete
PROPERTIES
    EveryPdfSettles

