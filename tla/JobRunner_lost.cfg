\* A runner is killed between two add_raw() and its work resumed.
SPECIFICATION Spec
CONSTANTS
    r1 = r1
    r2 = r2
    v1 = v1
    v2 = v2
    Runners = {r1}
    Versions = {v1}
    VersionOf <- OneRunner
    NoVersion = NoVersion
    Released <- OneRelease
    Layout <- OneSection
    Verdicts = {"passed", "failed"}
    MaxCrashes = 1
    MaxFailures = 9
    MaxEscapes = 0
    MaxManual = 0
INVARIANTS
    SucceededIsComplete
