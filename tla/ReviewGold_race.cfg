\* Two reviewers race over an entry and a key, one of them may be killed, and the
\* gold records are exported meanwhile.
SPECIFICATION ExportSpec
SYMMETRY Symmetry
CONSTANTS
    Reviewers = {w1, w2}
    Entries = {e1}
    Keys = {k1}
    NoKey = NoKey
    People = {{k1}}
    MaxVersions = 2
    MaxKills = 1
    MaxClock = 2
    MaxExports = 1
INVARIANTS
    ExportTypeOK
    VersionsAreContiguous
    NoStageIsSkipped
    ExportsAreStable
