\* Two reviewers decide the same entry.
SPECIFICATION Spec
CONSTANTS
    Reviewers = {w1, w2}
    Entries = {e1}
    Keys = {k1}
    NoKey = NoKey
    MaxVersions = 1
    MaxKills = 0
PROPERTIES
    OnlyLegalTransitions
