\* Three processes, two of the same release, two slots.
SPECIFICATION FairSpec
CONSTANTS
    r1 = r1
    r2 = r2
    r3 = r3
    v1 = v1
    v2 = v2
    Runners = {r1, r2, r3}
    Slots = {s1, s2}
    Versions = {v1, v2}
    VersionOf <- ThreeRunners
    NoRunner = NoRunner
    NoVersion = NoVersion
INVARIANTS
    TypeOK
    AtMostOneParsed
    SupersededHasSuccessor
    ExtractsIntoCommittedSection
    LineageInv
PROPERTIES
    HandoverIsAtomic
    ImplementsLedger
    LockIsReleased
