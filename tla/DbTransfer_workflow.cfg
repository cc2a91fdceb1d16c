\* The scheduled workflow alone, with faults.
SPECIFICATION Spec
CONSTANTS
    Workflows = {ci}
    Operators = {}
    Holders = {}
    MaxRuns = 3
    MaxFaults = 4
INVARIANTS
    TypeOK
    PublishedIsDatabase
    BackupStandsIn
PROPERTIES
    PublishedRunsStay
