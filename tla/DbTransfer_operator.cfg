\* An operator has the database and downloads it once more: the download breaks off
\* when the local file is truncated, and the operator uploads that file.
SPECIFICATION Spec
CONSTANTS
    Workflows = {}
    Operators = {op}
    Holders = {op}
    MaxRuns = 0
    MaxFaults = 1
INVARIANTS
    PublishedIsDatabase
