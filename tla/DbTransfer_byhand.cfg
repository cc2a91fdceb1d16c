\* An operator calls the commands one by one, in any order, with faults.
SPECIFICATION Spec
CONSTANTS
    Workflows = {}
    Operators = {op}
    Holders = {}
    MaxRuns = 2
    MaxFaults = 3
INVARIANTS
    NeverTorn
PROPERTIES
    RemovedIntoBackup
