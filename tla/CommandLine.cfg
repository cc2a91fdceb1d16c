\* Two processes give two commands, with a fault, a change of the files and a midnight.
SPECIFICATION Spec
CONSTANTS
    p1 = p1
    p2 = p2
    order = order
    reform = reform
    orderFile = orderFile
    reformFile = reformFile
    oldLayout = oldLayout
    newLayout = newLayout
    Processes = {p1, p2}
    Commands = {"init-db", "version", "fetch-stage", "run-workflow", "schedule-now", "run-job", "review"}
    Codes = {"v1"}
    Eras <- TwoLayouts
    NoJob <- Idle
    Documents = {order}
    Paths = {orderFile}
    Place <- OneFileEach
    WorkflowItems <- SomeItems
    Digest <- ExpiringItem
    MaxEdits = 1
    LastDay = 2
    MaxStarts = 2
    MaxFaults = 1
CHECK_DEADLOCK FALSE
INVARIANTS
    TypeOK
    RegistrationIsWhole
    StartsRegistered
    RecordedIsUsed
    RowsHaveTheirFile
PROPERTY
    EveryCommandEnds
