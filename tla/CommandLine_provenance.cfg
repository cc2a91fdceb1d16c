\* Two documents are staged to the path the README uses.
SPECIFICATION Spec
CONSTANTS
    p1 = p1
    p2 = p2
    order = order
    reform = reform
    orderFile = orderFile
    reformFile = reformFile
    oldLayout = oldLayout
    newLayout = newLayout
    Processes = {p1}
    Commands = {"fetch-stage", "run-pending"}
    Codes = {"v1"}
    Eras <- TwoLayouts
    NoJob <- Idle
    Documents = {order, reform}
    Paths = {orderFile}
    Place <- OneFileForAll
    WorkflowItems <- NoItems
    Digest <- ExpiringItem
    MaxEdits = 0
    LastDay = 1
    MaxStarts = 3
    MaxFaults = 0
CHECK_DEADLOCK FALSE
INVARIANT
    ResultsNameTheirSource
