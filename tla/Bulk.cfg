SPECIFICATION Spec
CONSTANTS
    MaxOps = 3
    BatchSizes = {2, 3}
    MaxFaults = 3
INVARIANTS
    AtMostOnce
    SuccessIsComplete
    ReportIsTrue
    OrderedCommands
    IDsAreInserted
CHECK_DEADLOCK FALSE
