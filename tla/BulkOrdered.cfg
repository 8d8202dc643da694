SPECIFICATION Spec
CONSTANTS
    MaxOps = 3
    BatchSizes = {2, 3}
    MaxFaults = 2
INVARIANT OrderedStops
CHECK_DEADLOCK FALSE
