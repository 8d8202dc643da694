SPECIFICATION FairSpec
CONSTANTS
    MaxEvents = 3
    MaxFaults = 2
    MaxOpens = 2
INVARIANTS
    ExactlyOnce
    TokenNotAhead
    SessionHeld
PROPERTY CallReturns
CHECK_DEADLOCK FALSE
